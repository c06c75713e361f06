----------------------------- MODULE SyncRequest -----------------------------
(***************************************************************************)
(* One iteration of zmq_server::sync_work on a received message: the      *)
(* NUL-terminator check, the middleware request envelope (ParseInsitu,     *)
(* "action" through str_map), the switch on the action, module_manager's   *)
(* forwarding to the loaded processing unit's proc_act_request or          *)
(* proc_act_push, and the response the worker sends.                      *)
(*                                                                         *)
(* A message is abstracted to the facts the code branches on: how its     *)
(* buffer ends, whether it parses to a JSON object, its "action" and       *)
(* "method" members, and whether its "parameters" hold values of the      *)
(* kinds the handler reads.  The result of one iteration is a set of      *)
(* outcomes, because a unit's call on the simulator may fail:              *)
(*   "reply"        a response with error = false is sent;                 *)
(*   "error_reply"  a std::exception was caught per request and            *)
(*                  response(e.what(), true) is sent;                      *)
(*   "terminate"    an exception left the thread (sync_work catches only   *)
(*                  zmq::error_t): std::terminate;                         *)
(*   "assert"       a rapidjson accessor's RAPIDJSON_ASSERT fails: abort   *)
(*                  in the default build, undefined behaviour with NDEBUG; *)
(*   "undefined"    undefined behaviour in the code itself;                *)
(*   "peer_reset"   transmit's read failed on a reset connection and       *)
(*                  ~_tcp_client_base's throwing shutdown() escaped a      *)
(*                  noexcept destructor: std::terminate (TrxLink);         *)
(*   "hang"         transmit's read of the peer's answer never returns,   *)
(*                  because the peer waits for a measurement forever.     *)
(***************************************************************************)
EXTENDS Actions

\* The processing units the modules register (brazil.cpp, trabea.cpp), and
\* no unit loaded.
Units == {"trx_circuit", "bobwire_circuit", "lcc_and_fpga", "circulator_switch"}
NoUnit == "none"

\* imodule::procUnits of each module: which module a unit is loaded in.
ModuleOf(u) == IF u = "circulator_switch" THEN "trabea" ELSE "brazil"

\* brazil.cpp: pack<PUSH, WAIT>(); trabea.cpp: pack<REQUEST, PUSH>().
ModuleMask(mod) ==
    IF mod = "brazil" THEN pack(<<"PUSH", "WAIT">>) ELSE pack(<<"REQUEST", "PUSH">>)

Msgs ==
    [tail   : {"nul", "other", "empty"},     \* last byte of the zmq message
     json   : {"object", "other"},           \* ParseInsitu gives an object
     action : {"request", "push", "wait", "reply", "bogus", "none", "nonstring"},
     method : {"tx", "get_state", "configure", "configure_detector", "other", "none"},
     params : {"ok", "bad"}]                 \* kinds the handler reads, or not

\* request::method(): _dom["method"].GetString() asserts on a missing
\* member; otherwise strcmp chooses the branch.
MethodIs(msg, name) == msg.method = name
MethodMissing(msg) == msg.method = "none"

\* A call on the simulation dispatcher (client::call) returns a reply or
\* throws zmq::error_t, a std::exception.
DispatcherCall == {"value", "throws"}

\* iswitch_proc_unit::proc_act_request: "get_state" reads two size_t
\* parameters (GetUint64) and answers response(bool); any other method
\* throws runtime_error.
iswitch_request(msg) ==
    IF MethodMissing(msg) THEN {"assert"}
    ELSE IF MethodIs(msg, "get_state")
         THEN IF msg.params = "ok" THEN {"value"} ELSE {"assert"}
    ELSE {"throws"}

\* iswitch_proc_unit::proc_act_push: "configure" runs set_switch_state,
\* whose configure_qswitch call may throw; any other method throws.
iswitch_push(msg) ==
    IF MethodMissing(msg) THEN {"assert"}
    ELSE IF MethodIs(msg, "configure")
         THEN IF msg.params = "ok" THEN DispatcherCall ELSE {"assert"}
    ELSE {"throws"}

\* The ways transmit() ends (trx_circuit::transmit, the TCP exchange with
\* the peer that TrxLink models): a bool, a std::exception (connect, read
\* or dispatcher failure), std::terminate from the connection's destructor
\* after a reset, or a read that blocks forever.
Transmit == {"value", "throws", "peer_reset", "hang"}

\* itrx_proc_unit::proc_act_push: "tx" reads ip (GetUint), port (GetUint
\* cast to unsigned short) and the data string, then calls transmit().
itrx_push(msg) ==
    IF MethodMissing(msg) THEN {"assert"}
    ELSE IF MethodIs(msg, "tx")
         THEN IF msg.params = "ok" THEN Transmit ELSE {"assert"}
    ELSE {"throws"}

\* trx_circuit::proc_act_request: "configure_detector" calls the
\* dispatcher and then reaches the end of the function without a return
\* statement; any other method throws logic_error.
trx_request(msg) ==
    IF MethodMissing(msg) THEN {"assert"}
    ELSE IF MethodIs(msg, "configure_detector") THEN {"throws", "undefined"}
    ELSE {"throws"}

\* bobwire_circuit::proc_act_request throws logic_error on every method.
bobwire_request(msg) ==
    IF MethodMissing(msg) THEN {"assert"} ELSE {"throws"}

\* lcc_and_fpga ignores the request: proc_act_request returns NULL and
\* proc_act_push returns false.
lcc_request(msg) == {"null"}
lcc_push(msg) == {"value"}

\* module_manager::proc_act_request/push: with no unit loaded,
\* runtime_error; otherwise the module forwards to loaded_proc_unit().
Handled(u, act, msg) ==
    IF u = NoUnit THEN {"throws"}
    ELSE IF act = "REQUEST"
         THEN CASE u = "circulator_switch" -> iswitch_request(msg)
                [] u = "trx_circuit"       -> trx_request(msg)
                [] u = "bobwire_circuit"   -> bobwire_request(msg)
                [] u = "lcc_and_fpga"      -> lcc_request(msg)
    ELSE CASE u = "circulator_switch" -> iswitch_push(msg)
           [] u \in {"trx_circuit", "bobwire_circuit"} -> itrx_push(msg)
           [] u = "lcc_and_fpga" -> lcc_push(msg)

\* Mutant: the PUSH case has no per-request try block.
Respond_push_uncaught(act, r) ==
    CASE r = "value"     -> "reply"
      [] r = "throws"    -> IF act = "PUSH" THEN "terminate" ELSE "error_reply"
      [] r = "null"      -> "terminate"
      [] r \in {"assert", "undefined", "peer_reset", "hang"} -> r

\* The REQUEST and PUSH cases: a result is sent as a response; a
\* std::exception is caught and answered with response(e.what(), true); a
\* NULL response throws runtime_error outside the try block.
Respond(act, r) ==
    CASE r = "value"     -> "reply"
      [] r = "throws"    -> "error_reply"
      [] r = "null"      -> "terminate"
      [] r \in {"assert", "undefined", "peer_reset", "hang"} -> r

\* The request constructor: HasMember("action") on a document that is not
\* an object asserts; a missing action throws runtime_error, a non-string
\* one asserts in GetString, and str_map throws on an unknown name.
Envelope(msg) ==
    CASE msg.json # "object"          -> "assert"
      [] msg.action = "none"          -> "throws"
      [] msg.action = "nonstring"     -> "assert"
      [] OTHER                        -> str_map(msg.action)

\* One iteration of sync_work's loop for a received message.  An empty
\* message reads the byte before its buffer (size() - 1 wraps).
Outcomes(u, msg) ==
    LET env == Envelope(msg) IN
    CASE msg.tail = "empty"           -> {"undefined"}
      [] msg.tail = "other"           -> {"terminate"}
      [] env = "assert"               -> {"assert"}
      [] env \in {"throws", "WAIT", "REPLY"} -> {"terminate"}
      [] OTHER -> {Respond(env, r) : r \in Handled(u, env, msg)}

\* The methods each unit implements for an action, read off its
\* proc_act_request and proc_act_push.
Implemented(u, act) ==
    CASE u = "circulator_switch" ->
            IF act = "REQUEST" THEN {"get_state"} ELSE {"configure"}
      [] u = "trx_circuit" ->
            IF act = "REQUEST" THEN {"configure_detector"} ELSE {"tx"}
      [] u = "bobwire_circuit" -> IF act = "REQUEST" THEN {} ELSE {"tx"}
      [] u = "lcc_and_fpga" -> {}

\* A message a client of the loaded module may legitimately send: a
\* NUL-terminated JSON object whose action the module declares and whose
\* method the unit implements for it, with parameters of the right kinds.
Legitimate(u, msg) ==
    /\ msg.tail = "nul" /\ msg.json = "object"
    /\ msg.action \in {"request", "push"}
    /\ check(str_map(msg.action), ModuleMask(ModuleOf(u)))
    /\ msg.method \in Implemented(u, str_map(msg.action))
    /\ msg.params = "ok"

-----------------------------------------------------------------------------
(* The sync worker's loop on the loaded unit: message after message until *)
(* an outcome ends the process.                                           *)

VARIABLES
    loaded,   \* the unit loaded when the messages arrive, or NoUnit
    handled   \* the last message's legitimacy and the outcome of handling it

srVars == <<loaded, handled>>

\* Outcomes after which sync_work goes on receiving.
Answered == {"reply", "error_reply"}

SRInit ==
    /\ loaded \in Units \cup {NoUnit}
    /\ handled = [legit |-> FALSE, outcome |-> "none"]

\* socket.recv returned a message; the iteration ends in one of its outcomes.
sync_iteration(msg) ==
    /\ handled.outcome \in Answered \cup {"none"}
    /\ \E o \in Outcomes(loaded, msg) :
          handled' = [legit |-> loaded # NoUnit /\ Legitimate(loaded, msg),
                      outcome |-> o]
    /\ UNCHANGED loaded

\* The process has ended; nothing more is received.
ProcessEnded ==
    /\ handled.outcome \notin Answered \cup {"none"}
    /\ UNCHANGED srVars

SRNext == (\E msg \in Msgs : sync_iteration(msg)) \/ ProcessEnded

SRSpec == SRInit /\ [][SRNext]_srVars

-----------------------------------------------------------------------------
\* The failures a legitimate "tx" meets inside its TCP exchange with the
\* peer, which no code of the sync path can catch.
PeerFailures == {"peer_reset", "hang"}

\* Every legitimate message to a loaded unit is answered: the sync worker
\* sends a reply, or an error reply when the unit threw, unless transmit's
\* exchange with its peer ended the process or never returned.  No
\* exception a unit throws for a legitimate message escapes sync_work's
\* per-request catch, no such message reaches the NULL check, a rapidjson
\* assertion or undefined behaviour.  This joins the module's capability
\* mask (actions.hpp), the units' method dispatch and sync_work's catch.
LegitimateRequestsAnswered ==
    handled.legit => handled.outcome \in Answered \cup PeerFailures
=============================================================================
