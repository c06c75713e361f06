------------------------------ MODULE TrxLink ------------------------------
(***************************************************************************)
(* The link between armish-fireplace processes that run a brazil          *)
(* transceiver unit (proc_unit::trx_circuit or proc_unit::bobwire_circuit, *)
(* both built on itrx_proc_unit).  Each node has four threads that matter: *)
(*   sender    the sync worker inside proc_act_push("tx") -> transmit():   *)
(*             per symbol open_connection (tcp_client, request "open"),    *)
(*             dispatcher->call(tx) on the simulator's REQ socket,         *)
(*             close_connection (request "close"), check the reply;        *)
(*   io        itrx_proc_unit::work: net::server runs ONE session at a     *)
(*             time inside the accept handler; every request is handed to  *)
(*             process(), which toggles isReceiving and, when it was set,  *)
(*             waits on hasReceivedCV for the measurement;                 *)
(*   producer  imodule's async thread calling async_work(): recv a        *)
(*             measurement from the SUB socket, push it, set hasReceived;  *)
(*   caller    imodule::unload_proc_unit: doExit, join the producer, then  *)
(*             delete the unit (~trx_circuit deletes the dispatcher, then  *)
(*             ~itrx_proc_unit stops the io_service and joins io).         *)
(* The simulator is the environment: a tx call publishes one measurement  *)
(* to the SUB socket of the node the sender is connected to.  Payloads,   *)
(* circuits and bases are abstracted away; a measurement is its sender.   *)
(***************************************************************************)
EXTENDS Naturals, Sequences, FiniteSets

CONSTANTS
    Nodes,        \* the armish-fireplace processes running a transceiver unit
    None,         \* no session / no peer
    Flavor,       \* "trx_circuit" or "bobwire_circuit": which process() runs
    Faults,       \* subset of {"lose", "error", "abort"} the environment may cause
    Unloadable,   \* nodes whose caller unloads the unit
    MaxSymbols,   \* bound on the symbols any node transmits
    Budget        \* [Nodes -> 1..MaxSymbols]: symbols each node transmits in a behaviour

VARIABLES
    spc, peer, left, budget, txErr,  \* sender: pc, ip of transmit, symbols left
    cgen,                            \* sender's connection number (tcp_client instance)
    reqCh, respCh,                   \* requests / responses on that connection
    zreq,                            \* dispatcher REQ socket: "ready" or "awaiting"
    dispatch,                        \* threads inside dispatcher->call
    dispLive,                        \* dispatcher not yet deleted
    rpc, session, backlog,           \* io thread: pc, served connection, pending connects
    isReceiving, hasReceived,        \* itrx_proc_unit flags under requestMutex
    subq, pushed, prodPc,            \* SUB socket, items pushed, producer thread
    upc,                             \* caller's unload_proc_unit progress
    exitState                        \* "running" or how the process died

vars == <<spc, peer, left, budget, txErr, cgen, reqCh, respCh, zreq, dispatch,
          dispLive, rpc, session, backlog, isReceiving, hasReceived, subq,
          pushed, prodPc, upc, exitState>>
senderVars == <<spc, peer, left, budget, txErr, cgen, reqCh, respCh, zreq>>
ioVars == <<rpc, session, backlog, isReceiving, hasReceived>>
prodVars == <<subq, pushed, prodPc>>

\* A sender holds an open tcp_client in these states.
Connected == {"open_read", "tx_send", "tx_recv", "close_write", "close_read"}

Up(n) == exitState[n] = "running"

\* The node's acceptor exists: its io thread has not returned from run().
Listening(n) == Up(n) /\ rpc[n] # "stopped"

\* The connection the io thread serves is still open at the sender's end.
SessionLive(r) ==
    LET s == session[r][1] IN
    /\ session[r][2] = cgen[s]
    /\ spc[s] \in Connected
    /\ Up(s)

Init ==
    /\ spc = [n \in Nodes |-> "idle"]
    /\ peer = [n \in Nodes |-> None]
    /\ left = [n \in Nodes |-> 0]
    /\ budget = Budget
    /\ txErr = [n \in Nodes |-> FALSE]
    /\ cgen = [n \in Nodes |-> 0]
    /\ reqCh = [n \in Nodes |-> <<>>]
    /\ respCh = [n \in Nodes |-> <<>>]
    /\ zreq = [n \in Nodes |-> "ready"]
    /\ dispatch = [n \in Nodes |-> {}]
    /\ dispLive = [n \in Nodes |-> TRUE]
    /\ rpc = [n \in Nodes |-> "accept"]
    /\ session = [n \in Nodes |-> None]
    /\ backlog = [n \in Nodes |-> <<>>]
    /\ isReceiving = [n \in Nodes |-> FALSE]
    /\ hasReceived = [n \in Nodes |-> FALSE]
    /\ subq = [n \in Nodes |-> <<>>]
    /\ pushed = [n \in Nodes |-> 0]
    /\ prodPc = [n \in Nodes |-> "run"]
    /\ upc = [n \in Nodes |-> "loaded"]
    /\ exitState = [n \in Nodes |-> "running"]

-----------------------------------------------------------------------------
(* Sender: the sync worker running proc_act_push("tx") -> transmit().      *)

\* module_manager holds stateMutex around proc_act_push, so no unload runs
\* beside it; transmit(ip, port, buf, len) loops over the len symbols.
proc_act_push(s, r, n) ==
    /\ Up(s) /\ upc[s] = "loaded" /\ spc[s] = "idle"
    /\ r # s /\ n \in 1..budget[s]
    /\ spc' = [spc EXCEPT ![s] = "open"]
    /\ peer' = [peer EXCEPT ![s] = r]
    /\ left' = [left EXCEPT ![s] = n]
    /\ budget' = [budget EXCEPT ![s] = @ - n]
    /\ txErr' = [txErr EXCEPT ![s] = FALSE]
    /\ UNCHANGED <<cgen, reqCh, respCh, zreq, dispatch, dispLive>>
    /\ UNCHANGED <<ioVars, prodVars, upc, exitState>>

\* transmit returns, or an exception leaves it: the tcp_client is destroyed
\* (its socket is shut down); sync_work's catch turns an exception into an
\* error response.
LeaveTransmit(s) ==
    /\ spc' = [spc EXCEPT ![s] = "idle"]
    /\ left' = [left EXCEPT ![s] = 0]

\* net::request(0, 1, 0) and net::request(0, 2, 0): four bytes whose
\* action byte is 1 or 2; process() never reads them.
OpenRequest == "open"
CloseRequest == "close"

\* The net::response the io thread writes back: default-constructed, four
\* zero bytes (process() never sets a status).
EmptyResponse == "empty"

\* _tcp_client_base::write, under tcp_client's socketMutex: the message's
\* bytes with transfer_all, so the peer's session reads it whole.
tcp_write(s, msg) == reqCh' = [reqCh EXCEPT ![s] = Append(@, msg)]

\* _tcp_client_base::read: header_length() is 0 for net::response, so it
\* reads length() bytes with transfer_all, blocking until they are there.
tcp_read(s) ==
    /\ respCh[s] # <<>>
    /\ respCh' = [respCh EXCEPT ![s] = Tail(@)]

\* simulation::response::get_error: the reply has an "error" member and it
\* is true.  The simulator's reply is "ok" or "error".
get_error(reply) == reply = "error"

\* open_connection: the tcp_client constructor connects (the kernel queues
\* it on the acceptor's backlog) and write() sends request(0, 1, 0).
open_connection(s) ==
    /\ Up(s) /\ spc[s] = "open" /\ Listening(peer[s])
    /\ cgen' = [cgen EXCEPT ![s] = @ + 1]
    /\ backlog' = [backlog EXCEPT ![peer[s]] = Append(@, <<s, cgen[s] + 1>>)]
    /\ reqCh' = [reqCh EXCEPT ![s] = <<OpenRequest>>]
    /\ respCh' = [respCh EXCEPT ![s] = <<>>]
    /\ spc' = [spc EXCEPT ![s] = "open_read"]
    /\ UNCHANGED <<peer, left, budget, txErr, zreq, dispatch, dispLive>>
    /\ UNCHANGED <<rpc, session, isReceiving, hasReceived, prodVars, upc, exitState>>

\* socket.connect throws when nothing listens at the peer any more.
connect_refused(s) ==
    /\ Up(s) /\ spc[s] = "open" /\ ~Listening(peer[s])
    /\ LeaveTransmit(s)
    /\ UNCHANGED <<peer, budget, txErr, cgen, reqCh, respCh, zreq, dispatch, dispLive>>
    /\ UNCHANGED <<ioVars, prodVars, upc, exitState>>

\* tcp_client::read of the response to "open".
open_read(s) ==
    /\ Up(s) /\ spc[s] = "open_read"
    /\ tcp_read(s)
    /\ spc' = [spc EXCEPT ![s] = "tx_send"]
    /\ UNCHANGED <<peer, left, budget, txErr, cgen, reqCh, zreq, dispatch, dispLive>>
    /\ UNCHANGED <<ioVars, prodVars, upc, exitState>>

\* read() throws once the peer's acceptor and sessions are gone.  When
\* the peer had read everything sent, its sockets closed with a FIN: read
\* fails with eof, and the tcp_client destroyed during unwinding shuts
\* its half-closed socket down and closes it.
read_eof(s) ==
    /\ Up(s) /\ spc[s] \in {"open_read", "close_read"} /\ respCh[s] = <<>>
    /\ ~Listening(peer[s]) /\ reqCh[s] = <<>>
    /\ LeaveTransmit(s)
    /\ UNCHANGED <<peer, budget, txErr, cgen, reqCh, respCh, zreq, dispatch, dispLive>>
    /\ UNCHANGED <<ioVars, prodVars, upc, exitState>>

\* A request the peer never read (the connection still in the closed
\* acceptor's queue, or unread by a session) makes the peer's kernel
\* reset the connection: read fails, and during unwinding
\* ~_tcp_client_base calls socket.shutdown on a socket that is no longer
\* connected; it throws system_error (ENOTCONN) out of a noexcept
\* destructor: std::terminate.
read_reset(s) ==
    /\ Up(s) /\ spc[s] \in {"open_read", "close_read"} /\ respCh[s] = <<>>
    /\ ~Listening(peer[s]) /\ reqCh[s] # <<>>
    /\ exitState' = [exitState EXCEPT ![s] = "terminate"]
    /\ UNCHANGED <<senderVars, dispatch, dispLive, ioVars, prodVars, upc>>

\* dispatcher->call(tx): send on the REQ socket; the simulator answers "ok"
\* after publishing the measurement to the peer, or "error"; a published
\* measurement may be dropped by PUB/SUB.
tx_send(s) ==
    /\ Up(s) /\ spc[s] = "tx_send" /\ zreq[s] = "ready"
    /\ \E reply \in {"ok"} \cup ({"error"} \cap Faults),
          lost \in {FALSE} \cup ({TRUE} \cap {"lose" \in Faults}) :
          /\ txErr' = [txErr EXCEPT ![s] = get_error(reply)]
          /\ subq' = IF reply = "ok" /\ ~lost /\ Up(peer[s])
                     THEN [subq EXCEPT ![peer[s]] = Append(@, s)]
                     ELSE subq
    /\ zreq' = [zreq EXCEPT ![s] = "awaiting"]
    /\ dispatch' = [dispatch EXCEPT ![s] = @ \cup {"sync"}]
    /\ spc' = [spc EXCEPT ![s] = "tx_recv"]
    /\ UNCHANGED <<peer, left, budget, cgen, reqCh, respCh, dispLive>>
    /\ UNCHANGED <<ioVars, pushed, prodPc, upc, exitState>>

\* A REQ socket whose last recv failed refuses the next send (EFSM):
\* cppzmq throws and call() never reaches the simulator.
tx_send_efsm(s) ==
    /\ Up(s) /\ spc[s] = "tx_send" /\ zreq[s] = "awaiting"
    /\ LeaveTransmit(s)
    /\ UNCHANGED <<peer, budget, txErr, cgen, reqCh, respCh, zreq, dispatch, dispLive>>
    /\ UNCHANGED <<ioVars, prodVars, upc, exitState>>

tx_recv(s) ==
    /\ Up(s) /\ spc[s] = "tx_recv"
    /\ zreq' = [zreq EXCEPT ![s] = "ready"]
    /\ dispatch' = [dispatch EXCEPT ![s] = @ \ {"sync"}]
    /\ spc' = [spc EXCEPT ![s] = "close_write"]
    /\ UNCHANGED <<peer, left, budget, txErr, cgen, reqCh, respCh, dispLive>>
    /\ UNCHANGED <<ioVars, prodVars, upc, exitState>>

\* socket.recv fails (interrupted, context shut down): call() throws after
\* the simulator has already acted on the request.
tx_recv_throws(s) ==
    /\ "abort" \in Faults
    /\ Up(s) /\ spc[s] = "tx_recv"
    /\ dispatch' = [dispatch EXCEPT ![s] = @ \ {"sync"}]
    /\ LeaveTransmit(s)
    /\ UNCHANGED <<peer, budget, txErr, cgen, reqCh, respCh, zreq, dispLive>>
    /\ UNCHANGED <<ioVars, prodVars, upc, exitState>>

\* close_connection: write request(0, 2, 0) ...
close_write(s) ==
    /\ Up(s) /\ spc[s] = "close_write"
    /\ tcp_write(s, CloseRequest)
    /\ spc' = [spc EXCEPT ![s] = "close_read"]
    /\ UNCHANGED <<peer, left, budget, txErr, cgen, respCh, zreq, dispatch, dispLive>>
    /\ UNCHANGED <<ioVars, prodVars, upc, exitState>>

\* Mutant: the loop over the symbols never advances.
close_read_noprogress(s) ==
    /\ Up(s) /\ spc[s] = "close_read"
    /\ tcp_read(s)
    /\ IF txErr[s] THEN LeaveTransmit(s)
       ELSE /\ spc' = [spc EXCEPT ![s] = "open"] /\ UNCHANGED left
    /\ UNCHANGED <<peer, budget, txErr, cgen, reqCh, zreq, dispatch, dispLive>>
    /\ UNCHANGED <<ioVars, prodVars, upc, exitState>>

\* ... and read the answer; the connection is destroyed at the end of the
\* iteration; an error reply returns false, else the next symbol follows.
close_read(s) ==
    /\ Up(s) /\ spc[s] = "close_read"
    /\ tcp_read(s)
    /\ IF txErr[s] \/ left[s] = 1
          THEN LeaveTransmit(s)
          ELSE /\ spc' = [spc EXCEPT ![s] = "open"]
               /\ left' = [left EXCEPT ![s] = @ - 1]
    /\ UNCHANGED <<peer, budget, txErr, cgen, reqCh, zreq, dispatch, dispLive>>
    /\ UNCHANGED <<ioVars, prodVars, upc, exitState>>

\* The sync worker's recv times out and it polls again.
sync_idle(s) ==
    /\ Up(s) /\ spc[s] = "idle"
    /\ UNCHANGED vars

-----------------------------------------------------------------------------
(* io thread: net::server accept handler running session::run(), which     *)
(* reads a request, calls process() and writes the response until a read   *)
(* or write fails; only then is the next connection accepted.              *)

\* async_accept's handler: run the session, then accept() again.  After
\* ioService.stop() no handler runs.
accept(r) ==
    /\ Up(r) /\ rpc[r] = "accept" /\ backlog[r] # <<>>
    /\ upc[r] # "join_io"
    /\ session' = [session EXCEPT ![r] = Head(backlog[r])]
    /\ backlog' = [backlog EXCEPT ![r] = Tail(@)]
    /\ rpc' = [rpc EXCEPT ![r] = "read"]
    /\ UNCHANGED <<senderVars, dispatch, dispLive, isReceiving, hasReceived>>
    /\ UNCHANGED <<prodVars, upc, exitState>>

\* boost::asio::read fails (the sender closed): break, delete the session.
session_eof(r) ==
    /\ Up(r) /\ rpc[r] = "read" /\ ~SessionLive(r)
    /\ session' = [session EXCEPT ![r] = None]
    /\ rpc' = [rpc EXCEPT ![r] = "accept"]
    /\ UNCHANGED <<senderVars, dispatch, dispLive, backlog, isReceiving, hasReceived>>
    /\ UNCHANGED <<prodVars, upc, exitState>>

\* A request arrived; process() locks requestMutex.  Its content is unused.
ReadRequest(r) ==
    /\ Up(r) /\ rpc[r] = "read" /\ SessionLive(r)
    /\ reqCh[session[r][1]] # <<>>
    /\ reqCh' = [reqCh EXCEPT ![session[r][1]] = Tail(@)]

\* isReceiving and the measurement is in: clear hasReceived, toggle.
process_ready(r) ==
    /\ ReadRequest(r)
    /\ isReceiving[r] /\ hasReceived[r]
    /\ hasReceived' = [hasReceived EXCEPT ![r] = FALSE]
    /\ isReceiving' = [isReceiving EXCEPT ![r] = FALSE]
    /\ rpc' = [rpc EXCEPT ![r] = "write"]
    /\ UNCHANGED <<spc, peer, left, budget, txErr, cgen, respCh, zreq>>
    /\ UNCHANGED <<dispatch, dispLive, session, backlog, prodVars, upc, exitState>>

\* isReceiving and no measurement yet: hasReceivedCV.wait (no timeout).
process_wait(r) ==
    /\ ReadRequest(r)
    /\ isReceiving[r] /\ ~hasReceived[r]
    /\ rpc' = [rpc EXCEPT ![r] = "wait"]
    /\ UNCHANGED <<spc, peer, left, budget, txErr, cgen, respCh, zreq>>
    /\ UNCHANGED <<dispatch, dispLive, session, backlog, isReceiving, hasReceived>>
    /\ UNCHANGED <<prodVars, upc, exitState>>

\* itrx_proc_unit::process (trx_circuit): not receiving, so set isReceiving.
process_open(r) ==
    /\ Flavor = "trx_circuit"
    /\ ReadRequest(r)
    /\ ~isReceiving[r]
    /\ isReceiving' = [isReceiving EXCEPT ![r] = TRUE]
    /\ rpc' = [rpc EXCEPT ![r] = "write"]
    /\ UNCHANGED <<spc, peer, left, budget, txErr, cgen, respCh, zreq>>
    /\ UNCHANGED <<dispatch, dispLive, session, backlog, hasReceived>>
    /\ UNCHANGED <<prodVars, upc, exitState>>

\* bobwire_circuit::process: not receiving, so pick the next basis and
\* call dispatcher->call(configure_node) while holding requestMutex.  The
\* dispatcher is the REQ socket the sync worker's transmit() also uses.
process_configure(r) ==
    /\ Flavor = "bobwire_circuit"
    /\ ReadRequest(r)
    /\ ~isReceiving[r]
    /\ dispatch' = [dispatch EXCEPT ![r] = @ \cup {"io"}]
    /\ exitState' = IF dispLive[r] THEN exitState
                    ELSE [exitState EXCEPT ![r] = "use_after_free"]
    /\ rpc' = [rpc EXCEPT ![r] = "configure"]
    /\ UNCHANGED <<spc, peer, left, budget, txErr, cgen, respCh, zreq>>
    /\ UNCHANGED <<dispLive, session, backlog, isReceiving, hasReceived>>
    /\ UNCHANGED <<prodVars, upc>>

configure_recv(r) ==
    /\ Up(r) /\ rpc[r] = "configure"
    /\ dispatch' = [dispatch EXCEPT ![r] = @ \ {"io"}]
    /\ isReceiving' = [isReceiving EXCEPT ![r] = TRUE]
    /\ rpc' = [rpc EXCEPT ![r] = "write"]
    /\ UNCHANGED <<senderVars, dispLive, session, backlog, hasReceived>>
    /\ UNCHANGED <<prodVars, upc, exitState>>

\* Mutant: the woken process() leaves hasReceived set.
wait_wake_keep(r) ==
    /\ Up(r) /\ rpc[r] = "wait" /\ hasReceived[r]
    /\ isReceiving' = [isReceiving EXCEPT ![r] = FALSE]
    /\ rpc' = [rpc EXCEPT ![r] = "write"]
    /\ UNCHANGED <<senderVars, dispatch, dispLive, session, backlog, hasReceived>>
    /\ UNCHANGED <<prodVars, upc, exitState>>


\* Woken by async_work's notify_all with hasReceived set.
wait_wake(r) ==
    /\ Up(r) /\ rpc[r] = "wait" /\ hasReceived[r]
    /\ hasReceived' = [hasReceived EXCEPT ![r] = FALSE]
    /\ isReceiving' = [isReceiving EXCEPT ![r] = FALSE]
    /\ rpc' = [rpc EXCEPT ![r] = "write"]
    /\ UNCHANGED <<senderVars, dispatch, dispLive, session, backlog>>
    /\ UNCHANGED <<prodVars, upc, exitState>>

write_response(r) ==
    /\ Up(r) /\ rpc[r] = "write" /\ SessionLive(r)
    /\ respCh' = [respCh EXCEPT ![session[r][1]] = Append(@, EmptyResponse)]
    /\ rpc' = [rpc EXCEPT ![r] = "read"]
    /\ UNCHANGED <<spc, peer, left, budget, txErr, cgen, reqCh, zreq>>
    /\ UNCHANGED <<dispatch, dispLive, session, backlog, isReceiving, hasReceived>>
    /\ UNCHANGED <<prodVars, upc, exitState>>

\* boost::asio::write fails on a closed connection: break.
write_failed(r) ==
    /\ Up(r) /\ rpc[r] = "write" /\ ~SessionLive(r)
    /\ session' = [session EXCEPT ![r] = None]
    /\ rpc' = [rpc EXCEPT ![r] = "accept"]
    /\ UNCHANGED <<senderVars, dispatch, dispLive, backlog, isReceiving, hasReceived>>
    /\ UNCHANGED <<prodVars, upc, exitState>>

-----------------------------------------------------------------------------
(* Producer: imodule's async thread, while(!doExit) async_work(out).        *)

\* socket.recv got a measurement; lock requestMutex (held by process() only
\* around configure_node); isReceiving: push it, set hasReceived, notify.
async_work(r) ==
    /\ Up(r) /\ prodPc[r] = "run" /\ subq[r] # <<>>
    /\ rpc[r] # "configure"
    /\ isReceiving[r]
    /\ subq' = [subq EXCEPT ![r] = Tail(@)]
    /\ pushed' = [pushed EXCEPT ![r] = @ + 1]
    /\ hasReceived' = [hasReceived EXCEPT ![r] = TRUE]
    /\ UNCHANGED <<senderVars, dispatch, dispLive, rpc, session, backlog, isReceiving>>
    /\ UNCHANGED <<prodPc, upc, exitState>>

\* "Should never happen": not receiving, so async_work throws runtime_error
\* on the producer thread, where nothing catches it: std::terminate.
async_work_unreachable(r) ==
    /\ Up(r) /\ prodPc[r] = "run" /\ subq[r] # <<>>
    /\ rpc[r] # "configure"
    /\ ~isReceiving[r]
    /\ exitState' = [exitState EXCEPT ![r] = "unreachable"]
    /\ UNCHANGED <<senderVars, dispatch, dispLive, ioVars, prodVars, upc>>

\* socket.recv times out (ZMQ_RCVTIMEO 20 ms); async_work returns and the
\* wrapper calls it again.
producer_idle(r) ==
    /\ Up(r) /\ prodPc[r] = "run" /\ subq[r] = <<>>
    /\ UNCHANGED vars

\* _async_proc_wrapper sees doExit between two async_work calls.
producer_exit(r) ==
    /\ Up(r) /\ prodPc[r] = "run" /\ upc[r] = "join_producer"
    /\ prodPc' = [prodPc EXCEPT ![r] = "exited"]
    /\ UNCHANGED <<senderVars, dispatch, dispLive, ioVars, subq, pushed, upc, exitState>>

-----------------------------------------------------------------------------
(* Caller: module_manager::unload_proc_unit -> imodule::unload_proc_unit.   *)

\* stateMutex excludes a proc_act_push in progress.
unload_start(r) ==
    /\ r \in Unloadable /\ Up(r) /\ upc[r] = "loaded" /\ spc[r] = "idle"
    /\ upc' = [upc EXCEPT ![r] = "join_producer"]
    /\ UNCHANGED <<senderVars, dispatch, dispLive, ioVars, prodVars, exitState>>

\* _stop_async_proc joins the producer; delete the unit: ~trx_circuit (or
\* ~bobwire_circuit) deletes the dispatcher first.
join_producer(r) ==
    /\ Up(r) /\ upc[r] = "join_producer" /\ prodPc[r] = "exited"
    /\ dispLive' = [dispLive EXCEPT ![r] = FALSE]
    /\ upc' = [upc EXCEPT ![r] = "stop_io"]
    /\ UNCHANGED <<senderVars, dispatch, ioVars, prodVars, exitState>>

\* ~itrx_proc_unit: ioService.stop(), then requestThread.join().
io_stop(r) ==
    /\ Up(r) /\ upc[r] = "stop_io"
    /\ upc' = [upc EXCEPT ![r] = "join_io"]
    /\ UNCHANGED <<senderVars, dispatch, dispLive, ioVars, prodVars, exitState>>

\* run() returns once the io thread is back in the accept handler; the
\* acceptor is destroyed and the join completes.
io_exit(r) ==
    /\ Up(r) /\ upc[r] = "join_io" /\ rpc[r] = "accept"
    /\ rpc' = [rpc EXCEPT ![r] = "stopped"]
    /\ upc' = [upc EXCEPT ![r] = "unloaded"]
    /\ UNCHANGED <<senderVars, dispatch, dispLive, session, backlog>>
    /\ UNCHANGED <<isReceiving, hasReceived, prodVars, exitState>>

-----------------------------------------------------------------------------
SenderStep(s) ==
    \/ open_connection(s) \/ connect_refused(s) \/ open_read(s)
    \/ read_eof(s) \/ read_reset(s) \/ tx_send(s) \/ tx_send_efsm(s) \/ tx_recv(s)
    \/ close_write(s) \/ close_read(s)

IoStep(r) ==
    \/ accept(r) \/ session_eof(r) \/ process_ready(r) \/ process_wait(r)
    \/ process_open(r) \/ process_configure(r) \/ configure_recv(r)
    \/ wait_wake(r) \/ write_response(r) \/ write_failed(r)

ProducerStep(r) ==
    async_work(r) \/ async_work_unreachable(r) \/ producer_exit(r)

UnloadStep(r) == join_producer(r) \/ io_stop(r) \/ io_exit(r)

\* Every process has exited: nothing runs any more.
AllExited ==
    /\ \A n \in Nodes : ~Up(n)
    /\ UNCHANGED vars

Next ==
    \/ \E s \in Nodes, r \in Nodes, n \in 1..MaxSymbols : proc_act_push(s, r, n)
    \/ \E s \in Nodes : SenderStep(s) \/ tx_recv_throws(s) \/ sync_idle(s)
    \/ \E r \in Nodes : IoStep(r) \/ ProducerStep(r) \/ UnloadStep(r)
    \/ \E r \in Nodes : unload_start(r) \/ producer_idle(r)
    \/ AllExited

Spec == Init /\ [][Next]_vars

\* Every thread that can run is scheduled; clients (proc_act_push), the
\* caller's decision to unload, and the faults are not.
Fairness ==
    \A n \in Nodes :
        /\ WF_vars(SenderStep(n))
        /\ WF_vars(IoStep(n))
        /\ WF_vars(ProducerStep(n))
        /\ WF_vars(UnloadStep(n))

FairSpec == Spec /\ Fairness

-----------------------------------------------------------------------------
(* Properties.                                                             *)

TypeOK ==
    /\ spc \in [Nodes -> {"idle", "open"} \cup Connected]
    /\ peer \in [Nodes -> Nodes \cup {None}]
    /\ left \in [Nodes -> 0..MaxSymbols] /\ budget \in [Nodes -> 0..MaxSymbols]
    /\ txErr \in [Nodes -> BOOLEAN] /\ cgen \in [Nodes -> 0..MaxSymbols]
    /\ reqCh \in [Nodes -> Seq({OpenRequest, CloseRequest})]
    /\ respCh \in [Nodes -> Seq({EmptyResponse})]
    /\ zreq \in [Nodes -> {"ready", "awaiting"}]
    /\ dispatch \in [Nodes -> SUBSET {"sync", "io"}]
    /\ dispLive \in [Nodes -> BOOLEAN]
    /\ rpc \in [Nodes -> {"accept", "read", "wait", "configure", "write", "stopped"}]
    /\ session \in [Nodes -> (Nodes \X (1..MaxSymbols)) \cup {None}]
    /\ backlog \in [Nodes -> Seq(Nodes \X (1..MaxSymbols))]
    /\ isReceiving \in [Nodes -> BOOLEAN] /\ hasReceived \in [Nodes -> BOOLEAN]
    /\ subq \in [Nodes -> Seq(Nodes)]
    /\ pushed \in [Nodes -> 0..(MaxSymbols * Cardinality(Nodes))]
    /\ prodPc \in [Nodes -> {"run", "exited"}]
    /\ upc \in [Nodes -> {"loaded", "join_producer", "stop_io", "join_io", "unloaded"}]
    /\ exitState \in [Nodes -> {"running", "unreachable", "use_after_free", "terminate"}]

\* Sessions are served one at a time and a sender calls the simulator only
\* after its "open" was processed, so a receiver never holds more than one
\* measurement: queued on the SUB socket or flagged by hasReceived.
OneMeasurementOutstanding ==
    \A r \in Nodes :
        Len(subq[r]) + (IF hasReceived[r] THEN 1 ELSE 0) <= 1

\* async_work's "Should never happen": a measurement never arrives while
\* isReceiving is false (which would terminate the process).
NoUnreachableMeasurement ==
    \A n \in Nodes : exitState[n] # "unreachable"

\* Nothing in the unit calls dispatcher->call after the destructor deleted
\* the dispatcher.
NoDispatcherUseAfterFree ==
    \A n \in Nodes : exitState[n] # "use_after_free"

\* A transceiver survives its peer's unit being unloaded: the failed read
\* of a transmit that tx_proc_act catches ends the transmit, and never
\* the process through ~tcp_client.
SenderSurvivesPeerUnload ==
    \A n \in Nodes : exitState[n] # "terminate"

\* The simulator client's REQ socket is used by one thread at a time (zmq
\* sockets are not thread-safe and call() takes no lock).
DispatcherExclusive ==
    \A n \in Nodes : Cardinality(dispatch[n]) <= 1

\* Every transmit() the sync worker starts returns (with true, false or an
\* exception), so the client gets its response.
TransmitCompletes ==
    \A s \in Nodes : spc[s] # "idle" ~> (spc[s] = "idle" \/ ~Up(s))

\* unload_proc_unit returns: the producer and the request thread are joined.
UnloadCompletes ==
    \A r \in Nodes : upc[r] = "join_producer" ~> (upc[r] = "unloaded" \/ ~Up(r))
=============================================================================
