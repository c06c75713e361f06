----------------------------- MODULE Fireplace -----------------------------
(***************************************************************************)
(* The running middleware: the thread that drives module::module_manager  *)
(* (main() and any other client of its API), the loaded module::imodule   *)
(* with its processing unit and async production thread, the module's     *)
(* buffer::queue_buffer, and net::middleware::server / zmq_server with    *)
(* its sync and async worker threads.                                     *)
(*                                                                         *)
(* Threads and where they block:                                          *)
(*   caller    module_manager::load_proc_unit -> imodule::load_proc_unit   *)
(*             -> server::notify (spawn workers, wait on startCV), and    *)
(*             unload_proc_unit / unload_module (join the unit thread);   *)
(*             all of it under module_manager::stateMutex (mgrLock).      *)
(*   producer  imodule::_async_proc_wrapper: while(!doExit) async_work().  *)
(*   sync      zmq_server::sync_work: bind, signal, recv/dispatch loop.   *)
(*   async     zmq_server::async_work: bind, threshold, signal, then      *)
(*             push_wait / pop_all / send loop.                           *)
(*                                                                         *)
(* server::stop() returns at once unless isRunning, and nothing ever sets *)
(* isRunning (server.cpp), so stop() never stops or joins a worker and    *)
(* do_exit() is never true: the workers' loops never end.  The model has  *)
(* no variable for isRunning or doExit of the server for that reason.     *)
(*                                                                         *)
(* Data is abstracted: a buffer_item is its sequence number, a request is *)
(* the value of its "action" field, a module instance is its generation.  *)
(***************************************************************************)
EXTENDS Naturals, Sequences, Actions

CONSTANTS
    Modules,        \* names registered with module_factory (module_register<>)
    TrxModules,     \* the modules whose units are itrx_proc_units
    UnknownName,    \* a module name nobody registered
    NoModule,       \* loadedModule == NULL
    ModuleActions,  \* [Modules -> Seq(ActionNames)]: each constructor's pack<...>
    Messages,       \* values of the request "action" field a client may send
    MaxItems,       \* bound: items the processing units produce in a behaviour
    WaitCount,      \* zmq_server::async_wait_count (the push_wait threshold)
    AsyncWaitFail,  \* zmq_server::async_wait_fail (timeouts before a forced flush)
    MaxOps,         \* bound: calls the caller makes on module_manager
    MaxRequests     \* bound: messages the client sends to the sync endpoint

VARIABLES
    cpc, cop, ops,                  \* caller thread: pc, pending unload, calls made
    mgrLock,                        \* module_manager::stateMutex holder
    loadedModule, modGen,           \* module_manager::loadedModule, its instance
    unitLoaded,                     \* imodule::loadedProcUnit != NULL
    modRunning, modDoExit,          \* imodule::isRunning, imodule::doExit
    ppc, nextItem,                  \* producer thread pc; next item number
    queue, pushWaitEnabled,         \* the module's queue_buffer
    pushWaitNew, pushWaitThreshold,
    srvBuf,                         \* server::moduleAsyncBuffer (instance, 0 = NULL)
    startupState, startupStateTarget,
    workThreads,                    \* server::workThreads[2]: joinable thread or "none"
    swPc, requests,                 \* sync worker pc; messages received
    awPc, failCount, localBuffer,   \* async worker pc, failCount, localBuffer,
    awBuf,                          \* the buffer async_work bound as asyncBuffer
    sent,                           \* items delivered on the outgoing endpoint
    exitState                       \* "running", "exited" or how the process died

QB == INSTANCE QueueBuffer

qvars == <<queue, pushWaitEnabled, pushWaitNew, pushWaitThreshold>>
callerVars == <<cpc, cop, ops>>
mgrVars == <<mgrLock, loadedModule, modGen>>
modVars == <<unitLoaded, modRunning, modDoExit, ppc, nextItem>>
srvVars == <<srvBuf, startupState, startupStateTarget, workThreads>>
swVars == <<swPc, requests>>
awVars == <<awPc, failCount, localBuffer, awBuf>>
vars == <<callerVars, mgrVars, modVars, qvars, srvVars, swVars, awVars,
          sent, exitState>>

Slots == 0..1
NotifyStates == {"spawn_sync", "spawn_async", "barrier", "barrier_blocked"}

\* imodule::supported_actions() of the loaded module.
LoadedMask == pack(ModuleActions[loadedModule])

\* The two capability tests of imodule::load_proc_unit and server::notify.
HasAsync(mask) == check("REPLY", mask) \/ check("WAIT", mask)
HasSync(mask) == check("REQUEST", mask) \/ check("PUSH", mask)

Running == exitState = "running"

\* auto& asyncBuffer = module_async_buffer(): the reference async_work
\* took when it bound is to the buffer of the module still loaded.
BufferLive == loadedModule # NoModule /\ awBuf = modGen

Init ==
    /\ cpc = "idle" /\ cop = "none" /\ ops = 0
    /\ mgrLock = "free" /\ loadedModule = NoModule /\ modGen = 0
    /\ unitLoaded = FALSE /\ modRunning = FALSE /\ modDoExit = FALSE
    /\ ppc = "none" /\ nextItem = 1
    /\ QB!QInit
    /\ srvBuf = 0 /\ startupState = 0 /\ startupStateTarget = 0
    /\ workThreads = [s \in Slots |-> "none"]
    /\ swPc = "none" /\ requests = 0
    /\ awPc = "none" /\ failCount = 0 /\ localBuffer = <<>> /\ awBuf = 0
    /\ sent = <<>> /\ exitState = "running"

(***************************************************************************)
(* Caller: the module_manager API.  Each call holds module_manager's      *)
(* stateMutex for its whole body, so a call that never blocks is one step. *)
(***************************************************************************)
CallerCall ==
    /\ Running /\ cpc = "idle" /\ mgrLock = "free" /\ ops < MaxOps
    /\ ops' = ops + 1

\* module_factory::instantiate(name): the registered module of that name,
\* or invalid_argument for a name nobody registered.
instantiate(name) == IF name \in Modules THEN name ELSE NoModule

\* load_module(name): module_factory::instantiate constructs the module,
\* whose constructor builds an empty queue_buffer; string_initialize_
\* parameters is empty in both modules.
load_module(name) ==
    /\ CallerCall
    /\ loadedModule = NoModule
    /\ instantiate(name) # NoModule
    /\ loadedModule' = instantiate(name)
    /\ modGen' = modGen + 1
    /\ QB!QConstruct
    /\ UNCHANGED <<cpc, cop, mgrLock, modVars, srvVars, swVars, awVars,
                   sent, exitState>>

\* load_module returns early when a module is loaded.
load_module_rejected(name) ==
    /\ CallerCall
    /\ loadedModule # NoModule
    /\ UNCHANGED <<cpc, cop, mgrLock, loadedModule, modGen, modVars, qvars,
                   srvVars, swVars, awVars, sent, exitState>>

\* load_proc_unit returns early with no module or a unit already loaded.
load_proc_unit_rejected ==
    /\ CallerCall
    /\ loadedModule = NoModule \/ unitLoaded
    /\ UNCHANGED <<cpc, cop, mgrLock, loadedModule, modGen, modVars, qvars,
                   srvVars, swVars, awVars, sent, exitState>>

\* An exception out of a load: instantiate() of a name nobody registered
\* (invalid_argument), imodule::load_proc_unit of an unknown unit name, or
\* the unit's string_initialize_parameters on a bad parameter string, which
\* leaves module_manager before the server is notified.  main() catches it
\* and calls exit(EXIT_FAILURE): no destructor of main's objects runs.
load_throws ==
    /\ CallerCall
    /\ \/ loadedModule = NoModule
       \/ loadedModule # NoModule /\ ~unitLoaded
    /\ exitState' = "exited"
    /\ UNCHANGED <<cpc, cop, mgrLock, loadedModule, modGen, modVars, qvars,
                   srvVars, swVars, awVars, sent>>

\* The unit loads; _start_async_proc starts the producer thread when the
\* module's mask has REPLY or WAIT.  module_manager then calls the server's
\* notify() with the module's buffer and mask, still holding stateMutex:
\* stop() takes its early return, startupStateTarget = 0,
\* moduleAsyncBuffer = &asyncBuffer.
load_proc_unit ==
    /\ CallerCall
    /\ loadedModule # NoModule /\ ~unitLoaded
    /\ unitLoaded' = TRUE
    /\ IF HasAsync(LoadedMask) /\ ~modRunning
       THEN modRunning' = TRUE /\ ppc' = "check"
       ELSE UNCHANGED <<modRunning, ppc>>
    /\ mgrLock' = "caller"
    /\ startupStateTarget' = 0
    /\ srvBuf' = modGen
    /\ cpc' = "spawn_sync"
    /\ UNCHANGED <<cop, loadedModule, modGen, modDoExit, nextItem, qvars,
                   startupState, workThreads, swVars, awVars, sent, exitState>>

\* notify(): workThreads[startupStateTarget++] = std::thread(sync_work) when
\* the mask has REQUEST or PUSH; likewise async_work for REPLY or WAIT.
NotifyStart(kind, wanted, from, to) ==
    /\ Running /\ cpc = from
    /\ cpc' = to
    /\ IF wanted
       THEN /\ workThreads[startupStateTarget] = "none"
            /\ workThreads' = [workThreads EXCEPT ![startupStateTarget] = kind]
            /\ startupStateTarget' = startupStateTarget + 1
            /\ IF kind = "sync"
               THEN swPc' = "bind" /\ UNCHANGED awPc
               ELSE awPc' = "bind" /\ UNCHANGED swPc
       ELSE UNCHANGED <<workThreads, startupStateTarget, swPc, awPc>>
    /\ UNCHANGED <<cop, ops, mgrVars, modVars, qvars, srvBuf, startupState,
                   requests, failCount, localBuffer, awBuf, sent, exitState>>

notify_start_sync == NotifyStart("sync", HasSync(LoadedMask), "spawn_sync", "spawn_async")
notify_start_async == NotifyStart("async", HasAsync(LoadedMask), "spawn_async", "barrier")

\* Move-assigning a new std::thread to a slot whose thread is still
\* joinable calls std::terminate.
notify_overwrite_joinable ==
    /\ Running
    /\ \/ cpc = "spawn_sync" /\ HasSync(LoadedMask)
       \/ cpc = "spawn_async" /\ HasAsync(LoadedMask)
    /\ workThreads[startupStateTarget] # "none"
    /\ exitState' = "terminate_joinable"
    /\ UNCHANGED <<callerVars, mgrVars, modVars, qvars, srvVars, swVars,
                   awVars, sent>>

\* startCV.wait(startLock, pred): the predicate is tested under startMutex
\* on entry; when it holds notify() and load_proc_unit return.
\* Mutant: notify() returns without waiting for the start barrier.
notify_return_nowait ==
    /\ Running /\ cpc = "barrier"
    /\ cpc' = "idle"
    /\ mgrLock' = "free"
    /\ UNCHANGED <<cop, ops, loadedModule, modGen, modVars, qvars, srvVars,
                   swVars, awVars, sent, exitState>>

notify_return ==
    /\ Running /\ cpc = "barrier"
    /\ startupState = startupStateTarget
    /\ cpc' = "idle"
    /\ mgrLock' = "free"
    /\ UNCHANGED <<cop, ops, loadedModule, modGen, modVars, qvars, srvVars,
                   swVars, awVars, sent, exitState>>

notify_block ==
    /\ Running /\ cpc = "barrier"
    /\ startupState # startupStateTarget
    /\ cpc' = "barrier_blocked"
    /\ UNCHANGED <<cop, ops, mgrVars, modVars, qvars, srvVars, swVars,
                   awVars, sent, exitState>>

\* imodule::unload_proc_unit (through module_manager::unload_proc_unit or
\* unload_module) when the unit thread runs: doExit = true, then join.
StartJoin(what) ==
    /\ CallerCall
    /\ loadedModule # NoModule /\ unitLoaded
    /\ HasAsync(LoadedMask) /\ modRunning
    /\ modDoExit' = TRUE
    /\ cpc' = "join" /\ cop' = what
    /\ mgrLock' = "caller"
    /\ UNCHANGED <<loadedModule, modGen, unitLoaded, modRunning, ppc, nextItem,
                   qvars, srvVars, swVars, awVars, sent, exitState>>

unload_proc_unit_join == StartJoin("unit")
unload_module_join == StartJoin("module")

\* Without a running unit thread the unit is deleted at once.
\* Mutant: the unit is deleted without stopping its thread.
unload_proc_unit_nojoin ==
    /\ CallerCall
    /\ loadedModule # NoModule /\ unitLoaded
    /\ unitLoaded' = FALSE
    /\ UNCHANGED <<cpc, cop, mgrLock, loadedModule, modGen, modRunning,
                   modDoExit, ppc, nextItem, qvars, srvVars, swVars, awVars,
                   sent, exitState>>

unload_proc_unit ==
    /\ CallerCall
    /\ loadedModule # NoModule /\ unitLoaded
    /\ ~(HasAsync(LoadedMask) /\ modRunning)
    /\ unitLoaded' = FALSE
    /\ UNCHANGED <<cpc, cop, mgrLock, loadedModule, modGen, modRunning,
                   modDoExit, ppc, nextItem, qvars, srvVars, swVars, awVars,
                   sent, exitState>>

\* unload_module: unload the unit (no thread to join), delete the module
\* and with it its queue_buffer and the items still in it.
unload_module ==
    /\ CallerCall
    /\ loadedModule # NoModule
    /\ ~(unitLoaded /\ HasAsync(LoadedMask) /\ modRunning)
    /\ unitLoaded' = FALSE
    /\ loadedModule' = NoModule
    /\ QB!QConstruct
    /\ UNCHANGED <<cpc, cop, mgrLock, modGen, modRunning, modDoExit, ppc,
                   nextItem, srvVars, swVars, awVars, sent, exitState>>

\* Both unloads return early when there is nothing to unload.
unload_rejected ==
    /\ CallerCall
    /\ loadedModule = NoModule \/ ~unitLoaded
    /\ UNCHANGED <<cpc, cop, mgrLock, loadedModule, modGen, modVars, qvars,
                   srvVars, swVars, awVars, sent, exitState>>

\* asyncProcThread.join() returns once the thread left its loop; then
\* doExit = false, isRunning = false, delete loadedProcUnit, and for
\* unload_module also delete the module.  Deleting a transceiver unit
\* runs ~itrx_proc_unit: ioService.stop() and requestThread.join(), which
\* returns when the unit's io thread is between sessions.
join_producer ==
    /\ Running /\ cpc = "join" /\ ppc = "exited"
    /\ ppc' = "none" /\ modDoExit' = FALSE /\ modRunning' = FALSE
    /\ unitLoaded' = FALSE
    /\ IF cop = "module"
       THEN loadedModule' = NoModule /\ QB!QConstruct
       ELSE UNCHANGED <<loadedModule, qvars>>
    /\ cpc' = "idle" /\ cop' = "none" /\ mgrLock' = "free"
    /\ UNCHANGED <<ops, modGen, nextItem, srvVars, swVars, awVars, sent,
                   exitState>>

\* The transceiver's io thread is inside a session, waiting for a
\* measurement no one will push any more (TrxLink): requestThread.join()
\* never returns and the caller keeps module_manager's stateMutex.
join_producer_delete_blocks ==
    /\ Running /\ cpc = "join" /\ ppc = "exited"
    /\ loadedModule \in TrxModules
    /\ ppc' = "none" /\ modDoExit' = FALSE /\ modRunning' = FALSE
    /\ cpc' = "delete_blocked"
    /\ UNCHANGED <<cop, ops, mgrVars, unitLoaded, nextItem, qvars, srvVars,
                   swVars, awVars, sent, exitState>>

\* The caller stays inside requestThread.join().
delete_blocked ==
    /\ Running /\ cpc = "delete_blocked"
    /\ UNCHANGED vars

\* SIGINT/SIGTERM: main() returns and the objects are destroyed.  ~server
\* unregisters its callback (module_manager's stateMutex), calls stop(),
\* which returns early, and then destroys workThreads: destroying a
\* joinable std::thread calls std::terminate.  With no worker ever started
\* no unit thread runs either, and ~module_manager unloads cleanly.
shutdown ==
    /\ Running /\ cpc = "idle" /\ mgrLock = "free"
    /\ exitState' = IF \E s \in Slots : workThreads[s] # "none"
                    THEN "terminate_joinable" ELSE "exited"
    /\ UNCHANGED <<callerVars, mgrVars, modVars, qvars, srvVars, swVars,
                   awVars, sent>>

(***************************************************************************)
(* Producer: imodule::_async_proc_wrapper on the unit's async_work().     *)
(***************************************************************************)
\* while(!doExit): the flag is read before each call of async_work().
\* Mutant: the loop does not look at doExit.
producer_loop_ignores_exit ==
    /\ Running /\ ppc = "check"
    /\ ppc' = "work"
    /\ UNCHANGED <<callerVars, mgrVars, unitLoaded, modRunning, modDoExit,
                   nextItem, qvars, srvVars, swVars, awVars, sent, exitState>>

producer_loop ==
    /\ Running /\ ppc = "check" /\ ~modDoExit
    /\ ppc' = "work"
    /\ UNCHANGED <<callerVars, mgrVars, unitLoaded, modRunning, modDoExit,
                   nextItem, qvars, srvVars, swVars, awVars, sent, exitState>>

producer_exit ==
    /\ Running /\ ppc = "check" /\ modDoExit
    /\ ppc' = "exited"
    /\ UNCHANGED <<callerVars, mgrVars, unitLoaded, modRunning, modDoExit,
                   nextItem, qvars, srvVars, swVars, awVars, sent, exitState>>

\* async_work(out) receives one datum and out.push()es it (trx_circuit).
producer_push ==
    /\ Running /\ ppc = "work" /\ nextItem <= MaxItems
    /\ QB!push(nextItem)
    /\ nextItem' = nextItem + 1
    /\ ppc' = "check"
    /\ UNCHANGED <<callerVars, mgrVars, unitLoaded, modRunning, modDoExit,
                   srvVars, swVars, awVars, sent, exitState>>

\* async_work returns without data (its receive timed out).
producer_idle ==
    /\ Running /\ ppc = "work"
    /\ ppc' = "check"
    /\ UNCHANGED <<callerVars, mgrVars, unitLoaded, modRunning, modDoExit,
                   nextItem, qvars, srvVars, swVars, awVars, sent, exitState>>

\* server::notify_thread_started(): ++startupState; when it equals
\* startupStateTarget, notify_all wakes the caller blocked on startCV.
ThreadStarted ==
    /\ startupState' = startupState + 1
    /\ cpc' = IF startupState + 1 = startupStateTarget /\ cpc = "barrier_blocked"
              THEN "barrier" ELSE cpc

(***************************************************************************)
(* Sync worker: zmq_server::sync_work.                                    *)
(***************************************************************************)
sync_bind ==
    /\ Running /\ swPc = "bind"
    /\ ThreadStarted
    /\ swPc' = "recv"
    /\ UNCHANGED <<cop, ops, mgrVars, modVars, qvars, srvBuf,
                   startupStateTarget, workThreads, requests, awVars, sent,
                   exitState>>

\* request(rcvMsg.data()) maps the action with str_map.  REQUEST and PUSH
\* go to the module manager.
sync_recv(msg) ==
    /\ Running /\ swPc = "recv" /\ requests < MaxRequests
    /\ str_map(msg) \in {"REQUEST", "PUSH"}
    /\ requests' = requests + 1
    /\ swPc' = "lock"
    /\ UNCHANGED <<callerVars, mgrVars, modVars, qvars, srvVars, awVars,
                   sent, exitState>>

\* An action str_map does not know throws runtime_error in the request
\* constructor, and WAIT or REPLY throw malformed-input: these throws are
\* outside the per-request try blocks and sync_work catches only
\* zmq::error_t, so the exception leaves the thread: std::terminate.
sync_recv_uncaught(msg) ==
    /\ Running /\ swPc = "recv" /\ requests < MaxRequests
    /\ str_map(msg) \in {"WAIT", "REPLY", "throws"}
    /\ requests' = requests + 1
    /\ exitState' = "terminate_uncaught"
    /\ UNCHANGED <<callerVars, mgrVars, modVars, qvars, srvVars, swPc,
                   awVars, sent>>

\* module_manager::proc_act_request/push lock stateMutex and, with nothing
\* loaded, throw runtime_error; the per-request catch turns it into an
\* error response and the lock is released by unwinding.
sync_dispatch_not_ready ==
    /\ Running /\ swPc = "lock" /\ mgrLock = "free"
    /\ ~(loadedModule # NoModule /\ unitLoaded)
    /\ swPc' = "recv"
    /\ UNCHANGED <<callerVars, mgrVars, modVars, qvars, srvVars, requests,
                   awVars, sent, exitState>>

\* Mutant: the driver is called without module_manager's stateMutex.
sync_dispatch_unlocked ==
    /\ Running /\ swPc = "lock"
    /\ loadedModule # NoModule /\ unitLoaded
    /\ swPc' = "call"
    /\ UNCHANGED <<callerVars, mgrVars, modVars, qvars, srvVars,
                   requests, awVars, sent, exitState>>

sync_dispatch ==
    /\ Running /\ swPc = "lock" /\ mgrLock = "free"
    /\ loadedModule # NoModule /\ unitLoaded
    /\ mgrLock' = "sync"
    /\ swPc' = "call"
    /\ UNCHANGED <<callerVars, loadedModule, modGen, modVars, qvars, srvVars,
                   requests, awVars, sent, exitState>>

\* The module forwards to loaded_proc_unit(); its result or exception
\* becomes the response, stateMutex is released, and the response is sent
\* (a send that times out is dropped; no model state records it).
sync_reply ==
    /\ Running /\ swPc = "call"
    /\ mgrLock' = "free"
    /\ swPc' = "recv"
    /\ UNCHANGED <<callerVars, loadedModule, modGen, modVars, qvars, srvVars,
                   requests, awVars, sent, exitState>>

(***************************************************************************)
(* Async worker: zmq_server::async_work.                                  *)
(***************************************************************************)
\* bind, asyncBuffer = *moduleAsyncBuffer, set_push_wait_threshold,
\* failCount = 0, notify_thread_started().
\* Mutant: the async worker never calls notify_thread_started().
async_bind_no_signal ==
    /\ Running /\ awPc = "bind"
    /\ QB!set_push_wait_threshold(WaitCount)
    /\ failCount' = 0
    /\ awBuf' = srvBuf
    /\ awPc' = "loop"
    /\ UNCHANGED <<callerVars, mgrVars, modVars, srvVars, swVars, localBuffer,
                   sent, exitState>>

async_bind ==
    /\ Running /\ awPc = "bind"
    /\ QB!set_push_wait_threshold(WaitCount)
    /\ failCount' = 0
    /\ ThreadStarted
    /\ awBuf' = srvBuf
    /\ awPc' = "loop"
    /\ UNCHANGED <<cop, ops, mgrVars, modVars, srvBuf, startupStateTarget,
                   workThreads, swVars, localBuffer, sent, exitState>>

\* The worker touches the queue_buffer of a module that unload_module has
\* deleted: undefined behaviour, taken here as the process crashing.
async_use_after_free ==
    /\ Running /\ awPc \in {"loop", "blocked", "pop"}
    /\ ~BufferLive
    /\ exitState' = "use_after_free"
    /\ UNCHANGED <<callerVars, mgrVars, modVars, qvars, srvVars, swVars,
                   awVars, sent>>

\* push_wait(async_wait_to) returning true at once.
async_wait_ready ==
    /\ Running /\ awPc = "loop" /\ BufferLive
    /\ QB!PushWaitReady
    /\ QB!PushWaitRelease
    /\ failCount' = 0
    /\ awPc' = "pop"
    /\ UNCHANGED <<callerVars, mgrVars, modVars, srvVars, swVars, localBuffer, awBuf,
                   sent, exitState>>

\* push_wait blocks in pushCV.wait_for, releasing queueMutex.
async_wait_block ==
    /\ Running /\ awPc = "loop" /\ BufferLive
    /\ ~QB!PushWaitReady
    /\ awPc' = "blocked"
    /\ UNCHANGED <<callerVars, mgrVars, modVars, qvars, srvVars, swVars,
                   failCount, localBuffer, awBuf, sent, exitState>>

\* Nothing notifies pushCV: wait_for returns at its timeout (or on a
\* spurious wake-up) with the value of its predicate.
async_wait_released ==
    /\ Running /\ awPc = "blocked" /\ BufferLive
    /\ QB!PushWaitPred
    /\ QB!PushWaitRelease
    /\ failCount' = 0
    /\ awPc' = "pop"
    /\ UNCHANGED <<callerVars, mgrVars, modVars, srvVars, swVars, localBuffer, awBuf,
                   sent, exitState>>

\* A timeout: ++failCount == async_wait_fail forces a flush anyway.
\* Mutant: failCount++ == async_wait_fail (post-increment compare).
async_wait_timeout_postinc ==
    /\ Running /\ awPc = "blocked" /\ BufferLive
    /\ ~QB!PushWaitPred
    /\ IF failCount = AsyncWaitFail
       THEN failCount' = 0 /\ awPc' = "pop"
       ELSE failCount' = failCount + 1 /\ awPc' = "loop"
    /\ UNCHANGED <<callerVars, mgrVars, modVars, qvars, srvVars, swVars,
                   localBuffer, awBuf, sent, exitState>>

async_wait_timeout ==
    /\ Running /\ awPc = "blocked" /\ BufferLive
    /\ ~QB!PushWaitPred
    /\ IF failCount + 1 = AsyncWaitFail
       THEN failCount' = 0 /\ awPc' = "pop"
       ELSE failCount' = failCount + 1 /\ awPc' = "loop"
    /\ UNCHANGED <<callerVars, mgrVars, modVars, qvars, srvVars, swVars,
                   localBuffer, awBuf, sent, exitState>>

\* localBuffer = asyncBuffer.pop_all().
async_pop_all ==
    /\ Running /\ awPc = "pop" /\ BufferLive
    /\ localBuffer' = queue
    /\ QB!pop_all
    /\ awPc' = "send"
    /\ UNCHANGED <<callerVars, mgrVars, modVars, srvVars, swVars, failCount, awBuf,
                   sent, exitState>>

\* Each item is moved out and socket.send() is called; the result of send
\* is ignored, so an item whose send times out (ZMQ_SNDTIMEO) is lost.
async_send ==
    /\ Running /\ awPc = "send" /\ localBuffer # <<>>
    /\ \E delivered \in BOOLEAN :
           sent' = IF delivered THEN Append(sent, Head(localBuffer)) ELSE sent
    /\ localBuffer' = Tail(localBuffer)
    /\ UNCHANGED <<callerVars, mgrVars, modVars, qvars, srvVars, swVars,
                   awPc, failCount, awBuf, exitState>>

async_send_done ==
    /\ Running /\ awPc = "send" /\ localBuffer = <<>>
    /\ awPc' = "loop"
    /\ UNCHANGED <<callerVars, mgrVars, modVars, qvars, srvVars, swVars,
                   failCount, localBuffer, awBuf, sent, exitState>>

\* The process is gone (normal exit or abnormal termination).
Terminated ==
    /\ ~Running
    /\ UNCHANGED vars

CallerNext ==
    \/ \E m \in Modules : load_module(m)
    \/ \E m \in Modules \cup {UnknownName} : load_module_rejected(m)
    \/ load_proc_unit_rejected \/ load_throws \/ load_proc_unit
    \/ notify_start_sync \/ notify_start_async \/ notify_overwrite_joinable
    \/ notify_return \/ notify_block
    \/ unload_proc_unit_join \/ unload_module_join \/ unload_proc_unit
    \/ unload_module \/ unload_rejected \/ join_producer
    \/ join_producer_delete_blocks \/ delete_blocked
    \/ shutdown

ProducerNext == producer_loop \/ producer_exit \/ producer_push \/ producer_idle

SyncNext ==
    \/ sync_bind
    \/ \E msg \in Messages : sync_recv(msg) \/ sync_recv_uncaught(msg)
    \/ sync_dispatch_not_ready \/ sync_dispatch \/ sync_reply

AsyncNext ==
    \/ async_bind \/ async_use_after_free
    \/ async_wait_ready \/ async_wait_block
    \/ async_wait_released \/ async_wait_timeout
    \/ async_pop_all \/ async_send \/ async_send_done

Next == CallerNext \/ ProducerNext \/ SyncNext \/ AsyncNext \/ Terminated

Spec == Init /\ [][Next]_vars

\* Thread scheduling: a running thread keeps getting the CPU, and a timed
\* wait ends (wait_for, recv with a timeout).  The caller's decisions to
\* call the API and the client's messages are not forced.
Fairness ==
    /\ WF_vars(notify_start_sync) /\ WF_vars(notify_start_async)
    /\ WF_vars(notify_overwrite_joinable)
    /\ WF_vars(notify_return) /\ WF_vars(notify_block) /\ WF_vars(join_producer \/ join_producer_delete_blocks)
    /\ WF_vars(ProducerNext)
    /\ WF_vars(sync_bind) /\ WF_vars(sync_dispatch_not_ready)
    /\ WF_vars(sync_dispatch) /\ WF_vars(sync_reply)
    /\ WF_vars(AsyncNext)

FairSpec == Spec /\ Fairness

-----------------------------------------------------------------------------
TypeOK ==
    /\ cpc \in {"idle", "join", "delete_blocked"} \cup NotifyStates
    /\ cop \in {"none", "unit", "module"}
    /\ ops \in 0..MaxOps
    /\ mgrLock \in {"free", "caller", "sync"}
    /\ loadedModule \in Modules \cup {NoModule}
    /\ modGen \in 0..MaxOps
    /\ unitLoaded \in BOOLEAN /\ modRunning \in BOOLEAN /\ modDoExit \in BOOLEAN
    /\ ppc \in {"none", "check", "work", "exited"}
    /\ nextItem \in 1..MaxItems + 1
    /\ queue \in Seq(1..MaxItems) /\ pushWaitEnabled \in BOOLEAN
    /\ pushWaitNew \in 0..MaxItems /\ pushWaitThreshold \in {0, WaitCount}
    /\ srvBuf \in 0..MaxOps /\ awBuf \in 0..MaxOps
    /\ startupState \in 0..2 /\ startupStateTarget \in 0..2
    /\ workThreads \in [Slots -> {"none", "sync", "async"}]
    /\ swPc \in {"none", "bind", "recv", "lock", "call"}
    /\ requests \in 0..MaxRequests
    /\ awPc \in {"none", "bind", "loop", "blocked", "pop", "send"}
    /\ failCount \in 0..AsyncWaitFail - 1
    /\ localBuffer \in Seq(1..MaxItems) /\ sent \in Seq(1..MaxItems)
    /\ exitState \in {"running", "exited", "terminate_joinable",
                      "terminate_uncaught", "use_after_free"}

\* server::notify's start barrier (spec §4.5.3): once notify() has
\* returned to module_manager::load_proc_unit, every worker it started has
\* bound its endpoint and signalled notify_thread_started, so no client is
\* told "ready" before the socket exists.
BarrierComplete ==
    cpc \notin NotifyStates => swPc # "bind" /\ awPc # "bind"

\* module_manager::proc_act_request/push promise that the loaded module and
\* unit "cannot be unloaded while this function is executing": whenever the
\* sync worker is inside the driver call, the module and unit are loaded.
DriverNotUnloadedDuringRequest ==
    swPc = "call" => loadedModule # NoModule /\ unitLoaded

\* imodule::unload_proc_unit joins the unit thread before deleting the
\* unit: the producer loop only runs while its unit and module exist.
ProducerOnlyWithUnit ==
    ppc \in {"check", "work"} => loadedModule # NoModule /\ unitLoaded

\* The asynchronous path is a lossy FIFO (Pipe): items reach the client in
\* the order the unit pushed them, at most once each.  The items in flight
\* are the worker's localBuffer followed by the module's queue.
P == INSTANCE Pipe WITH produced <- nextItem - 1,
                        pipe <- localBuffer \o queue,
                        out <- sent
AsyncPathIsFifo == P!PSpec

ProducerStops == (cpc = "join") ~> (ppc = "none" \/ ~Running)

\* notify() returns: every started worker signals and the caller wakes.
NotifyCompletes == (cpc \in NotifyStates) ~> (cpc = "idle" \/ ~Running)

-----------------------------------------------------------------------------
(* What the spec and the code's comments say, which the code does not do. *)

\* main(): "these destructors shutdown everything gracefully"; spec §4.5:
\* stop() joins every worker and reconfiguration is stop-then-start.  No
\* std::thread is ever destroyed or overwritten while joinable.
GracefulShutdown == exitState # "terminate_joinable"

\* Spec §4.5/§7: malformed input during a single request is caught and
\* answered with an error response, never ending the worker.
RequestErrorsContained == exitState # "terminate_uncaught"

\* server.hpp: moduleAsyncBuffer is the loaded module's buffer; the async
\* worker never uses the buffer of a module that was deleted.
NoUseAfterFree == exitState # "use_after_free"

\* Spec §4.2(b): a thread blocked in push_wait is released as soon as the
\* new-items counter reaches the threshold.
PromptRelease == awPc = "blocked" => ~QB!PushWaitPred

=============================================================================
