---------------------------- MODULE QueueBuffer ----------------------------
(***************************************************************************)
(* buffer::queue_buffer (src/buffer/queue_buffer.{hpp,cpp}): a FIFO under *)
(* one mutex, with a "push wait" threshold mode.  Every operation holds    *)
(* queueMutex for its whole body, so each is one atomic step here; the    *)
(* only point where the mutex is released inside an operation is the      *)
(* condition-variable wait of push_wait(), which the caller models as a   *)
(* blocked state between PushWaitEnter and PushWaitWake.                  *)
(*                                                                         *)
(* The operators are action fragments over the buffer's own variables;    *)
(* the thread that calls them owns the rest of the step.                  *)
(***************************************************************************)
EXTENDS Naturals, Sequences

VARIABLES queue,             \* std::queue<buffer_item> queue
          pushWaitEnabled,   \* bool pushWaitEnabled
          pushWaitNew,       \* std::size_t pushWaitNew
          pushWaitThreshold  \* std::size_t pushWaitThreshold

qvars == <<queue, pushWaitEnabled, pushWaitNew, pushWaitThreshold>>

\* queue_buffer::queue_buffer(): a freshly constructed, empty buffer.
QInit ==
    /\ queue = <<>>
    /\ pushWaitEnabled = FALSE
    /\ pushWaitNew = 0
    /\ pushWaitThreshold = 0

\* The same, as the next state: the buffer of a newly constructed module.
QConstruct ==
    /\ queue' = <<>>
    /\ pushWaitEnabled' = FALSE
    /\ pushWaitNew' = 0
    /\ pushWaitThreshold' = 0

\* set_push_wait_threshold(n).
set_push_wait_threshold(n) ==
    /\ pushWaitEnabled' = TRUE
    /\ pushWaitThreshold' = n
    /\ UNCHANGED <<queue, pushWaitNew>>

\* push(item): append, and count the item toward the threshold when the
\* mode is enabled (++pushWaitNew).  The notify_all() that follows is on
\* pushWaitCV, on which no thread ever waits (push_wait waits on pushCV),
\* so it changes nothing.
push(item) ==
    /\ queue' = Append(queue, item)
    /\ pushWaitNew' = IF pushWaitEnabled THEN pushWaitNew + 1 ELSE pushWaitNew
    /\ UNCHANGED <<pushWaitEnabled, pushWaitThreshold>>

\* Mutant: the contents are copied out instead of swapped.
pop_all_copy ==
    UNCHANGED <<queue, pushWaitEnabled, pushWaitNew, pushWaitThreshold>>

\* pop_all(): swap the contents out; the caller receives the old queue.
pop_all ==
    /\ queue' = <<>>
    /\ UNCHANGED <<pushWaitEnabled, pushWaitNew, pushWaitThreshold>>

\* The predicate given to pushCV.wait_for().
PushWaitPred == pushWaitNew >= pushWaitThreshold

\* push_wait() returns at once, without blocking, when the queue already
\* holds the threshold or wait_for's predicate already holds on entry.
PushWaitReady == Len(queue) >= pushWaitThreshold \/ PushWaitPred

\* The successful return of push_wait(): pushWaitNew = 0.
PushWaitRelease ==
    /\ pushWaitNew' = 0
    /\ UNCHANGED <<queue, pushWaitEnabled, pushWaitThreshold>>

=============================================================================
