------------------------------- MODULE Pipe --------------------------------
(***************************************************************************)
(* What the asynchronous path promises (spec §5: "queue items are         *)
(* delivered to the network in push order"): a lossy FIFO pipe.  Items   *)
(* are numbered in the order the producer creates them; an item in the    *)
(* pipe is either delivered, after every earlier item that is delivered,  *)
(* or lost.  Nothing is delivered twice and nothing is invented.          *)
(***************************************************************************)
EXTENDS Naturals, Sequences

CONSTANT MaxItems

VARIABLES produced,  \* how many items were put into the pipe
          pipe,      \* items put and neither delivered nor lost, oldest first
          out        \* items delivered to the client, in delivery order

pvars == <<produced, pipe, out>>

PInit == produced = 0 /\ pipe = <<>> /\ out = <<>>

Put ==
    /\ produced < MaxItems
    /\ produced' = produced + 1
    /\ pipe' = Append(pipe, produced + 1)
    /\ UNCHANGED out

Deliver ==
    /\ pipe # <<>>
    /\ out' = Append(out, Head(pipe))
    /\ pipe' = Tail(pipe)
    /\ UNCHANGED produced

\* A contiguous run of items is lost (a failed send, a destroyed buffer).
Lose ==
    \E i \in 1..Len(pipe), j \in 1..Len(pipe) :
        /\ i <= j
        /\ pipe' = SubSeq(pipe, 1, i - 1) \o SubSeq(pipe, j + 1, Len(pipe))
        /\ UNCHANGED <<produced, out>>

PNext == Put \/ Deliver \/ Lose

PSpec == PInit /\ [][PNext]_pvars

=============================================================================
