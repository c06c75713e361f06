----------------------------- MODULE BufferItem -----------------------------
(***************************************************************************)
(* Ownership of heap memory by buffer::buffer_item and its member         *)
(* buffer::parameters (buffer_item.hpp, buffer_item.cpp).                  *)
(*                                                                         *)
(* An item copies its payload into a new[] block and may own a parameter  *)
(* list handed to it as an rvalue pointer with isAllocated = true.  Items *)
(* cannot be copied, only moved: a move steals the pointers and zeroes    *)
(* them in the source.  The objects are a small set of slots (a local, a  *)
(* queue element, the heap object the async worker hands to zmq); a call  *)
(* on the class is one step.  Heap blocks are numbered in allocation      *)
(* order, and freed counts how often each was passed to delete[].         *)
(***************************************************************************)
EXTENDS Naturals

CONSTANTS
    Slots,      \* the buffer_item objects
    MaxAllocs   \* bound: new[] calls

Blocks == 1..MaxAllocs
Null == 0

\* A parameters object: _parameters, _size, _isAllocated.
NoParams == [list |-> Null, size |-> 0, isAllocated |-> FALSE]

\* A slot holding no object.
Dead == [live |-> FALSE, data |-> Null, size |-> 0, params |-> NoParams]

VARIABLES
    item,    \* item[s]: the object in slot s and its members
    nalloc,  \* blocks 1..nalloc have been returned by new[]
    freed    \* freed[b]: how often block b was passed to delete[]

biVars == <<item, nalloc, freed>>

BIInit ==
    /\ item = [s \in Slots |-> Dead]
    /\ nalloc = 0
    /\ freed = [b \in Blocks |-> 0]

\* The blocks an object refers to and would delete[]: its payload, and its
\* parameter list when _isAllocated.
Owned(o) ==
    ({o.data} \cup (IF o.params.isAllocated THEN {o.params.list} ELSE {}))
        \ {Null}

\* parameters(parameters&&) and operator=(parameters&&): take the
\* pointer, size and flag, and clear them in the source.
params_moved(p) == p
params_cleared(p) == NoParams

\* ~parameters: delete[] the entries and the list when allocated.
params_released(p) ==
    IF p.isAllocated /\ p.list # Null THEN {p.list} ELSE {}

\* delete[] of every block in bs.
Delete(bs) == [b \in Blocks |-> IF b \in bs THEN freed[b] + 1 ELSE freed[b]]

\* buffer_item(data, size, parameterList, count, isAllocated): the payload
\* is copied into a new block only when data != 0 && size != 0; _size is
\* the argument either way.  The callers pass a zmq message's data and
\* size (non-null whenever the size is non-zero) and either no parameter
\* list or one new[]'d for the item (isAllocated = true, count 1).
buffer_item(s, hasData, n, withParams) ==
    LET copies == hasData /\ n # 0
        need   == (IF copies THEN 1 ELSE 0) + (IF withParams THEN 1 ELSE 0)
        dataB  == IF copies THEN nalloc + 1 ELSE Null
        listB  == IF withParams THEN nalloc + need ELSE Null
    IN
    /\ ~item[s].live
    /\ hasData \/ n = 0
    /\ nalloc + need <= MaxAllocs
    /\ item' = [item EXCEPT ![s] =
                  [live |-> TRUE, data |-> dataB, size |-> n,
                   params |-> IF withParams
                              THEN [list |-> listB, size |-> 1, isAllocated |-> TRUE]
                              ELSE NoParams]]
    /\ nalloc' = nalloc + need
    /\ UNCHANGED freed

\* Mutant: operator= does not zero the source's _data.
move_assign_keeps_data(s, t) ==
    /\ item[s].live /\ item[t].live
    /\ LET src == item[t] IN
       item' = [item EXCEPT
                  ![s] = [live |-> TRUE, data |-> src.data, size |-> src.size,
                          params |-> params_moved(src.params)],
                  ![t] = [@ EXCEPT !.size = 0, !.params = params_cleared(@)]]
    /\ UNCHANGED <<nalloc, freed>>

\* buffer_item(buffer_item&&): a new object in s from the live item in t
\* (queue.push(std::move(item)), new buffer_item(std::move(tempRef))).
buffer_item_move(s, t) ==
    /\ ~item[s].live /\ item[t].live /\ s # t
    /\ item' = [item EXCEPT
                  ![s] = [live |-> TRUE, data |-> item[t].data, size |-> item[t].size,
                          params |-> params_moved(item[t].params)],
                  ![t] = [@ EXCEPT !.data = Null, !.size = 0,
                                   !.params = params_cleared(@)]]
    /\ UNCHANGED <<nalloc, freed>>

\* operator=(buffer_item&&) on the live item in s from the live item in t,
\* statement by statement: _data = item._data; item._data = 0; _size =
\* item._size; item._size = 0; _parameters = std::move(item._parameters).
\* Neither operator= releases what the target owned, and s = t is allowed.
move_assign(s, t) ==
    /\ item[s].live /\ item[t].live
    /\ LET d1 == item[t].data
           i1 == [item EXCEPT ![s].data = d1]
           i2 == [i1 EXCEPT ![t].data = Null]
           z1 == i2[t].size
           i3 == [i2 EXCEPT ![s].size = z1]
           i4 == [i3 EXCEPT ![t].size = 0]
           p1 == i4[t].params
           i5 == [i4 EXCEPT ![s].params = params_moved(p1)]
       IN item' = [i5 EXCEPT ![t].params = params_cleared(p1)]
    /\ UNCHANGED <<nalloc, freed>>

\* ~buffer_item: delete[] _data when non-null, then ~parameters.
destroy(s) ==
    /\ item[s].live
    /\ freed' = Delete((IF item[s].data # Null THEN {item[s].data} ELSE {})
                         \cup params_released(item[s].params))
    /\ item' = [item EXCEPT ![s] = Dead]
    /\ UNCHANGED nalloc

BINext ==
    \/ \E s \in Slots, hasData, withParams \in BOOLEAN, n \in 0..1 :
          buffer_item(s, hasData, n, withParams)
    \/ \E s, t \in Slots : buffer_item_move(s, t) \/ move_assign(s, t)
    \/ \E s \in Slots : destroy(s)

BISpec == BIInit /\ [][BINext]_biVars

-----------------------------------------------------------------------------
\* Moves keep the heap sound: no block is owned by two live items, no live
\* item refers to a freed block, and no block is passed to delete[] twice,
\* whatever sequence of constructions, moves, move assignments (self
\* assignment included) and destructions the items go through.
HeapSafe ==
    /\ \A s, t \in Slots : s # t => Owned(item[s]) \cap Owned(item[t]) = {}
    /\ \A s \in Slots : \A b \in Owned(item[s]) : freed[b] = 0
    /\ \A b \in Blocks : freed[b] <= 1
=============================================================================
