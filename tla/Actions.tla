------------------------------ MODULE Actions ------------------------------
(***************************************************************************)
(* The capability model of src/actions.hpp: the four actions are distinct *)
(* powers of two, pack() folds a list of actions with XOR, and check()    *)
(* tests a mask with AND followed by a right shift by log2 of the action,  *)
(* converted to bool.                                                      *)
(***************************************************************************)
EXTENDS Naturals, Sequences, Bitwise

\* The enum _actions_list_e: PUSH = 1, WAIT = 2, REQUEST = 4, REPLY = 8.
ActionValue == [PUSH |-> 1, WAIT |-> 2, REQUEST |-> 4, REPLY |-> 8]

ActionNames == DOMAIN ActionValue

\* pack<First, Second, Rest...>() = pack<First>() ^ pack<Second, Rest...>(),
\* pack<Last>() = the underlying value of Last.
RECURSIVE pack(_)
pack(list) ==
    IF Len(list) = 1
    THEN ActionValue[Head(list)]
    ELSE ActionValue[Head(list)] ^^ pack(Tail(list))

\* (std::size_t)(log(q)/log(2)): exact for the four powers of two.
RECURSIVE log2(_)
log2(n) == IF n <= 1 THEN 0 ELSE 1 + log2(n \div 2)

\* Mutant: the mask is shifted without the AND.
check_no_mask(query, list) ==
    shiftR(list, log2(ActionValue[query])) # 0

\* check<Query>(List): (List & Query) >> log2(Query), returned as bool.
check(query, list) ==
    shiftR(list & ActionValue[query], log2(ActionValue[query])) # 0

\* str_map(): the wire names of the actions; any other string throws
\* runtime_error, returned here as "throws".
StrMap == [request |-> "REQUEST", reply |-> "REPLY", wait |-> "WAIT", push |-> "PUSH"]

str_map(str) == IF str \in DOMAIN StrMap THEN StrMap[str] ELSE "throws"

=============================================================================
