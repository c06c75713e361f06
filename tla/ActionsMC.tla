----------------------------- MODULE ActionsMC -----------------------------
(***************************************************************************)
(* Enumerates every list of at most MaxLen actions (repetitions included) *)
(* that a pack<...>() instantiation can name, and compares pack/check with *)
(* the set of actions the list names.                                      *)
(***************************************************************************)
EXTENDS Actions, Functions

CONSTANT MaxLen

VARIABLE acts

Init == acts = <<>>

AddAction == Len(acts) < MaxLen /\ \E a \in ActionNames : acts' = Append(acts, a)

\* The enumeration is complete for this list.
Done == Len(acts) = MaxLen /\ UNCHANGED acts

Next == AddAction \/ Done

Spec == Init /\ [][Next]_acts

\* For every non-empty list of distinct actions, check() on the packed mask
\* answers exactly membership in the list: no action is lost by the XOR fold
\* and no absent action is reported by the AND-and-shift test (actions.hpp).
PackCheckAgree ==
    (acts # <<>> /\ IsInjective(acts)) =>
        \A a \in ActionNames : check(a, pack(acts)) = (a \in Range(acts))

=============================================================================
