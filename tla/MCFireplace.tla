---------------------------- MODULE MCFireplace ----------------------------
(***************************************************************************)
(* The two modules the repository registers: brazil (PUSH, WAIT: sync and *)
(* async workers, a unit thread) and trabea (REQUEST, PUSH: sync only).   *)
(***************************************************************************)
EXTENDS Fireplace

CONSTANTS brazil, trabea

MCModules == {brazil, trabea}

\* brazil's units (trx_circuit, bobwire_circuit) derive from itrx_proc_unit.
MCTrxModules == {brazil}

\* brazil.cpp: pack<PUSH, WAIT>(); trabea.cpp: pack<REQUEST, PUSH>().
MCModuleActions ==
    [m \in MCModules |-> IF m = brazil THEN <<"PUSH", "WAIT">>
                                       ELSE <<"REQUEST", "PUSH">>]

=============================================================================
