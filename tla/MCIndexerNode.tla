---------------------------- MODULE MCIndexerNode ----------------------------
(* A small instance of IndexerNode for TLC. *)
EXTENDS IndexerNode

\* The order of common_main: the listener is built last and stopped first.
MCModuleOrder == <<"Indexer", "CSI", "DAListener">>

MCBounds ==
    {[blocks |-> 4, faults |-> 0], [blocks |-> 3, faults |-> 1], [blocks |-> 2, faults |-> 2]}
=============================================================================
