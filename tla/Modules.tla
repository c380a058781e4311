------------------------------- MODULE Modules -------------------------------
(***************************************************************************)
(* The ModulesHandler (hyle-modules/src/modules/mod.rs) of one process: it *)
(* starts the modules, each in a task of its own with a supervisor, waits  *)
(* for one of them to end or for a signal, and then stops the others in    *)
(* reverse order, one at a time, over the message bus.                     *)
(*                                                                         *)
(* The bus is a broadcast channel: a message reaches the clients that      *)
(* exist when it is sent. Each shutdown loop makes its own client.         *)
(***************************************************************************)
EXTENDS Integers, Sequences, FiniteSets

CONSTANT ModuleOrder     \* the long-running modules, in the order they are built

ModuleNames == {ModuleOrder[i] : i \in DOMAIN ModuleOrder}

ASSUME ModulesAssumption ==
    /\ ModuleOrder \in Seq(STRING) /\ Len(ModuleOrder) > 1
    /\ Cardinality(ModuleNames) = Len(ModuleOrder)

VARIABLES
    phase,      \* "watch": in the first shutdown_loop; "between": the first module told to
                \*   stop, the second loop not yet listening; "loop": in it; "gone": no process
    started,    \* started_modules
    shut,       \* shut_modules
    inbox,      \* the ShutdownCompleted messages the loop's client has not read
    mod,        \* per module: "running", "told" to stop, "late" (its supervisor has given
                \*   it up) or "done"
    unheard     \* a ShutdownCompleted was sent while no loop listened, or dropped with the loop's client

hvars == <<phase, started, shut, inbox, mod, unheard>>

Alive(m) == phase # "gone" /\ mod[m] # "done"

start_modules ==
    /\ phase' = "watch" /\ started' = ModuleOrder /\ shut' = {} /\ inbox' = <<>>
    /\ mod' = [m \in ModuleNames |-> "running"] /\ unheard' = FALSE

\* The end of a module's task, or its supervisor giving it up.
ShutdownCompleted(m) ==
    /\ inbox' = IF phase \in {"watch", "loop"} THEN Append(inbox, m) ELSE inbox
    /\ unheard' = (unheard \/ phase = "between")
    /\ UNCHANGED <<phase, started, shut>>

\* The module's loop receives its ShutdownModule, breaks and returns.
Stop(m) ==
    \/ phase # "gone" /\ mod[m] = "told" /\ mod' = [mod EXCEPT ![m] = "done"] /\ ShutdownCompleted(m)
    \/ phase # "gone" /\ mod[m] = "late" /\ mod' = [mod EXCEPT ![m] = "done"]
       /\ UNCHANGED <<phase, started, shut, inbox, unheard>>

\* A module returns an error or panics.
Fail(m) ==
    phase # "gone" /\ mod[m] = "running" /\ mod' = [mod EXCEPT ![m] = "done"] /\ ShutdownCompleted(m)

\* MODULE_SHUTDOWN_TIMEOUT: the supervisor stops waiting; the module's task is only detached.
ShutdownTimeout(m) ==
    phase # "gone" /\ mod[m] = "told" /\ mod' = [mod EXCEPT ![m] = "late"] /\ ShutdownCompleted(m)

\* Mutant of shutdown_next_module: stops the modules in the order they were started.
shutdown_next_module_forward(list, gone) ==
    IF list = <<>> THEN started' = list /\ mod' = mod
    ELSE LET m == Head(list) IN
         /\ started' = Tail(list)
         /\ mod' = IF m \notin gone /\ mod[m] = "running" THEN [mod EXCEPT ![m] = "told"] ELSE mod

\* Takes the last of the modules in list; tells it to stop unless it is known to have ended.
shutdown_next_module(list, gone) ==
    IF list = <<>> THEN started' = list /\ mod' = mod
    ELSE LET m == list[Len(list)] IN
         /\ started' = SubSeq(list, 1, Len(list) - 1)
         /\ mod' = IF m \notin gone /\ mod[m] = "running" THEN [mod EXCEPT ![m] = "told"] ELSE mod

\* Mutant of shutdown_loop: ends when the last module has been told to stop.
shutdown_loop_hasty ==
    /\ phase \in {"watch", "loop"} /\ inbox # <<>>
    /\ inbox' = Tail(inbox)
    /\ LET m == Head(inbox)
           rest == SelectSeq(started, LAMBDA x : x # m)
       IN  IF m \in shut THEN UNCHANGED <<phase, started, shut, mod>>
           ELSE /\ shut' = shut \cup {m}
                /\ phase' = IF Len(rest) <= 1 THEN "gone" ELSE phase
                /\ shutdown_next_module(rest, shut')
    /\ UNCHANGED unheard

\* Mutant of shutdown_loop: a module's end does not stop the next one.
shutdown_loop_unchained ==
    /\ phase \in {"watch", "loop"} /\ inbox # <<>>
    /\ inbox' = Tail(inbox)
    /\ LET m == Head(inbox)
           rest == SelectSeq(started, LAMBDA x : x # m)
       IN  IF m \in shut THEN UNCHANGED <<phase, started, shut>>
           ELSE /\ started' = rest
                /\ shut' = shut
                /\ phase' = IF rest = <<>> THEN "gone" ELSE phase
    /\ UNCHANGED <<unheard, mod>>

\* shutdown_loop reads a ShutdownCompleted. It ends with the last module; exit_process
\* then finds nothing to stop.
shutdown_loop ==
    /\ phase \in {"watch", "loop"} /\ inbox # <<>>
    /\ inbox' = Tail(inbox)
    /\ LET m == Head(inbox)
           rest == SelectSeq(started, LAMBDA x : x # m)
       IN  IF m \in shut THEN UNCHANGED <<phase, started, shut, mod>>
           ELSE /\ shut' = shut \cup {m}
                /\ IF rest = <<>> THEN phase' = "gone" /\ started' = rest /\ mod' = mod
                   ELSE phase' = phase /\ shutdown_next_module(rest, shut')
    /\ UNCHANGED unheard

\* One second after the supervisor of a module told to stop must have given it up.
LoopTick ==
    /\ phase \in {"watch", "loop"} /\ inbox = <<>> /\ shut # {} /\ started # <<>>
    /\ \A m \in ModuleNames : mod[m] # "told"
    /\ shutdown_next_module(started, shut)
    /\ UNCHANGED <<phase, shut, inbox, unheard>>

\* exit_process, on SIGINT or SIGTERM: drops the first loop with its client, and
\* shutdown_modules tells the last module to stop.
Signal ==
    /\ phase = "watch"
    /\ phase' = "between" /\ inbox' = <<>>
    /\ unheard' = (unheard \/ inbox # <<>>)
    /\ shutdown_next_module(started, shut)
    /\ UNCHANGED shut

\* The second shutdown_loop returns at once or makes its client.
Listen ==
    /\ phase = "between"
    /\ phase' = IF started = <<>> THEN "gone" ELSE "loop"
    /\ UNCHANGED <<started, shut, inbox, mod, unheard>>
=============================================================================
