--------------------------- MODULE WorkbenchRunner ----------------------------
(***************************************************************************)
(* The test runner a workbench command starts: Run of internal/exec and    *)
(* ParseRunReport of internal/ingest.                                      *)
(*                                                                         *)
(* The runner writes its report to the standard output, may start          *)
(* processes that inherit it, and is killed at the deadline.  Run returns  *)
(* once the runner is gone and nobody holds its output any more; the       *)
(* command has no WaitDelay, so a descendant can hold Run past the         *)
(* deadline.                                                               *)
(***************************************************************************)
EXTENDS Naturals

CONSTANT Commands   (* bound: the commands that are run, one process each   *)

VARIABLE runner     (* runner[c]: the runner that command c started         *)

Outputs == {"none", "part", "report"}

NoRunner == [alive |-> FALSE, held |-> FALSE, late |-> FALSE, output |-> "none"]

RunnerInit == runner = [c \in Commands |-> NoRunner]

StartRunner(c) == runner' = [runner EXCEPT ![c] = [NoRunner EXCEPT !.alive = TRUE]]

(* The report comes piece by piece; of one beyond the cap of the buffer    *)
(* only the beginning is kept, and what is printed after it spoils it.     *)
Prints(c) ==
    /\ runner[c].alive \/ runner[c].held
    /\ \E out \in {"part", "report"} :
        /\ runner[c].output = "report" => out = "part"
        /\ runner' = [runner EXCEPT ![c].output = out]

Forks(c) == runner[c].alive /\ ~runner[c].held /\ runner' = [runner EXCEPT ![c].held = TRUE]

Exits(c) == runner[c].alive /\ runner' = [runner EXCEPT ![c].alive = FALSE]

DescendantExits(c) == runner[c].held /\ runner' = [runner EXCEPT ![c].held = FALSE]

(* The deadline of the context: the runner, not its descendants, is killed. *)
DeadlinePasses(c) ==
    /\ (runner[c].alive \/ runner[c].held) /\ ~runner[c].late
    /\ runner' = [runner EXCEPT ![c].alive = FALSE, ![c].late = TRUE]

RunnerStep(c) == Prints(c) \/ Forks(c) \/ Exits(c) \/ DescendantExits(c) \/ DeadlinePasses(c)

RunReturns(c) == ~runner[c].alive /\ ~runner[c].held

(* Mutant: only the status of the runner decides, and a killed runner's    *)
(* output is used as if it had finished.                                   *)
ReadableOutput(c) == runner[c].output = "report"

(* A run past its deadline is an error, whatever its output; any exit code *)
(* is not, if the report can be parsed.                                    *)
Readable(c) == ~runner[c].late /\ runner[c].output = "report"
=============================================================================
