-------------------------------- MODULE Queries -------------------------------
(***************************************************************************)
(* The pure computations, each asked for every small input: traceability   *)
(* and coverage, model parameters, documents read line by line, and the    *)
(* cues of a growing cue store.                                            *)
(***************************************************************************)
EXTENDS Traceability, ModelParams, SpecDocuments, CueStore

CONSTANTS
    TraceInputs,    (* [requirements, cases, docs]                          *)
    ParamInputs,    (* [entries, selector, overrides]                       *)
    Documents,      (* sequences of lines                                   *)
    CueIds,         (* ids that are asked for in CreateCue, "" for a new one *)
    Values          (* the variables given for a prompt                     *)

(* Requirements come in a sequence, and none has the id that stands for no *)
(* requirement; a document is a sequence of lines.                         *)
ASSUME TraceAssumption ==
    \A input \in TraceInputs :
        /\ input.requirements \in Seq(ToSet(input.requirements))
        /\ \A r \in ToSet(input.requirements) : r.id # "none"
ASSUME DocumentsAssumption == \A lines \in Documents : lines \in Seq(ToSet(lines))

VARIABLE asked      (* the question                                         *)

vars == <<cueVars, asked>>

QueriesInit == CueInit /\ asked \in {[topic |-> "none"], [topic |-> "cues"]}

Ask(topic, input) == asked' = [topic |-> topic, input |-> input]

(* A registry that does not load answers nothing.                          *)
AskAnything ==
    \/ \E input \in TraceInputs : Ask("traceability", input)
    \/ \E input \in ParamInputs :
        NewRegistry(input.entries) /\ Resolvable(input.entries, input.selector) /\ Ask("params", input)
    \/ \E lines \in Documents : Ask("document", lines)

QueriesNext ==
    \/ asked.topic = "none" /\ AskAnything /\ UNCHANGED cueVars
    \/ /\ asked.topic = "cues" /\ UNCHANGED asked
       /\ CreateNote \/ \E id \in CueIds, name \in CueNames, body \in Bodies : CreateCue(id, name, body)

QueriesSpec == QueriesInit /\ [][QueriesNext]_vars

-----------------------------------------------------------------------------
(* The rollup and the requirements' own pages agree on what is covered,    *)
(* and no citation of a requirement that is there is lost.                 *)
RollupAgrees ==
    asked.topic = "traceability" =>
        /\ CoverageAgrees(asked.input.requirements, asked.input.cases, asked.input.docs)
        /\ CitationsFollowed(asked.input.requirements, asked.input.cases, asked.input.docs)

(* Each parameter comes from the latest source that sets it, and only a    *)
(* caller's override may be out of range.                                  *)
ParamsLayered ==
    asked.topic = "params" =>
        /\ LaterSourcesWin(asked.input.entries, asked.input.selector, asked.input.overrides)
        /\ OnlyOverridesWild(asked.input.entries, asked.input.selector, asked.input.overrides)

(* Examples in code blocks are neither requirements nor citations, and     *)
(* citations come from the field that counts where they stand.             *)
ExamplesIgnored ==
    asked.topic = "document" => CodeBlocksIgnored(asked.input) /\ CitationsInPlace(asked.input)

(* A reference finds one cue, and each variable of its prompt has a value. *)
PromptsComplete == CuesResolve /\ PromptsWhole(Values)
=============================================================================
