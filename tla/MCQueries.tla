------------------------------ MODULE MCQueries -------------------------------
(***************************************************************************)
(* Small inputs for Queries.                                               *)
(***************************************************************************)
EXTENDS Queries

(* Local requirements, ones imported by an older version (local id, spec   *)
(* reference) and one with the reference as its id.                        *)
Imported == <<"008-a", "FR-001">>
MCRequirements ==
    {[id |-> x[1], ref |-> x[2], source |-> x[3], active |-> a] : a \in BOOLEAN, x \in
        {<<"req-001", "req-001", <<>>>>, <<"req-002", "req-002", <<>>>>,
         <<"req-001", "008-FR-001", Imported>>, <<"req-002", "008-FR-001", Imported>>,
         <<"008-FR-001", "008-FR-001", Imported>>}}
MCTraceInputs ==
    [requirements : {s \in SeqOf(MCRequirements, 2) : Len(s) = 2 => s[1].id # s[2].id},
     cases : [1..2 -> SUBSET {"req-001", "008-FR-001", "req-009"}],
     docs : {<<[ids |-> {}, entries |-> {"FR-001"}, feature |-> "008-a"]>>,
             <<[ids |-> {"req-002"}, entries |-> {}, feature |-> "008-b"]>>}]

MCParams == {Unset, [temperature |-> "mid"], [top_p |-> "mid"], [top_p |-> "wild"]}
MCEntries ==
    [model : {"m", "*"}, defaults : MCParams,
     presets : {Unset} \cup {[review |-> p] : p \in {[temperature |-> "high"], [top_p |-> "high"],
                                                     [temperature |-> "wild"]}}]
MCParamInputs ==
    [entries : SeqOf(MCEntries, 2),
     selector : [provider : {"ollama", "azure"}, model : {"m", "*"},
                 preset : {"none", "review"}],
     overrides : {Unset, [temperature |-> "mine"], [top_p |-> "wild"]}]

Line(kind, id) == [kind |-> kind, id |-> id]
SpecLines ==
    {Line("backticks", ""), Line("tildes", ""), Line("entry", "FR-1"), Line("entry", "FR-2"),
     Line("indented", ""), Line("empty", ""), Line("text", "")}
ScenarioLines ==
    {Line("backticks", ""), Line("tildes", ""), Line("---", ""), Line("fr", "FR-1"),
     Line("covers", "FR-1"), Line("covers", "FR-2"), Line("indented", "FR-2")}
MCDocuments == [1..6 -> SpecLines] \cup [1..6 -> ScenarioLines]

MCBodies == {<<Text("Review"), Variable("topic")>>, <<Variable("lang")>>, <<Text("Review"), Variable("lang")>>}
MCValues == [lang |-> ""]
=============================================================================
