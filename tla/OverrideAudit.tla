---------------------------- MODULE OverrideAudit -----------------------------
(***************************************************************************)
(* How a test suite is normalized and audited against override rules:      *)
(* internal/model/testsuite.go and internal/model/overriderule.go, without *)
(* state.                                                                  *)
(*                                                                         *)
(* A case is a record with id (n for tc-n, 0 for none), method, scenario,  *)
(* path (its segments, each after a slash), status and empty (the expected *)
(* outcome), links (requirement ids) and cites (rule references).  A rule  *)
(* is a record with ref, when (its condition: methods, scenario, path) and *)
(* kind, expect (its action).  An absent condition is {} or "any".         *)
(***************************************************************************)
EXTENDS Integers, Sequences, SequencesExt, FiniteSets, FiniteSetsExt

IsCase(c) ==
    /\ c = [id |-> c.id, method |-> c.method, scenario |-> c.scenario, path |-> c.path,
            status |-> c.status, empty |-> c.empty, links |-> c.links, cites |-> c.cites]
    /\ c.id \in Nat

-----------------------------------------------------------------------------
(* Normalize.                                                              *)

StatusCodes == 100..599

(* TestCase.normalize, for what is not a matter of spelling.               *)
ValidCase(c) == c.status \in StatusCodes /\ c.path # <<>>

GivenIds(cases) == {cases[i].id : i \in DOMAIN cases} \ {0}

(* A suite is refused for a case that is not valid and for an id given     *)
(* twice.                                                                  *)
Normalizable(cases) ==
    /\ \A i \in DOMAIN cases : ValidCase(cases[i])
    /\ \A i, j \in DOMAIN cases : cases[i].id = cases[j].id /\ i # j => cases[i].id = 0

(* Cases without an id take, one after the other, the numbers of the       *)
(* sequence tc-001, tc-002, ... that no case has.                          *)
NthFree(cases, k) ==
    Min({n \in 1..(2 * Len(cases)) : Cardinality((1..n) \ GivenIds(cases)) >= k})

AssignIds(cases) ==
    LET turn(i) == Cardinality({j \in 1..i : cases[j].id = 0})
    IN [i \in DOMAIN cases |->
            IF cases[i].id # 0 THEN cases[i]
            ELSE [cases[i] EXCEPT !.id = NthFree(cases, turn(i))]]

-----------------------------------------------------------------------------
(* Conditions and actions.                                                 *)

(* matchPath.  `*` is one segment; `**` cuts the pattern in two literal    *)
(* parts: what comes before it, slash included, must begin the path, and   *)
(* what comes after it must end it.                                        *)
MatchPath(pattern, path) ==
    LET cut == SelectInSeq(pattern, LAMBDA s : s = "**") IN
    IF cut = 0
    THEN /\ Len(path) = Len(pattern)
         /\ \A i \in DOMAIN pattern : pattern[i] \in {"*", path[i]}
    ELSE /\ IsStrictPrefix(SubSeq(pattern, 1, cut - 1), path)
         /\ IsSuffix(SubSeq(pattern, cut + 1, Len(pattern)), path)

(* Every populated field must match; spec_status documents and is not      *)
(* compared.                                                               *)
Matches(when, c) ==
    /\ when.methods # {} => c.method \in when.methods
    /\ when.scenario # "any" => c.scenario = when.scenario
    /\ when.path # <<>> => MatchPath(when.path, c.path)

(* OverrideAction.normalize: what a stored rule's action may be.           *)
ValidAction(kind, expect) ==
    CASE kind = "expect-status" -> expect \in StatusCodes
      [] kind = "skip-test" -> expect = 0
      [] kind = "expect-empty-collection" -> expect = 0 \/ expect \in 200..299

(* The status an action requires; 200 is the default of an empty           *)
(* collection.                                                             *)
RequiredStatus(rule) ==
    IF rule.kind = "expect-empty-collection" /\ rule.expect = 0 THEN 200 ELSE rule.expect

Satisfied(rule, c) ==
    /\ rule.kind # "skip-test"
    /\ c.status = RequiredStatus(rule)
    /\ rule.kind = "expect-empty-collection" => c.empty

-----------------------------------------------------------------------------
(* ApplyOverrideRules.                                                     *)

Governing(c, rules) == {r \in rules : Matches(r.when, c)}
Refs(rules) == {r.ref : r \in rules}

(* The citations the audit adds to a case.                                 *)
Followed(c, rules) == Refs({r \in Governing(c, rules) : Satisfied(r, c)})

(* Mutant: a case that cites a rule is taken to follow it.                 *)
FindingsTrustingCitations(c, rules) ==
    LET found(kind, refs) == {[kind |-> kind, case |-> c.id, ref |-> f] : f \in refs}
        skipped == {r \in Governing(c, rules) : r.kind = "skip-test"}
    IN  found("unknown-rule", c.cites \ Refs(rules))
        \cup found("forbidden", Refs(skipped))
        \cup found("annotated", Followed(c, rules) \ c.cites)
        \cup found("violated", (Refs(Governing(c, rules) \ skipped) \ Followed(c, rules)) \ c.cites)

Findings(c, rules) ==
    LET found(kind, refs) == {[kind |-> kind, case |-> c.id, ref |-> f] : f \in refs}
        skipped == {r \in Governing(c, rules) : r.kind = "skip-test"}
    IN  found("unknown-rule", c.cites \ Refs(rules))
        \cup found("forbidden", Refs(skipped))
        \cup found("annotated", Followed(c, rules) \ c.cites)
        \cup found("violated", Refs(Governing(c, rules) \ skipped) \ Followed(c, rules))

Problems(findings) == {f \in findings : f.kind # "annotated"}

(* The audited suite: its annotated cases, the findings, and the reasons   *)
(* that make it incomplete.  An earlier flag is recomputed.                *)
ApplyOverrideRules(cases, rules) ==
    LET findings == UNION {Findings(cases[i], rules) : i \in DOMAIN cases}
        unlinked == {cases[i].id : i \in {j \in DOMAIN cases : cases[j].links = {}}}
    IN [cases |-> [i \in DOMAIN cases |->
                      [cases[i] EXCEPT !.cites = @ \cup Followed(cases[i], rules)]],
        findings |-> findings,
        incomplete |-> cases = <<>> \/ unlinked # {} \/ Problems(findings) # {}]

(* flagUnknownRequirements: a case linked to what is neither the id nor    *)
(* the reference of an active requirement of the project.                  *)
DanglingLinks(cases, known) ==
    {i \in DOMAIN cases : ~(cases[i].links \subseteq known)}
=============================================================================
