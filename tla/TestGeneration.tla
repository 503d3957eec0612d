---------------------------- MODULE TestGeneration ----------------------------
(***************************************************************************)
(* Generating and importing the versions of a test suite:                  *)
(* internal/testgen/generator.go, over TestSuiteStore and OverrideAudit.   *)
(*                                                                         *)
(* A run reads the active requirements and then the active override rules, *)
(* each read on its own while other commands change both; asks an agent    *)
(* (Generate) or takes a document (Import); audits the cases; and saves    *)
(* them.  Requirements and rules are seen as a reader sees them: in the    *)
(* middle of an update, and after a stopped one, the current version is    *)
(* superseded (RequirementReaders and AgentDefinitionStore show why).      *)
(***************************************************************************)
EXTENDS TestSuiteStore, OverrideAudit

CONSTANTS
    Runs,        (* bound: the runs of the command                          *)
    Reqs,        (* the requirements of the project                         *)
    Reference,   (* Reference[i]: ReferenceID of a requirement, or its id   *)
    RuleIds,     (* its override rules                                      *)
    RuleText,    (* RuleText[r][v]: condition and action of a rule version  *)
    MaxVersion,  (* bound: MaxVersion[i] versions of a requirement or rule  *)
    Answers,     (* bound: what the agent may answer                        *)
    Documents    (* bound: what an author may import                        *)

ASSUME RunAssumption ==
    /\ MaxVersion \in [Reqs \cup RuleIds -> Nat \ {0}] /\ NoOne \notin Runs
    /\ \A r \in RuleIds : \A v \in 1..MaxVersion[r] :
          ValidAction(RuleText[r][v].kind, RuleText[r][v].expect)

ASSUME SuitesAssumption ==
    \A p \in Answers \cup Documents :
        /\ p.cases \in Seq({p.cases[i] : i \in DOMAIN p.cases})
        /\ \A i \in DOMAIN p.cases : IsCase(p.cases[i])

VARIABLES
    world,  (* the current version of each requirement and rule             *)
    run     (* run[g]: where the run is and what it has read                *)

vars == <<storeVars, world, run>>

Things == Reqs \cup RuleIds
NoSuiteYet == [cases |-> <<>>, caseIds |-> <<>>, origin |-> "none", incomplete |-> FALSE,
               reqs |-> {}, rules |-> {}]
NoRun == [stage |-> "idle", kind |-> "none", payload |-> NoSuiteYet, reqs |-> {}, rules |-> {},
          suite |-> NoSuiteYet, ver |-> 0, stable |-> {}]

(* stable is kept for RulesInForceHonored: the rules nobody has touched    *)
(* between the start of the run and its reading of the rules.              *)
Active(ids) == {<<i, world[i].ver>> : i \in {j \in ids : world[j].status = "active"}}
Names(pairs) == UNION {{p[1], Reference[p[1]]} : p \in pairs}
Versioned(ids) == UNION {{i} \X (1..MaxVersion[i]) : i \in ids}
Rule(ref) == [ref |-> ref, when |-> RuleText[ref[1]][ref[2]].when,
              kind |-> RuleText[ref[1]][ref[2]].kind, expect |-> RuleText[ref[1]][ref[2]].expect]
RulesOf(refs) == {Rule(f) : f \in refs}

(* What normalizing and auditing a payload gives, for each set of rules.   *)
Audits ==
    {[of |-> p, rules |-> refs, audit |-> ApplyOverrideRules(AssignIds(p.cases), RulesOf(refs))] :
        p \in Answers \cup Documents, refs \in SUBSET Versioned(RuleIds)}
Audited(payload, refs) ==
    (CHOOSE a \in Audits : a.of = payload /\ a.rules = refs).audit

GenInit ==
    /\ StoreInit
    /\ world = [i \in Things |-> [ver |-> 1, status |-> "active"]]
    /\ run = [g \in Runs |-> NoRun]

-----------------------------------------------------------------------------
(* Other commands change requirements and rules.                           *)
Becomes(i, new) ==
    /\ world' = [world EXCEPT ![i] = new]
    /\ run' = [g \in Runs |-> [run[g] EXCEPT !.stable =
                 IF run[g].stage \in {"requirements", "rules"} THEN @ \ {<<i, world[i].ver>>} ELSE @]]
    /\ UNCHANGED storeVars

BeginUpdate(i) ==
    /\ world[i].ver < MaxVersion[i] /\ world[i].status # "superseded"
    /\ Becomes(i, [world[i] EXCEPT !.status = "superseded"])

FinishUpdate(i) ==
    /\ world[i].status = "superseded"
    /\ Becomes(i, [ver |-> world[i].ver + 1, status |-> "active"])

SetStatus(i, status) ==
    /\ world[i].status \notin {status, "superseded"}
    /\ Becomes(i, [world[i] EXCEPT !.status = status])

-----------------------------------------------------------------------------
(* A run.                                                                  *)
At(g, stage) == run[g].stage = stage
Failed == [NoRun EXCEPT !.stage = "failed"]
Fails(g) == run' = [run EXCEPT ![g] = Failed] /\ UNCHANGED <<storeVars, world>>

Start(g, kind, payload) ==
    /\ At(g, "idle")
    /\ run' = [run EXCEPT ![g] = [NoRun EXCEPT !.stage = "requirements", !.kind = kind,
                                   !.payload = payload, !.stable = Active(RuleIds)]]
    /\ UNCHANGED <<storeVars, world>>

(* The project is resolved and the agent definition loaded.                *)
Generate(g) == Start(g, "generated", NoSuiteYet)

(* A document is decoded and normalized before anything else is read.      *)
Import(g, payload) == Normalizable(payload.cases) /\ Start(g, "imported", payload)

(* currentRequirements; Generate insists on one.                           *)
ReadRequirements(g) ==
    /\ At(g, "requirements")
    /\ run' = [run EXCEPT ![g] =
         IF run[g].kind = "generated" /\ Active(Reqs) = {} THEN Failed
         ELSE [@ EXCEPT !.reqs = Active(Reqs), !.stage = "rules"]]
    /\ UNCHANGED <<storeVars, world>>

(* ActiveOverrideRules; then Generate reads the spec and the templates.    *)
ReadRules(g) ==
    /\ At(g, "rules")
    /\ run' = [run EXCEPT
         ![g].rules = Active(RuleIds),
         ![g].stage = IF run[g].kind = "generated" THEN "asking" ELSE "finalize"]
    /\ UNCHANGED <<storeVars, world>>

(* A file is unreadable, the target has no adapter, the session does not   *)
(* start, or Send fails: the deferred Close has run when Generate returns. *)
AgentFails(g) == At(g, "asking") /\ Fails(g)

(* Send returns, with an answer that parses and normalizes or not.         *)
AgentAnswers(g, payload) ==
    /\ At(g, "asking")
    /\ run' = [run EXCEPT ![g] =
         IF Normalizable(payload.cases) THEN [@ EXCEPT !.payload = payload, !.stage = "finalize"]
         ELSE Failed]
    /\ UNCHANGED <<storeVars, world>>

(* The provenance is what the run read; an imported document's own stays.  *)
Provenance(g, given, read) == IF run[g].kind = "imported" /\ given # {} THEN given ELSE read

(* Mutant: an imported suite is trusted when it cites rules.               *)
FinalizedTrustingImports(g) ==
    LET p == run[g].payload
        audit == Audited(p, IF run[g].kind = "imported" THEN {} ELSE run[g].rules)
    IN [cases |-> audit.cases, caseIds |-> p.caseIds, origin |-> run[g].kind,
        incomplete |-> audit.incomplete,
        reqs |-> Provenance(g, p.reqs, run[g].reqs), rules |-> Provenance(g, p.rules, run[g].rules)]

(* The suite finalize hands to the store: audited against the rules read   *)
(* and flagged for links to requirements that were not read.               *)
Finalized(g) ==
    LET p == run[g].payload
        audit == Audited(p, run[g].rules)
    IN [cases |-> audit.cases, caseIds |-> p.caseIds, origin |-> run[g].kind,
        incomplete |-> \/ audit.incomplete
                       \/ DanglingLinks(audit.cases, Names(run[g].reqs)) # {},
        reqs |-> Provenance(g, p.reqs, run[g].reqs), rules |-> Provenance(g, p.rules, run[g].rules)]

(* finalize, up to the lock of SaveTestSuite.                              *)
Finalize(g) ==
    /\ At(g, "finalize")
    /\ \E suite \in {Finalized(g)} :
        /\ SaveTestSuite(g, suite)
        /\ run' = [run EXCEPT ![g].stage = "saving", ![g].suite = suite,
                               ![g].ver = pointer.current + 1, ![g].payload = NoSuiteYet]
    /\ UNCHANGED world

(* The lock is not free for thirty seconds.                                *)
LockTimesOut(g) == At(g, "finalize") /\ Saving /\ Fails(g)

Save == (WriteCase \/ WriteSuite) /\ UNCHANGED <<world, run>>

(* Mutant: the run goes on waiting for a save that has failed.             *)
SaveFailsUnnoticed == StopSaving /\ UNCHANGED <<world, run>>

SaveFails == StopSaving /\ run' = [run EXCEPT ![save.by] = Failed] /\ UNCHANGED world

(* The pointer is moved; project.json comes after it and may still fail    *)
(* the run, whose version is then stored all the same.                     *)
SaveSucceeds ==
    WritePointer /\ run' = [run EXCEPT ![save.by].stage = "done"] /\ UNCHANGED world
SaveFailsLate == WritePointer /\ run' = [run EXCEPT ![save.by] = Failed] /\ UNCHANGED world

Works(g) ==
    \/ ReadRequirements(g) \/ ReadRules(g) \/ AgentFails(g) \/ Finalize(g) \/ LockTimesOut(g)
    \/ \E p \in Answers : AgentAnswers(g, p)
Saves == Save \/ SaveFails \/ SaveSucceeds \/ SaveFailsLate

GenNext ==
    \/ \E i \in Things : BeginUpdate(i) \/ FinishUpdate(i)
    \/ \E i \in Things, s \in {"active", "inactive"} : SetStatus(i, s)
    \/ \E g \in Runs : Generate(g) \/ Works(g)
    \/ \E g \in Runs, p \in Documents : Import(g, p)
    \/ Saves

(* Reads and writes finish and Send returns (AgentSession!SendReturns).    *)
Fairness == (\A g \in Runs : WF_vars(Works(g))) /\ WF_vars(Saves)
GenSpec == GenInit /\ [][GenNext]_vars /\ Fairness

-----------------------------------------------------------------------------
Ended(g) == run[g].stage \in {"done", "failed"}
Stored(g) == LoadTestSuite(run[g].ver)

(* Types; a run waits for the store exactly while the save is its own.     *)
SuiteTypeOK ==
    /\ \A i \in Things : world[i].ver \in 1..MaxVersion[i]
    /\ world \in [Things -> [ver : Nat, status : {"active", "inactive", "superseded"}]]
    /\ \A g \in Runs :
        /\ run[g].stage \in {"idle", "requirements", "rules", "asking", "finalize", "saving",
                             "done", "failed"}
        /\ run[g].reqs \subseteq Versioned(Reqs) /\ run[g].rules \subseteq Versioned(RuleIds)
        /\ run[g].ver \in 0..MaxSuiteVersion
        /\ At(g, "saving") <=> save.by = g
    /\ pointer.versions = 1..pointer.current

(* "one immutable version of a test suite" (testsuite.go:233): no step, a    *)
(* save that starts over where one stopped included, changes the manifest  *)
(* or a case of a version the pointer lists, or takes a version off it.    *)
ListedVersionsFrozen ==
    [][\A v \in pointer.versions :
          /\ v \in pointer'.versions
          /\ TestSuiteHistory'[v] = TestSuiteHistory[v]
          /\ \A c \in ToSet(suiteFile[v].ids) :
                c \in DOMAIN caseFile[v] => caseFile'[v][c] = caseFile[v][c]]_vars

(* What Generate or Import returned is what LoadTestSuite reads back from  *)
(* then on, whatever earlier saves left in the directory, and the pointer  *)
(* shows the flag of its version.  A document with ids of cases it does    *)
(* not have is the exception (EmptySuitesLoad).                            *)
StoredAsReturned ==
    /\ \A g \in Runs :
        At(g, "done") =>
            /\ suiteFile[run[g].ver] = Manifest(run[g].suite)
            /\ run[g].suite.cases # <<>> \/ run[g].suite.caseIds = <<>> =>
                Loadable(run[g].ver) /\ Stored(g).cases = run[g].suite.cases
    /\ \A s \in ListTestSuites : s.incomplete = pointer.incomplete

Honors(c, rule) == Matches(rule.when, c) => Satisfied(rule, c) /\ rule.ref \in c.cites

(* "Auditing before storing is what keeps an incomplete suite honest"      *)
(* (generator.go:312): a stored version that is not flagged has cases, and *)
(* each is linked to requirements the run read, cites only rules the run   *)
(* read, and honors all of those; a generated one records just those.      *)
CompleteIsHonest ==
    \A g \in Runs :
        At(g, "done") /\ ~suiteFile[run[g].ver].incomplete =>
            /\ Stored(g).cases # <<>>
            /\ \A c \in ToSet(Stored(g).cases) :
                /\ c.links # {} /\ c.links \subseteq Names(run[g].reqs)
                /\ c.cites \subseteq run[g].rules
                /\ \A rule \in RulesOf(run[g].rules) : Honors(c, rule)
            /\ run[g].kind = "generated" =>
                suiteFile[run[g].ver].reqs = run[g].reqs /\ suiteFile[run[g].ver].rules = run[g].rules

(* An imported suite is "audited exactly like a generated one"             *)
(* (generator.go:260): every rule that was in force and left alone while   *)
(* the run read its inputs is honored by every case of a stored version    *)
(* that is not flagged.                                                    *)
RulesInForceHonored ==
    \A g \in Runs :
        At(g, "done") /\ ~suiteFile[run[g].ver].incomplete =>
            \A c \in ToSet(Stored(g).cases), rule \in RulesOf(run[g].stable) : Honors(c, rule)

(* Every run returns, with a suite or an error, also when saves of other   *)
(* runs stop or hold the lock.                                             *)
RunsEnd == \A g \in Runs : ~At(g, "idle") ~> Ended(g)

-----------------------------------------------------------------------------
(* A property the code does not have.                                      *)

(* "Storing an incomplete suite is allowed on purpose - including one with *)
(* no cases at all" (testsuites.go:56): every listed version can be loaded *)
(* with its cases.                                                         *)
EmptySuitesLoad == \A v \in pointer.versions : Loadable(v)
=============================================================================
