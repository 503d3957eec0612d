------------------------- MODULE TestGenerationProofs -------------------------
(***************************************************************************)
(* Proofs about TestGeneration and the TestSuiteStore it extends, for any  *)
(* runs, suites, rules and requirements.                                   *)
(***************************************************************************)
EXTENDS TestGeneration, FiniteSetTheorems, TLAPS

USE SuiteAssumption, RunAssumption DEF SuiteVersions

(***************************************************************************)
(* A save writes into the directory of the version after the current one,  *)
(* which no pointer lists; what an earlier save left there is not listed   *)
(* either.                                                                 *)
(***************************************************************************)
SaveInv ==
    /\ pointer.current \in 0..MaxSuiteVersion
    /\ pointer.versions = 1..pointer.current
    /\ save = NotSaving \/ /\ save.by \in Runs
                           /\ save.ver = pointer.current + 1 /\ save.ver \in SuiteVersions
    /\ DOMAIN caseFile = SuiteVersions /\ DOMAIN suiteFile = SuiteVersions
    /\ caseFile = [v \in SuiteVersions |-> caseFile[v]]
    /\ suiteFile = [v \in SuiteVersions |-> suiteFile[v]]
    /\ save = [by |-> save.by, ver |-> save.ver, todo |-> save.todo, manifest |-> save.manifest]

-----------------------------------------------------------------------------
(* An empty store satisfies the invariant.                                 *)
LEMMA SaveInit == GenInit => SaveInv
BY DEF GenInit, StoreInit, SaveInv, NotSaving

(* What a step does to the store.                                          *)
LEMMA StoreCases ==
    ASSUME [GenNext]_vars
    PROVE  \/ UNCHANGED storeVars
           \/ \E g \in Runs : \E suite : SaveTestSuite(g, suite)
           \/ WriteCase \/ WriteSuite \/ WritePointer \/ StopSaving
BY DEF GenNext, vars, BeginUpdate, FinishUpdate, SetStatus, Becomes, Generate, Start, Works,
   ReadRequirements, ReadRules, AgentFails, Fails, Finalize, LockTimesOut, AgentAnswers, Import,
   Saves, Save, SaveFails, SaveSucceeds, SaveFailsLate

(* Every step preserves it.                                                *)
LEMMA SaveNext == SaveInv /\ [GenNext]_vars => SaveInv'
<1>. SUFFICES ASSUME SaveInv, [GenNext]_vars PROVE SaveInv'
  OBVIOUS
<1>1. CASE UNCHANGED storeVars
  BY <1>1 DEF storeVars, SaveInv
<1>2. ASSUME NEW g \in Runs, NEW suite, SaveTestSuite(g, suite) PROVE SaveInv'
  BY <1>2 DEF SaveTestSuite, SaveInv
<1>3. CASE WriteCase
  <2>1. save.by \in Runs /\ save.ver = pointer.current + 1 /\ save.ver \in SuiteVersions
    BY <1>3 DEF WriteCase, SaveInv, NotSaving
  <2>2. /\ UNCHANGED <<suiteFile, pointer>>
        /\ save' = [by |-> save.by, ver |-> save.ver, todo |-> Tail(save.todo),
                    manifest |-> save.manifest]
        /\ DOMAIN caseFile' = SuiteVersions /\ caseFile' = [v \in SuiteVersions |-> caseFile'[v]]
    BY <1>3 DEF WriteCase, SaveInv
  <2>. QED BY <2>1, <2>2 DEF SaveInv
<1>4. CASE WriteSuite
  <2>1. /\ UNCHANGED <<caseFile, pointer, save>>
        /\ DOMAIN suiteFile' = SuiteVersions /\ suiteFile' = [v \in SuiteVersions |-> suiteFile'[v]]
    BY <1>4 DEF WriteSuite, SaveInv
  <2>. QED BY <2>1 DEF SaveInv
<1>5. CASE WritePointer
  <2>1. save.ver = pointer.current + 1 /\ save.ver \in SuiteVersions
    BY <1>5 DEF WritePointer, Saving, SaveInv, NotSaving
  <2>2. pointer'.current = save.ver /\ pointer'.versions = pointer.versions \cup {save.ver}
    BY <1>5 DEF WritePointer
  <2>3. pointer'.versions = 1..pointer'.current /\ pointer'.current \in 0..MaxSuiteVersion
    BY <2>1, <2>2 DEF SaveInv
  <2>. QED BY <1>5, <2>3 DEF WritePointer, SaveInv, NotSaving
<1>6. CASE StopSaving
  BY <1>6 DEF StopSaving, SaveInv, NotSaving
<1>. QED BY <1>1, <1>2, <1>3, <1>4, <1>5, <1>6, StoreCases

FrozenStep ==
    \A v \in pointer.versions :
        /\ v \in pointer'.versions
        /\ TestSuiteHistory'[v] = TestSuiteHistory[v]
        /\ \A c \in ToSet(suiteFile[v].ids) :
              c \in DOMAIN caseFile[v] => caseFile'[v][c] = caseFile[v][c]

(* No step writes into a version the pointer lists.                        *)
LEMMA ListedUntouched ==
    ASSUME SaveInv, [GenNext]_vars, NEW v \in pointer.versions
    PROVE  v \in pointer'.versions /\ suiteFile'[v] = suiteFile[v] /\ caseFile'[v] = caseFile[v]
<1>1. v \in 1..pointer.current /\ v \in SuiteVersions /\ pointer.current \in Nat
  BY DEF SaveInv
<1>2. Saving \/ save.todo # <<>> => v # save.ver
  BY <1>1 DEF SaveInv, Saving, NotSaving
<1>3. CASE UNCHANGED storeVars
  BY <1>3 DEF storeVars
<1>4. ASSUME NEW g \in Runs, NEW suite, SaveTestSuite(g, suite)
      PROVE  UNCHANGED <<caseFile, suiteFile, pointer>>
  BY <1>4 DEF SaveTestSuite
<1>5. CASE WriteCase
  BY <1>1, <1>2, <1>5 DEF WriteCase, SaveInv
<1>6. CASE WriteSuite
  BY <1>1, <1>2, <1>6 DEF WriteSuite, SaveInv
<1>7. CASE WritePointer \/ StopSaving
  BY <1>7 DEF WritePointer, StopSaving
<1>. QED BY <1>3, <1>4, <1>5, <1>6, <1>7, StoreCases

(* So the listed versions are frozen.                                      *)
LEMMA FrozenNext == SaveInv /\ [GenNext]_vars => FrozenStep
BY ListedUntouched DEF FrozenStep, TestSuiteHistory

(* "one immutable version of a test suite" (testsuite.go:233): no step, a  *)
(* save that starts over where one stopped included, changes the manifest  *)
(* or a case of a version the pointer lists, or takes a version off it.    *)
THEOREM ListedFrozen == GenSpec => ListedVersionsFrozen
<1>1. SaveInv /\ [GenNext]_vars => [FrozenStep]_vars
  BY FrozenNext
<1>2. ListedVersionsFrozen <=> [][FrozenStep]_vars
  BY PTL DEF ListedVersionsFrozen, FrozenStep
<1>. QED BY <1>1, <1>2, SaveInit, SaveNext, PTL DEF GenSpec

-----------------------------------------------------------------------------
Stages == {"idle", "requirements", "rules", "asking", "finalize", "saving", "done", "failed"}

(* Types, and a run waits for the store exactly while the save is its own. *)
RunOK(r) ==
    /\ r = [stage |-> r.stage, kind |-> r.kind, payload |-> r.payload, reqs |-> r.reqs,
            rules |-> r.rules, suite |-> r.suite, ver |-> r.ver, stable |-> r.stable]
    /\ r.stage \in Stages
    /\ r.reqs \subseteq Versioned(Reqs) /\ r.rules \subseteq Versioned(RuleIds)
    /\ r.ver \in 0..MaxSuiteVersion

WorldOK ==
    /\ world \in [Things -> [ver : Nat, status : {"active", "inactive", "superseded"}]]
    /\ \A i \in Things : world[i].ver \in 1..MaxVersion[i]
    /\ \A i \in Things : world[i].status = "superseded" => world[i].ver < MaxVersion[i]

RunsOK ==
    /\ run = [g \in Runs |-> run[g]]
    /\ \A g \in Runs : RunOK(run[g]) /\ (At(g, "saving") <=> save.by = g)

TypeInv == SaveInv /\ WorldOK /\ RunsOK

(* What a reader sees is versions that are there.                          *)
LEMMA ActiveVersioned ==
    ASSUME WorldOK, NEW ids, ids \subseteq Things PROVE Active(ids) \subseteq Versioned(ids)
BY DEF WorldOK, Active, Versioned, Things

(* The turn of a run that neither holds the lock nor takes it.             *)
LEMMA TurnOK ==
    ASSUME RunsOK, NEW g \in Runs, NEW new, RunOK(new), run' = [run EXCEPT ![g] = new],
           ~At(g, "saving"), new.stage # "saving", UNCHANGED storeVars
    PROVE  RunsOK'
BY DEF RunsOK, At, storeVars

(* The start satisfies it.                                                 *)
LEMMA TypeInit == GenInit => TypeInv
<1>. SUFFICES ASSUME GenInit PROVE TypeInv
  OBVIOUS
<1>1. SaveInv
  BY SaveInit
<1>2. WorldOK
  BY DEF GenInit, WorldOK, Things
<1>3. RunOK(NoRun) /\ NoRun.stage = "idle"
  BY DEF RunOK, NoRun, Stages
<1>4. RunsOK
  BY <1>3 DEF GenInit, RunsOK, At, StoreInit, NotSaving
<1>. QED BY <1>1, <1>2, <1>4 DEF TypeInv

(* A run that has failed.                                                  *)
LEMMA FailedOK == RunOK(Failed) /\ Failed.stage = "failed"
<1>1. NoRun = [stage |-> "idle", kind |-> "none", payload |-> NoSuiteYet, reqs |-> {},
               rules |-> {}, suite |-> NoSuiteYet, ver |-> 0, stable |-> {}]
  BY DEF NoRun
<1>2. PICK r : r = [NoRun EXCEPT !.stage = "failed"]
  OBVIOUS
<1>3. r = [stage |-> "failed", kind |-> "none", payload |-> NoSuiteYet, reqs |-> {},
                rules |-> {}, suite |-> NoSuiteYet, ver |-> 0, stable |-> {}]
  BY <1>1, <1>2
<1>4. RunOK(r) /\ r.stage = "failed"
  BY <1>3 DEF RunOK, Stages
<1>. QED BY <1>2, <1>4 DEF Failed

(* A change of a requirement or rule.                                      *)
LEMMA BecomesOK ==
    ASSUME TypeInv, NEW i \in Things, NEW new, Becomes(i, new),
           new \in [ver : Nat, status : {"active", "inactive", "superseded"}],
           new.ver \in 1..MaxVersion[i],
           new.status = "superseded" => new.ver < MaxVersion[i]
    PROVE  WorldOK' /\ RunsOK'
<1>1. WorldOK'
  BY DEF TypeInv, WorldOK, Becomes
<1>2. ASSUME NEW g \in Runs
      PROVE  RunOK(run'[g]) /\ run'[g].stage = run[g].stage
  <2>1. PICK s : run'[g] = [run[g] EXCEPT !.stable = s]
    BY DEF Becomes
  <2>2. RunOK(run[g])
    BY DEF TypeInv, RunsOK
  <2>3. run'[g] = [stage |-> run[g].stage, kind |-> run[g].kind, payload |-> run[g].payload,
                   reqs |-> run[g].reqs, rules |-> run[g].rules, suite |-> run[g].suite,
                   ver |-> run[g].ver, stable |-> s]
    BY <2>1, <2>2 DEF RunOK
  <2>. QED BY <2>2, <2>3 DEF RunOK
<1>3. run' = [g \in Runs |-> run'[g]] /\ save' = save
  BY DEF Becomes, storeVars
<1>4. RunsOK'
  BY <1>2, <1>3 DEF TypeInv, RunsOK, At
<1>. QED BY <1>1, <1>4

(* Every step preserves it.                                                *)
LEMMA TypeNext == TypeInv /\ [GenNext]_vars => TypeInv'
<1>. SUFFICES ASSUME TypeInv, [GenNext]_vars PROVE TypeInv'
  OBVIOUS
<1>1. SaveInv'
  BY SaveNext DEF TypeInv
<1>2. \A g \in Runs : RunOK(run[g]) /\ (At(g, "saving") <=> save.by = g)
  BY DEF TypeInv, RunsOK
<1>3. RunOK(Failed) /\ Failed.stage = "failed"
  BY FailedOK
<1>4. ASSUME UNCHANGED vars PROVE WorldOK' /\ RunsOK'
  <2>1. UNCHANGED <<world, run, save>>
    BY <1>4 DEF vars, storeVars
  <2>2. WorldOK'
    BY <2>1 DEF TypeInv, WorldOK
  <2>3. RunsOK'
    BY <2>1 DEF TypeInv, RunsOK, At
  <2>. QED BY <2>2, <2>3
<1>5. ASSUME NEW i \in Things, BeginUpdate(i) \/ FinishUpdate(i)
                               \/ \E s \in {"active", "inactive"} : SetStatus(i, s)
      PROVE  WorldOK' /\ RunsOK'
  <2> DEFINE Versions == [ver : Nat, status : {"active", "inactive", "superseded"}]
  <2>1. world[i] \in Versions /\ world[i].ver \in 1..MaxVersion[i] /\ MaxVersion[i] \in Nat
    BY DEF TypeInv, WorldOK, Things
  <2>2. CASE BeginUpdate(i)
    <3>1. [world[i] EXCEPT !.status = "superseded"] \in Versions
      BY <2>1
    <3>. QED BY <2>1, <2>2, <3>1, BecomesOK DEF BeginUpdate
  <2>3. CASE FinishUpdate(i)
    <3>1. world[i].ver < MaxVersion[i]
      BY <2>3 DEF FinishUpdate, TypeInv, WorldOK
    <3>. QED BY <2>1, <2>3, <3>1, BecomesOK DEF FinishUpdate
  <2>4. ASSUME NEW s \in {"active", "inactive"}, SetStatus(i, s) PROVE WorldOK' /\ RunsOK'
    <3>1. [world[i] EXCEPT !.status = s] \in Versions
      BY <2>1
    <3>. QED BY <2>1, <2>4, <3>1, BecomesOK DEF SetStatus
  <2>. QED BY <1>5, <2>2, <2>3, <2>4
<1>6. ASSUME NEW g \in Runs, Generate(g) \/ \E p \in Documents : Import(g, p)
      PROVE  WorldOK' /\ RunsOK'
  <2>1. PICK kind, payload : Start(g, kind, payload)
    BY <1>6 DEF Generate, Import
  <2>2. PICK new : /\ run' = [run EXCEPT ![g] = new]
                   /\ new = [NoRun EXCEPT !.stage = "requirements", !.kind = kind,
                                          !.payload = payload, !.stable = Active(RuleIds)]
    BY <2>1 DEF Start
  <2>3. new = [stage |-> "requirements", kind |-> kind, payload |-> payload, reqs |-> {},
               rules |-> {}, suite |-> NoSuiteYet, ver |-> 0, stable |-> Active(RuleIds)]
    BY <2>2 DEF NoRun
  <2>4. RunOK(new) /\ new.stage # "saving"
    BY <2>3 DEF RunOK, Stages
  <2>5. RunsOK'
    BY <2>1, <2>2, <2>4, TurnOK DEF Start, TypeInv, At
  <2>. QED BY <2>1, <2>5 DEF Start, TypeInv, WorldOK
<1>7. ASSUME NEW g \in Runs, Fails(g), ~At(g, "saving") PROVE WorldOK' /\ RunsOK'
  BY <1>3, <1>7, TurnOK DEF Fails, TypeInv, WorldOK
<1>8. ASSUME NEW g \in Runs, Works(g) PROVE WorldOK' /\ RunsOK'
  <2>0. RunOK(run[g])
    BY <1>2
  <2>1. CASE ReadRequirements(g)
    <3>1. PICK new : /\ run' = [run EXCEPT ![g] = new]
                     /\ new \in {Failed, [run[g] EXCEPT !.reqs = Active(Reqs), !.stage = "rules"]}
      BY <2>1 DEF ReadRequirements
    <3>2. ASSUME new # Failed PROVE RunOK(new) /\ new.stage # "saving"
      <4>1. new = [stage |-> "rules", kind |-> run[g].kind, payload |-> run[g].payload,
                   reqs |-> Active(Reqs), rules |-> run[g].rules, suite |-> run[g].suite,
                   ver |-> run[g].ver, stable |-> run[g].stable]
        BY <1>2, <3>1, <3>2 DEF RunOK
      <4>2. Active(Reqs) \subseteq Versioned(Reqs)
        BY ActiveVersioned DEF TypeInv, Things
      <4>. QED BY <1>2, <4>1, <4>2 DEF RunOK, Stages
    <3>3. RunOK(new) /\ new.stage # "saving"
      BY <1>3, <3>2, <3>1 DEF Stages
    <3>. QED BY <2>1, <3>1, <3>3, TurnOK DEF ReadRequirements, At, TypeInv, WorldOK
  <2>2. CASE ReadRules(g)
    <3>0. PICK s \in {"asking", "finalize"} :
              run' = [run EXCEPT ![g].rules = Active(RuleIds), ![g].stage = s]
      BY <2>2 DEF ReadRules
    <3>1. PICK new : /\ run' = [run EXCEPT ![g] = new]
                     /\ new = [run[g] EXCEPT !.rules = Active(RuleIds), !.stage = s]
      BY <3>0 DEF TypeInv, RunsOK
    <3>2. RunOK(new) /\ new.stage # "saving"
      <4>1. new = [stage |-> s, kind |-> run[g].kind, payload |-> run[g].payload,
                   reqs |-> run[g].reqs, rules |-> Active(RuleIds), suite |-> run[g].suite,
                   ver |-> run[g].ver, stable |-> run[g].stable]
        BY <2>0, <3>1 DEF RunOK
      <4>2. Active(RuleIds) \subseteq Versioned(RuleIds)
        BY ActiveVersioned DEF TypeInv, Things
      <4>. QED BY <1>2, <4>1, <4>2 DEF RunOK, Stages
    <3>. QED BY <2>2, <3>1, <3>2, TurnOK DEF ReadRules, At, TypeInv, WorldOK
  <2>3. CASE AgentFails(g) \/ LockTimesOut(g)
    BY <1>7, <2>3 DEF AgentFails, LockTimesOut, At
  <2>4. ASSUME NEW p, AgentAnswers(g, p) PROVE WorldOK' /\ RunsOK'
    <3>1. PICK new : /\ run' = [run EXCEPT ![g] = new]
                     /\ new \in {Failed, [run[g] EXCEPT !.payload = p, !.stage = "finalize"]}
      BY <2>4 DEF AgentAnswers
    <3>2. RunOK(new) /\ new.stage # "saving"
      <4>1. ASSUME new # Failed PROVE RunOK(new) /\ new.stage # "saving"
        <5>1. new = [stage |-> "finalize", kind |-> run[g].kind, payload |-> p,
                     reqs |-> run[g].reqs, rules |-> run[g].rules, suite |-> run[g].suite,
                     ver |-> run[g].ver, stable |-> run[g].stable]
          BY <2>0, <3>1, <4>1 DEF RunOK
        <5>. QED BY <2>0, <5>1 DEF RunOK, Stages
      <4>. QED BY <1>3, <3>1, <4>1
    <3>. QED BY <2>4, <3>1, <3>2, TurnOK DEF AgentAnswers, At, TypeInv, WorldOK
  <2>5. CASE Finalize(g)
    <3>1. PICK suite : /\ SaveTestSuite(g, suite)
                       /\ run' = [run EXCEPT ![g].stage = "saving", ![g].suite = suite,
                                     ![g].ver = pointer.current + 1, ![g].payload = NoSuiteYet]
      BY <2>5 DEF Finalize
    <3>2. PICK new : /\ run' = [run EXCEPT ![g] = new]
                     /\ new = [run[g] EXCEPT !.stage = "saving", !.suite = suite,
                                 !.ver = pointer.current + 1, !.payload = NoSuiteYet]
      BY <3>1, <1>2 DEF TypeInv, RunsOK, RunOK
    <3>3. RunOK(new) /\ new.stage = "saving"
      <4>1. new = [stage |-> "saving", kind |-> run[g].kind, payload |-> NoSuiteYet,
                   reqs |-> run[g].reqs, rules |-> run[g].rules, suite |-> suite,
                   ver |-> pointer.current + 1, stable |-> run[g].stable]
        BY <2>0, <3>2 DEF RunOK
      <4>2. pointer.current + 1 \in 0..MaxSuiteVersion
        BY <3>1 DEF SaveTestSuite, TypeInv, SaveInv
      <4>. QED BY <1>2, <4>1, <4>2 DEF RunOK, Stages
    <3>4. save'.by = g /\ \A h \in Runs : save.by # h
      BY <3>1 DEF SaveTestSuite, Saving
    <3>5. RunsOK'
      BY <1>2, <3>2, <3>3, <3>4 DEF TypeInv, RunsOK, At
    <3>. QED BY <2>5, <3>5 DEF Finalize, TypeInv, WorldOK
  <2>. QED BY <1>8, <2>1, <2>2, <2>3, <2>4, <2>5 DEF Works
<1>9. ASSUME Saves PROVE WorldOK' /\ RunsOK'
  <2>1. CASE Save
    <3>1. save'.by = save.by
      BY <2>1 DEF Save, WriteCase, WriteSuite, TypeInv, SaveInv
    <3>2. run' = run /\ RunsOK
      BY <2>1 DEF Save, TypeInv
    <3>3. ASSUME NEW h \in Runs PROVE RunOK(run[h])' /\ (At(h, "saving")' <=> save'.by = h)
      BY <1>2, <3>1, <3>2 DEF At
    <3>4. RunsOK'
      BY <3>2, <3>3 DEF RunsOK
    <3>. QED BY <2>1, <3>4 DEF Save, TypeInv, WorldOK
  <2>2. CASE SaveFails \/ SaveSucceeds \/ SaveFailsLate
    <3>1. save.by \in Runs /\ save' = NotSaving /\ UNCHANGED world
      BY <2>2 DEF SaveFails, SaveSucceeds, SaveFailsLate, StopSaving, WritePointer, Saving,
        TypeInv, SaveInv, NotSaving
    <3>2. PICK new : /\ run' = [run EXCEPT ![save.by] = new]
                     /\ new \in {Failed, [run[save.by] EXCEPT !.stage = "done"]}
      BY <2>2, <1>2, <3>1 DEF SaveFails, SaveSucceeds, SaveFailsLate, TypeInv, RunsOK, RunOK
    <3>3. RunOK(new) /\ new.stage # "saving"
      BY <1>2, <1>3, <3>1, <3>2 DEF RunOK, Stages
    <3>4. ASSUME NEW h \in Runs
          PROVE  RunOK(run[h])' /\ ~At(h, "saving")' /\ save'.by # h
      <4>1. h # save.by => run[h].stage # "saving" /\ run'[h] = run[h]
        BY <1>2, <3>2 DEF At
      <4>2. h = save.by => run'[h] = new
        BY <3>2 DEF TypeInv, RunsOK
      <4>3. RunOK(run'[h]) /\ run'[h].stage # "saving"
        BY <1>2, <3>3, <4>1, <4>2
      <4>. QED BY <3>1, <4>3 DEF NotSaving, At
    <3>5. run' = [h \in Runs |-> run'[h]]
      BY <3>2 DEF TypeInv, RunsOK
    <3>6. RunsOK'
      BY <3>4, <3>5 DEF RunsOK
    <3>. QED BY <3>1, <3>6 DEF TypeInv, WorldOK
  <2>. QED BY <1>9, <2>1, <2>2 DEF Saves
<1>10. WorldOK' /\ RunsOK'
  BY <1>4, <1>5, <1>6, <1>8, <1>9 DEF GenNext, TypeInv
<1>. QED BY <1>1, <1>10 DEF TypeInv

(* The variables keep their types, and a run waits for the store exactly   *)
(* while the save under way is its own (generator.go:312, testsuites.go).  *)
THEOREM SuiteTypeCorrect == GenSpec => []SuiteTypeOK
<1>1. TypeInv => SuiteTypeOK
  BY DEF TypeInv, SaveInv, WorldOK, RunsOK, RunOK, Stages, SuiteTypeOK
<1>. QED BY <1>1, TypeInit, TypeNext, PTL DEF GenSpec

-----------------------------------------------------------------------------
(* The ids of the cases.                                                   *)

(* A set of natural numbers has a least element.                           *)
LEMMA Least ==
    ASSUME NEW S \in SUBSET Nat, S # {}
    PROVE  Min(S) \in S /\ \A n \in S : Min(S) <= n
<1>. DEFINE LT == {ss \in Nat \X Nat : ss[1] < ss[2]}
<1>1. IsWellFoundedOn(LT, Nat)
  BY NatLessThanWellFounded DEF OpToRel
<1>2. PICK x \in S : \A y \in S : ~(<<y, x>> \in LT)
  <2>. HIDE DEF LT
  <2>. QED BY <1>1, WFMin
<1>3. ASSUME NEW y \in S PROVE x <= y
  <2>1. x \in Nat /\ y \in Nat /\ ~(<<y, x>> \in LT)
    BY <1>2
  <2>. QED BY <2>1
<1>. QED BY <1>3 DEF Min

(* How many of the first n numbers are not in G.                           *)
Unused(G, n) == Cardinality((1..n) \ G)

(* It starts at zero and grows by one with each number that is not in G.   *)
LEMMA UnusedGrows ==
    ASSUME NEW G, NEW n \in Nat
    PROVE  /\ Unused(G, n) \in Nat /\ Unused(G, 0) = 0
           /\ Unused(G, n + 1) = IF n + 1 \in G THEN Unused(G, n) ELSE Unused(G, n) + 1
<1>1. IsFiniteSet(1..n)
  BY FS_Interval
<1>2. IsFiniteSet((1..n) \ G)
  BY <1>1, FS_Difference
<1>3. Unused(G, n) \in Nat
  BY <1>2, FS_CardinalityType DEF Unused
<1>4. Unused(G, 0) = 0
  <2>1. (1..0) \ G = {}
    OBVIOUS
  <2>. QED BY <2>1, FS_EmptySet DEF Unused
<1>5. CASE n + 1 \in G
  <2>1. (1..(n + 1)) \ G = (1..n) \ G
    BY <1>5
  <2>. QED BY <1>3, <1>4, <1>5, <2>1 DEF Unused
<1>6. CASE n + 1 \notin G
  <2>1. (1..(n + 1)) \ G = ((1..n) \ G) \cup {n + 1}
    BY <1>6
  <2>2. n + 1 \notin (1..n) \ G
    OBVIOUS
  <2>3. Cardinality(((1..n) \ G) \cup {n + 1}) = Cardinality((1..n) \ G) + 1
    BY <1>2, <2>2, FS_AddElement
  <2>. QED BY <1>3, <1>4, <1>6, <2>1, <2>3 DEF Unused
<1>. QED BY <1>5, <1>6

(* There is a k-th number without an owner among twice as many numbers as  *)
(* there are cases, and k - 1 such numbers come before it.                 *)
LEMMA NthIsFree ==
    ASSUME NEW cases, Len(cases) \in Nat, DOMAIN cases = 1..Len(cases),
           NEW k \in 1..Len(cases)
    PROVE  /\ NthFree(cases, k) \in Nat \ {0}
           /\ NthFree(cases, k) \notin GivenIds(cases)
           /\ Unused(GivenIds(cases), NthFree(cases, k)) = k
<1>. DEFINE L == Len(cases)
            G == GivenIds(cases)
            S == {n \in 1..(2 * L) : Unused(G, n) >= k}
            m == NthFree(cases, k)
<1>1. Unused(G, 2 * L) >= L
  <2>1. IsFiniteSet(G) /\ Cardinality(G) <= L
    <3>. DEFINE ids == [i \in 1..L |-> cases[i].id]
                T == {cases[i].id : i \in 1..L}
    <3>1. ids \in Surjection(1..L, T)
      BY DEF Surjection
    <3>2. IsFiniteSet(1..L) /\ Cardinality(1..L) = L
      BY FS_Interval
    <3>3. IsFiniteSet(T) /\ Cardinality(T) <= L
      <4>. HIDE DEF T, ids
      <4>. QED BY <3>1, <3>2, FS_Surjection
    <3>4. G = T \ {0}
      BY DEF GivenIds
    <3>5. G \in SUBSET T
      BY <3>4
    <3>. HIDE DEF G, T
    <3>. QED BY <3>3, <3>5, FS_Subset, FS_CardinalityType
  <2>2. IsFiniteSet(1..(2 * L)) /\ Cardinality(1..(2 * L)) = 2 * L
    <3>1. 1 \in Int /\ 2 * L \in Int /\ ~(1 > 2 * L) /\ 2 * L - 1 + 1 = 2 * L
      OBVIOUS
    <3>. HIDE DEF L
    <3>. QED BY <3>1, FS_Interval
  <2>3. Cardinality((1..(2 * L)) \ G) = 2 * L - Cardinality((1..(2 * L)) \cap G)
    BY <2>2, FS_Difference
  <2>4. Cardinality((1..(2 * L)) \cap G) <= Cardinality(G)
    BY <2>1, FS_Intersection
  <2>5. Cardinality((1..(2 * L)) \cap G) \in Nat /\ Cardinality(G) \in Nat
    BY <2>1, FS_Intersection, FS_CardinalityType
  <2>. HIDE DEF G
  <2>. QED BY <2>1, <2>3, <2>4, <2>5 DEF Unused
<1>2. S \in SUBSET Nat /\ S # {} /\ m = Min(S)
  <2>1. 2 * L \in 1..(2 * L) /\ Unused(G, 2 * L) \in Nat
    BY UnusedGrows
  <2>2. 2 * L \in S
    BY <1>1, <2>1
  <2>3. m = Min(S)
    BY DEF NthFree, Unused
  <2>. QED BY <2>2, <2>3
<1>3. m \in S /\ \A n \in S : m <= n
  <2>. HIDE DEF S
  <2>. QED BY <1>2, Least
<1>4. PICK n \in Nat : m = n + 1 /\ n \notin S /\ n < 2 * L
  <2>1. m - 1 \in Nat /\ m - 1 < 2 * L /\ m = (m - 1) + 1 /\ m - 1 \notin S
    BY <1>3
  <2>. QED BY <2>1
<1>5. Unused(G, n) < k /\ Unused(G, n) \in Nat
  <2>1. Unused(G, n) \in Nat /\ Unused(G, 0) = 0
    BY UnusedGrows
  <2>2. n = 0 \/ n \in 1..(2 * L)
    BY <1>4
  <2>. QED BY <1>4, <2>1, <2>2
<1>6. Unused(G, n + 1) = IF n + 1 \in G THEN Unused(G, n) ELSE Unused(G, n) + 1
  BY UnusedGrows
<1>7. Unused(G, m) >= k /\ m \in Nat \ {0}
  BY <1>3
<1>. QED BY <1>4, <1>5, <1>6, <1>7

(* Cases with an id of their own.                                          *)
Cases(cases) ==
    /\ Len(cases) \in Nat /\ cases = [i \in 1..Len(cases) |-> cases[i]]
    /\ \A i \in 1..Len(cases) : IsCase(cases[i])
Numbered(cases) ==
    /\ Cases(cases)
    /\ \A i, j \in 1..Len(cases) : cases[i].id = cases[j].id => i = j

(* Two cases of a normalized suite never get one id (testsuite.go:375).    *)
THEOREM AssignedNumbered ==
    ASSUME NEW cases, Cases(cases), Normalizable(cases)
    PROVE  /\ Numbered(AssignIds(cases))
           /\ Len(AssignIds(cases)) = Len(cases)
<1>. DEFINE L == Len(cases)
            G == GivenIds(cases)
            new == AssignIds(cases)
            unnamed(i) == {j \in 1..i : cases[j].id = 0}
            turn(i) == Cardinality(unnamed(i))
<1>0. L \in Nat /\ DOMAIN cases = 1..L /\ \A i \in 1..L : IsCase(cases[i])
  BY DEF Cases
<1>1. ASSUME NEW i \in 1..L, cases[i].id = 0
      PROVE  turn(i) \in 1..L
  <2>1. IsFiniteSet(1..i) /\ Cardinality(1..i) = i
    BY <1>0, FS_Interval
  <2>2. unnamed(i) \in SUBSET (1..i) /\ i \in unnamed(i)
    BY <1>0, <1>1
  <2>. HIDE DEF unnamed
  <2>3. IsFiniteSet(unnamed(i)) /\ Cardinality(unnamed(i)) <= i
    BY <2>1, <2>2, FS_Subset
  <2>4. Cardinality(unnamed(i)) \in Nat /\ Cardinality(unnamed(i)) # 0
    BY <2>2, <2>3, FS_CardinalityType, FS_EmptySet
  <2>. QED BY <1>0, <2>3, <2>4
<1>2. ASSUME NEW i \in 1..L, NEW j \in 1..L, i < j, cases[j].id = 0
      PROVE  turn(i) # turn(j)
  <2>1. IsFiniteSet(1..j)
    BY <1>0, FS_Interval
  <2>2. unnamed(j) \in SUBSET (1..j) /\ unnamed(i) \in SUBSET unnamed(j) /\ unnamed(i) # unnamed(j)
    BY <1>0, <1>2
  <2>. HIDE DEF unnamed
  <2>3. IsFiniteSet(unnamed(j))
    BY <2>1, <2>2, FS_Subset
  <2>. QED BY <2>2, <2>3, FS_Subset
<1>3. ASSUME NEW i \in 1..L
      PROVE  /\ cases[i].id # 0 => new[i] = cases[i] /\ new[i].id \in G
             /\ cases[i].id = 0 => /\ new[i].id = NthFree(cases, turn(i))
                                   /\ IsCase(new[i])
  <2>1. CASE cases[i].id # 0
    BY <1>0, <2>1 DEF AssignIds, GivenIds
  <2>2. CASE cases[i].id = 0
    <3>. DEFINE n == NthFree(cases, turn(i))
    <3>1. n \in Nat
      BY <1>0, <1>1, <2>2, NthIsFree
    <3>2. new[i] = [cases[i] EXCEPT !.id = n]
      BY <1>0, <2>2 DEF AssignIds
    <3>. HIDE DEF n
    <3>3. new[i] = [id |-> n, method |-> cases[i].method, scenario |-> cases[i].scenario,
                    path |-> cases[i].path, status |-> cases[i].status, empty |-> cases[i].empty,
                    links |-> cases[i].links, cites |-> cases[i].cites]
      BY <1>0, <3>2 DEF IsCase
    <3>4. new[i].id = n /\ IsCase(new[i])
      BY <3>1, <3>3 DEF IsCase
    <3>. QED BY <2>2, <3>4 DEF n
  <2>. QED BY <2>1, <2>2
<1>4. Len(new) = L /\ new = [i \in 1..L |-> new[i]]
  BY <1>0 DEF AssignIds
<1>5. \A i \in 1..L : IsCase(new[i])
  BY <1>0, <1>3
<1>6. ASSUME NEW i \in 1..L, NEW j \in 1..L, i < j PROVE new[i].id # new[j].id
  <2>1. CASE cases[i].id # 0 /\ cases[j].id # 0
    <3>1. new[i] = cases[i] /\ new[j] = cases[j]
      BY <1>3, <2>1
    <3>2. cases[i].id = cases[j].id /\ i # j => cases[i].id = 0
      BY <1>0 DEF Normalizable
    <3>. HIDE DEF new
    <3>. QED BY <1>6, <2>1, <3>1, <3>2
  <2>2. ASSUME cases[i].id = 0, cases[j].id = 0 PROVE new[i].id # new[j].id
    <3>1. turn(i) \in 1..L /\ turn(j) \in 1..L /\ turn(i) # turn(j)
      BY <1>1, <1>2, <1>6, <2>2
    <3>2. new[i].id = NthFree(cases, turn(i)) /\ new[j].id = NthFree(cases, turn(j))
      BY <1>3, <2>2
    <3>3. \A k \in 1..L : Unused(G, NthFree(cases, k)) = k
      BY <1>0, NthIsFree
    <3>. HIDE DEF turn, new
    <3>. QED BY <3>1, <3>2, <3>3
  <2>3. ASSUME NEW k \in 1..L, NEW l \in 1..L, cases[k].id = 0, cases[l].id # 0
        PROVE  new[k].id # new[l].id
    <3>1. turn(k) \in 1..L
      BY <1>1, <2>3
    <3>2. NthFree(cases, turn(k)) \notin G
      BY <1>0, <3>1, NthIsFree
    <3>. QED BY <1>3, <2>3, <3>2
  <2>. QED BY <2>1, <2>2, <2>3
<1>. QED
  <2>. HIDE DEF new
  <2>1. \A i, j \in 1..L : new[i].id = new[j].id => i = j
    <3>. SUFFICES ASSUME NEW i \in 1..L, NEW j \in 1..L, new[i].id = new[j].id, i # j PROVE FALSE
      OBVIOUS
    <3>1. i < j \/ j < i
      OBVIOUS
    <3>. QED BY <1>6, <3>1
  <2>2. Cases(new)
    BY <1>0, <1>4, <1>5 DEF Cases
  <2>. QED BY <1>4, <2>1, <2>2 DEF Numbered, new

-----------------------------------------------------------------------------
(* The audit.                                                              *)

(* What a payload and a set of rules give.                                 *)
LEMMA AuditedIs ==
    ASSUME NEW p \in Answers \cup Documents, NEW refs \in SUBSET Versioned(RuleIds)
    PROVE  Audited(p, refs) = ApplyOverrideRules(AssignIds(p.cases), RulesOf(refs))
<1>. DEFINE Audit(q, rs) == ApplyOverrideRules(AssignIds(q.cases), RulesOf(rs))
            all == {[of |-> q, rules |-> rs, audit |-> Audit(q, rs)] :
                        q \in Answers \cup Documents, rs \in SUBSET Versioned(RuleIds)}
<1>1. Audited(p, refs) = (CHOOSE a \in all : a.of = p /\ a.rules = refs).audit
  BY DEF Audited, Audits
<1>. HIDE DEF Audit
<1>2. [of |-> p, rules |-> refs, audit |-> Audit(p, refs)] \in all
  OBVIOUS
<1>3. \A a \in all : a.of = p /\ a.rules = refs => a.audit = Audit(p, refs)
  OBVIOUS
<1>4. \E a \in all : a.of = p /\ a.rules = refs
  BY <1>2
<1>. HIDE DEF all
<1>5. (CHOOSE a \in all : a.of = p /\ a.rules = refs).audit = Audit(p, refs)
  BY <1>3, <1>4
<1>. QED BY <1>1, <1>5 DEF Audit

(* A case with citations added is the case otherwise.                      *)
LEMMA CitesAdded ==
    ASSUME NEW c, IsCase(c), NEW refs
    PROVE  [c EXCEPT !.cites = @ \cup refs] =
             [id |-> c.id, method |-> c.method, scenario |-> c.scenario, path |-> c.path,
              status |-> c.status, empty |-> c.empty, links |-> c.links,
              cites |-> c.cites \cup refs]
<1>1. PICK cites : cites = c.cites \cup refs
  OBVIOUS
<1>2. [c EXCEPT !.cites = cites] =
        [id |-> c.id, method |-> c.method, scenario |-> c.scenario, path |-> c.path,
         status |-> c.status, empty |-> c.empty, links |-> c.links, cites |-> cites]
  BY DEF IsCase
<1>. QED BY <1>1, <1>2

(* A rule is found by its reference.                                       *)
LEMMA RulesByRef ==
    ASSUME NEW refs, NEW r \in RulesOf(refs)
    PROVE  r.ref \in refs /\ r = Rule(r.ref)
BY DEF RulesOf, Rule

(* A case of which the audit has nothing to say but what it annotates      *)
(* cites rules that were read and honors them all.                         *)
LEMMA CaseHonest ==
    ASSUME NEW c, IsCase(c), NEW refs, Problems(Findings(c, RulesOf(refs))) = {}
    PROVE  LET d == [c EXCEPT !.cites = @ \cup Followed(c, RulesOf(refs))]
           IN d.cites \subseteq refs /\ \A rule \in RulesOf(refs) : Honors(d, rule)
<1>. DEFINE rules == RulesOf(refs)
            followed == Followed(c, rules)
            skipped == {r \in Governing(c, rules) : r.kind = "skip-test"}
            d == [c EXCEPT !.cites = @ \cup followed]
<1>1. d = [id |-> c.id, method |-> c.method, scenario |-> c.scenario, path |-> c.path,
           status |-> c.status, empty |-> c.empty, links |-> c.links,
           cites |-> c.cites \cup followed]
  BY CitesAdded
<1>2. c.cites \ Refs(rules) = {}
  <2>1. ASSUME NEW f \in c.cites \ Refs(rules) PROVE FALSE
    <3>1. [kind |-> "unknown-rule", case |-> c.id, ref |-> f] \in Problems(Findings(c, rules))
      BY DEF Findings, Problems
    <3>. QED BY <3>1
  <2>. QED BY <2>1
<1>3. Refs(skipped) = {}
  <2>1. ASSUME NEW f \in Refs(skipped) PROVE FALSE
    <3>1. [kind |-> "forbidden", case |-> c.id, ref |-> f] \in Problems(Findings(c, rules))
      BY DEF Findings, Problems
    <3>. QED BY <3>1
  <2>. QED BY <2>1
<1>4. Refs(Governing(c, rules) \ skipped) \subseteq followed
  <2>1. ASSUME NEW f \in Refs(Governing(c, rules) \ skipped) \ followed PROVE FALSE
    <3>1. [kind |-> "violated", case |-> c.id, ref |-> f] \in Problems(Findings(c, rules))
      BY DEF Findings, Problems
    <3>. QED BY <3>1
  <2>. QED BY <2>1
<1>5. Refs(rules) \subseteq refs /\ followed \subseteq Refs(rules)
  BY RulesByRef DEF Refs, Followed, Governing
<1>6. d.cites \subseteq refs
  <2>. HIDE DEF followed
  <2>. QED BY <1>1, <1>2, <1>5
<1>7. ASSUME NEW rule \in rules, Matches(rule.when, d)
      PROVE  Satisfied(rule, d) /\ rule.ref \in d.cites
  <2>1. d.method = c.method /\ d.scenario = c.scenario /\ d.path = c.path
        /\ d.status = c.status /\ d.empty = c.empty /\ d.cites = c.cites \cup followed
    BY <1>1
  <2>2. rule \in Governing(c, rules) /\ rule \notin skipped
    <3>1. rule \in Governing(c, rules)
      <4>. HIDE DEF d
      <4>. QED BY <1>7, <2>1 DEF Governing, Matches
    <3>. QED BY <1>3, <3>1 DEF Refs
  <2>3. rule.ref \in followed
    BY <1>4, <2>2 DEF Refs
  <2>4. PICK r \in rules : Satisfied(r, c) /\ r.ref = rule.ref
    BY <2>3 DEF Followed, Refs, Governing
  <2>5. r = rule
    BY <2>4, RulesByRef
  <2>6. Satisfied(rule, d)
    <3>. HIDE DEF d
    <3>. QED BY <2>1, <2>4, <2>5 DEF Satisfied
  <2>. QED BY <2>1, <2>3, <2>6
<1>8. \A rule \in rules : Honors(d, rule)
  <2>. HIDE DEF rules, d
  <2>. QED BY <1>7 DEF Honors
<1>. QED BY <1>6, <1>8

(* An audited suite has the cases it was given, and unless it is flagged   *)
(* every one of them is linked and honors the rules of the audit.          *)
LEMMA AuditHonest ==
    ASSUME NEW cases, Numbered(cases), NEW refs
    PROVE  LET audit == ApplyOverrideRules(cases, RulesOf(refs))
           IN /\ Numbered(audit.cases) /\ Len(audit.cases) = Len(cases)
              /\ ~audit.incomplete =>
                   /\ Len(cases) # 0
                   /\ \A i \in 1..Len(cases) :
                        /\ audit.cases[i].links # {} /\ audit.cases[i].cites \subseteq refs
                        /\ \A rule \in RulesOf(refs) : Honors(audit.cases[i], rule)
<1>. DEFINE rules == RulesOf(refs)
            audit == ApplyOverrideRules(cases, rules)
            L == Len(cases)
            new(c) == [c EXCEPT !.cites = @ \cup Followed(c, rules)]
            findings == UNION {Findings(cases[i], rules) : i \in DOMAIN cases}
            unlinked == {cases[i].id : i \in {j \in DOMAIN cases : cases[j].links = {}}}
<1>0. L \in Nat /\ DOMAIN cases = 1..L /\ \A i \in 1..L : IsCase(cases[i])
  BY DEF Numbered, Cases
<1>1. audit.cases = [i \in 1..L |-> new(cases[i])]
  BY <1>0 DEF ApplyOverrideRules
<1>2. ASSUME NEW i \in 1..L
      PROVE  new(cases[i]) = [id |-> cases[i].id, method |-> cases[i].method,
               scenario |-> cases[i].scenario, path |-> cases[i].path,
               status |-> cases[i].status, empty |-> cases[i].empty, links |-> cases[i].links,
               cites |-> cases[i].cites \cup Followed(cases[i], rules)]
  <2>1. IsCase(cases[i])
    BY <1>0
  <2>. QED BY <2>1, CitesAdded
<1>3. ASSUME NEW i \in 1..L
      PROVE  /\ new(cases[i]).id = cases[i].id /\ new(cases[i]).links = cases[i].links
             /\ IsCase(new(cases[i]))
  BY <1>0, <1>2 DEF IsCase
<1>4. Len(audit.cases) = L /\ audit.cases = [i \in 1..L |-> audit.cases[i]]
  <2>. HIDE DEF audit, new
  <2>. QED BY <1>0, <1>1
<1>5. Numbered(audit.cases)
  <2>. HIDE DEF audit, new
  <2>. QED BY <1>0, <1>1, <1>3, <1>4 DEF Numbered, Cases
<1>6. ASSUME ~audit.incomplete
      PROVE  /\ cases # << >> /\ unlinked = {} /\ Problems(findings) = {}
  BY <1>6 DEF ApplyOverrideRules
<1>7. ASSUME ~audit.incomplete, NEW i \in 1..L
      PROVE  /\ audit.cases[i].links # {} /\ audit.cases[i].cites \subseteq refs
             /\ \A rule \in rules : Honors(audit.cases[i], rule)
  <2>1. Problems(Findings(cases[i], rules)) = {}
    BY <1>0, <1>6, <1>7 DEF Problems
  <2>2. new(cases[i]).cites \subseteq refs /\ \A rule \in rules : Honors(new(cases[i]), rule)
    BY <1>0, <2>1, CaseHonest
  <2>3. cases[i].links # {}
    BY <1>0, <1>6, <1>7
  <2>. HIDE DEF audit, new
  <2>. QED BY <1>1, <1>3, <2>2, <2>3
<1>8. ASSUME ~audit.incomplete PROVE L # 0
  <2>1. cases # << >>
    BY <1>6, <1>8
  <2>. QED BY <1>0, <2>1 DEF Numbered, Cases
<1>. QED BY <1>4, <1>5, <1>7, <1>8

-----------------------------------------------------------------------------
(* What a run knows, and what the store has of its suite.                  *)
Under(r, stages) == r.stage \in stages

(* The suite a run hands to the store.                                     *)
SuiteOK(r) ==
    /\ Numbered(r.suite.cases) /\ r.suite.origin = r.kind
    /\ r.kind = "generated" => r.suite.reqs = r.reqs /\ r.suite.rules = r.rules
    /\ ~r.suite.incomplete =>
         /\ Len(r.suite.cases) # 0
         /\ \A i \in 1..Len(r.suite.cases) :
              /\ r.suite.cases[i].links # {} /\ r.suite.cases[i].links \subseteq Names(r.reqs)
              /\ r.suite.cases[i].cites \subseteq r.rules
              /\ \A rule \in RulesOf(r.rules) : Honors(r.suite.cases[i], rule)

(* Until a run reads the rules, its stable ones are in force.              *)
KnowsOK(r, active) ==
    /\ ~Under(r, {"idle", "failed"}) => r.kind \in {"generated", "imported"}
    /\ Under(r, {"finalize"}) \/ (r.kind = "imported" /\ Under(r, {"requirements", "rules"})) =>
         r.payload \in Answers \cup Documents /\ Normalizable(r.payload.cases)
    /\ Under(r, {"requirements", "rules"}) => r.stable \subseteq active
    /\ Under(r, {"asking", "finalize", "saving", "done"}) => r.stable \subseteq r.rules
    /\ Under(r, {"saving", "done"}) => SuiteOK(r)

OnDisk(c, files) == c.id \in DOMAIN files /\ files[c.id] = c

(* The first k cases are in the files, the rest are to be written.         *)
Written(k, cases, todo, files) ==
    /\ todo \in Seq({cases[i] : i \in 1..Len(cases)})
    /\ Len(todo) = Len(cases) - k
    /\ \A i \in 1..Len(todo) : todo[i] = cases[k + i]
    /\ \A i \in 1..k : OnDisk(cases[i], files)

SavesOK(r, s, files) ==
    /\ s.ver = r.ver /\ s.manifest = Manifest(r.suite)
    /\ \E k \in 0..Len(r.suite.cases) : Written(k, r.suite.cases, s.todo, files)

StoredOK(r, versions, manifest, files) ==
    /\ r.ver \in versions /\ manifest = Manifest(r.suite)
    /\ \A i \in 1..Len(r.suite.cases) : OnDisk(r.suite.cases[i], files)

KnowsInv == \A g \in Runs : KnowsOK(run[g], Active(RuleIds))
StoredInv ==
    /\ \A g \in Runs :
        /\ At(g, "saving") => SavesOK(run[g], save, caseFile[run[g].ver])
        /\ At(g, "done") =>
             StoredOK(run[g], pointer.versions, suiteFile[run[g].ver], caseFile[run[g].ver])
    /\ pointer.current # 0 => suiteFile[pointer.current].incomplete = pointer.incomplete

SuiteInv == TypeInv /\ KnowsInv /\ StoredInv

(* The start satisfies it.                                                 *)
LEMMA SuiteInit == GenInit => SuiteInv
<1>. SUFFICES ASSUME GenInit PROVE SuiteInv
  OBVIOUS
<1>1. TypeInv
  BY TypeInit
<1>2. NoRun.stage = "idle"
  BY DEF NoRun
<1>3. KnowsInv
  BY <1>2 DEF GenInit, KnowsInv, KnowsOK, Under
<1>4. StoredInv
  BY <1>2 DEF GenInit, StoreInit, StoredInv, At
<1>. QED BY <1>1, <1>3, <1>4 DEF SuiteInv

(* The suite a run hands over is what its cases, numbered and audited      *)
(* against the rules it read, give.                                        *)
LEMMA FinalizedOK ==
    ASSUME TypeInv, NEW g \in Runs, KnowsOK(run[g], Active(RuleIds)), At(g, "finalize"),
           NEW new, NEW suite, suite = Finalized(g),
           new.suite = suite, new.kind = run[g].kind, new.reqs = run[g].reqs,
           new.rules = run[g].rules
    PROVE  SuiteOK(new)
<1>. DEFINE p == run[g].payload
            rules == run[g].rules
            cases == AssignIds(p.cases)
            audit == ApplyOverrideRules(cases, RulesOf(rules))
<1>1. p \in Answers \cup Documents /\ Normalizable(p.cases)
  BY DEF KnowsOK, At, Under
<1>2. rules \in SUBSET Versioned(RuleIds)
  BY DEF TypeInv, RunsOK, RunOK
<1>3. Numbered(cases)
  <2>1. Cases(p.cases)
    <3>1. PICK S : p.cases \in Seq(S)
      BY <1>1, SuitesAssumption
    <3>2. \A i \in DOMAIN p.cases : IsCase(p.cases[i])
      BY <1>1, SuitesAssumption
    <3>3. /\ Len(p.cases) \in Nat /\ DOMAIN p.cases = 1..Len(p.cases)
          /\ p.cases = [i \in 1..Len(p.cases) |-> p.cases[i]]
      <4>. HIDE DEF p
      <4>. QED BY <3>1
    <3>. QED BY <3>2, <3>3 DEF Cases
  <2>. QED BY <1>1, <2>1, AssignedNumbered
<1>4. Audited(p, rules) = audit
  BY <1>1, <1>2, AuditedIs
<1>. HIDE DEF cases
<1>5. /\ Numbered(audit.cases) /\ Len(audit.cases) = Len(cases)
      /\ ~audit.incomplete =>
           /\ Len(cases) # 0
           /\ \A i \in 1..Len(cases) :
                /\ audit.cases[i].links # {} /\ audit.cases[i].cites \subseteq rules
                /\ \A rule \in RulesOf(rules) : Honors(audit.cases[i], rule)
  BY <1>3, AuditHonest
<1>. HIDE DEF audit
<1>6. suite = [cases |-> audit.cases, caseIds |-> p.caseIds, origin |-> run[g].kind,
               incomplete |-> \/ audit.incomplete
                              \/ DanglingLinks(audit.cases, Names(run[g].reqs)) # {},
               reqs |-> Provenance(g, p.reqs, run[g].reqs),
               rules |-> Provenance(g, p.rules, run[g].rules)]
  BY <1>4 DEF Finalized
<1>7. run[g].kind = "generated" => suite.reqs = run[g].reqs /\ suite.rules = run[g].rules
  BY <1>6 DEF Provenance
<1>8. ASSUME ~suite.incomplete, NEW i \in 1..Len(audit.cases)
      PROVE  ~audit.incomplete /\ audit.cases[i].links \subseteq Names(run[g].reqs)
  <2>1. ~audit.incomplete /\ DanglingLinks(audit.cases, Names(run[g].reqs)) = {}
    BY <1>6, <1>8
  <2>2. DOMAIN audit.cases = 1..Len(audit.cases)
    BY <1>5 DEF Numbered, Cases
  <2>. QED BY <1>8, <2>1, <2>2 DEF DanglingLinks
<1>9. ~suite.incomplete => ~audit.incomplete
  BY <1>6
<1>10. suite.cases = audit.cases /\ suite.origin = run[g].kind
  BY <1>6
<1>. HIDE DEF p, rules
<1>. QED BY <1>5, <1>7, <1>8, <1>9, <1>10 DEF SuiteOK, rules

(* The turn of one run.                                                    *)
LEMMA TurnKnows ==
    ASSUME TypeInv, KnowsInv, NEW g \in Runs, NEW new, run' = [run EXCEPT ![g] = new],
           UNCHANGED world, KnowsOK(new, Active(RuleIds))
    PROVE  KnowsInv'
<1>1. Active(RuleIds)' = Active(RuleIds)
  BY DEF Active
<1>2. ASSUME NEW h \in Runs PROVE KnowsOK(run'[h], Active(RuleIds))
  BY DEF TypeInv, RunsOK, KnowsInv
<1>. QED BY <1>1, <1>2 DEF KnowsInv

(* A change of a requirement or rule: what was in force for a run and is   *)
(* no more is not stable.                                                  *)
LEMMA BecomesKnows ==
    ASSUME TypeInv, KnowsInv, NEW i \in Things, NEW new, Becomes(i, new)
    PROVE  KnowsInv'
<1>. SUFFICES ASSUME NEW g \in Runs PROVE KnowsOK(run'[g], Active(RuleIds)')
  BY DEF KnowsInv
<1>. DEFINE r == run[g]
            q == run'[g]
<1>1. RunOK(r) /\ KnowsOK(r, Active(RuleIds))
  BY DEF TypeInv, RunsOK, KnowsInv
<1>2. PICK s : /\ q = [r EXCEPT !.stable = s]
               /\ s = IF r.stage \in {"requirements", "rules"}
                      THEN r.stable \ {<<i, world[i].ver>>} ELSE r.stable
  BY DEF Becomes
<1>3. q = [stage |-> r.stage, kind |-> r.kind, payload |-> r.payload, reqs |-> r.reqs,
           rules |-> r.rules, suite |-> r.suite, ver |-> r.ver, stable |-> s]
  BY <1>1, <1>2 DEF RunOK
<1>4. ASSUME r.stage \in {"requirements", "rules"} PROVE s \subseteq Active(RuleIds)'
  <2>. SUFFICES ASSUME NEW p \in s PROVE p \in Active(RuleIds)'
    OBVIOUS
  <2>1. p \in Active(RuleIds) /\ p # <<i, world[i].ver>>
    BY <1>1, <1>2, <1>4 DEF KnowsOK, Under
  <2>2. PICK j \in RuleIds : p = <<j, world[j].ver>> /\ world[j].status = "active"
    BY <2>1 DEF Active
  <2>3. j # i /\ world'[j] = world[j]
    BY <2>1, <2>2 DEF Becomes, TypeInv, WorldOK, Things
  <2>. QED BY <2>2, <2>3 DEF Active
<1>5. SuiteOK(r) => SuiteOK(q)
  BY <1>3 DEF SuiteOK
<1>6. ~(r.stage \in {"requirements", "rules"}) => s = r.stable
  BY <1>2
<1>7. /\ q.stage = r.stage /\ q.kind = r.kind /\ q.payload = r.payload /\ q.rules = r.rules
      /\ q.stable = s
  BY <1>3
<1>. HIDE DEF q, r
<1>8. KnowsOK(q, Active(RuleIds)')
  BY <1>1, <1>4, <1>5, <1>6, <1>7 DEF KnowsOK, Under
<1>. QED BY <1>8 DEF q

(* Every step preserves what the runs know.                                *)
LEMMA KnowsNext == TypeInv /\ KnowsInv /\ [GenNext]_vars => KnowsInv'
<1>. SUFFICES ASSUME TypeInv, KnowsInv, [GenNext]_vars PROVE KnowsInv'
  OBVIOUS
<1>. DEFINE active == Active(RuleIds)
<1>1. ASSUME NEW g \in Runs PROVE RunOK(run[g]) /\ KnowsOK(run[g], active)
  BY DEF TypeInv, RunsOK, KnowsInv
<1>2. KnowsOK(Failed, active)
  BY FailedOK DEF KnowsOK, Under
<1>3. CASE UNCHANGED vars
  BY <1>3 DEF vars, KnowsInv, Active
<1>4. ASSUME NEW i \in Things, BeginUpdate(i) \/ FinishUpdate(i)
                               \/ \E s \in {"active", "inactive"} : SetStatus(i, s)
      PROVE  KnowsInv'
  BY <1>4, BecomesKnows DEF BeginUpdate, FinishUpdate, SetStatus
<1>5. ASSUME NEW g \in Runs, NEW kind \in {"generated", "imported"}, NEW payload,
             Start(g, kind, payload),
             kind = "imported" => payload \in Documents /\ Normalizable(payload.cases)
      PROVE  KnowsInv'
  <2>1. PICK new : /\ run' = [run EXCEPT ![g] = new]
                   /\ new = [NoRun EXCEPT !.stage = "requirements", !.kind = kind,
                                          !.payload = payload, !.stable = active]
    BY <1>5 DEF Start
  <2>. HIDE DEF active
  <2>2. new = [stage |-> "requirements", kind |-> kind, payload |-> payload, reqs |-> {},
               rules |-> {}, suite |-> NoSuiteYet, ver |-> 0, stable |-> active]
    BY <2>1 DEF NoRun
  <2>3. KnowsOK(new, active)
    BY <1>5, <2>2 DEF KnowsOK, Under
  <2>. QED BY <1>5, <2>1, <2>3, TurnKnows DEF Start, active
<1>6. ASSUME NEW g \in Runs, Fails(g) PROVE KnowsInv'
  BY <1>2, <1>6, TurnKnows DEF Fails
<1>7. ASSUME NEW g \in Runs, Works(g) PROVE KnowsInv'
  <2>. DEFINE r == run[g]
  <2>0. RunOK(r) /\ KnowsOK(r, active)
    BY <1>1
  <2>1. CASE ReadRequirements(g)
    <3>1. PICK new : /\ run' = [run EXCEPT ![g] = new]
                     /\ new \in {Failed, [r EXCEPT !.reqs = Active(Reqs), !.stage = "rules"]}
      BY <2>1 DEF ReadRequirements
    <3>2. ASSUME new # Failed PROVE KnowsOK(new, active)
      <4>1. new = [stage |-> "rules", kind |-> r.kind, payload |-> r.payload,
                   reqs |-> Active(Reqs), rules |-> r.rules, suite |-> r.suite,
                   ver |-> r.ver, stable |-> r.stable]
        BY <2>0, <3>1, <3>2 DEF RunOK
      <4>2. r.stage = "requirements"
        BY <2>1 DEF ReadRequirements, At
      <4>. HIDE DEF r, active
      <4>. QED BY <2>0, <4>1, <4>2 DEF KnowsOK, Under
    <3>. QED BY <1>2, <2>1, <3>1, <3>2, TurnKnows DEF ReadRequirements
  <2>2. CASE ReadRules(g)
    <3>0. PICK s : /\ s = IF r.kind = "generated" THEN "asking" ELSE "finalize"
                   /\ run' = [run EXCEPT ![g].rules = active, ![g].stage = s]
      BY <2>2 DEF ReadRules
    <3>1. PICK new : /\ run' = [run EXCEPT ![g] = new]
                     /\ new = [r EXCEPT !.rules = active, !.stage = s]
      BY <3>0 DEF TypeInv, RunsOK
    <3>2. KnowsOK(new, active)
      <4>. HIDE DEF active
      <4>1. new = [stage |-> s, kind |-> r.kind, payload |-> r.payload,
                   reqs |-> r.reqs, rules |-> active, suite |-> r.suite,
                   ver |-> r.ver, stable |-> r.stable]
        BY <2>0, <3>1 DEF RunOK
      <4>2. r.stage = "rules"
        BY <2>2 DEF ReadRules, At
      <4>. HIDE DEF r
      <4>. QED BY <2>0, <3>0, <4>1, <4>2 DEF KnowsOK, Under
    <3>. QED BY <2>2, <3>1, <3>2, TurnKnows DEF ReadRules
  <2>3. CASE AgentFails(g) \/ LockTimesOut(g)
    BY <1>6, <2>3 DEF AgentFails, LockTimesOut
  <2>4. ASSUME NEW p \in Answers, AgentAnswers(g, p) PROVE KnowsInv'
    <3>1. PICK new : /\ run' = [run EXCEPT ![g] = new]
                     /\ new = IF Normalizable(p.cases)
                              THEN [r EXCEPT !.payload = p, !.stage = "finalize"] ELSE Failed
      BY <2>4 DEF AgentAnswers
    <3>2. ASSUME Normalizable(p.cases) PROVE KnowsOK(new, active)
      <4>1. new = [stage |-> "finalize", kind |-> r.kind, payload |-> p,
                   reqs |-> r.reqs, rules |-> r.rules, suite |-> r.suite,
                   ver |-> r.ver, stable |-> r.stable]
        BY <2>0, <3>1, <3>2 DEF RunOK
      <4>2. r.stage = "asking"
        BY <2>4 DEF AgentAnswers, At
      <4>. HIDE DEF r, active
      <4>. QED BY <2>0, <2>4, <3>2, <4>1, <4>2 DEF KnowsOK, Under
    <3>. QED BY <1>2, <2>4, <3>1, <3>2, TurnKnows DEF AgentAnswers
  <2>5. CASE Finalize(g)
    <3>1. PICK suite \in {Finalized(g)} :
              run' = [run EXCEPT ![g].stage = "saving", ![g].suite = suite,
                                 ![g].ver = pointer.current + 1, ![g].payload = NoSuiteYet]
      BY <2>5 DEF Finalize
    <3>2. PICK new : /\ run' = [run EXCEPT ![g] = new]
                     /\ new = [r EXCEPT !.stage = "saving", !.suite = suite,
                                 !.ver = pointer.current + 1, !.payload = NoSuiteYet]
      BY <3>1, <1>1 DEF TypeInv, RunsOK, RunOK
    <3>3. new = [stage |-> "saving", kind |-> r.kind, payload |-> NoSuiteYet,
                 reqs |-> r.reqs, rules |-> r.rules, suite |-> suite,
                 ver |-> pointer.current + 1, stable |-> r.stable]
      BY <2>0, <3>2 DEF RunOK
    <3>4. At(g, "finalize") /\ r.stage = "finalize"
      BY <2>5 DEF Finalize, At
    <3>5. new.suite = suite /\ new.kind = r.kind /\ new.reqs = r.reqs /\ new.rules = r.rules
          /\ new.stage = "saving" /\ new.stable = r.stable
      BY <3>3
    <3>6. SuiteOK(new)
      BY <1>1, <3>1, <3>4, <3>5, FinalizedOK
    <3>7. KnowsOK(new, active)
      <4>. HIDE DEF r, active
      <4>. QED BY <2>0, <3>4, <3>5, <3>6 DEF KnowsOK, Under
    <3>. QED BY <2>5, <3>2, <3>7, TurnKnows DEF Finalize
  <2>. QED BY <1>7, <2>1, <2>2, <2>3, <2>4, <2>5 DEF Works
<1>8. CASE Saves
  <2>1. CASE Save
    BY <2>1 DEF Save, KnowsInv, Active
  <2>2. CASE SaveFails \/ SaveSucceeds \/ SaveFailsLate
    <3>. DEFINE g == save.by
    <3>1. g \in Runs /\ UNCHANGED world
      BY <2>2 DEF SaveFails, SaveSucceeds, SaveFailsLate, StopSaving, WritePointer, Saving,
        TypeInv, SaveInv, NotSaving
    <3>2. PICK new : /\ run' = [run EXCEPT ![g] = new]
                     /\ new \in {Failed, [run[g] EXCEPT !.stage = "done"]}
      BY <2>2, <1>1, <3>1 DEF SaveFails, SaveSucceeds, SaveFailsLate, TypeInv, RunsOK, RunOK
    <3>3. ASSUME new # Failed PROVE KnowsOK(new, active)
      <4>1. new = [stage |-> "done", kind |-> run[g].kind, payload |-> run[g].payload,
                   reqs |-> run[g].reqs, rules |-> run[g].rules, suite |-> run[g].suite,
                   ver |-> run[g].ver, stable |-> run[g].stable]
        BY <1>1, <3>1, <3>2, <3>3 DEF RunOK
      <4>2. run[g].stage = "saving"
        BY <3>1 DEF TypeInv, RunsOK, At
      <4>3. SuiteOK(run[g]) => SuiteOK(new)
        BY <4>1 DEF SuiteOK
      <4>. HIDE DEF g, active
      <4>. QED BY <1>1, <3>1, <4>1, <4>2, <4>3 DEF KnowsOK, Under
    <3>. QED BY <1>2, <3>1, <3>2, <3>3, TurnKnows
  <2>. QED BY <1>8, <2>1, <2>2 DEF Saves
<1>9. ASSUME NEW g \in Runs, Generate(g) \/ \E p \in Documents : Import(g, p)
      PROVE  KnowsInv'
  BY <1>5, <1>9 DEF Generate, Import
<1>. QED BY <1>3, <1>4, <1>7, <1>8, <1>9 DEF GenNext

(* What is stored stays, whatever the other runs and their saves do.       *)
LEMMA StoredStays ==
    ASSUME TypeInv, StoredInv, [GenNext]_vars, NEW g \in Runs, At(g, "done"),
           run'[g].ver = run[g].ver, run'[g].suite = run[g].suite
    PROVE  StoredOK(run'[g], pointer'.versions, suiteFile'[run'[g].ver], caseFile'[run'[g].ver])
<1>. DEFINE v == run[g].ver
<1>1. StoredOK(run[g], pointer.versions, suiteFile[v], caseFile[v])
  BY DEF StoredInv
<1>2. v \in pointer.versions
  BY <1>1 DEF StoredOK
<1>3. v \in pointer'.versions /\ suiteFile'[v] = suiteFile[v] /\ caseFile'[v] = caseFile[v]
  BY <1>2, ListedUntouched DEF TypeInv
<1>. QED BY <1>1, <1>3 DEF StoredOK

(* The pointer shows the flag of the current version.                      *)
LEMMA FlagNext ==
    ASSUME TypeInv, StoredInv, [GenNext]_vars
    PROVE  pointer'.current # 0 => suiteFile'[pointer'.current].incomplete = pointer'.incomplete
<1>1. CASE WritePointer
  BY <1>1 DEF WritePointer, ManifestWritten
<1>2. CASE ~WritePointer
  <2>1. pointer' = pointer
    BY <1>2, StoreCases DEF storeVars, SaveTestSuite, WriteCase, WriteSuite, StopSaving
  <2>2. pointer.current # 0 => pointer.current \in pointer.versions
    BY DEF TypeInv, SaveInv
  <2>3. pointer.current # 0 => suiteFile'[pointer.current] = suiteFile[pointer.current]
    BY <2>2, ListedUntouched DEF TypeInv
  <2>. QED BY <2>1, <2>3 DEF StoredInv
<1>. QED BY <1>1, <1>2

(* A step that leaves the save of a run alone.                             *)
LEMMA SaveStays ==
    ASSUME StoredInv, NEW g \in Runs, At(g, "saving"), UNCHANGED <<save, caseFile>>,
           run'[g].ver = run[g].ver, run'[g].suite = run[g].suite
    PROVE  SavesOK(run'[g], save', caseFile'[run'[g].ver])
BY DEF StoredInv, SavesOK

(* A case file is written: one more of the cases is on disk, and, since no *)
(* two cases have one id, those written before still are.                  *)
LEMMA WriteCaseStored ==
    ASSUME TypeInv, NEW r, SuiteOK(r), SavesOK(r, save, caseFile[r.ver]), WriteCase
    PROVE  SavesOK(r, save', caseFile'[r.ver])
<1>. DEFINE cases == r.suite.cases
            files == caseFile[r.ver]
            L == Len(cases)
            c == Head(save.todo)
<1>1. save.ver = r.ver /\ save.manifest = Manifest(r.suite)
  BY DEF SavesOK
<1>2. PICK k \in 0..L : Written(k, cases, save.todo, files)
  BY DEF SavesOK
<1>3. /\ L \in Nat
      /\ \A i, j \in 1..L : cases[i].id = cases[j].id => i = j
  BY DEF SuiteOK, Numbered, Cases
<1>4. save.todo # << >> /\ save'.todo = Tail(save.todo) /\ save'.ver = save.ver
      /\ save'.manifest = save.manifest
  BY DEF WriteCase, TypeInv, SaveInv
<1>5. save.ver \in SuiteVersions
  BY <1>4 DEF TypeInv, SaveInv, NotSaving
<1>6. caseFile'[r.ver] = Put(files, c)
  BY <1>1, <1>5 DEF WriteCase, TypeInv, SaveInv
<1>7. PICK S : save.todo \in Seq(S) /\ S = {cases[i] : i \in 1..L}
  BY <1>2 DEF Written
<1>8. Len(save.todo) = L - k /\ \A i \in 1..Len(save.todo) : save.todo[i] = cases[k + i]
  BY <1>2 DEF Written
<1>. HIDE DEF L, c
<1>9. k + 1 \in 0..L /\ c = cases[k + 1]
  BY <1>3, <1>4, <1>7, <1>8 DEF c
<1>10. /\ Tail(save.todo) \in Seq(S) /\ Len(Tail(save.todo)) = L - (k + 1)
       /\ \A i \in 1..Len(Tail(save.todo)) : Tail(save.todo)[i] = cases[(k + 1) + i]
  <2>1. Tail(save.todo) \in Seq(S) /\ Len(Tail(save.todo)) = Len(save.todo) - 1
        /\ \A i \in 1..(Len(save.todo) - 1) : Tail(save.todo)[i] = save.todo[i + 1]
    BY <1>4, <1>7
  <2>. HIDE DEF cases
  <2>2. ASSUME NEW i \in 1..(Len(save.todo) - 1) PROVE Tail(save.todo)[i] = cases[(k + 1) + i]
    <3>1. i + 1 \in 1..Len(save.todo) /\ k + (i + 1) = (k + 1) + i
      BY <1>3, <1>8
    <3>. QED BY <2>1, <2>2, <1>8, <3>1
  <2>. QED BY <1>3, <1>8, <2>1, <2>2
<1>11. ASSUME NEW i \in 1..(k + 1) PROVE OnDisk(cases[i], caseFile'[r.ver])
  <2>. HIDE DEF cases, files
  <2>1. CASE i = k + 1
    BY <1>6, <1>9, <2>1 DEF OnDisk, Put
  <2>2. CASE i # k + 1
    <3>1. i \in 1..k /\ i \in 1..L /\ k + 1 \in 1..L
      BY <1>3, <1>9, <2>2
    <3>2. OnDisk(cases[i], files)
      BY <1>2, <3>1 DEF Written
    <3>3. cases[i].id # c.id
      BY <1>3, <1>9, <2>2, <3>1 DEF cases
    <3>. QED BY <1>6, <3>2, <3>3 DEF OnDisk, Put
  <2>. QED BY <2>1, <2>2
<1>12. Written(k + 1, cases, save'.todo, caseFile'[r.ver])
  <2>. HIDE DEF cases
  <2>. QED BY <1>4, <1>7, <1>10, <1>11 DEF Written, L
<1>. QED BY <1>1, <1>4, <1>9, <1>12 DEF SavesOK, L

(* A step after which a run is somewhere else than in its save or done, or *)
(* where it was, with the store left alone.                                *)
LEMMA TurnStored ==
    ASSUME TypeInv, StoredInv, [GenNext]_vars, UNCHANGED storeVars,
           \A g \in Runs : \/ run'[g].stage \notin {"saving", "done"}
                           \/ /\ run'[g].stage = run[g].stage /\ run'[g].ver = run[g].ver
                              /\ run'[g].suite = run[g].suite
    PROVE  StoredInv'
<1>1. ASSUME NEW g \in Runs, run'[g].stage = "saving"
      PROVE  SavesOK(run'[g], save', caseFile'[run'[g].ver])
  BY <1>1, SaveStays DEF storeVars, At
<1>2. ASSUME NEW g \in Runs, run'[g].stage = "done"
      PROVE  StoredOK(run'[g], pointer'.versions, suiteFile'[run'[g].ver], caseFile'[run'[g].ver])
  BY <1>2, StoredStays DEF At
<1>. QED BY <1>1, <1>2, FlagNext DEF StoredInv, At

(* The lock is taken: no case is written yet.                              *)
LEMMA BeginsSave ==
    ASSUME NEW r, SuiteOK(r), NEW s, s.ver = r.ver, s.manifest = Manifest(r.suite),
           s.todo = r.suite.cases, NEW files
    PROVE  SavesOK(r, s, files)
<1>. DEFINE cases == r.suite.cases
            L == Len(cases)
            S == {cases[i] : i \in 1..L}
<1>1. L \in Nat /\ cases = [i \in 1..L |-> cases[i]]
  BY DEF SuiteOK, Numbered, Cases
<1>2. [i \in 1..L |-> cases[i]] \in [1..L -> S]
  OBVIOUS
<1>3. cases \in Seq(S)
  <2>. HIDE DEF S
  <2>. QED BY <1>1, <1>2
<1>4. Written(0, cases, cases, files)
  <2>. HIDE DEF cases
  <2>. QED BY <1>1, <1>3 DEF Written
<1>. QED BY <1>1, <1>4 DEF SavesOK

(* Every step preserves what is said of the store.                         *)
LEMMA StoredNext == TypeInv /\ KnowsInv /\ StoredInv /\ [GenNext]_vars => StoredInv'
<1>. SUFFICES ASSUME TypeInv, KnowsInv, StoredInv, [GenNext]_vars PROVE StoredInv'
  OBVIOUS
<1>1. ASSUME NEW g \in Runs PROVE RunOK(run[g]) /\ (At(g, "saving") <=> save.by = g)
  BY DEF TypeInv, RunsOK
<1>2. run = [g \in Runs |-> run[g]] /\ Failed.stage = "failed"
  BY FailedOK DEF TypeInv, RunsOK
<1>3. CASE UNCHANGED vars
  BY <1>3, TurnStored DEF vars
<1>4. ASSUME NEW i, NEW new, Becomes(i, new) PROVE StoredInv'
  <2>1. ASSUME NEW g \in Runs
        PROVE  run'[g].stage = run[g].stage /\ run'[g].ver = run[g].ver
               /\ run'[g].suite = run[g].suite
    <3>1. PICK s : run'[g] = [run[g] EXCEPT !.stable = s]
      BY <1>4 DEF Becomes
    <3>. QED BY <1>1, <3>1 DEF RunOK
  <2>. QED BY <1>4, <2>1, TurnStored DEF Becomes
<1>5. ASSUME NEW g \in Runs, NEW new, run' = [run EXCEPT ![g] = new],
             new.stage \notin {"saving", "done"}, UNCHANGED storeVars
      PROVE  StoredInv'
  BY <1>2, <1>5, TurnStored
<1>6. ASSUME NEW g \in Runs, Generate(g) \/ \E p \in Documents : Import(g, p)
      PROVE  StoredInv'
  <2>1. PICK kind, payload : Start(g, kind, payload)
    BY <1>6 DEF Generate, Import
  <2>2. PICK new : /\ run' = [run EXCEPT ![g] = new] /\ UNCHANGED storeVars
                   /\ new = [NoRun EXCEPT !.stage = "requirements", !.kind = kind,
                                          !.payload = payload, !.stable = Active(RuleIds)]
    BY <2>1 DEF Start
  <2>3. new.stage = "requirements"
    BY <2>2 DEF NoRun
  <2>. QED BY <1>5, <2>2, <2>3
<1>7. ASSUME NEW g \in Runs, Works(g) PROVE StoredInv'
  <2>1. CASE ReadRequirements(g)
    <3>1. PICK new : /\ run' = [run EXCEPT ![g] = new] /\ UNCHANGED storeVars
                     /\ new \in {Failed, [run[g] EXCEPT !.reqs = Active(Reqs), !.stage = "rules"]}
      BY <2>1 DEF ReadRequirements
    <3>2. new.stage \in {"failed", "rules"}
      BY <1>1, <1>2, <3>1 DEF RunOK
    <3>. QED BY <1>5, <3>1, <3>2
  <2>2. CASE ReadRules(g)
    <3>0. PICK s \in {"asking", "finalize"} :
              /\ run' = [run EXCEPT ![g].rules = Active(RuleIds), ![g].stage = s]
              /\ UNCHANGED storeVars
      BY <2>2 DEF ReadRules
    <3>1. PICK new : /\ run' = [run EXCEPT ![g] = new]
                     /\ new = [run[g] EXCEPT !.rules = Active(RuleIds), !.stage = s]
      BY <1>2, <3>0
    <3>2. new.stage = s
      BY <1>1, <3>1 DEF RunOK
    <3>. QED BY <1>5, <3>0, <3>1, <3>2
  <2>3. CASE AgentFails(g) \/ LockTimesOut(g)
    BY <1>2, <1>5, <2>3 DEF AgentFails, LockTimesOut, Fails
  <2>4. ASSUME NEW p, AgentAnswers(g, p) PROVE StoredInv'
    <3>1. PICK new : /\ run' = [run EXCEPT ![g] = new] /\ UNCHANGED storeVars
                     /\ new \in {Failed, [run[g] EXCEPT !.payload = p, !.stage = "finalize"]}
      BY <2>4 DEF AgentAnswers
    <3>2. new.stage \in {"failed", "finalize"}
      BY <1>1, <1>2, <3>1 DEF RunOK
    <3>. QED BY <1>5, <3>1, <3>2
  <2>5. CASE Finalize(g)
    <3>1. PICK suite \in {Finalized(g)} :
              /\ SaveTestSuite(g, suite)
              /\ run' = [run EXCEPT ![g].stage = "saving", ![g].suite = suite,
                                    ![g].ver = pointer.current + 1, ![g].payload = NoSuiteYet]
      BY <2>5 DEF Finalize
    <3>2. PICK new : /\ run' = [run EXCEPT ![g] = new]
                     /\ new = [run[g] EXCEPT !.stage = "saving", !.suite = suite,
                                 !.ver = pointer.current + 1, !.payload = NoSuiteYet]
      BY <3>1, <1>2
    <3>3. new.stage = "saving" /\ new.suite = suite /\ new.ver = pointer.current + 1
      BY <1>1, <3>2 DEF RunOK
    <3>4. UNCHANGED <<caseFile, suiteFile, pointer>> /\ \A h \in Runs : save.by # h
      BY <3>1 DEF SaveTestSuite, Saving
    <3>5. SavesOK(new, save', caseFile'[new.ver])
      <4>1. KnowsInv'
        BY KnowsNext
      <4>2. SuiteOK(new)
        BY <3>2, <3>3, <4>1, <1>2 DEF KnowsInv, KnowsOK, Under
      <4>3. save'.ver = new.ver /\ save'.manifest = Manifest(new.suite)
            /\ save'.todo = new.suite.cases
        BY <3>1, <3>3 DEF SaveTestSuite
      <4>. QED BY <4>2, <4>3, BeginsSave
    <3>6. ASSUME NEW h \in Runs, run'[h].stage = "saving"
          PROVE  SavesOK(run'[h], save', caseFile'[run'[h].ver])
      <4>1. h = g
        BY <1>1, <1>2, <3>2, <3>4, <3>6 DEF At
      <4>. QED BY <1>2, <3>2, <3>5, <4>1
    <3>7. ASSUME NEW h \in Runs, run'[h].stage = "done"
          PROVE  StoredOK(run'[h], pointer'.versions, suiteFile'[run'[h].ver], caseFile'[run'[h].ver])
      <4>1. h # g /\ run'[h] = run[h]
        BY <1>2, <3>2, <3>3, <3>7
      <4>. QED BY <3>7, <4>1, StoredStays DEF At
    <3>. QED BY <3>6, <3>7, FlagNext DEF StoredInv, At
  <2>. QED BY <1>7, <2>1, <2>2, <2>3, <2>4, <2>5 DEF Works
<1>8. ASSUME Save PROVE StoredInv'
  <2>1. run' = run
    BY <1>8 DEF Save
  <2>2. ASSUME NEW h \in Runs, run'[h].stage = "saving"
        PROVE  SavesOK(run'[h], save', caseFile'[run'[h].ver])
    <3>1. SavesOK(run[h], save, caseFile[run[h].ver]) /\ SuiteOK(run[h])
      BY <2>1, <2>2 DEF StoredInv, At, KnowsInv, KnowsOK, Under
    <3>2. CASE WriteCase
      BY <2>1, <3>1, <3>2, WriteCaseStored
    <3>3. CASE WriteSuite
      BY <2>1, <2>2, <3>3, SaveStays DEF WriteSuite, At
    <3>. QED BY <1>8, <3>2, <3>3 DEF Save
  <2>3. ASSUME NEW h \in Runs, run'[h].stage = "done"
        PROVE  StoredOK(run'[h], pointer'.versions, suiteFile'[run'[h].ver], caseFile'[run'[h].ver])
    BY <2>1, <2>3, StoredStays DEF At
  <2>. QED BY <2>2, <2>3, FlagNext DEF StoredInv, At
<1>9. ASSUME SaveFails \/ SaveSucceeds \/ SaveFailsLate PROVE StoredInv'
  <2>. DEFINE g == save.by
  <2>1. g \in Runs /\ UNCHANGED caseFile
    BY <1>9 DEF SaveFails, SaveSucceeds, SaveFailsLate, StopSaving, WritePointer, Saving,
      TypeInv, SaveInv, NotSaving
  <2>2. PICK new : /\ run' = [run EXCEPT ![g] = new]
                   /\ \/ new = Failed
                      \/ SaveSucceeds /\ new = [run[g] EXCEPT !.stage = "done"]
    BY <1>9, <1>2, <2>1 DEF SaveFails, SaveSucceeds, SaveFailsLate
  <2>3. new # Failed => new.stage = "done" /\ new.ver = run[g].ver /\ new.suite = run[g].suite
    BY <1>1, <2>1, <2>2 DEF RunOK
  <2>4. ASSUME NEW h \in Runs, run'[h].stage = "saving" PROVE FALSE
    BY <1>1, <1>2, <2>1, <2>2, <2>3, <2>4 DEF At
  <2>5. ASSUME SaveSucceeds
        PROVE  StoredOK(run[g], pointer'.versions, suiteFile'[run[g].ver], caseFile'[run[g].ver])
    <3>1. SavesOK(run[g], save, caseFile[run[g].ver])
      BY <1>1, <2>1 DEF StoredInv
    <3>2. SuiteOK(run[g])
      BY <1>1, <2>1 DEF KnowsInv, KnowsOK, Under, At
    <3>3. PICK k \in 0..Len(run[g].suite.cases) :
              Written(k, run[g].suite.cases, save.todo, caseFile[run[g].ver])
      BY <3>1 DEF SavesOK
    <3>4. save.todo = << >> /\ suiteFile[save.ver] = save.manifest
          /\ save.ver \in pointer'.versions /\ suiteFile' = suiteFile
      BY <2>5 DEF SaveSucceeds, WritePointer, ManifestWritten
    <3>5. k = Len(run[g].suite.cases)
      BY <3>2, <3>3, <3>4 DEF Written, SuiteOK, Numbered, Cases
    <3>. QED BY <2>1, <3>1, <3>3, <3>4, <3>5 DEF SavesOK, Written, StoredOK
  <2>6. ASSUME NEW h \in Runs, run'[h].stage = "done"
        PROVE  StoredOK(run'[h], pointer'.versions, suiteFile'[run'[h].ver], caseFile'[run'[h].ver])
    <3>1. CASE h # g
      BY <1>2, <2>2, <2>6, <3>1, StoredStays DEF At
    <3>2. CASE h = g
      <4>1. run'[h] = new /\ SaveSucceeds
        BY <1>2, <2>2, <2>6, <3>2
      <4>2. new.ver = run[g].ver /\ new.suite = run[g].suite
        BY <1>2, <2>3, <2>6, <4>1
      <4>. QED BY <2>5, <4>1, <4>2 DEF StoredOK
    <3>. QED BY <3>1, <3>2
  <2>. QED BY <2>4, <2>6, FlagNext DEF StoredInv, At
<1>. QED BY <1>3, <1>4, <1>6, <1>7, <1>8, <1>9 DEF GenNext, BeginUpdate, FinishUpdate, SetStatus, Saves

(* The invariant holds.                                                    *)
LEMMA SuiteInvariant == GenSpec => []SuiteInv
<1>1. SuiteInv /\ [GenNext]_vars => SuiteInv'
  BY TypeNext, KnowsNext, StoredNext DEF SuiteInv
<1>. QED BY <1>1, SuiteInit, PTL DEF GenSpec

-----------------------------------------------------------------------------
(* What LoadTestSuite makes of a version that is stored: the cases of the  *)
(* suite, in their order.                                                  *)
LEMMA StoredCases ==
    ASSUME SuiteInv, NEW g \in Runs, At(g, "done"),
           Len(run[g].suite.cases) # 0 \/ run[g].suite.caseIds = << >>
    PROVE  /\ suiteFile[run[g].ver] = Manifest(run[g].suite)
           /\ Loadable(run[g].ver) /\ Stored(g).cases = run[g].suite.cases
<1>. DEFINE r == run[g]
            cases == r.suite.cases
            L == Len(cases)
            m == suiteFile[r.ver]
<1>1. SuiteOK(r) /\ r.kind \in {"generated", "imported"}
  BY DEF SuiteInv, KnowsInv, KnowsOK, Under, At
<1>2. StoredOK(r, pointer.versions, m, caseFile[r.ver])
  BY DEF SuiteInv, StoredInv
<1>3. L \in Nat /\ cases = [i \in 1..L |-> cases[i]]
  BY <1>1 DEF SuiteOK, Numbered, Cases
<1>4. m = Manifest(r.suite) /\ \A i \in 1..L : OnDisk(cases[i], caseFile[r.ver])
  BY <1>2 DEF StoredOK
<1>5. m.ids = [i \in 1..L |-> cases[i].id]
  <2>1. CASE L = 0
    <3>1. cases = << >>
      BY <1>3, <2>1
    <3>2. m.ids = << >>
      BY <1>4, <2>1, <3>1 DEF Manifest
    <3>. QED BY <2>1, <3>2
  <2>2. CASE L # 0
    <3>1. cases # << >> /\ DOMAIN cases = 1..L
      BY <1>3, <2>2
    <3>. QED BY <1>4, <3>1 DEF Manifest
  <2>. QED BY <2>1, <2>2
<1>6. m # NoSuite
  <2>1. m.origin = r.kind
    BY <1>1, <1>4 DEF SuiteOK, Manifest
  <2>. QED BY <1>1, <2>1 DEF NoSuite
<1>7. ToSet(m.ids) \subseteq DOMAIN caseFile[r.ver]
  <2>. HIDE DEF m, cases, L
  <2>. QED BY <1>4, <1>5 DEF ToSet, OnDisk
<1>8. Stored(g).cases = cases
  <2>1. Stored(g).cases = [i \in DOMAIN m.ids |-> caseFile[r.ver][m.ids[i]]]
    BY DEF Stored, LoadTestSuite
  <2>. HIDE DEF m, cases, L, r
  <2>2. \A i \in 1..L : caseFile[r.ver][m.ids[i]] = cases[i]
    BY <1>4, <1>5 DEF OnDisk
  <2>3. DOMAIN m.ids = 1..L
    BY <1>5
  <2>. QED BY <1>3, <2>1, <2>2, <2>3
<1>. QED BY <1>4, <1>6, <1>7, <1>8 DEF Loadable

(* What Generate or Import returned is what LoadTestSuite reads back from  *)
(* then on (testsuites.go:139), whatever earlier saves left in the          *)
(* directory, and the pointer shows the flag of its version.               *)
THEOREM StoredReadBack == GenSpec => []StoredAsReturned
<1>1. SuiteInv => StoredAsReturned
  <2>. SUFFICES ASSUME SuiteInv PROVE StoredAsReturned
    OBVIOUS
  <2>1. ASSUME NEW g \in Runs, At(g, "done")
        PROVE  /\ suiteFile[run[g].ver] = Manifest(run[g].suite)
               /\ run[g].suite.cases # << >> \/ run[g].suite.caseIds = << >> =>
                    Loadable(run[g].ver) /\ Stored(g).cases = run[g].suite.cases
    <3>1. suiteFile[run[g].ver] = Manifest(run[g].suite) /\ SuiteOK(run[g])
      BY <2>1 DEF SuiteInv, StoredInv, StoredOK, KnowsInv, KnowsOK, Under, At
    <3>2. run[g].suite.cases # << >> => Len(run[g].suite.cases) # 0
      BY <3>1 DEF SuiteOK, Numbered, Cases
    <3>. QED BY <2>1, <3>1, <3>2, StoredCases
  <2>2. \A s \in ListTestSuites : s.incomplete = pointer.incomplete
    BY DEF SuiteInv, StoredInv, ListTestSuites
  <2>. QED BY <2>1, <2>2 DEF StoredAsReturned
<1>. QED BY <1>1, SuiteInvariant, PTL

(* What the cases of a stored version that is not flagged are.             *)
LEMMA StoredHonest ==
    ASSUME SuiteInv, NEW g \in Runs, At(g, "done"), ~suiteFile[run[g].ver].incomplete
    PROVE  /\ Stored(g).cases # << >>
           /\ \A c \in ToSet(Stored(g).cases) :
                /\ c.links # {} /\ c.links \subseteq Names(run[g].reqs)
                /\ c.cites \subseteq run[g].rules
                /\ \A rule \in RulesOf(run[g].rules) : Honors(c, rule)
           /\ run[g].kind = "generated" =>
                suiteFile[run[g].ver].reqs = run[g].reqs /\ suiteFile[run[g].ver].rules = run[g].rules
           /\ run[g].stable \subseteq run[g].rules
<1>. DEFINE r == run[g]
            cases == r.suite.cases
<1>1. SuiteOK(r) /\ r.stable \subseteq r.rules
  BY DEF SuiteInv, KnowsInv, KnowsOK, Under, At
<1>2. suiteFile[r.ver] = Manifest(r.suite)
  BY DEF SuiteInv, StoredInv, StoredOK
<1>3. ~r.suite.incomplete /\ suiteFile[r.ver].reqs = r.suite.reqs /\ suiteFile[r.ver].rules = r.suite.rules
  BY <1>2 DEF Manifest
<1>4. Len(cases) # 0
  BY <1>1, <1>3 DEF SuiteOK
<1>5. Stored(g).cases = cases
  BY <1>4, StoredCases
<1>6. DOMAIN cases = 1..Len(cases) /\ cases # << >>
  BY <1>1, <1>4 DEF SuiteOK, Numbered, Cases
<1>7. \A c \in ToSet(cases) : \E i \in 1..Len(cases) : c = cases[i]
  BY <1>6 DEF ToSet
<1>8. ASSUME NEW i \in 1..Len(cases)
      PROVE  /\ cases[i].links # {} /\ cases[i].links \subseteq Names(r.reqs)
             /\ cases[i].cites \subseteq r.rules
             /\ \A rule \in RulesOf(r.rules) : Honors(cases[i], rule)
  BY <1>1, <1>3 DEF SuiteOK
<1>9. r.kind = "generated" => suiteFile[r.ver].reqs = r.reqs /\ suiteFile[r.ver].rules = r.rules
  BY <1>1, <1>3 DEF SuiteOK
<1>. HIDE DEF cases, r
<1>10. \A c \in ToSet(cases) :
          /\ c.links # {} /\ c.links \subseteq Names(r.reqs)
          /\ c.cites \subseteq r.rules
          /\ \A rule \in RulesOf(r.rules) : Honors(c, rule)
  BY <1>7, <1>8
<1>. QED BY <1>1, <1>5, <1>6, <1>9, <1>10 DEF r

(* "Auditing before storing is what keeps an incomplete suite honest"      *)
(* (generator.go:312): a stored version that is not flagged has cases,     *)
(* each linked to requirements the run read, citing only rules it read and *)
(* honoring all of those, whatever changed in between and whoever saved.   *)
THEOREM CompleteHonest == GenSpec => []CompleteIsHonest
<1>1. SuiteInv => CompleteIsHonest
  BY StoredHonest DEF CompleteIsHonest
<1>. QED BY <1>1, SuiteInvariant, PTL

(* An imported suite is "audited exactly like a generated one"             *)
(* (generator.go:260): the rules in force while the run read its inputs    *)
(* are honored by every case of a stored version that is not flagged.      *)
THEOREM RulesHonored == GenSpec => []RulesInForceHonored
<1>1. SuiteInv => RulesInForceHonored
  <2>. SUFFICES ASSUME SuiteInv, NEW g \in Runs, At(g, "done"),
                       ~suiteFile[run[g].ver].incomplete,
                       NEW c \in ToSet(Stored(g).cases), NEW rule \in RulesOf(run[g].stable)
                PROVE  Honors(c, rule)
    BY DEF RulesInForceHonored
  <2>1. rule \in RulesOf(run[g].rules)
    BY StoredHonest DEF RulesOf
  <2>. QED BY <2>1, StoredHonest
<1>. QED BY <1>1, SuiteInvariant, PTL
=============================================================================
