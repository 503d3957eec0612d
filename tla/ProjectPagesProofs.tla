-------------------------- MODULE ProjectPagesProofs --------------------------
(***************************************************************************)
(* Proofs about ProjectPages and the ReportStore it extends, for any       *)
(* reports, requests, entities, suites and documents.                      *)
(***************************************************************************)
EXTENDS ProjectPages, FiniteSetTheorems, WellFoundedInduction, NaturalsInduction, TLAPS

USE ReportAssumption

States == {"none", "part", "whole"}

(* The request that holds the lock made the file it is writing, and what   *)
(* is not whole is its file or that of a request that was killed or could  *)
(* not remove it.                                                          *)
ReportInv ==
    /\ reports \in [ReportNames -> [state : States, by : Adders \cup {NoOne}, at : Nat]]
    /\ add = NoAdd \/ add \in [by : Adders, name : ReportNames]
    /\ result \in [Adders -> [is : Results, name : ReportNames \cup {"none"}]]
    /\ \A a \in Adders : result[a].is = "adding" <=> add.by = a
    /\ \A a \in Adders : result[a].is = "added" => result[a].name \in ReportNames
    /\ add # NoAdd => /\ result[add.by].name = add.name
                      /\ reports[add.name].by = add.by
                      /\ reports[add.name].state # "none"
    /\ \A n \in ReportNames : reports[n].state = "part" =>
           \/ add # NoAdd /\ add.name = n
           \/ reports[n].by \in Adders /\ result[reports[n].by].is \in {"killed", "stuck"}
    /\ AddedReportsKept

-----------------------------------------------------------------------------
(* The order of the changes is a number.                                   *)
LEMMA NowType == Now \in Nat
<1>. DEFINE S == {a \in Adders : result[a].is # "idle"}
<1>1. IsFiniteSet(S)
  BY FS_Subset
<1>. QED BY <1>1, FS_CardinalityType DEF Now

(* No report satisfies the invariant.                                      *)
LEMMA ReportInitInvariant == ReportInit => ReportInv
BY DEF ReportInit, ReportInv, NoReport, NoAdd, States, Results, AddedReportsKept

(* The creation of a file: it did not exist, so no report that was added   *)
(* is touched.                                                             *)
LEMMA CreateReportInvariant ==
    ASSUME ReportInv, NEW a \in Adders, NEW n \in ReportNames,
           AddReport(a, n), n \notin ListReports, Create(a, n)
    PROVE  ReportInv'
<1>. USE DEF Create
<1>1. add = NoAdd /\ result[a].is = "idle" /\ reports[n].state = "none"
  BY DEF AddReport, ListReports, ReportInv, States
<1>2. add' = [by |-> a, name |-> n] /\ add' # NoAdd /\ add'.by = a /\ add'.name = n
  BY DEF NoAdd
<1>3. /\ reports' \in [ReportNames -> [state : States, by : Adders \cup {NoOne}, at : Nat]]
      /\ reports'[n].state = "part" /\ reports'[n].by = a
      /\ \A m \in ReportNames : m # n => reports'[m] = reports[m]
  BY NowType DEF ReportInv, States
<1>4. /\ result' \in [Adders -> [is : Results, name : ReportNames \cup {"none"}]]
      /\ result'[a].is = "adding" /\ result'[a].name = n
      /\ \A b \in Adders : b # a => result'[b] = result[b]
  BY DEF ReportInv, Results
<1>5. \A b \in Adders : result[b].is # "adding"
  BY <1>1 DEF ReportInv, NoAdd
<1>6. \A b \in Adders : result'[b].is = "adding" <=> add'.by = b
  BY <1>2, <1>4, <1>5
<1>7. ASSUME NEW m \in ReportNames, reports'[m].state = "part"
      PROVE  \/ add' # NoAdd /\ add'.name = m
             \/ /\ reports'[m].by \in Adders
                /\ result'[reports'[m].by].is \in {"killed", "stuck"}
  BY <1>1, <1>2, <1>3, <1>4, <1>7 DEF ReportInv
<1>8. AddedReportsKept'
  <2>. SUFFICES ASSUME NEW b \in Adders, result'[b].is = "added"
                PROVE  /\ reports'[result'[b].name].by = b
                       /\ reports'[result'[b].name].state = "whole"
    BY DEF AddedReportsKept
  <2>1. b # a /\ result'[b] = result[b]
    BY <1>4
  <2>2. reports[result[b].name].by = b /\ reports[result[b].name].state = "whole"
    BY <2>1 DEF ReportInv, AddedReportsKept
  <2>3. result[b].name # n
    BY <1>1, <2>2
  <2>. QED BY <2>1, <2>2, <2>3, <1>3
<1>. QED BY <1>2, <1>3, <1>4, <1>6, <1>7, <1>8 DEF ReportInv

(* A request that fails with nothing written, of which a refusal is one,   *)
(* was idle and is not any longer.                                         *)
LEMMA RefuseInvariant ==
    ASSUME ReportInv, NEW a \in Adders, result[a].is = "idle", add = NoAdd,
           Answer(a, "refused"), UNCHANGED <<reports, add>>
    PROVE  ReportInv'
<1>. USE DEF Answer
<1>1. /\ result' \in [Adders -> [is : Results, name : ReportNames \cup {"none"}]]
      /\ result'[a].is = "refused"
      /\ \A b \in Adders : b # a => result'[b] = result[b]
  BY DEF ReportInv, Results
<1>2. \A b \in Adders : result'[b].is = "adding" <=> add'.by = b
  BY <1>1 DEF ReportInv, NoAdd
<1>3. AddedReportsKept'
  BY <1>1 DEF ReportInv, AddedReportsKept
<1>4. \A m \in ReportNames : reports'[m].state = "part" =>
         reports'[m].by \in Adders /\ result'[reports'[m].by].is \in {"killed", "stuck"}
  BY <1>1 DEF ReportInv
<1>. QED BY <1>1, <1>2, <1>3, <1>4 DEF ReportInv

(* The write of the content preserves it.                                  *)
LEMMA WriteReportInvariant ==
    ASSUME ReportInv, WriteReport
    PROVE  ReportInv'
<1>1. add \in [by : Adders, name : ReportNames] /\ UNCHANGED <<add, result>>
  BY DEF WriteReport, ReportInv
<1>2. /\ reports' \in [ReportNames -> [state : States, by : Adders \cup {NoOne}, at : Nat]]
      /\ reports'[add.name].state = "whole" /\ reports'[add.name].by = reports[add.name].by
      /\ \A m \in ReportNames : m # add.name => reports'[m] = reports[m]
  BY <1>1 DEF WriteReport, ReportInv, States
<1>3. AddedReportsKept'
  BY <1>1, <1>2 DEF ReportInv, AddedReportsKept
<1>. QED BY <1>1, <1>2, <1>3 DEF ReportInv

(* A request that ends: with its file whole, with its file removed, or     *)
(* with its file as it is because it was killed or could not remove it.    *)
LEMMA EndInvariant ==
    ASSUME ReportInv, add # NoAdd, NEW is \in {"added", "failed", "stuck", "killed"},
           Answer(add.by, is), add' = NoAdd,
           \/ is = "added" /\ reports[add.name].state = "whole" /\ UNCHANGED reports
           \/ is = "failed" /\ reports' = [reports EXCEPT ![add.name] = NoReport]
           \/ is \in {"stuck", "killed"} /\ UNCHANGED reports
    PROVE  ReportInv'
<1>. USE DEF Answer
<1>1. add \in [by : Adders, name : ReportNames] /\ result[add.by].is = "adding"
  BY DEF ReportInv
<1>2. /\ result' \in [Adders -> [is : Results, name : ReportNames \cup {"none"}]]
      /\ result'[add.by].is = is /\ result'[add.by].name = add.name
      /\ \A b \in Adders : b # add.by => result'[b] = result[b]
  BY <1>1 DEF ReportInv, Results
<1>3. reports' \in [ReportNames -> [state : States, by : Adders \cup {NoOne}, at : Nat]]
  BY <1>1 DEF ReportInv, States, NoReport
<1>4. \A m \in ReportNames : m # add.name => reports'[m] = reports[m]
  BY <1>1 DEF ReportInv
<1>5. \A b \in Adders : result'[b].is = "adding" <=> add'.by = b
  BY <1>1, <1>2 DEF ReportInv, NoAdd
<1>6. ASSUME NEW m \in ReportNames, reports'[m].state = "part"
      PROVE  reports'[m].by \in Adders /\ result'[reports'[m].by].is \in {"killed", "stuck"}
  <2>1. CASE m = add.name
    <3>1. is \in {"killed", "stuck"} /\ reports'[m].by = add.by
      BY <1>1, <1>6, <2>1 DEF ReportInv, NoReport
    <3>. QED BY <3>1, <1>1, <1>2
  <2>2. CASE m # add.name
    BY <1>1, <1>2, <1>4, <1>6, <2>2 DEF ReportInv
  <2>. QED BY <2>1, <2>2
<1>7. AddedReportsKept'
  <2>. SUFFICES ASSUME NEW b \in Adders, result'[b].is = "added"
                PROVE  /\ reports'[result'[b].name].by = b
                       /\ reports'[result'[b].name].state = "whole"
    BY DEF AddedReportsKept
  <2>1. CASE b = add.by
    BY <2>1, <1>1, <1>2 DEF ReportInv
  <2>2. CASE b # add.by
    <3>1. reports[result[b].name].by = b /\ reports[result[b].name].state = "whole"
      BY <2>2, <1>2 DEF ReportInv, AddedReportsKept
    <3>2. result[b].name # add.name
      BY <2>2, <3>1 DEF ReportInv
    <3>3. reports'[result[b].name] = reports[result[b].name]
      BY <1>1, <3>2 DEF ReportInv
    <3>. QED BY <2>2, <1>2, <3>1, <3>3
  <2>. QED BY <2>1, <2>2
<1>. QED BY <1>2, <1>3, <1>5, <1>6, <1>7 DEF ReportInv

(* Every step of the report store preserves it.                            *)
LEMMA AddStepInvariant == ReportInv /\ [AddStep]_reportVars => ReportInv'
<1>. SUFFICES ASSUME ReportInv, [AddStep]_reportVars PROVE ReportInv'
  OBVIOUS
<1>1. ASSUME NEW a \in Adders, NEW n \in ReportNames, AddReport(a, n)
      PROVE  ReportInv'
  BY <1>1, CreateReportInvariant, RefuseInvariant DEF AddReport
<1>2. CASE WriteReport
  BY <1>2, WriteReportInvariant
<1>3. CASE CloseReport
  BY <1>3, EndInvariant DEF CloseReport
<1>4. CASE AddFails
  BY <1>4, EndInvariant DEF AddFails
<1>5. CASE AdderKilled
  BY <1>5, EndInvariant DEF AdderKilled
<1>6. CASE UNCHANGED reportVars
  BY <1>6 DEF reportVars, ReportInv, AddedReportsKept
<1>. QED BY <1>1, <1>2, <1>3, <1>4, <1>5, <1>6 DEF AddStep

(* The pages leave the reports alone.                                      *)
LEMMA PagesReportSteps == [PagesNext]_vars => [AddStep]_reportVars
BY DEF PagesNext, Edit, ListProjectItems, GetTestability, Call, LoadReport, Respond,
   GetProjectItem, OpenCase, OpenFolder, Answers, vars, reportVars

(* The invariant of the report store holds while pages are served.         *)
THEOREM ReportInvariance == PagesSpec => []ReportInv
<1>1. PagesInit => ReportInv
  BY ReportInitInvariant DEF PagesInit
<1>. QED BY <1>1, AddStepInvariant, PagesReportSteps, PTL DEF PagesSpec

(* "use a different name to retain both runs" (reports.go:164): a report   *)
(* whose upload succeeded stays whole, for any requests and names.         *)
THEOREM ReportsKept == PagesSpec => []AddedReportsKept
BY ReportInvariance, PTL DEF ReportInv

(* A file that is not whole belongs to the upload under way, to one that   *)
(* was killed, or to one that failed and whose removal of it was refused.  *)
THEOREM PartsAccounted == PagesSpec => []PartsAccountedFor
<1>1. ReportInv => PartsAccountedFor
  BY DEF ReportInv, PartsAccountedFor
<1>. QED BY <1>1, ReportInvariance, PTL

-----------------------------------------------------------------------------
(***************************************************************************)
(* What the page under way, and the tree that stays in the browser, have   *)
(* read was true of the project and, since the store only grows, still is: *)
(* an entity and a suite gain versions, the artifacts gain revisions.      *)
(***************************************************************************)
ItemCalls ==
    {<<"entities", "suites", "reports", "project", "cases">>,
     <<"suites", "reports", "project", "cases">>, <<"reports", "project", "cases">>,
     <<"project", "cases">>, <<"cases">>, <<>>}

ProjectOK ==
    /\ version \in [Entities -> Nat] /\ suite \in Seq(CaseSets)
    /\ project = [arts |-> project.arts, rootsSet |-> project.rootsSet,
                  roots |-> project.roots, features |-> project.features]
    /\ project.arts \in Seq(DocNames)
    /\ project.roots \subseteq Seq(Segments) /\ RootsAccepted(project.roots)
    /\ project.features = Features

Gone(n) == \E a \in Adders : result[a] = [is |-> "failed", name |-> n]

PageOK ==
    /\ page = [kind |-> page.kind, todo |-> page.todo, entities |-> page.entities,
               ver |-> page.ver, cases |-> page.cases, listed |-> page.listed,
               docs |-> page.docs, last |-> page.last, missing |-> page.missing]
    /\ page.kind \in {"none", "items", "testability", "tree", "rollup"}
    /\ page.kind \notin {"items", "testability"} => page.todo = <<>>
    /\ page.entities # <<>> =>
          \A e \in Entities : page.entities[e] \in Nat /\ page.entities[e] <= version[e]
    /\ page.ver \in 0..Len(suite)
    /\ \A n \in DOMAIN page.listed : n \in ReportNames /\ (n \in ListReports \/ Gone(n))
    /\ \A d \in page.docs : d[1] \in DOMAIN project.arts
    /\ \A d \in page.docs : d[2] # <<>> => Under(project.arts[d[1]], d[2])
    /\ DocumentsShownOnce
    /\ page.kind = "items" => page.todo \in ItemCalls /\ (page.todo # <<>> => page.cases = {})
    /\ page.kind \in {"items", "tree"} =>
          page.cases \subseteq (IF page.ver = 0 THEN {} ELSE suite[page.ver])

PagesInv == ReportInv /\ ProjectOK /\ PageOK

(* A page that has read nothing.                                           *)
LEMMA NoPageFields ==
    /\ NoPage.entities = <<>> /\ NoPage.ver = 0 /\ NoPage.cases = {} /\ NoPage.todo = <<>>
    /\ NoPage.docs = {} /\ NoPage.missing = NoItem /\ NoPage.kind = "none"
    /\ DOMAIN NoPage.listed = {} /\ NoPage.listed = <<>> /\ NoPage.last = NoRun
BY DEF NoPage, NoItem

(* A new project satisfies the invariant.                                  *)
LEMMA PagesInitInvariant == PagesInit => PagesInv
<1>. SUFFICES ASSUME PagesInit PROVE PagesInv
  OBVIOUS
<1>1. ReportInv
  BY ReportInitInvariant DEF PagesInit
<1>2. ProjectOK
  BY DEF PagesInit, ProjectOK, RootsAccepted
<1>3. PageOK
  BY NoPageFields DEF PagesInit, PageOK, NoPage, DocumentsShownOnce
<1>. QED BY <1>1, <1>2, <1>3 DEF PagesInv

(* A report that is listed stays or its upload fails; a failure is final.  *)
LEMMA GoneStays ==
    ASSUME ReportInv, [AddStep]_reportVars, NEW n
    PROVE  /\ Gone(n) => Gone(n)'
           /\ n \in ListReports => n \in ListReports' \/ Gone(n)'
<1>. DEFINE Same == \A a \in Adders : result[a].is = "failed" => result'[a] = result[a]
<1>1. result \in [Adders -> [is : Results, name : ReportNames \cup {"none"}]]
      /\ (add # NoAdd => add \in [by : Adders, name : ReportNames])
      /\ reports \in [ReportNames -> [state : States, by : Adders \cup {NoOne}, at : Nat]]
  BY DEF ReportInv
<1>2. Same => (Gone(n) => Gone(n)')
  BY <1>1 DEF Gone
<1>3. CASE UNCHANGED reportVars
  BY <1>3 DEF reportVars, Gone, ListReports
<1>4. ASSUME NEW a \in Adders, NEW m \in ReportNames, AddReport(a, m)
      PROVE  Same /\ ListReports \subseteq ListReports'
  <2>1. Same
    BY <1>1, <1>4 DEF AddReport, Create, Answer
  <2>2. ListReports \subseteq ListReports'
    BY <1>1, <1>4 DEF AddReport, Create, ListReports
  <2>. QED BY <2>1, <2>2
<1>5. CASE WriteReport
  BY <1>1, <1>5 DEF WriteReport, Gone, ListReports
<1>6. CASE CloseReport \/ AdderKilled
  <2>1. Same
    BY <1>1, <1>6 DEF CloseReport, AdderKilled, Answer, ReportInv
  <2>. QED BY <1>2, <1>6, <2>1 DEF CloseReport, AdderKilled, ListReports
<1>7. CASE AddFails
  <2>1. Same
    BY <1>1, <1>7 DEF AddFails, Answer, ReportInv
  <2>2. CASE UNCHANGED reports
    BY <1>2, <2>1, <2>2 DEF ListReports
  <2>3. CASE /\ reports' = [reports EXCEPT ![add.name] = NoReport]
             /\ Answer(add.by, "failed")
    <3>1. \A m \in ReportNames : m # add.name => reports'[m] = reports[m]
      BY <1>1, <2>3
    <3>2. result'[add.by] = [is |-> "failed", name |-> add.name] /\ add.by \in Adders
      BY <1>1, <1>7, <2>3 DEF AddFails, Answer, ReportInv
    <3>. QED BY <1>2, <2>1, <3>1, <3>2 DEF Gone, ListReports
  <2>. QED BY <1>7, <2>2, <2>3 DEF AddFails
<1>. QED BY <1>2, <1>3, <1>4, <1>5, <1>6, <1>7 DEF AddStep

(* The project grows: nothing that was there is taken away or replaced.    *)
Grows ==
    /\ \A e \in Entities : version[e] <= version'[e]
    /\ Len(suite) <= Len(suite') /\ \A v \in 1..Len(suite) : suite'[v] = suite[v]
    /\ Len(project.arts) <= Len(project'.arts)
    /\ \A i \in 1..Len(project.arts) : project'.arts[i] = project.arts[i]

(* An edit makes it grow.                                                  *)
LEMMA EditGrows ==
    ASSUME ProjectOK, Edit
    PROVE  ProjectOK' /\ Grows
<1>1. /\ version \in [Entities -> Nat] /\ suite \in Seq(CaseSets)
      /\ project.arts \in Seq(DocNames) /\ project.roots \subseteq Seq(Segments)
      /\ RootsAccepted(project.roots) /\ project.features = Features
      /\ project = [arts |-> project.arts, rootsSet |-> project.rootsSet,
                    roots |-> project.roots, features |-> project.features]
  BY DEF ProjectOK
<1>2. ASSUME NEW e \in Entities, ChangeEntity(e)
      PROVE  ProjectOK' /\ Grows
  <2>1. version' \in [Entities -> Nat] /\ \A d \in Entities : version[d] <= version'[d]
    BY <1>1, <1>2 DEF ChangeEntity
  <2>. QED BY <1>1, <1>2, <2>1 DEF ChangeEntity, ProjectOK, Grows
<1>3. ASSUME NEW cases \in CaseSets, ImportTestSuite(cases)
      PROVE  ProjectOK' /\ Grows
  <2>1. /\ suite' \in Seq(CaseSets) /\ Len(suite) <= Len(suite')
        /\ \A v \in 1..Len(suite) : suite'[v] = suite[v]
    BY <1>1, <1>3 DEF ImportTestSuite
  <2>. QED BY <1>1, <1>3, <2>1 DEF ImportTestSuite, ProjectOK, Grows
<1>4. ASSUME NEW name \in DocNames, AddArtifact(name)
      PROVE  ProjectOK' /\ Grows
  <2>1. project' = [arts |-> Append(project.arts, name), rootsSet |-> project.rootsSet,
                    roots |-> project.roots, features |-> project.features]
    BY <1>1, <1>4 DEF AddArtifact
  <2>2. /\ project'.arts = Append(project.arts, name) /\ project'.rootsSet = project.rootsSet
        /\ project'.roots = project.roots /\ project'.features = project.features
    BY <2>1
  <2>3. /\ project'.arts \in Seq(DocNames) /\ Len(project.arts) <= Len(project'.arts)
        /\ \A i \in 1..Len(project.arts) : project'.arts[i] = project.arts[i]
    BY <1>1, <2>2
  <2>4. ProjectOK'
    BY <1>1, <1>4, <2>1, <2>2, <2>3 DEF AddArtifact, ProjectOK
  <2>. QED BY <1>1, <1>4, <2>3, <2>4 DEF AddArtifact, Grows
<1>5. ASSUME NEW roots \in RootSets, SetTestDocumentSettings(roots)
      PROVE  ProjectOK' /\ Grows
  <2>1. project' = [arts |-> project.arts, rootsSet |-> TRUE,
                    roots |-> roots, features |-> project.features]
    BY <1>1, <1>5 DEF SetTestDocumentSettings
  <2>2. roots \subseteq Seq(Segments) /\ RootsAccepted(roots)
    BY <1>5, PagesAssumption DEF SetTestDocumentSettings
  <2>3. /\ project'.arts = project.arts /\ project'.rootsSet = TRUE
        /\ project'.roots = roots /\ project'.features = project.features
    BY <2>1
  <2>4. ProjectOK'
    BY <1>1, <1>5, <2>1, <2>2, <2>3 DEF SetTestDocumentSettings, ProjectOK
  <2>. QED BY <1>1, <1>5, <2>3, <2>4 DEF SetTestDocumentSettings, Grows
<1>. QED BY <1>2, <1>3, <1>4, <1>5 DEF Edit

(* What a page has read stays true while the project grows and reports are *)
(* added.                                                                  *)
LEMMA PageStays ==
    ASSUME PagesInv, Grows, version' \in [Entities -> Nat], suite' \in Seq(CaseSets),
           project'.arts \in Seq(DocNames), [AddStep]_reportVars, page' = page
    PROVE  PageOK'
<1>1. /\ version \in [Entities -> Nat] /\ suite \in Seq(CaseSets)
      /\ project.arts \in Seq(DocNames) /\ ReportInv /\ PageOK
  BY DEF PagesInv, ProjectOK
<1>2. page'.entities # <<>> =>
         \A e \in Entities : page'.entities[e] \in Nat /\ page'.entities[e] <= version'[e]
  BY <1>1 DEF PageOK, Grows
<1>3. page'.ver \in 0..Len(suite') /\ (page'.ver # 0 => suite'[page'.ver] = suite[page.ver])
  BY <1>1 DEF PageOK, Grows
<1>4. \A n \in DOMAIN page'.listed : n \in ReportNames /\ (n \in ListReports' \/ Gone(n)')
  BY <1>1, GoneStays DEF PageOK
<1>5. \A d \in page'.docs : d[1] \in DOMAIN project'.arts
  BY <1>1 DEF PageOK, Grows
<1>6. \A d \in page'.docs : d[2] # <<>> => Under(project'.arts[d[1]], d[2])
  <2>1. \A d \in page.docs : d[1] \in 1..Len(project.arts)
    BY <1>1 DEF PageOK
  <2>2. \A d \in page.docs : project'.arts[d[1]] = project.arts[d[1]]
    BY <2>1 DEF Grows
  <2>. QED BY <1>1, <2>2 DEF PageOK
<1>7. DocumentsShownOnce'
  <2>1. \A d \in page.docs : d[1] \in 1..Len(project.arts)
    BY <1>1 DEF PageOK
  <2>2. \A d \in page.docs : project'.arts[d[1]] = project.arts[d[1]]
    BY <2>1 DEF Grows
  <2>. QED BY <1>1, <2>2 DEF PageOK, DocumentsShownOnce
<1>. QED BY <1>1, <1>2, <1>3, <1>4, <1>5, <1>6, <1>7 DEF PageOK

-----------------------------------------------------------------------------
(* The tail of the calls of a page of items.                               *)
LEMMA ItemCallsTail ==
    /\ Tail(<<"entities", "suites", "reports", "project", "cases">>)
         = <<"suites", "reports", "project", "cases">>
    /\ Tail(<<"suites", "reports", "project", "cases">>) = <<"reports", "project", "cases">>
    /\ Tail(<<"reports", "project", "cases">>) = <<"project", "cases">>
    /\ Tail(<<"project", "cases">>) = <<"cases">>
    /\ Tail(<<"cases">>) = <<>>
    /\ Head(<<"entities", "suites", "reports", "project", "cases">>) = "entities"
    /\ Head(<<"suites", "reports", "project", "cases">>) = "suites"
    /\ Head(<<"reports", "project", "cases">>) = "reports"
    /\ Head(<<"project", "cases">>) = "project"
    /\ Head(<<"cases">>) = "cases"
OBVIOUS

(* So a call of a page of items leaves one of the same list, and only its  *)
(* last call reads the cases.                                              *)
LEMMA ItemCallsRest ==
    ASSUME page.kind = "items", PageOK, page.todo # <<>>
    PROVE  /\ Tail(page.todo) \in ItemCalls /\ page.cases = {}
           /\ Head(page.todo) \in Calls
           /\ Tail(page.todo) = <<>> <=> Head(page.todo) = "cases"
<1>1. page.todo \in ItemCalls /\ page.cases = {}
  BY DEF PageOK
<1>2. /\ <<"suites", "reports", "project", "cases">> # <<>>
      /\ <<"reports", "project", "cases">> # <<>>
      /\ <<"project", "cases">> # <<>> /\ <<"cases">> # <<>>
  OBVIOUS
<1>. QED BY <1>1, <1>2, ItemCallsTail, Zenon DEF ItemCalls, Calls

(* A request starts from nothing.                                          *)
LEMMA RequestInvariant ==
    ASSUME PagesInv, UNCHANGED <<reportVars, version, suite, project>>,
           NEW kind, NEW calls, Request(kind, calls),
           kind \in {"items", "testability"}, kind = "items" => calls \in ItemCalls
    PROVE  PageOK'
<1>1. page' = [kind |-> kind, todo |-> calls, entities |-> <<>>, ver |-> 0, cases |-> {},
               listed |-> <<>>, docs |-> {}, last |-> NoRun, missing |-> NoItem]
  BY DEF Request, NoPage
<1>2. suite' \in Seq(CaseSets)
  BY DEF PagesInv, ProjectOK
<1>. QED BY <1>1, <1>2 DEF PageOK, NoItem, DocumentsShownOnce

-----------------------------------------------------------------------------
(* Two folders above one document, neither above the other, are one.       *)
LEMMA OneFolder ==
    ASSUME NEW n \in Seq(Segments), NEW r \in Seq(Segments), NEW s \in Seq(Segments),
           Under(n, r), Under(n, s), ~Under(r, s), ~Under(s, r)
    PROVE  r = s
<1>. USE DEF Under, IsStrictPrefix, IsPrefix
<1>1. ASSUME NEW a \in Seq(Segments), NEW b \in Seq(Segments), Under(n, a), Under(n, b),
             Len(a) <= Len(b)
      PROVE  IsPrefix(a, b)
  <2>1. SubSeq(a, 1, Len(a)) = SubSeq(n, 1, Len(a)) /\ SubSeq(b, 1, Len(b)) = SubSeq(n, 1, Len(b))
    BY <1>1
  <2>2. \A i \in 1..Len(a) : a[i] = n[i]
    BY <1>1, <2>1
  <2>3. \A i \in 1..Len(b) : b[i] = n[i]
    BY <1>1, <2>1
  <2>4. \A i \in 1..Len(a) : a[i] = b[i]
    BY <1>1, <2>2, <2>3
  <2>. QED BY <1>1, <2>4
<1>2. Len(r) <= Len(s) \/ Len(s) <= Len(r)
  OBVIOUS
<1>3. IsPrefix(r, s) \/ IsPrefix(s, r)
  BY <1>1, <1>2
<1>. QED BY <1>3

(* The folders of a project, set or by default, are not inside another.    *)
LEMMA FoldersApart ==
    ASSUME ProjectOK
    PROVE  /\ TestDocumentRoots(project) \subseteq Seq(Segments)
           /\ \A r \in TestDocumentRoots(project), s \in TestDocumentRoots(project) : ~Under(r, s)
<1>1. CASE project.rootsSet
  BY <1>1 DEF ProjectOK, TestDocumentRoots, RootsAccepted
<1>2. CASE ~project.rootsSet
  <2>1. TestDocumentRoots(project) = {<<"specs", f, "sdd-qa">> : f \in Features}
    BY <1>2 DEF ProjectOK, TestDocumentRoots
  <2>2. ASSUME NEW f \in Segments PROVE <<"specs", f, "sdd-qa">> \in Seq(Segments)
    <3>. DEFINE t == <<"specs", f, "sdd-qa">>
    <3>1. "specs" \in Segments /\ "sdd-qa" \in Segments
      BY PagesAssumption
    <3>2. Len(t) = 3 /\ DOMAIN t = 1..3 /\ t = [i \in 1..3 |-> t[i]]
      OBVIOUS
    <3>3. t[1] = "specs" /\ t[2] = f /\ t[3] = "sdd-qa"
      OBVIOUS
    <3>. HIDE DEF t
    <3>4. \A i \in 1..3 : t[i] \in Segments
      <4>. SUFFICES ASSUME NEW i \in 1..3 PROVE t[i] \in Segments
        OBVIOUS
      <4>1. i = 1 \/ i = 2 \/ i = 3
        OBVIOUS
      <4>. QED BY <4>1, <3>1, <3>3, Zenon
    <3>5. t \in Seq(Segments)
      BY <3>2, <3>4
    <3>. QED BY <3>5 DEF t
  <2>3. ASSUME NEW f \in Segments PROVE Len(<<"specs", f, "sdd-qa">>) = 3
    OBVIOUS
  <2>4. \A r \in TestDocumentRoots(project) : \E f \in Segments : r = <<"specs", f, "sdd-qa">>
    BY <2>1, PagesAssumption
  <2>5. \A r \in TestDocumentRoots(project) : r \in Seq(Segments) /\ Len(r) = 3
    BY <2>2, <2>3, <2>4
  <2>6. ASSUME NEW r \in TestDocumentRoots(project), NEW s \in TestDocumentRoots(project),
               Under(r, s)
        PROVE  FALSE
    <3>1. SubSeq(s, 1, 3) = SubSeq(r, 1, 3) /\ r # s
      BY <2>5, <2>6 DEF Under, IsStrictPrefix, IsPrefix
    <3>2. \A i \in 1..3 : s[i] = r[i]
      BY <2>5, <3>1
    <3>. QED BY <2>5, <3>1, <3>2
  <2>. QED BY <2>5, <2>6
<1>. QED BY <1>1, <1>2

(* So what the tree lists of the artifacts names each document once.       *)
LEMMA ItemsOnce ==
    ASSUME ProjectOK
    PROVE  /\ \A d \in ArtifactItems : d[1] \in DOMAIN project.arts
           /\ \A d \in ArtifactItems : d[2] # <<>> => Under(project.arts[d[1]], d[2])
           /\ \A d \in ArtifactItems, e \in ArtifactItems :
                 project.arts[d[1]] = project.arts[e[1]] => d = e
<1>. DEFINE grouped == UNION {DocumentsIn(project, r) \X {r} : r \in DocumentSuiteRoots(project)}
            others == {<<a, <<>>>> : a \in LatestArtifacts(project) \ {d[1] : d \in grouped}}
<1>1. ArtifactItems = grouped \cup others
  BY DEF ArtifactItems
<1>2. project.arts \in Seq(DocNames) /\ DOMAIN project.arts = 1..Len(project.arts)
  BY DEF ProjectOK
<1>3. ASSUME NEW d \in grouped
      PROVE  \E a \in LatestArtifacts(project), r \in TestDocumentRoots(project) :
                d = <<a, r>> /\ Under(project.arts[a], r)
  BY DEF DocumentsIn, DocumentSuiteRoots
<1>4. ASSUME NEW d \in others
      PROVE  \E a \in LatestArtifacts(project) : d = <<a, <<>>>> /\ \A e \in grouped : e[1] # a
  OBVIOUS
<1>5. ASSUME NEW a \in LatestArtifacts(project), NEW b \in LatestArtifacts(project),
             project.arts[a] = project.arts[b]
      PROVE  a = b
  BY <1>2, <1>5 DEF LatestArtifacts
<1>6. \A a \in LatestArtifacts(project) :
         a \in DOMAIN project.arts /\ project.arts[a] \in Seq(Segments)
  BY <1>2, PagesAssumption DEF LatestArtifacts
<1>. HIDE DEF grouped, others
<1>7. \A d \in ArtifactItems : d[1] \in LatestArtifacts(project)
  BY <1>1, <1>3, <1>4
<1>8. ASSUME NEW d \in ArtifactItems, NEW e \in ArtifactItems,
             project.arts[d[1]] = project.arts[e[1]]
      PROVE  d = e
  <2>1. d[1] = e[1]
    BY <1>5, <1>7, <1>8
  <2>2. CASE d \in grouped /\ e \in grouped
    <3>1. PICK a \in LatestArtifacts(project), r \in TestDocumentRoots(project) :
             d = <<a, r>> /\ Under(project.arts[a], r)
      BY <1>3, <2>2
    <3>2. PICK b \in LatestArtifacts(project), s \in TestDocumentRoots(project) :
             e = <<b, s>> /\ Under(project.arts[b], s)
      BY <1>3, <2>2
    <3>3. a = b
      BY <2>1, <3>1, <3>2
    <3>4. r = s
      BY <1>6, <3>1, <3>2, <3>3, FoldersApart, OneFolder
    <3>. QED BY <3>1, <3>2, <3>3, <3>4
  <2>3. CASE d \in others /\ e \in others
    BY <1>4, <2>1, <2>3
  <2>4. CASE (d \in grouped /\ e \in others) \/ (d \in others /\ e \in grouped)
    BY <1>4, <2>1, <2>4
  <2>. QED BY <1>1, <2>2, <2>3, <2>4
<1>9. \A d \in ArtifactItems : d[2] # <<>> => Under(project.arts[d[1]], d[2])
  BY <1>1, <1>3, <1>4
<1>. QED BY <1>6, <1>7, <1>8, <1>9

-----------------------------------------------------------------------------
(* Each store call of a page reads what is there now.                      *)
LEMMA CallInvariant ==
    ASSUME PagesInv, Call
    PROVE  PageOK'
<1>. USE DEF Rest
<1>1. UNCHANGED <<reportVars, version, suite, project>> /\ ReportInv /\ ProjectOK /\ PageOK
  BY DEF Call, PagesInv
<1>2. page.todo # <<>> /\ page.kind \in {"items", "testability"}
  BY <1>1 DEF Call, Reads, PageOK
<1>3. page = [kind |-> page.kind, todo |-> page.todo, entities |-> page.entities,
              ver |-> page.ver, cases |-> page.cases, listed |-> page.listed,
              docs |-> page.docs, last |-> page.last, missing |-> page.missing]
  BY <1>1 DEF PageOK
<1>4. page.kind = "items" => /\ Tail(page.todo) \in ItemCalls /\ page.cases = {}
                             /\ Tail(page.todo) = <<>> <=> Head(page.todo) = "cases"
  BY <1>1, <1>2, ItemCallsRest
<1>5. /\ \A n : (n \in ListReports)' <=> n \in ListReports
      /\ \A n : Gone(n)' <=> Gone(n)
  BY <1>1 DEF ListReports, Gone, reportVars
<1>6. CASE Reads("entities") /\ page' = [Rest EXCEPT !.entities = version]
  <2>1. page' = [kind |-> page.kind, todo |-> Tail(page.todo), entities |-> version,
                 ver |-> page.ver, cases |-> page.cases, listed |-> page.listed,
                 docs |-> page.docs, last |-> page.last, missing |-> page.missing]
    BY <1>3, <1>6
  <2>2. \A e \in Entities : version'[e] \in Nat /\ version[e] <= version'[e]
    BY <1>1 DEF ProjectOK
  <2>3. /\ page'.kind = page.kind /\ page'.ver = page.ver /\ page'.cases = page.cases
        /\ page'.docs = page.docs /\ page'.todo = Tail(page.todo) /\ page'.entities = version
        /\ page'.listed = page.listed /\ page'.missing = page.missing /\ page'.last = page.last
    BY <2>1
  <2>. QED BY <1>1, <1>2, <1>4, <1>5, <1>6, <2>1, <2>2, <2>3 DEF PageOK, DocumentsShownOnce, Reads
<1>7. CASE Reads("suites") /\ page' = [Rest EXCEPT !.ver = Len(suite)]
  <2>1. page' = [kind |-> page.kind, todo |-> Tail(page.todo), entities |-> page.entities,
                 ver |-> Len(suite), cases |-> page.cases, listed |-> page.listed,
                 docs |-> page.docs, last |-> page.last, missing |-> page.missing]
    BY <1>3, <1>7
  <2>2. Len(suite) \in Nat
    BY <1>1 DEF ProjectOK
  <2>3. /\ page'.kind = page.kind /\ page'.ver = Len(suite) /\ page'.cases = page.cases
        /\ page'.docs = page.docs /\ page'.todo = Tail(page.todo)
        /\ page'.entities = page.entities
        /\ page'.listed = page.listed /\ page'.missing = page.missing /\ page'.last = page.last
    BY <2>1
  <2>4. DocumentsShownOnce'
    BY <1>1, <2>3 DEF PageOK, DocumentsShownOnce
  <2>5. page'.kind \in {"items", "tree"} => page'.kind = "items" /\ page'.cases = {}
    BY <1>2, <1>4, <2>3
  <2>6. page'.kind = "items" => page'.todo \in ItemCalls
    BY <1>4, <2>3
  <2>7. /\ page'.entities # <<>> =>
             \A e \in Entities : page'.entities[e] \in Nat /\ page'.entities[e] <= version'[e]
        /\ \A d \in page'.docs : d[1] \in DOMAIN project'.arts
        /\ \A n \in DOMAIN page'.listed : n \in ReportNames /\ ((n \in ListReports)' \/ Gone(n)')
    BY <1>1, <1>5, <2>3 DEF PageOK
  <2>8. page'.ver \in 0..Len(suite')
    BY <1>1, <2>2, <2>3
  <2>9. \A d \in page'.docs : d[2] # <<>> => Under(project'.arts[d[1]], d[2])
    BY <1>1, <2>3 DEF PageOK
  <2>. QED BY <1>2, <2>1, <2>3, <2>4, <2>5, <2>6, <2>7, <2>8, <2>9 DEF PageOK
<1>8. CASE /\ Reads("reports")
           /\ page' = [Rest EXCEPT !.listed = ListedReports,
                         !.todo = IF page.kind = "items" THEN @ ELSE @ \o SetToSeq(ListReports)]
  <2>1. /\ page' = [kind |-> page.kind, todo |-> page'.todo, entities |-> page.entities,
                    ver |-> page.ver, cases |-> page.cases, listed |-> ListedReports,
                    docs |-> page.docs, last |-> page.last, missing |-> page.missing]
        /\ page.kind = "items" => page'.todo = Tail(page.todo)
    BY <1>3, <1>8
  <2>2. DOMAIN ListedReports = ListReports /\ ListReports \subseteq ReportNames
    BY DEF ListedReports, ListReports
  <2>. QED BY <1>1, <1>2, <1>4, <1>5, <1>8, <2>1, <2>2 DEF PageOK, ProjectOK, DocumentsShownOnce,
              Reads
<1>9. CASE Reads("project") /\ page' = [Rest EXCEPT !.docs = ArtifactItems]
  <2>1. page' = [kind |-> page.kind, todo |-> Tail(page.todo), entities |-> page.entities,
                 ver |-> page.ver, cases |-> page.cases, listed |-> page.listed,
                 docs |-> ArtifactItems, last |-> page.last, missing |-> page.missing]
    BY <1>3, <1>9
  <2>. QED BY <1>1, <1>2, <1>4, <1>5, <1>9, <2>1, ItemsOnce DEF PageOK, ProjectOK,
              DocumentsShownOnce, Reads
<1>10. CASE /\ Reads("cases")
            /\ page' = [Rest EXCEPT !.cases = IF page.ver = 0 THEN {} ELSE suite[page.ver]]
  <2>1. page' = [kind |-> page.kind, todo |-> Tail(page.todo), entities |-> page.entities,
                 ver |-> page.ver, cases |-> IF page.ver = 0 THEN {} ELSE suite[page.ver],
                 listed |-> page.listed,
                 docs |-> page.docs, last |-> page.last, missing |-> page.missing]
    BY <1>3, <1>10
  <2>. QED BY <1>1, <1>2, <1>4, <1>5, <1>10, <2>1 DEF PageOK, ProjectOK, DocumentsShownOnce, Reads
<1>. QED BY <1>6, <1>7, <1>8, <1>9, <1>10 DEF Call

(* Reading a report for the rollup, and answering, change nothing of that. *)
LEMMA LoadInvariant ==
    ASSUME PagesInv, LoadReport \/ Respond
    PROVE  PageOK'
<1>1. UNCHANGED <<reportVars, version, suite, project>> /\ PageOK
  BY DEF LoadReport, Respond, PagesInv
<1>2. page = [kind |-> page.kind, todo |-> page.todo, entities |-> page.entities,
              ver |-> page.ver, cases |-> page.cases, listed |-> page.listed,
              docs |-> page.docs, last |-> page.last, missing |-> page.missing]
  BY <1>1 DEF PageOK
<1>3. /\ page'.entities = page.entities /\ page'.ver = page.ver /\ page'.cases = page.cases
      /\ page'.listed = page.listed /\ page'.docs = page.docs /\ page'.missing = page.missing
      /\ page' = [kind |-> page'.kind, todo |-> page'.todo, entities |-> page'.entities,
                  ver |-> page'.ver, cases |-> page'.cases, listed |-> page'.listed,
                  docs |-> page'.docs, last |-> page'.last, missing |-> page'.missing]
  BY <1>2 DEF LoadReport, Respond, Rest
<1>4. \/ page.kind = "testability" /\ page'.kind = page.kind
      \/ /\ page.todo = <<>> /\ page'.todo = <<>>
         /\ page'.kind = IF page.kind = "items" THEN "tree" ELSE "rollup"
  BY <1>2 DEF LoadReport, Respond, Rest
<1>5. /\ \A n : (n \in ListReports)' <=> n \in ListReports
      /\ \A n : Gone(n)' <=> Gone(n)
  BY <1>1 DEF ListReports, Gone, reportVars
<1>. QED BY <1>1, <1>3, <1>4, <1>5 DEF PageOK, DocumentsShownOnce

(* Opening an item leaves nothing behind but a 404.                        *)
LEMMA OpenInvariant ==
    ASSUME PagesInv, GetProjectItem
    PROVE  PageOK'
<1>1. PICK family, ref, found : Answers(family, ref, found)
  BY DEF GetProjectItem, OpenCase, OpenFolder
<1>2. page' = [kind |-> "none", todo |-> <<>>, entities |-> <<>>, ver |-> 0, cases |-> {},
               listed |-> <<>>, docs |-> {}, last |-> NoRun, missing |-> page'.missing]
  BY <1>1 DEF Answers, NoPage
<1>3. suite' \in Seq(CaseSets)
  BY <1>1 DEF Answers, PagesInv, ProjectOK
<1>. QED BY <1>2, <1>3 DEF PageOK, DocumentsShownOnce

(* Some position is the last of those with a property: the one whose       *)
(* distance from the end is least.                                         *)
LEMMA LastPosition ==
    ASSUME NEW n \in Nat, NEW S \in SUBSET (1..n), S # {}
    PROVE  \E j \in S : \A k \in S : k <= j
<1>. DEFINE Before == {pair \in Nat \X Nat : pair[1] < pair[2]}
            FromEnd == {n - k : k \in S}
<1>1. IsWellFoundedOn(Before, Nat)
  BY NatLessThanWellFounded DEF OpToRel
<1>2. \A k \in S : n - k \in Nat /\ n - k \in FromEnd /\ k \in Nat
  OBVIOUS
<1>3. FromEnd \in SUBSET Nat /\ FromEnd # {}
  BY <1>2
<1>4. PICK x \in FromEnd : \A y \in FromEnd : ~(<<y, x>> \in Before)
  <2>. HIDE DEF Before, FromEnd
  <2>. QED BY <1>1, <1>3, WFMin
<1>5. PICK j \in S : x = n - j
  OBVIOUS
<1>6. \A k \in S : ~(n - k < n - j)
  BY <1>2, <1>4, <1>5
<1>. QED BY <1>2, <1>6

(* Every artifact has a newest revision.                                   *)
LEMMA NewestRevision ==
    ASSUME ProjectOK, NEW i \in DOMAIN project.arts
    PROVE  \E j \in LatestArtifacts(project) : project.arts[j] = project.arts[i]
<1>. DEFINE S == {j \in DOMAIN project.arts : project.arts[j] = project.arts[i]}
<1>1. DOMAIN project.arts = 1..Len(project.arts) /\ Len(project.arts) \in Nat
  BY DEF ProjectOK
<1>2. S \in SUBSET (1..Len(project.arts)) /\ S # {}
  BY <1>1
<1>3. PICK j \in S : \A k \in S : k <= j
  <2>. HIDE DEF S
  <2>. QED BY <1>1, <1>2, LastPosition
<1>. QED BY <1>1, <1>3 DEF LatestArtifacts

(* A folder that the settings still name and that had a document opens.    *)
LEMMA FolderOpens ==
    ASSUME PagesInv, NEW d \in page.docs, d[2] # <<>>, d[2] \in TestDocumentRoots(project)
    PROVE  d[2] \in DocumentSuiteRoots(project)
<1>1. d[1] \in DOMAIN project.arts /\ Under(project.arts[d[1]], d[2])
  BY DEF PagesInv, PageOK
<1>2. PICK j \in LatestArtifacts(project) : project.arts[j] = project.arts[d[1]]
  BY <1>1, NewestRevision DEF PagesInv
<1>. QED BY <1>1, <1>2 DEF DocumentSuiteRoots, DocumentsIn

(* What is not found: a report whose upload failed, or a folder that is no *)
(* longer one of the settings'.                                            *)
NotFound(family, ref) ==
    \/ family = "report" /\ UploadFailed(ref)
    \/ family = "folder" /\ ref \notin TestDocumentRoots(project)

LEMMA MissingExplained ==
    ASSUME PagesInv, GetProjectItem, page'.missing # NoItem
    PROVE  NotFound(page'.missing.family, page'.missing.ref)
<1>1. ReportInv /\ ProjectOK /\ PageOK
  BY DEF PagesInv
<1>2. ASSUME NEW family, NEW ref, NEW found, Answers(family, ref, found),
             found \/ NotFound(family, ref)
      PROVE  NotFound(page'.missing.family, page'.missing.ref)
  <2>1. page'.missing = IF found THEN NoItem ELSE [family |-> family, ref |-> ref]
    BY <1>2 DEF Answers, NoPage
  <2>2. page'.missing = [family |-> family, ref |-> ref] /\ ~found
    BY <2>1
  <2>3. page'.missing.family = family /\ page'.missing.ref = ref
    BY <2>2
  <2>. QED BY <1>2, <2>2, <2>3
<1>3. ASSUME NEW e \in Entities, page.entities # <<>>, page.entities[e] > 0
      PROVE  page.entities[e] \in 1..version[e]
  BY <1>1, <1>3 DEF PageOK, ProjectOK
<1>4. page.ver > 0 => page.ver \in DOMAIN suite
  BY <1>1 DEF PageOK, ProjectOK
<1>5. page.kind = "tree" => \A c \in page.cases : c \in suite[page.ver]
  BY <1>1 DEF PageOK
<1>6. \A n \in DOMAIN page.listed : n \in ListReports \/ NotFound("report", n)
  BY <1>1 DEF PageOK, Gone, NotFound, UploadFailed
<1>7. \A d \in page.docs : d[1] \in DOMAIN project.arts
  BY <1>1 DEF PageOK
<1>8. CASE \E e \in Entities : page.entities # <<>> /\ page.entities[e] > 0
                 /\ Answers("entity", e, page.entities[e] \in 1..version[e])
  BY <1>2, <1>3, <1>8
<1>9. CASE page.ver > 0 /\ Answers("suite", "suite", page.ver \in DOMAIN suite)
  BY <1>2, <1>4, <1>9
<1>10. CASE OpenCase
  <2>1. PICK c \in page.cases : Answers("case", c, c \in suite[page.ver])
    BY <1>10 DEF OpenCase
  <2>. QED BY <2>1, <1>2, <1>5 DEF Answers
<1>11. CASE \E n \in DOMAIN page.listed : Answers("report", n, n \in ListReports)
  <2>1. PICK n \in DOMAIN page.listed : Answers("report", n, n \in ListReports)
    BY <1>11, Zenon
  <2>. QED BY <2>1, <1>2, <1>6, Zenon
<1>12. CASE OpenFolder
  <2>1. PICK d \in page.docs : /\ d[2] # <<>>
                               /\ Answers("folder", d[2], d[2] \in DocumentSuiteRoots(project))
    BY <1>12 DEF OpenFolder
  <2>2. d[2] \in DocumentSuiteRoots(project) \/ NotFound("folder", d[2])
    BY <2>1, FolderOpens DEF NotFound
  <2>. QED BY <2>1, <2>2, <1>2, Zenon
<1>13. CASE \E d \in page.docs : Answers("artifact", d[1], d[1] \in DOMAIN project.arts)
  BY <1>2, <1>7, <1>13
<1>. QED BY <1>8, <1>9, <1>10, <1>11, <1>12, <1>13 DEF GetProjectItem

-----------------------------------------------------------------------------
(* Every step preserves the invariant.                                     *)
LEMMA PagesNextInvariant == PagesInv /\ [PagesNext]_vars => PagesInv'
<1>. SUFFICES ASSUME PagesInv, [PagesNext]_vars PROVE PagesInv'
  OBVIOUS
<1>1. ReportInv' /\ [AddStep]_reportVars
  BY AddStepInvariant, PagesReportSteps DEF PagesInv
<1>2. /\ version \in [Entities -> Nat] /\ suite \in Seq(CaseSets)
      /\ project.arts \in Seq(DocNames) /\ ProjectOK
  BY DEF PagesInv, ProjectOK
<1>3. ASSUME UNCHANGED <<version, suite, project>>
      PROVE  ProjectOK' /\ Grows
  BY <1>2, <1>3 DEF ProjectOK, Grows
<1>4. CASE Edit
  <2>1. ProjectOK' /\ Grows /\ page' = page
    BY <1>2, <1>4, EditGrows DEF Edit
  <2>. QED BY <1>1, <2>1, PageStays DEF PagesInv, ProjectOK
<1>5. CASE UNCHANGED <<version, suite, project, page>>
  <2>1. PageOK'
    BY <1>1, <1>2, <1>3, <1>5, PageStays
  <2>. QED BY <1>1, <1>3, <1>5, <2>1 DEF PagesInv
<1>6. CASE /\ ListProjectItems \/ GetTestability
           /\ UNCHANGED <<reportVars, version, suite, project>>
  <2>1. <<"entities", "suites", "reports", "project", "cases">> \in ItemCalls
    BY DEF ItemCalls
  <2>2. PageOK'
    BY <1>6, <2>1, RequestInvariant DEF ListProjectItems, GetTestability
  <2>. QED BY <1>1, <1>3, <1>6, <2>2 DEF PagesInv
<1>7. CASE Call
  <2>1. PageOK'
    BY <1>7, CallInvariant
  <2>. QED BY <1>1, <1>3, <1>7, <2>1 DEF PagesInv, Call
<1>8. CASE LoadReport \/ Respond
  <2>1. PageOK'
    BY <1>8, LoadInvariant
  <2>. QED BY <1>1, <1>3, <1>8, <2>1 DEF PagesInv, LoadReport, Respond
<1>9. CASE GetProjectItem
  <2>1. PageOK'
    BY <1>9, OpenInvariant
  <2>2. UNCHANGED <<version, suite, project>>
    BY <1>9 DEF GetProjectItem, OpenCase, OpenFolder, Answers
  <2>. QED BY <1>1, <1>3, <2>1, <2>2 DEF PagesInv
<1>. QED BY <1>4, <1>5, <1>6, <1>7, <1>8, <1>9 DEF PagesNext, vars

(* The inductive invariant holds in every reachable state.                 *)
THEOREM PagesInvariance == PagesSpec => []PagesInv
BY PagesInitInvariant, PagesNextInvariant, PTL DEF PagesSpec

(* An item of a tree opens, whatever the project has become since the tree *)
(* was put together from five store calls, unless it is a report whose     *)
(* upload failed or a folder that the settings no longer name.             *)
THEOREM TreeOpens == PagesSpec => TreeItemsOpen
<1>1. PagesInv => (GetProjectItem /\ page'.missing # NoItem =>
                      NotFound(page'.missing.family, page'.missing.ref))
  BY MissingExplained
<1>. QED BY <1>1, PagesInvariance, PTL DEF TreeItemsOpen, NotFound

(* The tree shows each document once, whatever folders are configured.     *)
THEOREM ShownOnce == PagesSpec => []DocumentsShownOnce
<1>1. PagesInv => DocumentsShownOnce
  BY DEF PagesInv, PageOK
<1>. QED BY <1>1, PagesInvariance, PTL

-----------------------------------------------------------------------------
(***************************************************************************)
(* The run that a rollup shows.  A request makes one file, so a report     *)
(* that was whole when it was listed is that report still, or the name is  *)
(* free or another's; and each listed report is still to be read or has    *)
(* been compared with the one shown.                                       *)
(***************************************************************************)
Seen(a) ==
    \/ result[a].is = "failed"
    \/ \E n \in ReportNames : reports[n].by = a /\ reports[n].state = "whole"

MadeBy ==
    \A n \in ReportNames : reports[n].state # "none" =>
        /\ reports[n].by \in Adders /\ result[reports[n].by].is # "idle"
        /\ result[reports[n].by].name = n

ListedOK ==
    \A n \in DOMAIN page.listed :
        /\ page.listed[n].at \in Nat
        /\ page.listed[n].state = "whole" =>
            /\ page.listed[n].by \in Adders /\ result[page.listed[n].by].is # "idle"
            /\ reports[n] = page.listed[n] \/ reports[n].by # page.listed[n].by

RollupCalls ==
    {<<"entities", "suites", "reports", "cases">>, <<"suites", "reports", "cases">>,
     <<"reports", "cases">>}

RunTime(n, p) == IF RunAt[n] > 0 THEN RunAt[n] ELSE p.listed[n].at
Compared(n, p) ==
    \/ \E i \in DOMAIN p.todo : p.todo[i] = n
    \/ p.last.shown /\ p.last.at >= RunTime(n, p)

Runs == [shown : BOOLEAN, by : Adders \cup {NoOne}, at : Nat]

RollupOK ==
    page.kind \in {"testability", "rollup"} =>
        \/ page.todo \in RollupCalls /\ page.listed = << >> /\ page.last = NoRun
        \/ /\ page.todo \in Seq(ReportNames \cup {"cases"})
           /\ \A i \in DOMAIN page.todo :
                 page.todo[i] \in ReportNames => page.todo[i] \in DOMAIN page.listed
           /\ page.last \in Runs
           /\ \A n \in DOMAIN page.listed :
                 page.listed[n].state = "whole" /\ reports[n] = page.listed[n] => Compared(n, page)

LastInv ==
    /\ MadeBy /\ ListedOK /\ RollupOK
    /\ page.last.by # NoOne => page.last.by \in Adders /\ Seen(page.last.by)

(* No report and no page to begin with.                                     *)
LEMMA LastInit == PagesInit => LastInv
<1>. SUFFICES ASSUME PagesInit PROVE LastInv
  OBVIOUS
<1>1. \A n \in ReportNames : reports[n].state = "none"
  BY DEF PagesInit, ReportInit, NoReport
<1>2. DOMAIN page.listed = {} /\ page.kind = "none" /\ page.last.by = NoOne
  BY NoPageFields DEF PagesInit, NoRun
<1>. QED BY <1>1, <1>2 DEF LastInv, MadeBy, ListedOK, RollupOK

(* What a step may do to a report: it is made by a request that was idle,  *)
(* completed, or removed by the request that made it and fails.            *)
LEMMA ReportMoves ==
    ASSUME ReportInv, [AddStep]_reportVars, NEW n \in ReportNames
    PROVE  \/ reports'[n] = reports[n]
           \/ /\ reports[n].state = "none" /\ reports'[n].state = "part"
              /\ reports'[n].by \in Adders /\ result[reports'[n].by].is = "idle"
              /\ result'[reports'[n].by] = [is |-> "adding", name |-> n]
           \/ /\ reports[n].state = "part" /\ reports'[n].state = "whole"
              /\ reports'[n].by = reports[n].by
           \/ reports'[n] = NoReport /\ result'[reports[n].by].is = "failed"
<1>1. /\ reports \in [ReportNames -> [state : States, by : Adders \cup {NoOne}, at : Nat]]
      /\ result \in [Adders -> [is : Results, name : ReportNames \cup {"none"}]]
      /\ add # NoAdd => /\ add.by \in Adders /\ add.name \in ReportNames
                        /\ reports[add.name].by = add.by
  BY DEF ReportInv
<1>2. CASE UNCHANGED reportVars
  BY <1>2 DEF reportVars
<1>3. ASSUME NEW a \in Adders, NEW m \in ReportNames, AddReport(a, m), m \notin ListReports,
             Create(a, m)
      PROVE  /\ reports[m].state = "none" /\ reports'[m].state = "part"
             /\ reports'[m].by = a /\ result[a].is = "idle"
             /\ result'[a] = [is |-> "adding", name |-> m]
             /\ \A k \in ReportNames : k # m => reports'[k] = reports[k]
  <2>1. reports[m].state = "none" /\ result[a].is = "idle"
    BY <1>1, <1>3 DEF ListReports, AddReport
  <2>. QED BY <1>1, <1>3, <2>1 DEF Create
<1>4. ASSUME NEW a \in Adders, NEW m \in ReportNames, AddReport(a, m)
      PROVE  UNCHANGED reports \/ (m \notin ListReports /\ Create(a, m))
  BY <1>4 DEF AddReport
<1>8. ASSUME NEW a \in Adders, NEW m \in ReportNames, AddReport(a, m)
      PROVE  \/ reports'[n] = reports[n]
             \/ /\ reports[n].state = "none" /\ reports'[n].state = "part"
                /\ reports'[n].by \in Adders /\ result[reports'[n].by].is = "idle"
                /\ result'[reports'[n].by] = [is |-> "adding", name |-> n]
  <2>1. CASE m = n
    BY <1>3, <1>4, <1>8, <2>1
  <2>2. CASE m # n
    BY <1>3, <1>4, <1>8, <2>2
  <2>. QED BY <2>1, <2>2
<1>5. CASE WriteReport
  BY <1>1, <1>5 DEF WriteReport
<1>6. CASE CloseReport \/ AdderKilled
  BY <1>6 DEF CloseReport, AdderKilled
<1>7. CASE AddFails
  <2>1. CASE UNCHANGED reports
    BY <2>1
  <2>2. CASE reports' = [reports EXCEPT ![add.name] = NoReport] /\ Answer(add.by, "failed")
    <3>1. result'[add.by].is = "failed"
      BY <1>1, <1>7, <2>2 DEF AddFails, Answer
    <3>. QED BY <1>1, <1>7, <2>2, <3>1 DEF AddFails
  <2>. QED BY <1>7, <2>1, <2>2 DEF AddFails
<1>. QED BY <1>2, <1>5, <1>6, <1>7, <1>8 DEF AddStep

(* A request that is not idle never is again and keeps its name; one that  *)
(* failed has failed.                                                      *)
LEMMA ResultMoves ==
    ASSUME ReportInv, [AddStep]_reportVars, NEW a \in Adders, result[a].is # "idle"
    PROVE  /\ result'[a].is # "idle" /\ result'[a].name = result[a].name
           /\ result[a].is = "failed" => result'[a].is = "failed"
<1>1. /\ result \in [Adders -> [is : Results, name : ReportNames \cup {"none"}]]
      /\ add # NoAdd => add.by \in Adders /\ result[add.by].is = "adding"
  BY DEF ReportInv
<1>2. ASSUME NEW b \in Adders, NEW is \in {"added", "failed", "stuck", "killed", "refused"},
             Answer(b, is), b = a => result[a].is # "failed"
      PROVE  /\ result'[a].is # "idle" /\ result'[a].name = result[a].name
             /\ result[a].is = "failed" => result'[a].is = "failed"
  <2>1. CASE b = a
    <3>1. result'[a] = [result[a] EXCEPT !.is = is]
      BY <1>1, <1>2, <2>1 DEF Answer
    <3>. QED BY <1>1, <1>2, <2>1, <3>1
  <2>2. CASE b # a
    BY <1>1, <1>2, <2>2 DEF Answer
  <2>. QED BY <2>1, <2>2
<1>3. ASSUME NEW b \in Adders, NEW m \in ReportNames, AddReport(b, m)
      PROVE  /\ result'[a].is # "idle" /\ result'[a].name = result[a].name
             /\ result[a].is = "failed" => result'[a].is = "failed"
  <2>1. b # a
    BY <1>3 DEF AddReport
  <2>2. CASE Create(b, m)
    BY <1>1, <2>1, <2>2 DEF Create
  <2>. QED BY <1>2, <1>3, <2>1, <2>2 DEF AddReport
<1>4. CASE WriteReport \/ UNCHANGED reportVars
  BY <1>4 DEF WriteReport, reportVars
<1>5. CASE CloseReport \/ AddFails \/ AdderKilled
  BY <1>1, <1>2, <1>5 DEF CloseReport, AddFails, AdderKilled
<1>. QED BY <1>3, <1>4, <1>5 DEF AddStep

(* Uploads while a page is put together or shown.                          *)
LEMMA LastStays ==
    ASSUME PagesInv, LastInv, [AddStep]_reportVars, page' = page
    PROVE  LastInv'
<1>1. ReportInv /\ \A n \in DOMAIN page.listed : n \in ReportNames
  BY DEF PagesInv, PageOK
<1>2. /\ reports \in [ReportNames -> [state : States, by : Adders \cup {NoOne}, at : Nat]]
      /\ NoReport.state = "none" /\ NoReport.by = NoOne
  BY <1>1 DEF ReportInv, NoReport
<1>3. MadeBy'
  <2>. SUFFICES ASSUME NEW n \in ReportNames, reports'[n].state # "none"
                PROVE  /\ reports'[n].by \in Adders /\ result'[reports'[n].by].is # "idle"
                       /\ result'[reports'[n].by].name = n
    BY DEF MadeBy
  <2>1. \/ reports[n].state # "none" /\ reports'[n].by = reports[n].by
        \/ reports'[n].by \in Adders /\ result'[reports'[n].by] = [is |-> "adding", name |-> n]
    BY <1>1, <1>2, ReportMoves
  <2>2. CASE reports[n].state # "none" /\ reports'[n].by = reports[n].by
    BY <1>1, <2>2, ResultMoves DEF LastInv, MadeBy
  <2>. QED BY <2>1, <2>2
<1>4. ASSUME NEW n \in DOMAIN page.listed, page.listed[n].state = "whole"
      PROVE  /\ page.listed[n].by \in Adders /\ result'[page.listed[n].by].is # "idle"
             /\ reports'[n] = page.listed[n] \/ reports'[n].by # page.listed[n].by
             /\ reports'[n] = page.listed[n] => reports[n] = page.listed[n]
  <2>1. /\ page.listed[n].by \in Adders /\ result[page.listed[n].by].is # "idle"
        /\ reports[n] = page.listed[n] \/ reports[n].by # page.listed[n].by
    BY <1>4 DEF LastInv, ListedOK
  <2>2. result'[page.listed[n].by].is # "idle"
    BY <1>1, <2>1, ResultMoves
  <2>. QED BY <1>1, <1>2, <1>4, <2>1, <2>2, ReportMoves
<1>5. ListedOK'
  BY <1>4 DEF LastInv, ListedOK
<1>6. RollupOK'
  BY <1>4 DEF LastInv, RollupOK, Compared, RunTime
<1>7. ASSUME NEW a \in Adders, Seen(a) PROVE Seen(a)'
  <2>1. CASE result[a].is = "failed"
    BY <1>1, <2>1, ResultMoves DEF Seen
  <2>2. ASSUME NEW n \in ReportNames, reports[n].by = a, reports[n].state = "whole"
        PROVE  Seen(a)'
    <3>1. \/ reports'[n] = reports[n] \/ result'[a].is = "failed"
      BY <1>1, <2>2, ReportMoves
    <3>. QED BY <2>2, <3>1 DEF Seen
  <2>. QED BY <1>7, <2>1, <2>2 DEF Seen
<1>. QED BY <1>3, <1>5, <1>6, <1>7 DEF LastInv

-----------------------------------------------------------------------------
(* The reports that are listed are finitely many: each request makes one.  *)
LEMMA ListFinite == ASSUME MadeBy PROVE IsFiniteSet(ListReports)
<1> DEFINE f == [n \in ListReports |-> reports[n].by]
<1>1. f \in [ListReports -> Adders]
  BY DEF MadeBy, ListReports
<1>2. \A m, n \in ListReports : f[m] = f[n] => m = n
  BY DEF MadeBy, ListReports
<1>3. f \in Injection(ListReports, Adders)
  BY <1>1, <1>2 DEF Injection, IsInjective
<1>. QED BY <1>3, FS_Injection

(* SetToSeq puts every element of a finite set into the sequence.          *)
LEMMA SetToSeqAll ==
    ASSUME NEW S, IsFiniteSet(S)
    PROVE  SetToSeq(S) \in Seq(S) /\ \A x \in S : \E i \in DOMAIN SetToSeq(S) : SetToSeq(S)[i] = x
<1> DEFINE k == Cardinality(S)
           s == SetToSeq(S)
<1>1. k \in Nat /\ ExistsBijection(1..k, S)
  BY FS_CardinalityType
<1>2. \E f \in [1..k -> S] : IsInjective(f)
  BY <1>1 DEF ExistsBijection, Bijection, Injection
<1>3. s \in [1..k -> S] /\ IsInjective(s)
  BY <1>2 DEF SetToSeq
<1> HIDE DEF s
<1>4. s \in Injection(1..k, S)
  BY <1>3 DEF Injection
<1>5. IsFiniteSet(1..k) /\ Cardinality(1..k) = k
  BY <1>1, FS_Interval
<1>6. s \in Surjection(1..k, S)
  BY <1>4, <1>5, FS_Injection
<1>7. \A x \in S : \E i \in 1..k : s[i] = x
  BY <1>6 DEF Surjection
<1>8. s \in Seq(S) /\ DOMAIN s = 1..k
  BY <1>1, <1>3
<1>. QED BY <1>7, <1>8 DEF s

(* The calls of a rollup, one after the other.                             *)
LEMMA RollupCallsRest ==
    ASSUME NEW todo \in RollupCalls
    PROVE  /\ todo # << >> /\ Head(todo) \in {"entities", "suites", "reports"}
           /\ Head(todo) \in {"entities", "suites"} => Tail(todo) \in RollupCalls
           /\ Head(todo) = "reports" => Tail(todo) = <<"cases">>
<1>1. /\ Tail(<<"entities", "suites", "reports", "cases">>) = <<"suites", "reports", "cases">>
      /\ Tail(<<"suites", "reports", "cases">>) = <<"reports", "cases">>
      /\ Tail(<<"reports", "cases">>) = <<"cases">>
      /\ Head(<<"entities", "suites", "reports", "cases">>) = "entities"
      /\ Head(<<"suites", "reports", "cases">>) = "suites"
      /\ Head(<<"reports", "cases">>) = "reports"
      /\ <<"entities", "suites", "reports", "cases">> # << >>
      /\ <<"suites", "reports", "cases">> # << >> /\ <<"reports", "cases">> # << >>
  OBVIOUS
<1>. QED BY <1>1, Zenon DEF RollupCalls

(* What is left after the first of the calls.                              *)
LEMMA RestOf ==
    ASSUME NEW S, NEW todo \in Seq(S), todo # << >>
    PROVE  /\ Tail(todo) \in Seq(S) /\ Head(todo) \in S /\ 1 \in DOMAIN todo /\ todo[1] = Head(todo)
           /\ \A i \in DOMAIN Tail(todo) : i + 1 \in DOMAIN todo /\ Tail(todo)[i] = todo[i + 1]
           /\ \A i \in DOMAIN todo : \/ todo[i] = Head(todo)
                                     \/ i - 1 \in DOMAIN Tail(todo) /\ Tail(todo)[i - 1] = todo[i]
<1>1. Len(todo) \in Nat \ {0} /\ DOMAIN todo = 1..Len(todo)
  OBVIOUS
<1>2. /\ Tail(todo) \in Seq(S) /\ DOMAIN Tail(todo) = 1..(Len(todo) - 1)
      /\ \A i \in 1..(Len(todo) - 1) : Tail(todo)[i] = todo[i + 1]
      /\ Head(todo) = todo[1] /\ Head(todo) \in S
  OBVIOUS
<1>3. ASSUME NEW i \in 1..Len(todo), i # 1
      PROVE  i - 1 \in 1..(Len(todo) - 1) /\ Tail(todo)[i - 1] = todo[i]
  <2>1. i - 1 \in 1..(Len(todo) - 1) /\ (i - 1) + 1 = i
    BY <1>1, <1>3
  <2>. QED BY <1>2, <2>1
<1>. QED BY <1>1, <1>2, <1>3

(* The names of reports are none of the calls.                             *)
LEMMA NotCalls ==
    /\ \A n \in ReportNames : n \notin {"entities", "suites", "reports", "project", "cases"}
BY PagesAssumption DEF Calls

(* A step of the page that leaves the reports listed and shown alone.      *)
LEMMA OnlyTodo ==
    ASSUME PagesInv, LastInv, UNCHANGED reportVars, page'.listed = page.listed,
           page'.last = page.last,
           page'.kind \in {"testability", "rollup"} => RollupOK'
    PROVE  LastInv'
BY DEF LastInv, MadeBy, ListedOK, RollupOK, Seen, reportVars

(* A call that reads something else than the reports or one of them.       *)
LEMMA CallLast ==
    ASSUME PagesInv, LastInv, Call PROVE LastInv'
<1>1. /\ UNCHANGED reportVars /\ page.todo # << >> /\ page.kind \in {"items", "testability"}
      /\ Head(page.todo) \in {"entities", "suites", "reports", "project", "cases"}
  BY DEF Call, Reads, PagesInv, PageOK
<1>2. page = [kind |-> page.kind, todo |-> page.todo, entities |-> page.entities,
              ver |-> page.ver, cases |-> page.cases, listed |-> page.listed,
              docs |-> page.docs, last |-> page.last, missing |-> page.missing]
  BY DEF PagesInv, PageOK
<1>3. ASSUME page'.kind = page.kind, page'.last = page.last, page'.listed = page.listed,
             page'.todo = Tail(page.todo), Head(page.todo) # "reports"
      PROVE  LastInv'
  <2>1. CASE page.kind = "items"
    BY <1>1, <1>3, <2>1, OnlyTodo
  <2>2. CASE page.kind = "testability" /\ page.todo \in RollupCalls
    <3>1. page.listed = << >> /\ page.last = NoRun
      <4>1. ~(page.todo \in Seq(ReportNames \cup {"cases"}))
        BY <2>2, RollupCallsRest, RestOf, NotCalls
      <4>. QED BY <2>2, <4>1 DEF LastInv, RollupOK
    <3>2. page'.todo \in RollupCalls
      BY <1>3, <2>2, RollupCallsRest
    <3>3. RollupOK'
      BY <1>3, <3>1, <3>2 DEF RollupOK
    <3>. QED BY <1>1, <1>3, <3>3, OnlyTodo
  <2>3. CASE page.kind = "testability" /\ page.todo \notin RollupCalls
    <3>1. /\ page.todo \in Seq(ReportNames \cup {"cases"})
          /\ \A i \in DOMAIN page.todo :
                page.todo[i] \in ReportNames => page.todo[i] \in DOMAIN page.listed
          /\ page.last \in Runs
          /\ \A n \in DOMAIN page.listed :
                page.listed[n].state = "whole" /\ reports[n] = page.listed[n] => Compared(n, page)
      BY <2>3 DEF LastInv, RollupOK
    <3>2. \A n \in DOMAIN page.listed : n \in ReportNames /\ n # Head(page.todo)
      BY <1>1, NotCalls DEF PagesInv, PageOK
    <3>3. ASSUME NEW n \in DOMAIN page.listed, Compared(n, page) PROVE Compared(n, page')
      <4>1. RunTime(n, page') = RunTime(n, page)
        BY <1>3 DEF RunTime
      <4>2. ASSUME NEW i \in DOMAIN page.todo, page.todo[i] = n PROVE Compared(n, page')
        <5>1. i - 1 \in DOMAIN Tail(page.todo) /\ Tail(page.todo)[i - 1] = n
          BY <1>1, <3>1, <3>2, <4>2, RestOf
        <5>. QED BY <1>3, <5>1 DEF Compared
      <4>. QED BY <1>3, <3>3, <4>1, <4>2 DEF Compared
    <3>4. page'.todo \in Seq(ReportNames \cup {"cases"})
          /\ \A i \in DOMAIN page'.todo :
                page'.todo[i] \in ReportNames => page'.todo[i] \in DOMAIN page'.listed
      BY <1>1, <1>3, <3>1, RestOf
    <3>5. RollupOK'
      BY <1>1, <1>3, <3>1, <3>3, <3>4 DEF RollupOK, reportVars
    <3>. QED BY <1>1, <1>3, <3>5, OnlyTodo
  <2>. QED BY <1>1, <2>1, <2>2, <2>3
<1>4. CASE /\ Reads("reports")
           /\ page' = [Rest EXCEPT !.listed = ListedReports,
                         !.todo = IF page.kind = "items" THEN @ ELSE @ \o SetToSeq(ListReports)]
  <2>1. page' = [kind |-> page.kind,
                 todo |-> IF page.kind = "items" THEN Tail(page.todo)
                          ELSE Tail(page.todo) \o SetToSeq(ListReports),
                 entities |-> page.entities, ver |-> page.ver, cases |-> page.cases,
                 listed |-> ListedReports, docs |-> page.docs, last |-> page.last,
                 missing |-> page.missing]
    BY <1>2, <1>4 DEF Rest
  <2>2. /\ page'.kind = page.kind /\ page'.last = page.last /\ page'.listed = ListedReports
        /\ page.kind = "testability" => page'.todo = Tail(page.todo) \o SetToSeq(ListReports)
    BY <2>1
  <2>3. /\ DOMAIN ListedReports = ListReports
        /\ \A n \in ListReports : /\ n \in ReportNames /\ ListedReports[n] = reports[n]
                                  /\ reports[n].state # "none" /\ reports[n].at \in Nat
    BY DEF ListedReports, ListReports, PagesInv, ReportInv
  <2>4. ListedOK'
    BY <1>1, <2>2, <2>3 DEF ListedOK, LastInv, MadeBy, reportVars
  <2>5. ASSUME page.kind = "testability" PROVE RollupOK'
    <3>1. page.todo \in RollupCalls /\ page.last = NoRun
      <4>1. ~(page.todo \in Seq(ReportNames \cup {"cases"}))
        BY <1>1, <1>4, RestOf, NotCalls DEF Reads
      <4>. QED BY <2>5, <4>1 DEF LastInv, RollupOK
    <3>2. Tail(page.todo) = <<"cases">>
      BY <1>4, <3>1, RollupCallsRest DEF Reads
    <3>3. PICK s : s = SetToSeq(ListReports)
      OBVIOUS
    <3>4. s \in Seq(ListReports) /\ \A n \in ListReports : \E i \in DOMAIN s : s[i] = n
      BY <3>3, ListFinite, SetToSeqAll DEF LastInv
    <3>5. page'.todo = <<"cases">> \o s
      BY <2>2, <2>5, <3>2, <3>3
    <3>6. s \in Seq(ReportNames \cup {"cases"}) /\ Len(s) \in Nat /\ DOMAIN s = 1..Len(s)
      BY <2>3, <3>4
    <3>7. <<"cases">> \in Seq(ReportNames \cup {"cases"}) /\ Len(<<"cases">>) = 1
          /\ <<"cases">>[1] = "cases"
      OBVIOUS
    <3>8. /\ page'.todo \in Seq(ReportNames \cup {"cases"})
          /\ DOMAIN page'.todo = 1..(Len(s) + 1) /\ page'.todo[1] = "cases"
          /\ \A i \in 1..Len(s) : page'.todo[i + 1] = s[i]
      <4>1. PICK c : c = <<"cases">>
        OBVIOUS
      <4>2. c \in Seq(ReportNames \cup {"cases"}) /\ Len(c) = 1 /\ c[1] = "cases"
        BY <3>7, <4>1
      <4>. QED BY <3>5, <3>6, <4>1, <4>2
    <3>9. \A n \in ListReports : \E i \in DOMAIN page'.todo : page'.todo[i] = n
      <4>. TAKE n \in ListReports
      <4>1. PICK i \in 1..Len(s) : s[i] = n
        BY <3>4, <3>6
      <4>2. i + 1 \in DOMAIN page'.todo /\ page'.todo[i + 1] = n
        BY <3>6, <3>8, <4>1
      <4>. QED BY <4>2
    <3>10. ASSUME NEW i \in DOMAIN page'.todo, page'.todo[i] \in ReportNames
           PROVE  page'.todo[i] \in ListReports
      <4>1. i # 1
        BY <3>8, <3>10, NotCalls
      <4>2. i - 1 \in 1..Len(s) /\ (i - 1) + 1 = i
        BY <3>6, <3>8, <4>1
      <4>3. page'.todo[i] = s[i - 1]
        BY <3>8, <4>2
      <4>. QED BY <3>4, <3>6, <4>2, <4>3
    <3>11. page'.last \in Runs
      BY <2>2, <3>1 DEF NoRun, Runs
    <3>12. \A n \in DOMAIN page'.listed : Compared(n, page')
      BY <2>2, <2>3, <3>9 DEF Compared
    <3>. QED BY <2>2, <2>3, <3>8, <3>10, <3>11, <3>12 DEF RollupOK
  <2>6. RollupOK'
    BY <1>1, <2>2, <2>5 DEF RollupOK
  <2>. QED BY <1>1, <2>2, <2>4, <2>6 DEF LastInv, MadeBy, Seen, reportVars
<1>5. CASE ~Reads("reports")
  <2>1. /\ page'.kind = page.kind /\ page'.last = page.last /\ page'.listed = page.listed
        /\ page'.todo = Tail(page.todo) /\ Head(page.todo) # "reports"
    BY <1>2, <1>5 DEF Call, Reads, Rest
  <2>. QED BY <1>3, <2>1
<1>. QED BY <1>4, <1>5 DEF Call, Reads

(* The next report is compared with the one shown so far.                  *)
LEMMA LoadLast ==
    ASSUME PagesInv, LastInv, LoadReport PROVE LastInv'
<1> DEFINE n == Head(page.todo)
           at == IF Summarized(n) /\ RunAt[n] > 0 THEN RunAt[n] ELSE page.listed[n].at
           by == IF Summarized(n) THEN reports[n].by ELSE NoOne
<1>1. /\ UNCHANGED reportVars /\ page.kind = "testability" /\ page.todo # << >>
      /\ n \in ReportNames
  BY DEF LoadReport
<1>2. /\ page = [kind |-> page.kind, todo |-> page.todo, entities |-> page.entities,
                 ver |-> page.ver, cases |-> page.cases, listed |-> page.listed,
                 docs |-> page.docs, last |-> page.last, missing |-> page.missing]
      /\ \A m \in DOMAIN page.listed : m \in ReportNames
  BY DEF PagesInv, PageOK
<1>3. page.todo \notin RollupCalls
  BY <1>1, RollupCallsRest, NotCalls
<1>4. /\ page.todo \in Seq(ReportNames \cup {"cases"})
      /\ \A i \in DOMAIN page.todo :
            page.todo[i] \in ReportNames => page.todo[i] \in DOMAIN page.listed
      /\ page.last \in Runs
      /\ \A m \in DOMAIN page.listed :
            page.listed[m].state = "whole" /\ reports[m] = page.listed[m] => Compared(m, page)
  BY <1>1, <1>3 DEF LastInv, RollupOK
<1>5. n \in DOMAIN page.listed
  BY <1>1, <1>4, RestOf
<1>6. /\ reports[n].by \in Adders \cup {NoOne}
      /\ RunAt[n] \in Nat /\ (n \notin JsonReports => RunAt[n] = 0) /\ page.listed[n].at \in Nat
  BY <1>1, <1>5, PagesAssumption DEF PagesInv, ReportInv, LastInv, ListedOK
<1>7. at \in Nat /\ by \in Adders \cup {NoOne} /\ (by # NoOne => reports[n].state = "whole")
  BY <1>6 DEF Summarized
<1> HIDE DEF at, by
<1>8. PICK r : r = [shown |-> TRUE, at |-> at, by |-> by]
  OBVIOUS
<1>9. r \in Runs /\ r.shown /\ r.at = at /\ r.by = by
  BY <1>7, <1>8 DEF Runs
<1>10. page' = IF ~page.last.shown \/ at > page.last.at THEN [Rest EXCEPT !.last = r] ELSE Rest
  BY <1>8 DEF LoadReport, at, by
<1>11. /\ page'.kind = page.kind /\ page'.listed = page.listed /\ page'.todo = Tail(page.todo)
       /\ page'.last = IF ~page.last.shown \/ at > page.last.at THEN r ELSE page.last
  BY <1>2, <1>10 DEF Rest
<1>12. /\ page'.last \in Runs /\ page'.last.shown /\ page'.last.at >= at
       /\ page.last.shown => page'.last.at >= page.last.at
       /\ page'.last.by \in {by, page.last.by}
  BY <1>4, <1>7, <1>9, <1>11 DEF Runs
<1>13. ASSUME NEW m \in DOMAIN page.listed, page.listed[m].state = "whole",
              reports[m] = page.listed[m]
       PROVE  Compared(m, page')
  <2>1. CASE m = n
    <3>1. at = RunTime(m, page')
      BY <1>6, <1>11, <1>13, <2>1 DEF at, RunTime, Summarized
    <3>. QED BY <1>12, <3>1 DEF Compared
  <2>2. CASE m # n /\ \E i \in DOMAIN page.todo : page.todo[i] = m
    <3>1. PICK i \in DOMAIN page.todo : page.todo[i] = m
      BY <2>2
    <3>2. i - 1 \in DOMAIN Tail(page.todo) /\ Tail(page.todo)[i - 1] = m
      BY <1>1, <1>4, <2>2, <3>1, RestOf
    <3>. QED BY <1>11, <3>2 DEF Compared
  <2>3. CASE page.last.shown /\ page.last.at >= RunTime(m, page)
    <3>1. RunTime(m, page') = RunTime(m, page) /\ RunTime(m, page) \in Nat
      BY <1>2, <1>11, PagesAssumption DEF RunTime, LastInv, ListedOK
    <3>2. page'.last.at >= page.last.at /\ page'.last.at \in Nat /\ page.last.at \in Nat
      BY <1>4, <1>12, <2>3 DEF Runs
    <3>3. page'.last.at >= RunTime(m, page')
      BY <2>3, <3>1, <3>2
    <3>. QED BY <1>12, <3>3 DEF Compared
  <2>. QED BY <1>4, <1>13, <2>1, <2>2, <2>3 DEF Compared
<1>14. /\ page'.todo \in Seq(ReportNames \cup {"cases"})
       /\ \A i \in DOMAIN page'.todo :
             page'.todo[i] \in ReportNames => page'.todo[i] \in DOMAIN page'.listed
  BY <1>1, <1>4, <1>11, RestOf
<1>15. RollupOK'
  BY <1>1, <1>11, <1>12, <1>13, <1>14 DEF RollupOK, reportVars
<1>16. page'.last.by # NoOne => page'.last.by \in Adders /\ Seen(page'.last.by)
  <2>1. by # NoOne => by \in Adders /\ Seen(by)
    BY <1>1, <1>7 DEF Seen, by
  <2>. QED BY <1>12, <2>1 DEF LastInv
<1>17. MadeBy' /\ ListedOK' /\ (page.last.by # NoOne => Seen(page.last.by))'
  BY <1>1, <1>11, <1>16 DEF LastInv, MadeBy, ListedOK, Seen, reportVars
<1>. QED BY <1>15, <1>16, <1>17 DEF LastInv

(* A page that has listed nothing and shows no run.                        *)
LEMMA FreshLast ==
    ASSUME LastInv, UNCHANGED reportVars, page'.listed = << >>, page'.last = NoRun,
           page'.kind \in {"testability", "rollup"} => page'.todo \in RollupCalls
    PROVE  LastInv'
<1>1. DOMAIN page'.listed = {} /\ page'.last.by = NoOne
  BY DEF NoRun
<1>. QED BY <1>1 DEF LastInv, MadeBy, ListedOK, RollupOK, reportVars

(* Every step preserves it.                                                *)
LEMMA LastNext == PagesInv /\ LastInv /\ [PagesNext]_vars => LastInv'
<1>. SUFFICES ASSUME PagesInv, LastInv, [PagesNext]_vars PROVE LastInv'
  OBVIOUS
<1>1. CASE page' = page
  BY <1>1, PagesReportSteps, LastStays
<1>2. CASE /\ ListProjectItems \/ GetTestability
           /\ UNCHANGED <<reportVars, version, suite, project>>
  <2>1. ASSUME NEW kind, NEW calls, Request(kind, calls),
               kind \in {"testability", "rollup"} => calls \in RollupCalls
        PROVE  LastInv'
    <3>1. /\ page'.kind = kind /\ page'.todo = calls /\ page'.listed = << >>
          /\ page'.last = NoRun
      BY <2>1 DEF Request, NoPage
    <3>. QED BY <1>2, <2>1, <3>1, FreshLast
  <2>2. <<"entities", "suites", "reports", "cases">> \in RollupCalls
    BY DEF RollupCalls
  <2>. QED BY <1>2, <2>1, <2>2 DEF ListProjectItems, GetTestability
<1>3. CASE Call
  BY <1>3, CallLast
<1>4. CASE LoadReport
  BY <1>4, LoadLast
<1>5. CASE Respond
  <2>1. /\ page'.todo = page.todo /\ page'.listed = page.listed /\ page'.last = page.last
        /\ page'.kind \in {"testability", "rollup"} => page.kind = "testability"
        /\ UNCHANGED reportVars
    BY <1>5 DEF Respond, PagesInv, PageOK
  <2>2. page.kind = "testability" => RollupOK'
    BY <2>1 DEF LastInv, RollupOK, Compared, RunTime, reportVars
  <2>. QED BY <2>1, <2>2, OnlyTodo
<1>6. ASSUME NEW family, NEW ref, NEW found, Answers(family, ref, found) PROVE LastInv'
  <2>1. page'.kind = "none" /\ page'.listed = << >> /\ page'.last = NoRun /\ UNCHANGED reportVars
    BY <1>6 DEF Answers, NoPage
  <2>. QED BY <2>1, FreshLast
<1>7. CASE GetProjectItem
  BY <1>6, <1>7 DEF GetProjectItem, OpenCase, OpenFolder
<1>. QED BY <1>1, <1>2, <1>3, <1>4, <1>5, <1>7 DEF PagesNext, Edit, vars

(* "the outcome of the most recent report, when one can be read"           *)
(* (testability.go:24): the run a rollup shows is that of a whole report,  *)
(* and no report that was whole when it was listed, and still is that      *)
(* report, is newer, however many there are and whoever uploads meanwhile. *)
THEOREM LastHonest == PagesSpec => []LastRunHonest
<1>1. PagesInv /\ LastInv => LastRunHonest
  <2>. SUFFICES ASSUME PagesInv, LastInv, page.kind = "rollup" PROVE LastRunHonest
    BY DEF LastRunHonest
  <2>1. page.last.by # NoOne =>
          \/ result[page.last.by].is = "failed"
          \/ \E n \in ReportNames : reports[n].by = page.last.by /\ reports[n].state = "whole"
    BY DEF LastInv, Seen
  <2>2. page.todo = << >> /\ page.todo \notin RollupCalls
    BY RollupCallsRest DEF PagesInv, PageOK
  <2>3. DOMAIN page.todo = {}
    BY <2>2
  <2>4. ASSUME NEW n \in DOMAIN page.listed, page.listed[n].state = "whole",
               reports[n] = page.listed[n]
        PROVE  page.last.at >= (IF RunAt[n] > 0 THEN RunAt[n] ELSE page.listed[n].at)
    BY <2>2, <2>3, <2>4 DEF LastInv, RollupOK, Compared, RunTime
  <2>. QED BY <2>1, <2>4 DEF LastRunHonest
<1>. QED BY <1>1, LastInit, LastNext, PagesInvariance, PTL DEF PagesSpec

-----------------------------------------------------------------------------
(* Versions keep their bound and the folders are a list that was asked for.*)
BoundsOK == version \in [Entities -> 0..MaxVersion] /\ project.roots \in RootSets \cup {{}}

(* Every step keeps both.                                                  *)
LEMMA BoundsInvariant == ProjectOK /\ BoundsOK /\ [PagesNext]_vars => BoundsOK'
<1>. SUFFICES ASSUME ProjectOK, BoundsOK, [PagesNext]_vars PROVE BoundsOK'
  OBVIOUS
<1>1. project = [arts |-> project.arts, rootsSet |-> project.rootsSet,
                 roots |-> project.roots, features |-> project.features]
  BY DEF ProjectOK
<1>2. ASSUME NEW e \in Entities, ChangeEntity(e)
      PROVE  BoundsOK'
  BY <1>2, PagesAssumption DEF ChangeEntity, BoundsOK
<1>3. ASSUME NEW cases \in CaseSets, ImportTestSuite(cases)
      PROVE  BoundsOK'
  BY <1>3 DEF ImportTestSuite, BoundsOK
<1>4. ASSUME NEW name \in DocNames, AddArtifact(name)
      PROVE  BoundsOK'
  <2>1. project' = [arts |-> Append(project.arts, name), rootsSet |-> project.rootsSet,
                    roots |-> project.roots, features |-> project.features]
    BY <1>1, <1>4 DEF AddArtifact
  <2>. QED BY <1>4, <2>1 DEF AddArtifact, BoundsOK
<1>5. ASSUME NEW roots \in RootSets, SetTestDocumentSettings(roots)
      PROVE  BoundsOK'
  <2>1. project' = [arts |-> project.arts, rootsSet |-> TRUE,
                    roots |-> roots, features |-> project.features]
    BY <1>1, <1>5 DEF SetTestDocumentSettings
  <2>. QED BY <1>5, <2>1 DEF SetTestDocumentSettings, BoundsOK
<1>6. CASE Edit
  BY <1>2, <1>3, <1>4, <1>5, <1>6 DEF Edit
<1>7. CASE ~Edit
  <2>1. UNCHANGED <<version, project>>
    BY <1>7 DEF PagesNext, Call, LoadReport, Respond, GetProjectItem, OpenCase, OpenFolder,
            Answers, vars
  <2>. QED BY <2>1 DEF BoundsOK
<1>. QED BY <1>6, <1>7

(* Every variable of the pages and of the reports keeps its type.          *)
THEOREM PagesTypeCorrect == PagesSpec => []PagesTypeOK
<1>1. PagesInit => BoundsOK
  BY PagesAssumption DEF PagesInit, BoundsOK
<1>2. PagesInv => ProjectOK
  BY DEF PagesInv
<1>3. PagesSpec => []BoundsOK
  BY <1>1, <1>2, PagesInvariance, BoundsInvariant, PTL DEF PagesSpec
<1>4. PagesInv /\ BoundsOK => PagesTypeOK
  <2>. SUFFICES ASSUME PagesInv, BoundsOK PROVE PagesTypeOK
    OBVIOUS
  <2>1. \A n \in ReportNames : reports[n].state \in {"none", "part", "whole"}
    BY DEF PagesInv, ReportInv, States
  <2>2. \A a \in Adders : result[a].is \in Results /\ (result[a].is = "adding" <=> add.by = a)
    BY DEF PagesInv, ReportInv
  <2>. QED BY <2>1, <2>2 DEF PagesInv, PageOK, BoundsOK, PagesTypeOK
<1>. QED BY <1>3, <1>4, PagesInvariance, PTL
=============================================================================
