----------------------------- MODULE ProjectPages -----------------------------
(***************************************************************************)
(* The project pages of the HTTP API (internal/httpapi: items.go,          *)
(* testability.go, entities.go, test_documents.go) while other requests    *)
(* and commands change the project.                                        *)
(*                                                                         *)
(* A page is put together from several store calls, one lock each, so that *)
(* its parts may be of different moments; the tree that the browser shows  *)
(* then stays there while the project goes on changing.  The edits are     *)
(* single steps here: their writes are the matter of RequirementStore,     *)
(* AgentDefinitionStore, TestSuiteStore and ProjectStore.                  *)
(***************************************************************************)
EXTENDS ReportStore, DocumentSuites

CONSTANTS
    Entities,    (* requirements, agent definitions and override rules      *)
    MaxVersion,  (* bound: versions of an entity or a suite                 *)
    CaseSets,    (* the sets of cases a suite version may have              *)
    Segments,    (* the path segments of documents and folders              *)
    DocNames,    (* the names of artifacts                                  *)
    MaxArts,     (* bound: artifacts                                        *)
    RootSets,    (* the folder lists that are asked for                     *)
    Features,    (* the features of the imported project                    *)
    JsonReports, (* the names of reports of media type JSON whose content,
                    when it is whole, is a JSON object                      *)
    RunAt        (* RunAt[n]: the run time inside report n, 0 if it has none *)

(* The store calls that a page is put together from.                       *)
Calls == {"entities", "suites", "reports", "project", "cases"}

ASSUME PagesAssumption ==
    /\ MaxVersion \in Nat /\ MaxArts \in Nat
    /\ ReportNames \cap Calls = {}
    /\ {"specs", "sdd-qa"} \cup Features \subseteq Segments
    /\ DocNames \subseteq Seq(Segments)
    /\ \A roots \in RootSets : roots \subseteq Seq(Segments)
    /\ JsonReports \subseteq ReportNames
    /\ RunAt \in [ReportNames -> Nat] /\ \A n \in ReportNames \ JsonReports : RunAt[n] = 0

VARIABLES
    version,  (* version[e]: versions of entity e, 0: it is not there       *)
    suite,    (* suite[v]: the cases of version v of the test suite         *)
    project,  (* artifact names by id, and the folders of test documents    *)
    page      (* the request under way, what it has read, what is shown     *)

vars == <<reportVars, version, suite, project, page>>

NoItem == [family |-> "none", ref |-> "none"]
NoRun == [shown |-> FALSE, by |-> NoOne, at |-> 0]
NoPage == [kind |-> "none", todo |-> <<>>, entities |-> <<>>, ver |-> 0, cases |-> {},
           listed |-> <<>>, docs |-> {}, last |-> NoRun, missing |-> NoItem]

PagesInit ==
    /\ ReportInit
    /\ version = [e \in Entities |-> 0]
    /\ suite = <<>>
    /\ project = [arts |-> <<>>, rootsSet |-> FALSE, roots |-> {}, features |-> Features]
    /\ page = NoPage

-----------------------------------------------------------------------------
(* Edits by other requests and commands.                                   *)
ChangeEntity(e) ==
    /\ version[e] < MaxVersion
    /\ version' = [version EXCEPT ![e] = @ + 1]
    /\ UNCHANGED <<suite, project>>

ImportTestSuite(cases) ==
    /\ Len(suite) < MaxVersion
    /\ suite' = Append(suite, cases)
    /\ UNCHANGED <<version, project>>

AddArtifact(name) ==
    /\ Len(project.arts) < MaxArts
    /\ project' = [project EXCEPT !.arts = Append(@, name)]
    /\ UNCHANGED <<version, suite>>

SetTestDocumentSettings(roots) ==
    /\ RootsAccepted(roots)
    /\ project' = [project EXCEPT !.rootsSet = TRUE, !.roots = roots]
    /\ UNCHANGED <<version, suite>>

Edit ==
    /\ \/ \E e \in Entities : ChangeEntity(e)
       \/ \E cases \in CaseSets : ImportTestSuite(cases)
       \/ \E name \in DocNames : AddArtifact(name)
       \/ \E roots \in RootSets : SetTestDocumentSettings(roots)
    /\ UNCHANGED <<reportVars, page>>

-----------------------------------------------------------------------------
(* Requests: the store calls of each, in their order.                      *)
Request(kind, calls) ==
    /\ page.kind \in {"none", "tree", "rollup"}
    /\ page' = [NoPage EXCEPT !.kind = kind, !.todo = calls]

ListProjectItems == Request("items", <<"entities", "suites", "reports", "project", "cases">>)
GetTestability == Request("testability", <<"entities", "suites", "reports", "cases">>)

Rest == [page EXCEPT !.todo = Tail(@)]
Reads(call) == page.todo # <<>> /\ Head(page.todo) = call

(* ListReports also tells when each file was changed.                      *)
ListedReports == [n \in ListReports |-> reports[n]]

(* The artifacts with the folder they are shown in, or <<>>.  A folder is  *)
(* an item of its own above them, its path is its ref.                     *)
ArtifactItems ==
    LET grouped == UNION {DocumentsIn(project, r) \X {r} : r \in DocumentSuiteRoots(project)}
    IN  grouped \cup {<<a, <<>>>> : a \in LatestArtifacts(project) \ {d[1] : d \in grouped}}

(* The reports of a rollup are read one by one after they were listed.     *)
Call ==
    /\ \/ Reads("entities") /\ page' = [Rest EXCEPT !.entities = version]
       \/ Reads("suites") /\ page' = [Rest EXCEPT !.ver = Len(suite)]
       \/ /\ Reads("reports")
          /\ page' = [Rest EXCEPT !.listed = ListedReports,
                        !.todo = IF page.kind = "items" THEN @ ELSE @ \o SetToSeq(ListReports)]
       \/ Reads("project") /\ page' = [Rest EXCEPT !.docs = ArtifactItems]
       \/ /\ Reads("cases")
          /\ page' = [Rest EXCEPT !.cases = IF page.ver = 0 THEN {} ELSE suite[page.ver]]
    /\ UNCHANGED <<reportVars, version, suite, project>>

(* Mutant: what can be read of a report is taken for its run.              *)
SummarizeAnything(n) == n \in JsonReports /\ reports[n].state # "none"

(* summarizeRunReport: a report that is not JSON, does not parse, is no    *)
(* object or is gone has neither counts nor a run time.                    *)
Summarized(n) == n \in JsonReports /\ reports[n].state = "whole"

(* The latest run time wins, the first one of equals; a report without one *)
(* counts by the time its file was changed when it was listed.             *)
LoadReport ==
    /\ page.kind = "testability" /\ page.todo # <<>> /\ Head(page.todo) \in ReportNames
    /\ LET n == Head(page.todo)
           at == IF Summarized(n) /\ RunAt[n] > 0 THEN RunAt[n] ELSE page.listed[n].at
       IN page' = IF ~page.last.shown \/ at > page.last.at
                  THEN [Rest EXCEPT !.last = [shown |-> TRUE, at |-> at,
                          by |-> IF Summarized(n) THEN reports[n].by ELSE NoOne]]
                  ELSE Rest
    /\ UNCHANGED <<reportVars, version, suite, project>>

Respond ==
    /\ page.kind \in {"items", "testability"} /\ page.todo = <<>>
    /\ page' = [page EXCEPT !.kind = IF @ = "items" THEN "tree" ELSE "rollup"]
    /\ UNCHANGED <<reportVars, version, suite, project>>

(* The item is shown, or the answer is 404.                                *)
Answers(family, ref, found) ==
    /\ page.kind = "tree"
    /\ page' = [NoPage EXCEPT !.missing = IF found THEN NoItem
                                          ELSE [family |-> family, ref |-> ref]]
    /\ UNCHANGED <<reportVars, version, suite, project>>

(* Mutant: a case is looked up in the current version of its suite.        *)
OpenCurrentCase == \E c \in page.cases : Answers("case", c, c \in suite[Len(suite)])

OpenCase == \E c \in page.cases : Answers("case", c, c \in suite[page.ver])

(* A folder is looked up among those the project has by now.               *)
OpenFolder ==
    \E d \in page.docs :
        d[2] # <<>> /\ Answers("folder", d[2], d[2] \in DocumentSuiteRoots(project))

(* getProjectItem: an item of the tree is opened, with the version that    *)
(* the tree gave.                                                          *)
GetProjectItem ==
    \/ \E e \in Entities :
        page.entities # <<>> /\ page.entities[e] > 0
        /\ Answers("entity", e, page.entities[e] \in 1..version[e])
    \/ page.ver > 0 /\ Answers("suite", "suite", page.ver \in DOMAIN suite)
    \/ OpenCase
    \/ \E n \in DOMAIN page.listed : Answers("report", n, n \in ListReports)
    \/ OpenFolder
    \/ \E d \in page.docs : Answers("artifact", d[1], d[1] \in DOMAIN project.arts)

PagesNext ==
    \/ Edit
    \/ AddStep /\ UNCHANGED <<version, suite, project, page>>
    \/ (ListProjectItems \/ GetTestability) /\ UNCHANGED <<reportVars, version, suite, project>>
    \/ Call \/ LoadReport \/ Respond \/ GetProjectItem

PagesSpec == PagesInit /\ [][PagesNext]_vars

-----------------------------------------------------------------------------
(* The types: a request to add a report is under way exactly while it holds *)
(* the lock, versions are within their bound, the folders were asked for.  *)
PagesTypeOK ==
    /\ \A n \in ReportNames : reports[n].state \in {"none", "part", "whole"}
    /\ \A a \in Adders : result[a].is \in Results /\ (result[a].is = "adding" <=> add.by = a)
    /\ version \in [Entities -> 0..MaxVersion]
    /\ project.roots \in RootSets \cup {{}}
    /\ page.kind \in {"none", "items", "testability", "tree", "rollup"}
    /\ page.ver \in 0..Len(suite)

(* An item of the tree opens, whatever has changed since the tree was put  *)
(* together, but for two kinds: a report whose upload failed after it was  *)
(* listed, and a folder of test documents that the project's settings no   *)
(* longer name, for getProjectItem looks it up in the present settings     *)
(* (items.go:218).  A folder that is still named opens: its documents may  *)
(* have been revised, but it never becomes empty.                          *)
UploadFailed(n) == \E a \in Adders : result[a] = [is |-> "failed", name |-> n]

TreeItemsOpen ==
    [][GetProjectItem /\ page'.missing # NoItem =>
          \/ page'.missing.family = "report" /\ UploadFailed(page'.missing.ref)
          \/ /\ page'.missing.family = "folder"
             /\ page'.missing.ref \notin TestDocumentRoots(project)]_vars

(* The tree shows each document once, in one folder or among the rest,     *)
(* whatever folders are configured.                                        *)
DocumentsShownOnce ==
    \A d \in page.docs : \A e \in page.docs :
        project.arts[d[1]] = project.arts[e[1]] => d = e

(* "the outcome of the most recent report, when one can be read"           *)
(* (testability.go:24): the run shown is that of a whole report, and none  *)
(* that was whole when the reports were listed is newer.                   *)
LastRunHonest ==
    page.kind = "rollup" =>
        /\ page.last.by # NoOne =>
            \/ result[page.last.by].is = "failed"
            \/ \E n \in ReportNames :
                reports[n].by = page.last.by /\ reports[n].state = "whole"
        /\ \A n \in DOMAIN page.listed :
            page.listed[n].state = "whole" /\ reports[n] = page.listed[n] =>
                page.last.at >= (IF RunAt[n] > 0 THEN RunAt[n] ELSE page.listed[n].at)
=============================================================================
