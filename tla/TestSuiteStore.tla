---------------------------- MODULE TestSuiteStore ----------------------------
(***************************************************************************)
(* The versions of one test suite on disk: internal/store/testsuites.go.   *)
(*                                                                         *)
(* SaveTestSuite writes a version directory, v<n>/tests/<case>.json for    *)
(* each case and v<n>/suite.json, then moves current.json to it, each an   *)
(* atomic rename, under the store's lock (StoreMutex).  It may be stopped  *)
(* between any two; the next save takes the same number and writes into    *)
(* the same directory.  Versions the pointer lists never change            *)
(* (ListedVersionsFrozen), so the readers, which take no lock file, are    *)
(* operators on one moment's files.  project.json, written last, only gets *)
(* a new updated_at and is left out.                                       *)
(***************************************************************************)
EXTENDS Naturals, SequencesExt

CONSTANTS
    MaxSuiteVersion,  (* bound: versions of the suite                       *)
    CaseIds,          (* the case ids that occur                            *)
    NoOne             (* no run is saving                                   *)

ASSUME SuiteAssumption == MaxSuiteVersion \in Nat \ {0}

VARIABLES
    caseFile,   (* caseFile[v]: the case files of v<n>/tests, by id         *)
    suiteFile,  (* suiteFile[v]: v<n>/suite.json, or NoSuite                *)
    pointer,    (* current.json                                             *)
    save        (* the save under way: who saves what, and what is left     *)

storeVars == <<caseFile, suiteFile, pointer, save>>

SuiteVersions == 1..MaxSuiteVersion
NoSuite == [ids |-> <<>>, origin |-> "none", incomplete |-> FALSE, reqs |-> {}, rules |-> {}]
NotSaving == [by |-> NoOne, ver |-> 0, todo |-> <<>>, manifest |-> NoSuite]
Saving == save.by # NoOne

StoreInit ==
    /\ caseFile = [v \in SuiteVersions |-> <<>>]
    /\ suiteFile = [v \in SuiteVersions |-> NoSuite]
    /\ pointer = [current |-> 0, versions |-> {}, incomplete |-> FALSE]
    /\ save = NotSaving

(* Manifest: the suite without its cases.  CaseIDs are those of the cases; *)
(* a suite with no cases keeps whatever ids its author put there.          *)
Manifest(suite) ==
    [ids |-> IF suite.cases # <<>> THEN [i \in DOMAIN suite.cases |-> suite.cases[i].id]
             ELSE suite.caseIds,
     origin |-> suite.origin, incomplete |-> suite.incomplete,
     reqs |-> suite.reqs, rules |-> suite.rules]

(* Mutant: a save writes into the directory of the current version.        *)
SaveIntoCurrent(g, suite) ==
    /\ ~Saving
    /\ pointer.current + 1 \in SuiteVersions
    /\ save' = [by |-> g, ver |-> IF pointer.current = 0 THEN 1 ELSE pointer.current,
                todo |-> suite.cases, manifest |-> Manifest(suite)]
    /\ UNCHANGED <<caseFile, suiteFile, pointer>>

(* The lock is taken and the pointer read: the number of the new version   *)
(* follows from it, whatever directories are there.                        *)
SaveTestSuite(g, suite) ==
    /\ ~Saving
    /\ pointer.current + 1 \in SuiteVersions
    /\ save' = [by |-> g, ver |-> pointer.current + 1,
                todo |-> suite.cases, manifest |-> Manifest(suite)]
    /\ UNCHANGED <<caseFile, suiteFile, pointer>>

(* The case files with that of one case written anew.                      *)
Put(files, c) ==
    [id \in DOMAIN files \cup {c.id} |-> IF id = c.id THEN c ELSE files[id]]

(* Mutant: a case file that is already there is kept.                      *)
WriteCaseOnce ==
    /\ save.todo # <<>>
    /\ caseFile' = [caseFile EXCEPT ![save.ver] =
                      IF Head(save.todo).id \in DOMAIN @ THEN @ ELSE Put(@, Head(save.todo))]
    /\ save' = [save EXCEPT !.todo = Tail(@)]
    /\ UNCHANGED <<suiteFile, pointer>>

WriteCase ==
    /\ save.todo # <<>>
    /\ caseFile' = [caseFile EXCEPT ![save.ver] = Put(@, Head(save.todo))]
    /\ save' = [save EXCEPT !.todo = Tail(@)]
    /\ UNCHANGED <<suiteFile, pointer>>

ManifestWritten == suiteFile[save.ver] = save.manifest

WriteSuite ==
    /\ Saving /\ save.todo = <<>> /\ ~ManifestWritten
    /\ suiteFile' = [suiteFile EXCEPT ![save.ver] = save.manifest]
    /\ UNCHANGED <<caseFile, pointer, save>>

(* The pointer makes the version current; the lock is released.            *)
WritePointer ==
    /\ Saving /\ save.todo = <<>> /\ ManifestWritten
    /\ pointer' = [current |-> save.ver, versions |-> pointer.versions \cup {save.ver},
                   incomplete |-> save.manifest.incomplete]
    /\ save' = NotSaving
    /\ UNCHANGED <<caseFile, suiteFile>>

(* A write fails or the process is killed: what is on disk stays.          *)
StopSaving ==
    /\ Saving
    /\ save' = NotSaving
    /\ UNCHANGED <<caseFile, suiteFile, pointer>>

-----------------------------------------------------------------------------
(* readTestSuite with its cases: the manifest says which files to read; a  *)
(* missing one fails the call.                                             *)
Loadable(v) ==
    suiteFile[v] # NoSuite /\ ToSet(suiteFile[v].ids) \subseteq DOMAIN caseFile[v]

LoadTestSuite(v) ==
    [manifest |-> suiteFile[v],
     cases |-> [i \in DOMAIN suiteFile[v].ids |-> caseFile[v][suiteFile[v].ids[i]]]]

(* TestSuiteHistory and, for the current version, ListTestSuites.          *)
TestSuiteHistory == [v \in pointer.versions |-> suiteFile[v]]
ListTestSuites == IF pointer.current = 0 THEN {} ELSE {suiteFile[pointer.current]}
=============================================================================
