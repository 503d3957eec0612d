------------------------------ MODULE ReportStore -----------------------------
(***************************************************************************)
(* Test reports: internal/store/reports.go.  AddReport creates a file that *)
(* must not exist yet and writes it in place, under the store's lock; the  *)
(* readers of another process take no lock and see any part of it.         *)
(***************************************************************************)
EXTENDS Naturals, FiniteSets

CONSTANTS
    ReportNames,  (* the names of reports: relative paths inside reports/   *)
    Adders,       (* bound: the requests to add a report, a process each    *)
    NoOne         (* no request holds the lock, or has made the file        *)

ASSUME ReportAssumption == NoOne \notin Adders /\ IsFiniteSet(Adders)

VARIABLES
    reports,  (* reports[n]: the file, its maker and when it was changed    *)
    add,      (* the request that holds the lock, and the name it adds      *)
    result    (* result[a]: what became of request a                        *)

reportVars == <<reports, add, result>>

NoReport == [state |-> "none", by |-> NoOne, at |-> 0]
NoAdd == [by |-> NoOne, name |-> "none"]
Results == {"idle", "adding", "added", "refused", "failed", "stuck", "killed"}

ReportInit ==
    /\ reports = [n \in ReportNames |-> NoReport]
    /\ add = NoAdd
    /\ result = [a \in Adders |-> [is |-> "idle", name |-> "none"]]

ListReports == {n \in ReportNames : reports[n].state # "none"}

(* The order in which files are changed stands for their times.            *)
Now == 1 + Cardinality({a \in Adders : result[a].is # "idle"})

Answer(a, is) == result' = [result EXCEPT ![a].is = is]

Create(a, n) ==
    /\ reports' = [reports EXCEPT ![n] = [state |-> "part", by |-> a, at |-> Now]]
    /\ add' = [by |-> a, name |-> n]
    /\ result' = [result EXCEPT ![a] = [is |-> "adding", name |-> n]]

(* Mutant: without O_EXCL, an existing report is truncated.                *)
AddOverExisting(a, n) == add = NoAdd /\ result[a].is = "idle" /\ Create(a, n)

(* Content of a wrong size, or of a .json that does not parse, is refused  *)
(* as well.                                                                *)
AddReport(a, n) ==
    /\ add = NoAdd /\ result[a].is = "idle"
    /\ \/ n \notin ListReports /\ Create(a, n)
       \/ Answer(a, "refused") /\ UNCHANGED <<reports, add>>

WriteReport ==
    /\ add # NoAdd /\ reports[add.name].state = "part"
    /\ reports' = [reports EXCEPT ![add.name].state = "whole"]
    /\ UNCHANGED <<add, result>>

CloseReport ==
    /\ add # NoAdd /\ reports[add.name].state = "whole"
    /\ Answer(add.by, "added") /\ add' = NoAdd
    /\ UNCHANGED reports

(* Mutant: the file stays when the write fails.                            *)
AddFailsLeavingFile ==
    /\ add # NoAdd
    /\ Answer(add.by, "failed") /\ add' = NoAdd
    /\ UNCHANGED reports

(* Write or Close fails: the file is removed.  What root.Remove returns is *)
(* not looked at: where it is refused too, the file stays as it is, and    *)
(* the request, here called stuck, gives the same answer.                  *)
AddFails ==
    /\ add # NoAdd
    /\ \/ /\ reports' = [reports EXCEPT ![add.name] = NoReport]
          /\ Answer(add.by, "failed")
       \/ /\ UNCHANGED reports
          /\ Answer(add.by, "stuck")
    /\ add' = NoAdd

AdderKilled ==
    /\ add # NoAdd
    /\ Answer(add.by, "killed") /\ add' = NoAdd
    /\ UNCHANGED reports

AddStep ==
    \/ \E a \in Adders, n \in ReportNames : AddReport(a, n)
    \/ WriteReport \/ CloseReport \/ AddFails \/ AdderKilled

(* "use a different name to retain both runs" (reports.go:164): a report   *)
(* whose upload succeeded stays whole, whoever uploads the name again.     *)
AddedReportsKept ==
    \A a \in Adders : result[a].is = "added" =>
        /\ reports[result[a].name].by = a
        /\ reports[result[a].name].state = "whole"

(* A file that is not whole belongs to the upload under way, to one that   *)
(* was killed, or to one that failed where the removal of its file was     *)
(* refused as well: any other upload that reports an error leaves nothing, *)
(* so that it can be repeated under its name.                              *)
PartsAccountedFor ==
    \A n \in ReportNames : reports[n].state = "part" =>
        add.name = n \/ result[reports[n].by].is \in {"killed", "stuck"}
=============================================================================
