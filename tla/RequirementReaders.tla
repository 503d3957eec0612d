-------------------------- MODULE RequirementReaders --------------------------
(***************************************************************************)
(* A reader in another process than the writer: ListRequirements,          *)
(* RequirementHistory and LoadRequirement of internal/store/dirstore.go.   *)
(* Readers take d.mu for reading only and never the lock file ("readers    *)
(* deliberately bypass the lock", docs/architecture.md:243), so a reader   *)
(* in another process reads index.json once and the version files after    *)
(* it, one by one, while the writer's steps go on.                         *)
(***************************************************************************)
EXTENDS RequirementStore

VARIABLES
    request,  (* what the reader was called for                             *)
    todo,     (* the versions, <<r, v>>, still to be read                   *)
    got       (* what a history has read: records with ver and status       *)

readerVars == <<request, todo, got>>
allVars == <<vars, readerVars>>

Requests == {"none", "list", "history", "load"}
Reading == request # "none"

ReaderInit == request = "none" /\ todo = {} /\ got = {}

(* readRequirementIndex: one read of index.json decides what else is read. *)
Open(what, versions) ==
    /\ ~Reading
    /\ request' = what
    /\ todo' = versions
    /\ got' = {}
    /\ UNCHANGED vars

ListRequirements == Open("list", {<<r, Current(r)>> : r \in Listed})

RequirementHistory(r) ==
    Exists(r) /\ Open("history", {<<r, v>> : v \in index[r].versions})

(* version 0 is the current version; any other is tried as it is.          *)
LoadRequirement(r, v) ==
    Exists(r) /\ Open("load", {<<r, IF v = 0 THEN Current(r) ELSE v>>})

(* Requirements by id, versions in ascending order.                        *)
Comes(p) == \A q \in todo : p[1] < q[1] \/ (p[1] = q[1] /\ p[2] <= q[2])
FileOf(p) == file[p[1]][p[2]]

ReadVersion(p) ==
    /\ p \in todo /\ Comes(p)
    /\ FileOf(p) # NoFile
    /\ got' = IF request = "history"
              THEN got \cup {[ver |-> p[2], status |-> FileOf(p).status]} ELSE got
    /\ todo' = todo \ {p}
    /\ UNCHANGED <<vars, request>>

(* readRequirement fails with ErrNotFound and so does the whole call.      *)
ReadFails(p) ==
    /\ p \in todo /\ Comes(p)
    /\ FileOf(p) = NoFile
    /\ request' = "none"
    /\ todo' = {}
    /\ got' = {}
    /\ UNCHANGED vars

Return ==
    /\ Reading
    /\ todo = {}
    /\ request' = "none"
    /\ got' = {}
    /\ UNCHANGED <<vars, todo>>

Read ==
    \/ ListRequirements
    \/ \E r \in Reqs : RequirementHistory(r)
    \/ \E r \in Reqs, v \in Versions \cup {0} : LoadRequirement(r, v)
    \/ \E p \in Reqs \X Versions : ReadVersion(p) \/ ReadFails(p)
    \/ Return

ReadersInit == Init /\ ReaderInit
ReadersNext == (Next /\ UNCHANGED readerVars) \/ Read
ReadersSpec == ReadersInit /\ [][ReadersNext]_allVars

-----------------------------------------------------------------------------
ReadersTypeOK ==
    /\ request \in Requests
    /\ todo \subseteq Reqs \X Versions
    /\ got \subseteq [ver : Versions, status : Statuses]
    /\ ~Reading => todo = {} /\ got = {}

(* A list or a history that started from any index.json, however stale by  *)
(* now and whatever the writer has stopped halfway, never fails for a      *)
(* missing file; only a version a caller asked for by number may be        *)
(* missing.                                                                *)
SnapshotsStayReadable ==
    request \in {"list", "history"} => \A p \in todo : file[p[1]][p[2]] # NoFile

(* A history read across any number of the writer's steps never shows two  *)
(* active versions: only the last one may be other than superseded.        *)
HistoryShowsOldSuperseded ==
    request = "history" =>
        \A a, b \in got : a.ver < b.ver => a.status = "superseded"
=============================================================================
