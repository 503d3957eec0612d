-------------------------- MODULE RequirementHistory --------------------------
(***************************************************************************)
(* What the requirement store promises (RequirementStore of                *)
(* internal/store/dirstore.go): per requirement an append-only history of  *)
(* versions with one current version, whose text may be amended and whose  *)
(* status may be set; every change is all or nothing.                      *)
(***************************************************************************)
EXTENDS Naturals

CONSTANTS
    MaxReqs,     (* bound: requirements of the project                      *)
    MaxVersion,  (* bound: versions of a requirement                        *)
    Texts,       (* the texts a version may have                            *)
    NoText       (* the text of a version that does not exist               *)

Reqs == 1..MaxReqs
Versions == 1..MaxVersion

(* The statuses a caller may give a version: `superseded` is assigned by   *)
(* the store alone, when a newer version is written.                       *)
Settable == {"active", "obsolete"}

VARIABLES
    latest,      (* latest[r]: the current version, 0 before r exists       *)
    text,        (* text[r][v]: the text of each version up to the current  *)
    status       (* status[r]: the current version's status                 *)

vars == <<latest, text, status>>

(* A local project starts empty, an imported one with every requirement at *)
(* its first version.                                                      *)
Init ==
    \E n \in 0..MaxReqs, x \in Texts :
        /\ latest = [r \in Reqs |-> IF r <= n THEN 1 ELSE 0]
        /\ text = [r \in Reqs |-> [v \in Versions |-> IF r <= n /\ v = 1 THEN x ELSE NoText]]
        /\ status = [r \in Reqs |-> IF r <= n THEN "active" ELSE "absent"]

Create(r, x, s) ==
    /\ latest[r] = 0
    /\ latest' = [latest EXCEPT ![r] = 1]
    /\ text' = [text EXCEPT ![r][1] = x]
    /\ status' = [status EXCEPT ![r] = s]

(* The next version, which is active.                                      *)
Update(r, x) ==
    /\ latest[r] \in 1..(MaxVersion - 1)
    /\ latest' = [latest EXCEPT ![r] = @ + 1]
    /\ text' = [text EXCEPT ![r][latest[r] + 1] = x]
    /\ status' = [status EXCEPT ![r] = "active"]

(* The current version's text is rewritten in place.                       *)
Amend(r, x) ==
    /\ latest[r] > 0
    /\ text' = [text EXCEPT ![r][latest[r]] = x]
    /\ UNCHANGED <<latest, status>>

SetStatus(r, s) ==
    /\ latest[r] > 0
    /\ status' = [status EXCEPT ![r] = s]
    /\ UNCHANGED <<latest, text>>

Next ==
    \E r \in Reqs :
        \/ \E x \in Texts, s \in Settable : Create(r, x, s)
        \/ \E x \in Texts : Update(r, x) \/ Amend(r, x)
        \/ \E s \in Settable : SetStatus(r, s)

Spec == Init /\ [][Next]_vars
=============================================================================
