----------------------------- MODULE ProjectStore -----------------------------
(***************************************************************************)
(* The project documents on disk: internal/store/dirstore.go and           *)
(* snapshot.go, and what internal/model/project.go does to a document.     *)
(*                                                                         *)
(* A project is a directory with a project.json, or a flat <id>.json an    *)
(* older version left, which the next write replaces by a directory.       *)
(* Writers hold the store's lock (StoreMutex) from the resolution of the   *)
(* project to the last write; each file is replaced atomically and the     *)
(* writer may stop between two.  A name stands for all its spellings.      *)
(***************************************************************************)
EXTENDS Naturals, Sequences, SequencesExt, FiniteSets

CONSTANTS
    Ids,       (* bound: the ids NewID draws for projects                   *)
    Names,     (* the project names that occur                              *)
    ArtNames,  (* the artifact names that occur                             *)
    NoOne,     (* no command holds the lock                                 *)
    MaxArts    (* bound: artifacts that are ever made                       *)

ASSUME ProjectAssumption == Ids \cap Names = {} /\ MaxArts \in Nat

VARIABLES
    dir,    (* dir[p]: <id>/project.json                                    *)
    flat,   (* flat[p]: <id>.json                                           *)
    reqs,   (* reqs[p]: requirements of p, each the artifact it came from   *)
    op,     (* the write under way, of the command that holds the lock      *)
    born    (* artifacts made so far, their ids                             *)

storeVars == <<dir, flat, reqs, op, born>>

NoDoc == [name |-> "none", arts |-> <<>>, imported |-> FALSE]
NoOp == [by |-> NoOne, phase |-> "none", p |-> "none", doc |-> NoDoc, reqs |-> <<>>]
LockFree == op.by = NoOne

-----------------------------------------------------------------------------
(* Project documents: internal/model/project.go.                           *)
ArtIds(doc) == {doc.arts[i].id : i \in DOMAIN doc.arts}
Revisions(doc, name) == {i \in DOMAIN doc.arts : doc.arts[i].name = name}
Latest(doc, name) ==
    doc.arts[CHOOSE i \in Revisions(doc, name) :
                \A j \in Revisions(doc, name) : doc.arts[j].ver <= doc.arts[i].ver]

(* A revision keeps the type of its name.                                  *)
CanAdd(doc, name, type) == Revisions(doc, name) # {} => Latest(doc, name).type = type

(* The next revision of its name, derived from the previous one.           *)
AddArtifact(doc, id, name, type) ==
    LET first == Revisions(doc, name) = {} IN
    [doc EXCEPT !.arts = Append(@,
        [id |-> id, name |-> name, type |-> type, pinned |-> FALSE,
         ver |-> IF first THEN 1 ELSE Latest(doc, name).ver + 1,
         parent |-> IF first THEN 0 ELSE Latest(doc, name).id])]

(* Mutant: the revision follows the artifact it was derived from.          *)
DeriveFromParent(doc, parent, id, name, type) ==
    LET of == doc.arts[CHOOSE i \in DOMAIN doc.arts : doc.arts[i].id = parent] IN
    [doc EXCEPT !.arts = Append(@,
        [id |-> id, name |-> name, type |-> type, pinned |-> FALSE,
         ver |-> IF of.name = name THEN of.ver + 1 ELSE 1, parent |-> parent])]

(* DeriveArtifact: the parent is the source, whatever its name.            *)
DeriveArtifact(doc, parent, id, name, type) ==
    LET added == AddArtifact(doc, id, name, type) IN
    [added EXCEPT !.arts[Len(added.arts)].parent = parent]

SetPinned(doc, id) ==
    [doc EXCEPT !.arts = [i \in DOMAIN @ |->
        IF @[i].id = id THEN [@[i] EXCEPT !.pinned = TRUE] ELSE @[i]]]

-----------------------------------------------------------------------------
(* Looking a project up.                                                   *)
ByID(p) == IF dir[p] # NoDoc THEN dir[p] ELSE flat[p]

(* The files listLocked finds, and what each holds.                        *)
Entries == {e \in {"dir", "flat"} \X Ids : (IF e[1] = "dir" THEN dir ELSE flat)[e[2]] # NoDoc}
Holds(e) == [p |-> e[2], doc |-> (IF e[1] = "dir" THEN dir ELSE flat)[e[2]]]

(* By id, then by name; of two files with one name (a migration stopped)   *)
(* the sort of listLocked, which is not stable, may put either first.      *)
Resolve(ref) ==
    IF ref \in Ids /\ ByID(ref) # NoDoc THEN {[p |-> ref, doc |-> ByID(ref)]}
    ELSE {Holds(e) : e \in {x \in Entries : Holds(x).doc.name = ref}}

(* Mutant: Create looks for the name in the directories only.              *)
NameTakenInDirectory(name) == \E p \in Ids : dir[p].name = name

NameTaken(name) == \E e \in Entries : Holds(e).doc.name = name

-----------------------------------------------------------------------------
(* Writing.                                                                *)
Begin(c, phase, p, doc, rs) ==
    /\ LockFree
    /\ op' = [by |-> c, phase |-> phase, p |-> p, doc |-> doc, reqs |-> rs]

(* Create and Update: writeLocked follows.                                 *)
Write(c, p, doc) == Begin(c, "document", p, doc, reqs[p]) /\ UNCHANGED <<dir, flat, reqs>>

(* CreateRequirement, its own writes (RequirementStore) in one step.       *)
WriteRequirement ==
    /\ op.phase = "requirement"
    /\ reqs' = [reqs EXCEPT ![op.p] = op.reqs]
    /\ op' = [op EXCEPT !.phase = "document"]
    /\ UNCHANGED <<dir, flat, born>>

(* project.json; a flat document is removed after it.                      *)
WriteDocument ==
    /\ op.phase = "document"
    /\ dir' = [dir EXCEPT ![op.p] = op.doc]
    /\ op' = IF flat[op.p] = NoDoc THEN NoOp ELSE [op EXCEPT !.phase = "legacy"]
    /\ UNCHANGED <<flat, reqs, born>>

RemoveLegacy ==
    /\ op.phase = "legacy"
    /\ flat' = [flat EXCEPT ![op.p] = NoDoc]
    /\ op' = NoOp
    /\ UNCHANGED <<dir, reqs, born>>

(* Mutant: the import is built where it will be seen.                      *)
StageInPlace ==
    /\ op.phase = "stage"
    /\ dir' = [dir EXCEPT ![op.p] = op.doc]
    /\ op' = [op EXCEPT !.phase = "publish"]
    /\ UNCHANGED <<flat, reqs, born>>

(* CreateWithRequirements builds the project in a staging directory that   *)
(* no lookup sees, a stopped one included, and renames it.                 *)
Stage ==
    /\ op.phase = "stage"
    /\ op' = [op EXCEPT !.phase = "publish"]
    /\ UNCHANGED <<dir, flat, reqs, born>>

Publish ==
    /\ op.phase = "publish"
    /\ dir' = [dir EXCEPT ![op.p] = op.doc]
    /\ reqs' = [reqs EXCEPT ![op.p] = op.reqs]
    /\ op' = NoOp
    /\ UNCHANGED <<flat, born>>

(* A write fails or the process is killed.                                 *)
StopWriting == ~LockFree /\ op' = NoOp /\ UNCHANGED <<dir, flat, reqs, born>>
=============================================================================
