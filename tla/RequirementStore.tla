--------------------------- MODULE RequirementStore ---------------------------
(***************************************************************************)
(* The requirements of one project on disk, and the mutating methods of    *)
(* internal/store/dirstore.go that write them: CreateRequirement,          *)
(* UpdateRequirement, AmendRequirement and SetRequirementStatus.           *)
(*                                                                         *)
(* Each version is a file <id>.v<n>.json; index.json points at the current *)
(* versions; project.json caches two counts.  withRequirements holds the   *)
(* store's lock (StoreMutex) from before the first read to after the last  *)
(* write, so an operation is computed from what it reads when it begins    *)
(* and its writes, each an atomic rename, follow one at a time.  Between   *)
(* any two of them the process may be killed or a write may fail: the      *)
(* operation stops there and nothing is undone.                            *)
(***************************************************************************)
EXTENDS Naturals, FiniteSets

CONSTANTS
    MaxReqs,     (* bound: requirements of the project                      *)
    MaxVersion,  (* bound: versions of a requirement                        *)
    Texts,       (* the texts a version may have                            *)
    NoText       (* the text of a version that does not exist               *)

ASSUME RequirementAssumption ==
    /\ MaxReqs \in Nat
    /\ MaxVersion \in Nat \ {0}
    /\ NoText \notin Texts

VARIABLES
    file,        (* file[r][v]: the version file of requirement r           *)
    index,       (* index[r]: the entry of index.json                       *)
    counts,      (* project.json: the cached ProjectIndex                   *)
    readOnly,    (* project.json: Import.RequirementsReadOnly               *)
    op,          (* the operation under way and what it has still to write  *)
    torn,        (* history: requirements whose index entry was not written
                    after their current version's file was                  *)
    miscounted   (* history: the counts were not written after the index was *)

disk == <<file, index, counts, readOnly>>
vars == <<file, index, counts, readOnly, op, torn, miscounted>>

Reqs == 1..MaxReqs
Versions == 1..MaxVersion

(* The input statuses normalize and SetStatus accept: `superseded` is      *)
(* refused with errSupersededNotSettable.                                  *)
Settable == {"active", "obsolete"}
Statuses == Settable \cup {"superseded", "absent"}

Record == [text : Texts \cup {NoText}, status : Statuses]
NoFile == [text |-> NoText, status |-> "absent"]

Entry == [current : 0..MaxVersion, versions : SUBSET Versions, status : Statuses]
NoEntry == [current |-> 0, versions |-> {}, status |-> "absent"]

Kinds == {"create", "update", "amend", "status"}
Phases == {"idle", "version", "supersede", "index", "project"}
Operation == [phase : Phases, kind : Kinds, req : Reqs \cup {0}, ver : 0..MaxVersion,
              rec : Record, entry : Entry]
Idle == [phase |-> "idle", kind |-> "create", req |-> 0, ver |-> 0,
         rec |-> NoFile, entry |-> NoEntry]

Current(r) == index[r].current
Exists(r) == Current(r) # 0
CurrentFile(r) == file[r][Current(r)]
Listed == {r \in Reqs : Exists(r)}

(* The counts withRequirements derives from the index.                     *)
CountOf(i) == [total |-> Cardinality({r \in Reqs : i[r].current # 0}),
               active |-> Cardinality({r \in Reqs : i[r].status = "active"})]

-----------------------------------------------------------------------------
(* A local project starts empty.  An imported one is published complete,   *)
(* every requirement at v1, and is read-only.                              *)
Init ==
    /\ readOnly \in BOOLEAN
    /\ \E n \in (IF readOnly THEN 0..MaxReqs ELSE {0}), x \in Texts :
          /\ file = [r \in Reqs |-> [v \in Versions |->
                        IF r <= n /\ v = 1 THEN [text |-> x, status |-> "active"] ELSE NoFile]]
          /\ index = [r \in Reqs |->
                        IF r <= n THEN [current |-> 1, versions |-> {1}, status |-> "active"]
                        ELSE NoEntry]
    /\ counts = CountOf(index)
    /\ op = Idle
    /\ torn = {}
    /\ miscounted = FALSE

(* Mutant: the id of the last requirement is used again.                   *)
IsLastReq(r) == (r = 1 \/ r \in Listed) /\ \A q \in Listed : q <= r

(* nextRequirementID: one more than the highest id of the index.           *)
IsNextReq(r) == (r = 1 \/ r - 1 \in Listed) /\ \A q \in Listed : q < r

(* withRequirements up to the closure: the lock is free (no operation is   *)
(* under way) and the project is not read-only.  The closure's reads and   *)
(* checks decide the version file `rec` and the index entry to write.      *)
Begin(kind, r, v, rec, entry) ==
    /\ op.phase = "idle"
    /\ ~readOnly
    /\ op' = [phase |-> "version", kind |-> kind, req |-> r, ver |-> v,
              rec |-> rec, entry |-> entry]
    /\ UNCHANGED <<disk, torn, miscounted>>

CreateRequirement(r, x, s) ==
    /\ IsNextReq(r)
    /\ Begin("create", r, 1, [text |-> x, status |-> s],
             [current |-> 1, versions |-> {1}, status |-> s])

(* The new version is active, whatever the status of the current one: no   *)
(* caller passes a status and normalize fills in the default.              *)
UpdateRequirement(r, x) ==
    LET next == Current(r) + 1 IN
    /\ Exists(r)
    /\ CurrentFile(r) # NoFile
    /\ next \in Versions
    /\ Begin("update", r, next, [text |-> x, status |-> "active"],
             [current |-> next, versions |-> index[r].versions \cup {next}, status |-> "active"])

(* Amend keeps the status of the version file and copies it to the index.  *)
AmendRequirement(r, x) ==
    /\ Exists(r)
    /\ CurrentFile(r).status \in Settable
    /\ Begin("amend", r, Current(r), [CurrentFile(r) EXCEPT !.text = x],
             [index[r] EXCEPT !.status = CurrentFile(r).status])

(* Mutant: the status of any version is copied to the index.               *)
SetStatusAlwaysIndexed(r, v, s) ==
    /\ Exists(r)
    /\ file[r][v].status \in Settable
    /\ Begin("status", r, v, [file[r][v] EXCEPT !.status = s],
             [index[r] EXCEPT !.status = s])

(* Any version whose file is there may be addressed, one the index does    *)
(* not list included; a superseded one is frozen.  Setting the status a    *)
(* version already has is accepted and written again.                      *)
SetRequirementStatus(r, v, s) ==
    /\ Exists(r)
    /\ file[r][v].status \in Settable
    /\ Begin("status", r, v, [file[r][v] EXCEPT !.status = s],
             IF v = Current(r) THEN [index[r] EXCEPT !.status = s] ELSE index[r])

-----------------------------------------------------------------------------
WriteVersion ==
    /\ op.phase = "version"
    /\ file' = [file EXCEPT ![op.req][op.ver] = op.rec]
    /\ op' = [op EXCEPT !.phase = IF op.kind = "update" THEN "supersede" ELSE "index"]
    /\ UNCHANGED <<index, counts, readOnly, torn, miscounted>>

(* Mutant: a failed write of the superseded version goes unnoticed.        *)
WriteSupersededUnchecked ==
    /\ op.phase = "supersede"
    /\ file' \in {file, [file EXCEPT ![op.req][op.ver - 1].status = "superseded"]}
    /\ op' = [op EXCEPT !.phase = "index"]
    /\ UNCHANGED <<index, counts, readOnly, torn, miscounted>>

(* Mutant: the superseded version is removed.                              *)
RemoveSuperseded ==
    /\ op.phase = "supersede"
    /\ file' = [file EXCEPT ![op.req][op.ver - 1] = NoFile]
    /\ op' = [op EXCEPT !.phase = "index"]
    /\ UNCHANGED <<index, counts, readOnly, torn, miscounted>>

(* UpdateRequirement alone: the previous version, as it was read, is       *)
(* written back as superseded.                                             *)
WriteSuperseded ==
    /\ op.phase = "supersede"
    /\ file' = [file EXCEPT ![op.req][op.ver - 1].status = "superseded"]
    /\ op' = [op EXCEPT !.phase = "index"]
    /\ UNCHANGED <<index, counts, readOnly, torn, miscounted>>

(* The operation wrote the file and the index entry of one current version. *)
WritesCurrent == op.ver = op.entry.current

WriteIndex ==
    /\ op.phase = "index"
    /\ index' = [index EXCEPT ![op.req] = op.entry]
    /\ torn' = IF WritesCurrent THEN torn \ {op.req} ELSE torn
    /\ op' = [op EXCEPT !.phase = "project"]
    /\ UNCHANGED <<file, counts, readOnly, miscounted>>

(* Mutant: only a new requirement refreshes the cached counts.             *)
WriteProjectOnCreate ==
    /\ op.phase = "project"
    /\ counts' = IF op.kind = "create" THEN CountOf(index) ELSE counts
    /\ miscounted' = FALSE
    /\ op' = Idle
    /\ UNCHANGED <<file, index, readOnly, torn>>

(* writeLocked saves project.json with fresh counts; the lock is released. *)
WriteProject ==
    /\ op.phase = "project"
    /\ counts' = CountOf(index)
    /\ miscounted' = FALSE
    /\ op' = Idle
    /\ UNCHANGED <<file, index, readOnly, torn>>

(* The process is killed, or a write returns an error: what is on disk     *)
(* stays.  The lock is released or, after a kill, broken in time.          *)
Stop ==
    /\ op.phase # "idle"
    /\ torn' = IF op.phase = "index" /\ WritesCurrent THEN torn \cup {op.req} ELSE torn
    /\ miscounted' = (miscounted \/ op.phase = "project")
    /\ op' = Idle
    /\ UNCHANGED disk

WriteStep == WriteVersion \/ WriteSuperseded \/ WriteIndex \/ WriteProject

Next ==
    \/ \E r \in Reqs, x \in Texts, s \in Settable : CreateRequirement(r, x, s)
    \/ \E r \in Reqs, x \in Texts : UpdateRequirement(r, x) \/ AmendRequirement(r, x)
    \/ \E r \in Reqs, v \in Versions, s \in Settable : SetRequirementStatus(r, v, s)
    \/ WriteStep
    \/ Stop

Spec == Init /\ [][Next]_vars

-----------------------------------------------------------------------------
TypeOK ==
    /\ file \in [Reqs -> [Versions -> Record]]
    /\ index \in [Reqs -> Entry]
    /\ counts \in [total : 0..MaxReqs, active : 0..MaxReqs]
    /\ readOnly \in BOOLEAN
    /\ op \in Operation
    /\ op.phase # "idle" => op.req \in Reqs /\ op.ver \in Versions /\ op.rec.status \in Settable
    /\ torn \subseteq Reqs
    /\ miscounted \in BOOLEAN

(* RequirementHistory and LoadRequirement never meet a missing file: at    *)
(* every moment, between the writes of an operation and after one that     *)
(* stopped included, the index lists exactly the versions 1 to current and *)
(* each of them is on disk.                                                *)
RetainedVersionsReadable ==
    \A r \in Reqs :
        /\ index[r].versions = 1..Current(r)
        /\ \A v \in 1..Current(r) : file[r][v].status # "absent"

(* "reactivating an older snapshot would give a requirement id two active  *)
(* versions" (requirement.go:246): every retained version but the current  *)
(* one is superseded, so that at most one is active.                       *)
OldVersionsSuperseded ==
    \A r \in Reqs, v \in Versions : v < Current(r) => file[r][v].status = "superseded"

(* Unless an operation on a requirement stopped between its version files  *)
(* and the index, the index records the current version's own status, and  *)
(* one that is not superseded; the next operation on the current version   *)
(* that completes restores this.                                           *)
IndexAgreesUnlessTorn ==
    \A r \in Listed \ torn :
        op.phase = "idle" => /\ CurrentFile(r).status = index[r].status
                             /\ index[r].status \in Settable

(* The counts on the landing page are those of the index, except between   *)
(* an operation that stopped right before project.json and the next one    *)
(* that completes.                                                         *)
CountsAgreeUnlessMiscounted ==
    op.phase = "idle" /\ ~miscounted => counts = CountOf(index)

(* "earlier versions remain byte-for-byte retrievable"                     *)
(* (docs/REQUIREMENTS.md:65): no operation ever writes the file of a       *)
(* version below the current one, and no requirement loses a version.      *)
HistoryFrozen ==
    [][\A r \in Reqs :
          /\ index'[r].current >= Current(r)
          /\ index[r].versions \subseteq index'[r].versions
          /\ \A v \in Versions : v < Current(r) => file'[r][v] = file[r][v]]_vars

-----------------------------------------------------------------------------
(* The version files and the index implement the promised history, crashes *)
(* included: a version exists when the index says so, and its text is that *)
(* of its file.  An update takes effect at the write of the index, an      *)
(* amendment at the write of the file.                                     *)
Latest == [r \in Reqs |-> Current(r)]
Shown == [r \in Reqs |-> [v \in Versions |->
             IF v <= Current(r) THEN file[r][v].text ELSE NoText]]
Status == [r \in Reqs |-> index[r].status]
History == INSTANCE RequirementHistory WITH latest <- Latest, text <- Shown, status <- Status
ImplementsHistory == History!Spec
=============================================================================
