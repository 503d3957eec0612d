------------------------ MODULE RequirementStoreProofs ------------------------
(***************************************************************************)
(* Proofs about RequirementStore, for every number of requirements and of  *)
(* versions and every set of texts, and about RequirementReaders: what a   *)
(* reader of another process, that takes no lock, sees of the writer.      *)
(***************************************************************************)
EXTENDS RequirementReaders, FiniteSetTheorems, TLAPS

USE RequirementAssumption DEF Reqs, Versions, Settable, Statuses

(***************************************************************************)
(* The plan an operation has made when it begins, and what it has written  *)
(* of it: no operation writes a version below the current one, the entry   *)
(* it will write lists what is then on disk, and the entry's status is     *)
(* that of the file it writes if the file is the current version's.        *)
(***************************************************************************)
PlanOK ==
    op.phase # "idle" =>
        /\ op.entry.current \in Versions
        /\ op.entry.versions = 1..op.entry.current
        /\ op.ver >= op.entry.current
        /\ op.ver = op.entry.current => op.entry.status = op.rec.status
        /\ op.phase \in {"version", "supersede", "index"} =>
              /\ op.kind = "create" => op.entry.current = 1 /\ op.ver = 1 /\ Current(op.req) = 0
              /\ op.kind = "update" => op.ver = op.entry.current
                                       /\ op.entry.current = Current(op.req) + 1
                                       /\ Current(op.req) >= 1
              /\ op.kind \in {"amend", "status"} => op.entry.current = Current(op.req)
              /\ op.ver # op.entry.current => op.entry = index[op.req]
        /\ op.phase = "supersede" => op.kind = "update"

ProgressOK ==
    /\ op.phase \in {"supersede", "index"} => file[op.req][op.ver] = op.rec
    /\ op.phase = "index" /\ op.kind = "update" =>
           file[op.req][op.ver - 1].status = "superseded"

Agrees(r) == CurrentFile(r).status = index[r].status /\ index[r].status \in Settable

AgreesOrWriting ==
    \A r \in Listed \ torn :
        Agrees(r) \/ (op.phase = "index" /\ op.req = r /\ WritesCurrent)

CountsOK == op.phase # "project" /\ ~miscounted => counts = CountOf(index)

IInv ==
    /\ TypeOK
    /\ PlanOK
    /\ ProgressOK
    /\ RetainedVersionsReadable
    /\ OldVersionsSuperseded
    /\ AgreesOrWriting
    /\ CountsOK

-----------------------------------------------------------------------------
(* The cached counts never exceed the number of requirements.              *)
LEMMA CountOfType ==
    ASSUME NEW i
    PROVE  CountOf(i) \in [total : 0..MaxReqs, active : 0..MaxReqs]
<1>1. IsFiniteSet(Reqs) /\ Cardinality(Reqs) = MaxReqs
  BY FS_Interval
<1>2. ASSUME NEW S \in SUBSET Reqs
      PROVE  Cardinality(S) \in 0..MaxReqs
  <2>1. Cardinality(S) <= MaxReqs
    BY <1>1, FS_Subset
  <2>2. IsFiniteSet(S)
    BY <1>1, FS_Subset
  <2>3. Cardinality(S) \in Nat
    BY <2>2, FS_CardinalityType
  <2>. QED BY <2>1, <2>3
<1>. QED BY <1>2 DEF CountOf

(* Every initial store satisfies the invariant.                            *)
LEMMA InitInvariant == Init => IInv
<1>. SUFFICES ASSUME Init PROVE IInv
  OBVIOUS
<1>. DEFINE First(x) == [text |-> x, status |-> "active"]
            FirstEntry == [current |-> 1, versions |-> {1}, status |-> "active"]
<1>1. PICK n \in (IF readOnly THEN 0..MaxReqs ELSE {0}), x \in Texts :
         /\ file = [r \in Reqs |-> [v \in Versions |->
                      IF r <= n /\ v = 1 THEN First(x) ELSE NoFile]]
         /\ index = [r \in Reqs |-> IF r <= n THEN FirstEntry ELSE NoEntry]
  BY Zenon DEF Init
<1>2. First(x) \in Record /\ NoFile \in Record /\ FirstEntry \in Entry /\ NoEntry \in Entry
  BY DEF NoFile, Record, NoEntry, Entry
<1>3. \A r \in Reqs : index[r] \in {FirstEntry, NoEntry}
  BY <1>1
<1>4. \A r \in Reqs : index[r] = FirstEntry => file[r][1] = First(x)
  BY <1>1 DEF NoEntry
<1>5. TypeOK
  <2>1. counts \in [total : 0..MaxReqs, active : 0..MaxReqs]
    BY CountOfType DEF Init
  <2>2. file \in [Reqs -> [Versions -> Record]] /\ index \in [Reqs -> Entry]
    BY <1>1, <1>2
  <2>3. op \in Operation /\ op.phase = "idle"
    BY <1>2 DEF Init, Operation, Idle, Phases, Kinds
  <2>. QED BY <2>1, <2>2, <2>3 DEF TypeOK, Init
<1>6. PlanOK /\ ProgressOK /\ CountsOK
  BY DEF PlanOK, ProgressOK, CountsOK, Idle, Init
<1>7. 1..1 = {1} /\ 1..0 = {}
  OBVIOUS
<1>8. RetainedVersionsReadable /\ OldVersionsSuperseded
  <2>1. ASSUME NEW r \in Reqs
        PROVE  /\ index[r].versions = 1..Current(r)
               /\ Current(r) \in {0, 1}
               /\ Current(r) = 1 => file[r][1].status = "active"
    <3>1. CASE index[r] = FirstEntry
      BY <3>1, <1>4, <1>7 DEF Current
    <3>2. CASE index[r] = NoEntry
      BY <3>2, <1>7 DEF Current, NoEntry
    <3>. QED BY <1>3, <3>1, <3>2
  <2>. QED BY <2>1 DEF RetainedVersionsReadable, OldVersionsSuperseded
<1>9. AgreesOrWriting
  BY <1>3, <1>4 DEF AgreesOrWriting, Agrees, NoEntry, Listed, Exists, CurrentFile, Current
<1>. QED BY <1>5, <1>6, <1>8, <1>9 DEF IInv

(***************************************************************************)
(* withRequirements up to the closure leaves the disk alone, so it is      *)
(* enough that the plan it makes is a good one.                            *)
(***************************************************************************)
LEMMA BeginInvariant ==
    ASSUME NEW kind \in Kinds, NEW r \in Reqs, NEW v \in Versions,
           NEW rec \in Record, NEW entry \in Entry,
           IInv, Begin(kind, r, v, rec, entry),
           rec.status \in Settable,
           entry.current \in Versions,
           entry.versions = 1..entry.current,
           v >= entry.current,
           v = entry.current => entry.status = rec.status,
           kind = "create" => entry.current = 1 /\ v = 1 /\ Current(r) = 0,
           kind = "update" => v = entry.current /\ entry.current = Current(r) + 1 /\ Current(r) >= 1,
           kind \in {"amend", "status"} => entry.current = Current(r),
           v # entry.current => entry = index[r]
    PROVE  IInv'
<1>. USE DEF Begin, disk
<1>1. op' = [phase |-> "version", kind |-> kind, req |-> r, ver |-> v, rec |-> rec, entry |-> entry]
  OBVIOUS
<1>2. TypeOK'
  <2>1. op' \in Operation
    BY <1>1 DEF Operation, Phases
  <2>2. op'.req \in Reqs /\ op'.ver \in Versions /\ op'.rec.status \in Settable
    BY <1>1
  <2>. QED BY <2>1, <2>2 DEF TypeOK, IInv
<1>3. PlanOK'
  BY <1>1 DEF PlanOK, Current
<1>4. ProgressOK'
  BY <1>1 DEF ProgressOK
<1>5. RetainedVersionsReadable' /\ OldVersionsSuperseded'
  BY DEF IInv, RetainedVersionsReadable, OldVersionsSuperseded, Current
<1>6. AgreesOrWriting'
  BY DEF IInv, AgreesOrWriting, Agrees, Listed, Exists, CurrentFile, Current
<1>7. CountsOK'
  BY <1>1 DEF IInv, CountsOK, CountOf
<1>. QED BY <1>2, <1>3, <1>4, <1>5, <1>6, <1>7 DEF IInv

-----------------------------------------------------------------------------
(* The start of CreateRequirement preserves it.                            *)
LEMMA CreateInvariant ==
    ASSUME IInv, NEW r \in Reqs, NEW x \in Texts, NEW s \in Settable,
           CreateRequirement(r, x, s)
    PROVE  IInv'
<1>. DEFINE rec == [text |-> x, status |-> s]
            entry == [current |-> 1, versions |-> {1}, status |-> s]
<1>1. rec \in Record /\ entry \in Entry /\ 1..1 = {1}
  BY DEF Record, Entry
<1>2. Current(r) = 0
  BY DEF CreateRequirement, IsNextReq, Listed, Exists
<1>3. Begin("create", r, 1, rec, entry)
  BY DEF CreateRequirement
<1>. HIDE DEF rec, entry
<1>4. /\ rec.status \in Settable /\ entry.current = 1 /\ entry.versions = 1..1
      /\ entry.status = rec.status
  BY <1>1 DEF rec, entry
<1>5. 1 \in Versions /\ "create" \in Kinds
  BY DEF Kinds
<1>6. /\ entry.current \in Versions
      /\ entry.versions = 1..entry.current
      /\ 1 >= entry.current
  BY <1>4, <1>5
<1>. QED BY <1>1, <1>2, <1>3, <1>4, <1>5, <1>6, BeginInvariant

(* That of UpdateRequirement does.                                         *)
LEMMA UpdateInvariant ==
    ASSUME IInv, NEW r \in Reqs, NEW x \in Texts, UpdateRequirement(r, x)
    PROVE  IInv'
<1>. DEFINE next == Current(r) + 1
            rec == [text |-> x, status |-> "active"]
            entry == [current |-> next, versions |-> index[r].versions \cup {next},
                      status |-> "active"]
<1>1. Current(r) \in 0..MaxVersion /\ Current(r) # 0 /\ next \in Versions
  BY DEF UpdateRequirement, Exists, Current, IInv, TypeOK, Entry
<1>2. index[r].versions \cup {next} = 1..next
  BY <1>1 DEF IInv, RetainedVersionsReadable
<1>3. rec \in Record /\ entry \in Entry
  BY <1>1, <1>2 DEF Record, Entry
<1>4. Begin("update", r, next, rec, entry)
  BY DEF UpdateRequirement
<1>5. /\ rec.status \in Settable /\ entry.current = next /\ entry.versions = 1..next
      /\ entry.status = rec.status
  BY <1>2
<1>. HIDE DEF rec, entry
<1>. QED BY <1>1, <1>3, <1>4, <1>5, BeginInvariant DEF Kinds

(* That of AmendRequirement does.                                          *)
LEMMA AmendInvariant ==
    ASSUME IInv, NEW r \in Reqs, NEW x \in Texts, AmendRequirement(r, x)
    PROVE  IInv'
<1>. DEFINE v == Current(r)
            rec == [CurrentFile(r) EXCEPT !.text = x]
            entry == [index[r] EXCEPT !.status = CurrentFile(r).status]
<1>1. v \in Versions /\ CurrentFile(r) \in Record /\ CurrentFile(r).status \in Settable
  BY DEF AmendRequirement, Exists, Current, CurrentFile, IInv, TypeOK, Entry
<1>2. index[r] \in Entry /\ index[r].versions = 1..v
  BY DEF IInv, TypeOK, RetainedVersionsReadable
<1>3. rec \in Record /\ entry \in Entry
  BY <1>1, <1>2 DEF Record, Entry
<1>4. Begin("amend", r, v, rec, entry)
  BY DEF AmendRequirement
<1>5. /\ rec.status \in Settable /\ entry.current = v /\ entry.versions = 1..v
      /\ entry.status = rec.status
  BY <1>1, <1>2 DEF Record, Entry, Current
<1>. HIDE DEF rec, entry
<1>. QED BY <1>1, <1>3, <1>4, <1>5, BeginInvariant DEF Kinds

(* That of SetRequirementStatus does.                                      *)
LEMMA SetStatusInvariant ==
    ASSUME IInv, NEW r \in Reqs, NEW v \in Versions, NEW s \in Settable,
           SetRequirementStatus(r, v, s)
    PROVE  IInv'
<1>. DEFINE rec == [file[r][v] EXCEPT !.status = s]
            entry == IF v = Current(r) THEN [index[r] EXCEPT !.status = s] ELSE index[r]
<1>1. file[r][v] \in Record /\ file[r][v].status \in Settable /\ Current(r) \in Versions
  BY DEF SetRequirementStatus, Exists, Current, IInv, TypeOK, Entry
<1>2. index[r] \in Entry /\ index[r].versions = 1..Current(r)
  BY DEF IInv, TypeOK, RetainedVersionsReadable
<1>3. v >= Current(r)
  BY <1>1 DEF IInv, OldVersionsSuperseded
<1>4. rec \in Record /\ entry \in Entry
  BY <1>1, <1>2 DEF Record, Entry
<1>5. Begin("status", r, v, rec, entry)
  BY DEF SetRequirementStatus
<1>6. /\ rec.status \in Settable /\ entry.current = Current(r) /\ entry.versions = 1..Current(r)
      /\ v = Current(r) => entry.status = rec.status
      /\ v # Current(r) => entry = index[r]
  BY <1>1, <1>2 DEF Record, Entry, Current
<1>. HIDE DEF rec, entry
<1>. QED BY <1>1, <1>3, <1>4, <1>5, <1>6, BeginInvariant DEF Kinds

-----------------------------------------------------------------------------
(* The write of the version file preserves the invariant.                  *)
LEMMA WriteVersionInvariant ==
    ASSUME IInv, WriteVersion
    PROVE  IInv'
<1>. USE DEF WriteVersion
<1>1. /\ op \in Operation /\ op.phase = "version"
      /\ op.req \in Reqs /\ op.ver \in Versions /\ op.rec \in Record
      /\ op.rec.status \in Settable
  BY DEF IInv, TypeOK, Operation
<1>2. op' \in Operation /\ op'.phase \in {"supersede", "index"}
      /\ op' = [op EXCEPT !.phase = op'.phase]
      /\ (op'.phase = "supersede" <=> op.kind = "update")
  BY <1>1 DEF Operation, Phases
<1>3. \A r \in Reqs, v \in Versions :
         file'[r][v] = IF r = op.req /\ v = op.ver THEN op.rec ELSE file[r][v]
  BY <1>1 DEF IInv, TypeOK
<1>4. TypeOK'
  BY <1>1, <1>2 DEF IInv, TypeOK, Operation
<1>5. PlanOK'
  BY <1>1, <1>2 DEF IInv, PlanOK, Current, Operation
<1>6. ProgressOK'
  BY <1>1, <1>2, <1>3 DEF ProgressOK, Operation
<1>7. op.ver >= Current(op.req) /\ (op.ver = Current(op.req) => op.kind # "update" /\ WritesCurrent)
  <2>1. Current(op.req) \in 0..MaxVersion /\ op.kind \in Kinds /\ op.entry.current \in 0..MaxVersion
    BY <1>1 DEF IInv, TypeOK, Operation, Entry, Current
  <2>2. PlanOK /\ op.phase # "idle"
    BY <1>1 DEF IInv
  <2>. QED BY <1>1, <2>1, <2>2 DEF PlanOK, Kinds, WritesCurrent
<1>8. \A r \in Reqs : Current(r)' = Current(r) /\ Current(r) \in 0..MaxVersion
  BY DEF Current, IInv, TypeOK, Entry
<1>9. RetainedVersionsReadable'
  BY <1>1, <1>3, <1>8 DEF IInv, RetainedVersionsReadable
<1>10. OldVersionsSuperseded'
  BY <1>1, <1>3, <1>7, <1>8 DEF IInv, OldVersionsSuperseded
<1>11. AgreesOrWriting'
  <2>. SUFFICES ASSUME NEW r \in Reqs, Exists(r)', r \notin torn'
                PROVE  Agrees(r)' \/ (op.phase = "index" /\ op.req = r /\ WritesCurrent)'
    BY DEF AgreesOrWriting, Listed
  <2>1. Agrees(r) /\ Current(r) \in Versions
    BY <1>1, <1>8 DEF IInv, AgreesOrWriting, Listed, Exists, Current
  <2>2. CASE r = op.req /\ op.ver = Current(r)
    BY <2>2, <1>1, <1>2, <1>7 DEF WritesCurrent, Operation
  <2>3. CASE ~(r = op.req /\ op.ver = Current(r))
    <3>1. CurrentFile(r)' = CurrentFile(r)
      BY <2>1, <2>3, <1>3, <1>8 DEF CurrentFile
    <3>. QED BY <2>1, <3>1 DEF Agrees
  <2>. QED BY <2>2, <2>3
<1>12. CountsOK'
  BY <1>1, <1>2 DEF IInv, CountsOK, CountOf
<1>. QED BY <1>4, <1>5, <1>6, <1>9, <1>10, <1>11, <1>12 DEF IInv

(* The write of the superseded version preserves it.                       *)
LEMMA WriteSupersededInvariant ==
    ASSUME IInv, WriteSuperseded
    PROVE  IInv'
<1>. USE DEF WriteSuperseded
<1>1. /\ op \in Operation /\ op.phase = "supersede" /\ op.kind = "update"
      /\ op.req \in Reqs /\ op.ver \in Versions /\ op.rec \in Record
      /\ op.ver = Current(op.req) + 1 /\ Current(op.req) \in Versions
      /\ op.ver = op.entry.current
  BY DEF IInv, TypeOK, PlanOK, Operation, Entry, Current
<1>2. op' \in Operation /\ op' = [op EXCEPT !.phase = "index"]
  BY <1>1 DEF Operation, Phases
<1>3. \A r \in Reqs, v \in Versions :
         file'[r][v] = IF r = op.req /\ v = op.ver - 1
                       THEN [file[r][v] EXCEPT !.status = "superseded"] ELSE file[r][v]
  BY <1>1 DEF IInv, TypeOK
<1>4. TypeOK'
  <2>1. file \in [Reqs -> [Versions -> Record]] /\ op.ver - 1 \in Versions
    BY <1>1 DEF IInv, TypeOK
  <2>2. \A rec \in Record : [rec EXCEPT !.status = "superseded"] \in Record
    BY DEF Record
  <2>3. file' \in [Reqs -> [Versions -> Record]]
    BY <1>1, <2>1, <2>2
  <2>. QED BY <1>1, <1>2, <2>3 DEF IInv, TypeOK, Operation
<1>5. PlanOK'
  BY <1>1, <1>2 DEF IInv, PlanOK, Current, Operation
<1>6. ProgressOK'
  BY <1>1, <1>2, <1>3 DEF IInv, TypeOK, ProgressOK, Operation, Record
<1>8. \A r \in Reqs : Current(r)' = Current(r) /\ Current(r) \in 0..MaxVersion
  BY DEF Current, IInv, TypeOK, Entry
<1>9. RetainedVersionsReadable'
  BY <1>1, <1>3, <1>8 DEF IInv, TypeOK, Record, RetainedVersionsReadable
<1>10. OldVersionsSuperseded'
  BY <1>1, <1>3, <1>8 DEF IInv, TypeOK, Record, OldVersionsSuperseded
<1>11. AgreesOrWriting'
  <2>. SUFFICES ASSUME NEW r \in Reqs, Exists(r)', r \notin torn'
                PROVE  Agrees(r)' \/ (op.phase = "index" /\ op.req = r /\ WritesCurrent)'
    BY DEF AgreesOrWriting, Listed
  <2>1. Agrees(r) /\ Current(r) \in Versions
    BY <1>1, <1>8 DEF IInv, AgreesOrWriting, Listed, Exists, Current
  <2>2. CASE r = op.req
    BY <2>2, <1>1, <1>2 DEF WritesCurrent, Operation
  <2>3. CASE r # op.req
    <3>1. CurrentFile(r)' = CurrentFile(r)
      BY <2>1, <2>3, <1>3, <1>8 DEF CurrentFile
    <3>. QED BY <2>1, <3>1 DEF Agrees
  <2>. QED BY <2>2, <2>3
<1>12. CountsOK'
  BY <1>1, <1>2 DEF IInv, CountsOK, CountOf
<1>. QED BY <1>4, <1>5, <1>6, <1>9, <1>10, <1>11, <1>12 DEF IInv

(***************************************************************************)
(* The write of the index: what it lists from now on is on disk because an *)
(* update has written both its files, and what it stops listing is nothing.*)
(***************************************************************************)
LEMMA WriteIndexInvariant ==
    ASSUME IInv, WriteIndex
    PROVE  IInv'
<1>. USE DEF WriteIndex
<1>1. /\ op \in Operation /\ op.phase = "index"
      /\ op.req \in Reqs /\ op.ver \in Versions /\ op.rec \in Record
      /\ op.rec.status \in Settable
      /\ op.entry \in Entry /\ op.entry.current \in Versions
  BY DEF IInv, TypeOK, PlanOK, Operation
<1>2. op' \in Operation /\ op' = [op EXCEPT !.phase = "project"]
  BY <1>1 DEF Operation, Phases
<1>3. \A r \in Reqs : index'[r] = IF r = op.req THEN op.entry ELSE index[r]
  BY <1>1 DEF IInv, TypeOK
<1>4. TypeOK'
  BY <1>1, <1>2 DEF IInv, TypeOK, Operation
<1>5. PlanOK'
  BY <1>1, <1>2 DEF IInv, PlanOK, Operation
<1>6. ProgressOK'
  BY <1>1, <1>2 DEF ProgressOK, Operation
<1>7. \A r \in Reqs : Current(r)' = IF r = op.req THEN op.entry.current ELSE Current(r)
  BY <1>3 DEF Current
<1>8. \A r \in Reqs : Current(r) \in 0..MaxVersion
  BY DEF Current, IInv, TypeOK, Entry
<1>9. file[op.req][op.ver] = op.rec /\ op.entry.versions = 1..op.entry.current
  BY <1>1 DEF IInv, ProgressOK, PlanOK
<1>10. \/ op.kind = "create" /\ op.entry.current = 1 /\ op.ver = 1
       \/ /\ op.kind = "update" /\ op.ver = op.entry.current /\ op.entry.current = Current(op.req) + 1
          /\ file[op.req][op.ver - 1].status = "superseded"
       \/ op.entry.current = Current(op.req)
  BY <1>1 DEF IInv, PlanOK, ProgressOK, Operation, Kinds
<1>11. RetainedVersionsReadable'
  <2>1. \A v \in 1..op.entry.current : file[op.req][v].status # "absent"
    BY <1>1, <1>8, <1>9, <1>10 DEF IInv, RetainedVersionsReadable
  <2>. QED BY <2>1, <1>3, <1>7, <1>9 DEF IInv, RetainedVersionsReadable
<1>12. OldVersionsSuperseded'
  <2>1. \A v \in Versions : v < op.entry.current => file[op.req][v].status = "superseded"
    BY <1>1, <1>8, <1>10 DEF IInv, OldVersionsSuperseded
  <2>. QED BY <2>1, <1>7 DEF IInv, OldVersionsSuperseded
<1>13. AgreesOrWriting'
  <2>. SUFFICES ASSUME NEW r \in Reqs, Exists(r)', r \notin torn' PROVE Agrees(r)'
    BY DEF AgreesOrWriting, Listed
  <2>1. CASE r = op.req /\ WritesCurrent
    BY <2>1, <1>1, <1>3, <1>7, <1>9 DEF IInv, PlanOK, WritesCurrent, Agrees, CurrentFile
  <2>2. CASE r = op.req /\ ~WritesCurrent
    BY <2>2, <1>1, <1>3, <1>7 DEF IInv, PlanOK, WritesCurrent, AgreesOrWriting, Agrees, CurrentFile,
       Listed, Exists, Current
  <2>3. CASE r # op.req
    BY <2>3, <1>1, <1>3, <1>7 DEF IInv, AgreesOrWriting, Agrees, CurrentFile, Listed, Exists
  <2>. QED BY <2>1, <2>2, <2>3
<1>14. CountsOK'
  BY <1>2, <1>1 DEF CountsOK, Operation
<1>. QED BY <1>4, <1>5, <1>6, <1>11, <1>12, <1>13, <1>14 DEF IInv

(* No operation under way is an operation.                                 *)
LEMMA IdleType == Idle \in Operation
BY DEF Idle, Operation, Phases, Kinds, NoFile, Record, NoEntry, Entry

(* The write of the project file, the last of an operation, preserves it.  *)
LEMMA WriteProjectInvariant ==
    ASSUME IInv, WriteProject
    PROVE  IInv'
<1>. USE DEF WriteProject
<1>1. op' \in Operation /\ op'.phase = "idle"
  BY IdleType DEF Idle
<1>2. TypeOK'
  BY <1>1, CountOfType DEF IInv, TypeOK
<1>3. PlanOK' /\ ProgressOK'
  BY <1>1 DEF PlanOK, ProgressOK
<1>4. RetainedVersionsReadable' /\ OldVersionsSuperseded'
  BY DEF IInv, RetainedVersionsReadable, OldVersionsSuperseded, Current
<1>5. AgreesOrWriting'
  BY DEF IInv, AgreesOrWriting, Agrees, Listed, Exists, CurrentFile, Current
<1>6. CountsOK'
  BY DEF CountsOK, CountOf
<1>. QED BY <1>2, <1>3, <1>4, <1>5, <1>6 DEF IInv

(***************************************************************************)
(* An operation may stop anywhere: before the index is written nothing it  *)
(* wrote is listed, and a disagreement it leaves is recorded as torn.      *)
(***************************************************************************)
LEMMA StopInvariant ==
    ASSUME IInv, Stop
    PROVE  IInv'
<1>. USE DEF Stop, disk
<1>1. op' \in Operation /\ op'.phase = "idle"
  BY IdleType DEF Idle
<1>2. TypeOK'
  BY <1>1 DEF IInv, TypeOK
<1>3. PlanOK' /\ ProgressOK'
  BY <1>1 DEF PlanOK, ProgressOK
<1>4. RetainedVersionsReadable' /\ OldVersionsSuperseded'
  BY DEF IInv, RetainedVersionsReadable, OldVersionsSuperseded, Current
<1>5. AgreesOrWriting'
  BY DEF IInv, AgreesOrWriting, Agrees, Listed, Exists, CurrentFile, Current, WritesCurrent
<1>6. CountsOK'
  BY DEF IInv, CountsOK, CountOf
<1>. QED BY <1>2, <1>3, <1>4, <1>5, <1>6 DEF IInv

-----------------------------------------------------------------------------
(* Every step does.                                                        *)
LEMMA NextInvariant == IInv /\ [Next]_vars => IInv'
<1>. SUFFICES ASSUME IInv, [Next]_vars PROVE IInv'
  OBVIOUS
<1>1. ASSUME NEW r \in Reqs, NEW x \in Texts, NEW s \in Settable, CreateRequirement(r, x, s)
      PROVE  IInv'
  BY <1>1, CreateInvariant
<1>2. ASSUME NEW r \in Reqs, NEW x \in Texts, UpdateRequirement(r, x)
      PROVE  IInv'
  BY <1>2, UpdateInvariant
<1>3. ASSUME NEW r \in Reqs, NEW x \in Texts, AmendRequirement(r, x)
      PROVE  IInv'
  BY <1>3, AmendInvariant
<1>4. ASSUME NEW r \in Reqs, NEW v \in Versions, NEW s \in Settable, SetRequirementStatus(r, v, s)
      PROVE  IInv'
  BY <1>4, SetStatusInvariant
<1>5. CASE WriteStep
  BY <1>5, WriteVersionInvariant, WriteSupersededInvariant, WriteIndexInvariant,
     WriteProjectInvariant DEF WriteStep
<1>6. CASE Stop
  BY <1>6, StopInvariant
<1>7. CASE UNCHANGED vars
  BY <1>7 DEF vars, IInv, TypeOK, PlanOK, ProgressOK, RetainedVersionsReadable,
     OldVersionsSuperseded, AgreesOrWriting, Agrees, CountsOK, CountOf, Listed, Exists,
     CurrentFile, Current, WritesCurrent
<1>. QED BY <1>1, <1>2, <1>3, <1>4, <1>5, <1>6, <1>7 DEF Next

(* The inductive invariant holds in every reachable state.                 *)
THEOREM Invariance == Spec => []IInv
BY InitInvariant, NextInvariant, PTL DEF Spec

(* Every variable keeps its type and an operation under way addresses a    *)
(* real version with a status a caller may set.                            *)
THEOREM TypeCorrect == Spec => []TypeOK
BY Invariance, PTL DEF IInv

(* No reader of the retained history meets a missing file, wherever the    *)
(* operations of withRequirements stopped.                                 *)
THEOREM RetainedReadable == Spec => []RetainedVersionsReadable
BY Invariance, PTL DEF IInv

(* At most the current version of a requirement is active.                 *)
THEOREM OldSuperseded == Spec => []OldVersionsSuperseded
BY Invariance, PTL DEF IInv

(* The index and the current version file disagree only where an operation *)
(* stopped between the two.                                                *)
THEOREM IndexAgrees == Spec => []IndexAgreesUnlessTorn
<1>1. IInv => IndexAgreesUnlessTorn
  BY DEF IInv, AgreesOrWriting, Agrees, IndexAgreesUnlessTorn
<1>. QED BY <1>1, Invariance, PTL

(* The cached counts are stale only after an operation that stopped before *)
(* project.json.                                                           *)
THEOREM CountsAgree == Spec => []CountsAgreeUnlessMiscounted
<1>1. IInv => CountsAgreeUnlessMiscounted
  BY DEF IInv, CountsOK, CountsAgreeUnlessMiscounted
<1>. QED BY <1>1, Invariance, PTL

-----------------------------------------------------------------------------
(***************************************************************************)
(* Versions below the current one are never written again: the new version *)
(* of an update lies above it, the one it supersedes is the current one.   *)
(***************************************************************************)
LEMMA WritesAbove ==
    ASSUME IInv, op.phase \in {"version", "supersede", "index"}
    PROVE  /\ op.req \in Reqs /\ op.ver \in Versions /\ op.rec \in Record
           /\ op.entry \in Entry /\ op.entry.current \in Versions
           /\ op.entry.versions = 1..op.entry.current
           /\ Current(op.req) \in 0..MaxVersion
           /\ op.entry.current >= Current(op.req)
           /\ op.ver >= Current(op.req)
           /\ op.phase = "supersede" => op.ver - 1 = Current(op.req)
<1>1. /\ op \in Operation /\ op.phase # "idle" /\ op.req \in Reqs /\ op.ver \in Versions
  BY DEF IInv, TypeOK
<1>2. Current(op.req) \in 0..MaxVersion /\ op.kind \in Kinds /\ op.entry \in Entry
      /\ op.entry.current \in 0..MaxVersion /\ op.rec \in Record
  BY <1>1 DEF IInv, TypeOK, Operation, Entry, Current
<1>3. PlanOK
  BY DEF IInv
<1>. QED BY <1>1, <1>2, <1>3 DEF PlanOK, Kinds

FrozenStep ==
    \A r \in Reqs :
        /\ index'[r].current >= Current(r)
        /\ index[r].versions \subseteq index'[r].versions
        /\ \A v \in Versions : v < Current(r) => file'[r][v] = file[r][v]

(* No step rewrites a version that is frozen.                              *)
LEMMA FrozenNext == IInv /\ [Next]_vars => FrozenStep
<1>. SUFFICES ASSUME IInv, [Next]_vars, NEW r \in Reqs
              PROVE  /\ index'[r].current >= Current(r)
                     /\ index[r].versions \subseteq index'[r].versions
                     /\ \A v \in Versions : v < Current(r) => file'[r][v] = file[r][v]
  BY DEF FrozenStep
<1>1. /\ file \in [Reqs -> [Versions -> Record]] /\ index \in [Reqs -> Entry]
      /\ \A q \in Reqs : index[q].versions = 1..Current(q) /\ Current(q) \in 0..MaxVersion
  BY DEF IInv, TypeOK, RetainedVersionsReadable, Current, Entry
<1>2. CASE UNCHANGED <<file, index>>
  BY <1>1, <1>2 DEF Current
<1>3. CASE WriteVersion
  <2>1. op.ver >= Current(op.req) /\ op.req \in Reqs /\ op.ver \in Versions
    BY <1>3, WritesAbove DEF WriteVersion
  <2>. QED BY <1>1, <1>3, <2>1 DEF WriteVersion, Current
<1>4. CASE WriteSuperseded
  <2>1. op.ver - 1 = Current(op.req) /\ op.req \in Reqs /\ op.ver \in Versions
    BY <1>4, WritesAbove DEF WriteSuperseded
  <2>. QED BY <1>1, <1>4, <2>1 DEF WriteSuperseded, Current
<1>5. CASE WriteIndex
  <2>1. /\ op.req \in Reqs /\ op.entry.current >= Current(op.req)
        /\ op.entry.current \in Versions /\ op.entry.versions = 1..op.entry.current
    BY <1>5, WritesAbove DEF WriteIndex
  <2>2. index'[r] = IF r = op.req THEN op.entry ELSE index[r]
    BY <1>1, <1>5, <2>1 DEF WriteIndex
  <2>. QED BY <1>1, <1>5, <2>1, <2>2 DEF WriteIndex, Current
<1>6. ASSUME Next PROVE UNCHANGED <<file, index>> \/ WriteVersion \/ WriteSuperseded \/ WriteIndex
  BY <1>6 DEF Next, WriteStep, WriteProject, Stop, disk, CreateRequirement, UpdateRequirement,
     AmendRequirement, SetRequirementStatus, Begin
<1>. QED BY <1>2, <1>3, <1>4, <1>5, <1>6 DEF vars

(* Earlier versions stay byte-for-byte retrievable: no step of any         *)
(* operation, completed or stopped, touches a version below the current    *)
(* one, unlists a version or moves the current version back.               *)
THEOREM HistoryStaysFrozen == Spec => HistoryFrozen
<1>1. [Next]_vars /\ IInv => [FrozenStep]_vars
  BY FrozenNext
<1>2. HistoryFrozen <=> [][FrozenStep]_vars
  BY PTL DEF HistoryFrozen, FrozenStep
<1>. QED BY <1>1, <1>2, Invariance, PTL DEF Spec

-----------------------------------------------------------------------------
(***************************************************************************)
(* The refinement.  What a caller observes changes at two writes only: the *)
(* write of the file that is the current version's (an amendment) and the  *)
(* write of the index (everything else).  The plan must carry a proper     *)
(* text for that, and a status change must carry the text it read.         *)
(***************************************************************************)
TextOK ==
    op.phase # "idle" =>
        /\ op.kind # "status" => op.rec.text \in Texts
        /\ op.kind = "status" /\ op.phase = "version" => op.rec.text = file[op.req][op.ver].text
        /\ op.kind = "update" => op.entry.status = "active"

(* Every step keeps the text of the plan proper.                           *)
LEMMA TextInvariant == IInv /\ TextOK /\ [Next]_vars => TextOK'
<1>. SUFFICES ASSUME IInv, TextOK, [Next]_vars PROVE TextOK'
  OBVIOUS
<1>1. ASSUME NEW kind \in Kinds, NEW r, NEW v, NEW rec, NEW entry, Begin(kind, r, v, rec, entry),
             kind # "status" => rec.text \in Texts,
             kind = "status" => rec.text = file[r][v].text,
             kind = "update" => entry.status = "active"
      PROVE  TextOK'
  BY <1>1 DEF Begin, TextOK, disk
<1>2. ASSUME NEW r \in Reqs, NEW x \in Texts, NEW s \in Settable, CreateRequirement(r, x, s)
      PROVE  TextOK'
  BY <1>2 DEF CreateRequirement, Begin, TextOK
<1>3. ASSUME NEW r \in Reqs, NEW x \in Texts, UpdateRequirement(r, x)
      PROVE  TextOK'
  BY <1>3 DEF UpdateRequirement, Begin, TextOK
<1>4. ASSUME NEW r \in Reqs, NEW x \in Texts, AmendRequirement(r, x)
      PROVE  TextOK'
  <2>1. CurrentFile(r) \in Record
    BY <1>4 DEF AmendRequirement, Exists, Current, CurrentFile, IInv, TypeOK, Entry
  <2>2. [CurrentFile(r) EXCEPT !.text = x].text = x
    BY <2>1 DEF Record
  <2>. QED BY <1>4, <2>2 DEF AmendRequirement, Begin, TextOK
<1>5. ASSUME NEW r \in Reqs, NEW v \in Versions, NEW s \in Settable, SetRequirementStatus(r, v, s)
      PROVE  TextOK'
  <2>1. file[r][v] \in Record
    BY DEF IInv, TypeOK
  <2>2. [file[r][v] EXCEPT !.status = s].text = file[r][v].text
    BY <2>1 DEF Record
  <2>. QED BY <1>5, <2>2 DEF SetRequirementStatus, Begin, TextOK, disk
<1>6. ASSUME op.phase # "idle", op' = [op EXCEPT !.phase = op'.phase],
             op'.phase \in {"supersede", "index", "project"}
      PROVE  TextOK'
  <2>1. op \in Operation
    BY DEF IInv, TypeOK
  <2>2. op'.kind = op.kind /\ op'.rec = op.rec /\ op'.entry = op.entry
    BY <1>6, <2>1 DEF Operation
  <2>. QED BY <1>6, <2>2 DEF TextOK
<1>7. CASE WriteVersion \/ WriteSuperseded \/ WriteIndex
  <2>1. op \in Operation /\ op.phase # "idle"
    BY <1>7 DEF WriteVersion, WriteSuperseded, WriteIndex, IInv, TypeOK
  <2>2. op' = [op EXCEPT !.phase = op'.phase] /\ op'.phase \in {"supersede", "index", "project"}
    BY <1>7, <2>1 DEF WriteVersion, WriteSuperseded, WriteIndex, Operation
  <2>. QED BY <1>6, <2>1, <2>2
<1>8. CASE WriteProject \/ Stop
  BY <1>8 DEF WriteProject, Stop, Idle, TextOK
<1>9. CASE UNCHANGED vars
  BY <1>9 DEF vars, TextOK
<1>. QED BY <1>2, <1>3, <1>4, <1>5, <1>7, <1>8, <1>9 DEF Next, WriteStep

(* What the history shows of one version.                                  *)
LEMMA ShownAt ==
    \A r \in Reqs, v \in Versions :
       Shown[r][v] = IF v <= Current(r) THEN file[r][v].text ELSE NoText
BY DEF Shown

ShownNext(a, b, c) ==
    \A r \in Reqs, v \in Versions :
       (IF v <= Current(r)' THEN file'[r][v].text ELSE NoText)
          = IF r = a /\ v = b THEN c ELSE Shown[r][v]

(* When the history shows another version than before.                     *)
LEMMA ShownChange ==
    ASSUME NEW a \in Reqs, NEW b \in Versions, NEW c, ShownNext(a, b, c)
    PROVE  Shown' = [Shown EXCEPT ![a][b] = c]
<1>1. Shown' = [r \in Reqs |-> [v \in Versions |-> IF r = a /\ v = b THEN c ELSE Shown[r][v]]]
  BY DEF Shown, ShownNext
<1>2. /\ Shown = [r \in Reqs |-> Shown[r]]
      /\ \A r \in Reqs : Shown[r] = [v \in Versions |-> Shown[r][v]]
  BY DEF Shown
<1>3. [Shown[a] EXCEPT ![b] = c] = [v \in Versions |-> IF v = b THEN c ELSE Shown[a][v]]
  BY <1>2
<1>4. [Shown EXCEPT ![a][b] = c] = [r \in Reqs |-> IF r = a THEN [Shown[a] EXCEPT ![b] = c] ELSE Shown[r]]
  BY <1>2
<1>5. \A r \in Reqs : [v \in Versions |-> IF r = a /\ v = b THEN c ELSE Shown[r][v]]
                        = IF r = a THEN [Shown[a] EXCEPT ![b] = c] ELSE Shown[r]
  BY <1>2, <1>3
<1>. QED BY <1>1, <1>4, <1>5

(* The initial stores show initial histories.                              *)
LEMMA HistoryInit == Init => History!Init
<1>. SUFFICES ASSUME Init PROVE History!Init
  OBVIOUS
<1>. DEFINE First(x) == [text |-> x, status |-> "active"]
            FirstEntry == [current |-> 1, versions |-> {1}, status |-> "active"]
<1>1. PICK n \in (IF readOnly THEN 0..MaxReqs ELSE {0}), x \in Texts :
         /\ file = [r \in Reqs |-> [v \in Versions |->
                      IF r <= n /\ v = 1 THEN First(x) ELSE NoFile]]
         /\ index = [r \in Reqs |-> IF r <= n THEN FirstEntry ELSE NoEntry]
  BY Zenon DEF Init
<1>2. n \in 0..MaxReqs
  OBVIOUS
<1>3. Latest = [r \in Reqs |-> IF r <= n THEN 1 ELSE 0]
  BY <1>1 DEF Latest, Current, NoEntry
<1>4. Status = [r \in Reqs |-> IF r <= n THEN "active" ELSE "absent"]
  BY <1>1 DEF Status, NoEntry
<1>5. Shown = [r \in Reqs |-> [v \in Versions |-> IF r <= n /\ v = 1 THEN x ELSE NoText]]
  BY <1>1 DEF Shown, Current, NoEntry, NoFile
<1>. QED BY <1>2, <1>3, <1>4, <1>5 DEF History!Init, History!Reqs, History!Versions

(* Every step of the store is a step of the history or none.               *)
LEMMA HistoryNext == IInv /\ TextOK /\ [Next]_vars => [History!Next]_(History!vars)
<1>. SUFFICES ASSUME IInv, TextOK, [Next]_vars
              PROVE  History!Next \/ (Latest' = Latest /\ Shown' = Shown /\ Status' = Status)
  BY DEF History!vars
<1>1. /\ file \in [Reqs -> [Versions -> Record]] /\ index \in [Reqs -> Entry]
      /\ \A q \in Reqs : Current(q) \in 0..MaxVersion
  BY DEF IInv, TypeOK, Current, Entry
<1>2. CASE UNCHANGED <<file, index>>
  BY <1>2 DEF Latest, Shown, Status, Current
<1>3. CASE WriteVersion
  <2>1. /\ op \in Operation /\ op.phase = "version" /\ op.ver >= Current(op.req)
        /\ op.req \in Reqs /\ op.ver \in Versions
    BY <1>3, WritesAbove DEF WriteVersion, IInv, TypeOK
  <2>2. index' = index /\ \A r \in Reqs, v \in Versions :
           file'[r][v] = IF r = op.req /\ v = op.ver THEN op.rec ELSE file[r][v]
    BY <1>1, <1>3, <2>1 DEF WriteVersion
  <2>3. Latest' = Latest /\ Status' = Status /\ \A q \in Reqs : Current(q)' = Current(q)
    BY <2>2 DEF Latest, Status, Current
  <2>4. CASE op.ver = Current(op.req) /\ op.kind # "status"
    <3>0. Latest[op.req] = op.ver
      BY <2>1, <2>4 DEF Latest
    <3>1. Shown' = [Shown EXCEPT ![op.req][Latest[op.req]] = op.rec.text]
      <4>1. ASSUME NEW r \in Reqs, NEW v \in Versions
            PROVE  (IF v <= Current(r)' THEN file'[r][v].text ELSE NoText)
                      = IF r = op.req /\ v = op.ver THEN op.rec.text ELSE Shown[r][v]
        <5>1. Current(r)' = Current(r) /\ op.ver <= Current(op.req) /\ op.ver = Current(op.req)
          BY <2>1, <2>3, <2>4
        <5>2. Shown[r][v] = IF v <= Current(r) THEN file[r][v].text ELSE NoText
          BY ShownAt
        <5>3. CASE r = op.req /\ v = op.ver
          BY <5>1, <5>3, <2>2
        <5>4. CASE ~(r = op.req /\ v = op.ver)
          <6>1. file'[r][v] = file[r][v]
            BY <5>4, <2>2
          <6>. QED BY <5>1, <5>2, <5>4, <6>1
        <5>. QED BY <5>3, <5>4
      <4>2. ShownNext(op.req, op.ver, op.rec.text)
        BY <4>1 DEF ShownNext
      <4>. QED BY <2>1, <3>0, <4>2, ShownChange
    <3>2. op.rec.text \in Texts /\ Latest[op.req] > 0
      BY <2>1, <2>4 DEF TextOK, Latest
    <3>3. History!Amend(op.req, op.rec.text)
      BY <2>3, <3>1, <3>2 DEF History!Amend
    <3>. QED BY <2>1, <3>2, <3>3 DEF History!Next, History!Reqs
  <2>5. CASE op.ver = Current(op.req) /\ op.kind = "status"
    <3>1. op.rec.text = file[op.req][op.ver].text
      BY <2>1, <2>5 DEF TextOK
    <3>2. \A r \in Reqs, v \in Versions : file'[r][v].text = file[r][v].text
      BY <2>2, <3>1
    <3>3. Shown' = Shown
      BY <2>3, <3>2 DEF Shown
    <3>. QED BY <2>3, <3>3
  <2>6. CASE op.ver > Current(op.req)
    <3>1. \A r \in Reqs, v \in Versions : v <= Current(r) => file'[r][v] = file[r][v]
      BY <1>1, <2>1, <2>2, <2>6
    <3>2. Shown' = Shown
      BY <2>3, <3>1 DEF Shown
    <3>. QED BY <2>3, <3>2
  <2>. QED BY <1>1, <2>1, <2>4, <2>5, <2>6
<1>4. CASE WriteSuperseded
  <2>1. op.req \in Reqs /\ op.ver \in Versions /\ op.ver - 1 = Current(op.req)
    BY <1>4, WritesAbove DEF WriteSuperseded
  <2>2. index' = index /\ \A r \in Reqs, v \in Versions : file'[r][v].text = file[r][v].text
    BY <1>1, <1>4, <2>1 DEF WriteSuperseded, Record
  <2>3. \A q \in Reqs : Current(q)' = Current(q)
    BY <2>2 DEF Current
  <2>4. Shown' = Shown
    BY <2>2, <2>3 DEF Shown
  <2>. QED BY <2>2, <2>3, <2>4 DEF Latest, Status
<1>5. CASE WriteIndex
  <2>1. /\ op \in Operation /\ op.phase = "index" /\ op.req \in Reqs /\ op.ver \in Versions
        /\ op.entry \in Entry /\ op.entry.current \in Versions /\ op.kind \in Kinds
        /\ file' = file
    BY <1>5, WritesAbove DEF WriteIndex, IInv, TypeOK, Operation
  <2>2. \A r \in Reqs : index'[r] = IF r = op.req THEN op.entry ELSE index[r]
    BY <1>1, <1>5, <2>1 DEF WriteIndex
  <2>3. /\ Latest' = [Latest EXCEPT ![op.req] = op.entry.current]
        /\ Status' = [Status EXCEPT ![op.req] = op.entry.status]
        /\ \A q \in Reqs : Current(q)' = IF q = op.req THEN op.entry.current ELSE Current(q)
    BY <2>2 DEF Latest, Status, Current
  <2>4. file[op.req][op.ver] = op.rec /\ op.rec.status \in Settable /\ PlanOK
    BY <2>1 DEF IInv, TypeOK, ProgressOK
  <2>5. CASE op.kind = "create"
    <3>1. op.entry.current = 1 /\ op.ver = 1 /\ Current(op.req) = 0 /\ op.rec.text \in Texts
          /\ op.entry.status \in Settable /\ 1 \in Versions
      BY <2>1, <2>4, <2>5 DEF PlanOK, TextOK
    <3>0. Latest[op.req] = 0
      BY <2>1, <3>1 DEF Latest
    <3>2. Shown' = [Shown EXCEPT ![op.req][1] = op.rec.text]
      <4>1. ShownNext(op.req, 1, op.rec.text)
        BY <1>1, <2>1, <2>3, <2>4, <3>1 DEF Shown, ShownNext
      <4>. QED BY <2>1, <3>1, <4>1, ShownChange
    <3>3. History!Create(op.req, op.rec.text, op.entry.status)
      BY <2>1, <2>3, <3>0, <3>1, <3>2 DEF History!Create
    <3>. QED BY <2>1, <3>1, <3>3 DEF History!Next, History!Reqs, History!Settable
  <2>6. CASE op.kind = "update"
    <3>1. op.entry.current = Current(op.req) + 1 /\ op.ver = op.entry.current
          /\ Current(op.req) >= 1 /\ op.rec.text \in Texts /\ op.entry.status = "active"
      BY <2>1, <2>4, <2>6 DEF PlanOK, TextOK
    <3>2. Latest[op.req] = Current(op.req) /\ Current(op.req) \in 1..(MaxVersion - 1)
      BY <1>1, <2>1, <3>1 DEF Latest
    <3>0. Latest[op.req] + 1 = op.ver
      BY <3>1, <3>2
    <3>3. Shown' = [Shown EXCEPT ![op.req][Latest[op.req] + 1] = op.rec.text]
      <4>1. ShownNext(op.req, op.ver, op.rec.text)
        BY <1>1, <2>1, <2>3, <2>4, <3>1, <3>2 DEF Shown, ShownNext
      <4>. QED BY <2>1, <3>0, <4>1, ShownChange
    <3>4. Latest' = [Latest EXCEPT ![op.req] = @ + 1]
      BY <2>3, <3>1, <3>2
    <3>5. History!Update(op.req, op.rec.text)
      BY <2>3, <3>1, <3>2, <3>3, <3>4 DEF History!Update
    <3>. QED BY <2>1, <3>1, <3>5 DEF History!Next, History!Reqs
  <2>7. CASE op.kind \in {"amend", "status"}
    <3>1. op.entry.current = Current(op.req) /\ Current(op.req) > 0
      BY <1>1, <2>1, <2>4, <2>7 DEF PlanOK
    <3>0. Latest[op.req] > 0
      BY <2>1, <3>1 DEF Latest
    <3>2. Latest' = Latest /\ Shown' = Shown
      BY <2>1, <2>3, <3>1 DEF Latest, Shown
    <3>3. CASE op.ver = op.entry.current
      <4>1. op.entry.status \in Settable
        BY <2>1, <2>4, <3>3 DEF PlanOK
      <4>2. History!SetStatus(op.req, op.entry.status)
        BY <2>1, <2>3, <3>0, <3>2 DEF History!SetStatus
      <4>. QED BY <2>1, <4>1, <4>2 DEF History!Next, History!Reqs, History!Settable
    <3>4. CASE op.ver # op.entry.current
      <4>1. op.entry = index[op.req]
        BY <2>1, <2>4, <3>4 DEF PlanOK
      <4>2. Status' = Status
        BY <2>3, <4>1 DEF Status
      <4>. QED BY <3>2, <4>2
    <3>. QED BY <3>3, <3>4
  <2>. QED BY <2>1, <2>5, <2>6, <2>7 DEF Kinds
<1>6. ASSUME Next PROVE UNCHANGED <<file, index>> \/ WriteVersion \/ WriteSuperseded \/ WriteIndex
  BY <1>6 DEF Next, WriteStep, WriteProject, Stop, disk, CreateRequirement, UpdateRequirement,
     AmendRequirement, SetRequirementStatus, Begin
<1>. QED BY <1>2, <1>3, <1>4, <1>5, <1>6 DEF vars

(* The store implements the append-only history it promises, wherever its  *)
(* operations stop: each of them takes effect in one write, or not at all. *)
THEOREM Refinement == Spec => ImplementsHistory
<1>1. Init => TextOK
  BY DEF Init, TextOK, Idle
<1>2. Spec => [](IInv /\ TextOK)
  BY <1>1, Invariance, InitInvariant, NextInvariant, TextInvariant, PTL DEF Spec
<1>. QED BY <1>2, HistoryInit, HistoryNext, PTL DEF Spec, ImplementsHistory, History!Spec

-----------------------------------------------------------------------------
(* Readers.                                                                *)

(***************************************************************************)
(* A snapshot of the index lists versions that are there, and for good; a  *)
(* history has read versions below those it has still to read, so all but  *)
(* the last one it read were superseded when they were read.               *)
(***************************************************************************)
HistoryInv ==
    request = "history" =>
        /\ \A p \in todo, q \in todo : p[1] = q[1]
        /\ \A p \in todo : p[2] <= Current(p[1])
        /\ \A g \in got, p \in todo : g.ver < p[2]
        /\ \A g \in got : todo # {} \/ (\E h \in got : g.ver < h.ver) =>
                              g.status = "superseded"

RInv == ReadersTypeOK /\ SnapshotsStayReadable /\ HistoryInv

-----------------------------------------------------------------------------
(* No version file is taken away and no requirement moves back.            *)
LEMMA FilesStay ==
    ASSUME IInv, [Next]_vars, NEW r \in Reqs
    PROVE  /\ Current(r)' >= Current(r) /\ Current(r) \in 0..MaxVersion /\ Current(r)' \in Nat
           /\ \A v \in Versions : file[r][v] # NoFile => file'[r][v] # NoFile
<1>1. IInv'
  BY NextInvariant
<1>2. Current(r) \in 0..MaxVersion /\ Current(r)' \in 0..MaxVersion
  BY <1>1 DEF IInv, TypeOK, Entry, Current
<1>3. Current(r)' >= Current(r)
  BY FrozenNext DEF FrozenStep, Current
<1>4. file \in [Reqs -> [Versions -> Record]]
  BY DEF IInv, TypeOK
<1>5. ASSUME NEW v \in Versions, file[r][v] # NoFile
      PROVE  file'[r][v] # NoFile
  <2>1. CASE UNCHANGED file
    BY <2>1, <1>5
  <2>2. CASE WriteVersion
    <3>1. op.req \in Reqs /\ op.ver \in Versions /\ op.rec.status \in Settable
      BY <2>2 DEF WriteVersion, IInv, TypeOK
    <3>2. op.rec # NoFile
      BY <3>1 DEF NoFile
    <3>3. file'[r][v] = IF r = op.req /\ v = op.ver THEN op.rec ELSE file[r][v]
      BY <1>4, <2>2, <3>1 DEF WriteVersion
    <3>. QED BY <1>5, <3>2, <3>3
  <2>3. CASE WriteSuperseded
    <3>1. op.req \in Reqs /\ op.ver \in Versions
      BY <2>3 DEF WriteSuperseded, IInv, TypeOK
    <3>2. \/ file'[r][v] = file[r][v]
          \/ file'[r][v] = [file[r][v] EXCEPT !.status = "superseded"]
      BY <1>4, <2>3, <3>1 DEF WriteSuperseded
    <3>. QED BY <1>4, <1>5, <3>2 DEF NoFile, Record
  <2>4. ASSUME Next PROVE UNCHANGED file \/ WriteVersion \/ WriteSuperseded
    BY <2>4 DEF Next, WriteStep, WriteIndex, WriteProject, Stop, disk, CreateRequirement,
       UpdateRequirement, AmendRequirement, SetRequirementStatus, Begin
  <2>. QED BY <2>1, <2>2, <2>3, <2>4 DEF vars
<1>. QED BY <1>2, <1>3, <1>5

(* So the writer's steps do not disturb a reader.                          *)
LEMMA WriterInvariant ==
    ASSUME IInv, RInv, [Next]_vars, UNCHANGED readerVars
    PROVE  RInv'
<1>. USE DEF readerVars
<1>1. ReadersTypeOK'
  BY DEF RInv, ReadersTypeOK, Reading
<1>2. \A p \in todo : p[1] \in Reqs /\ p[2] \in Versions
  BY DEF RInv, ReadersTypeOK
<1>3. SnapshotsStayReadable'
  BY <1>2, FilesStay DEF RInv, SnapshotsStayReadable
<1>4. ASSUME NEW p \in todo, p[2] <= Current(p[1])
      PROVE  p[2] <= Current(p[1])'
  <2>1. /\ p[1] \in Reqs /\ p[2] \in Nat
        /\ Current(p[1])' >= Current(p[1]) /\ Current(p[1]) \in Nat /\ Current(p[1])' \in Nat
    BY <1>2, FilesStay
  <2>. QED BY <1>4, <2>1
<1>5. HistoryInv'
  BY <1>4 DEF RInv, HistoryInv
<1>. QED BY <1>1, <1>3, <1>5 DEF RInv

(* What the index says of a requirement.                                   *)
LEMMA IndexFacts ==
    ASSUME IInv, NEW r \in Reqs
    PROVE  /\ Current(r) \in 0..MaxVersion /\ index[r].versions = 1..Current(r)
           /\ \A v \in 1..Current(r) : v \in Versions /\ file[r][v] # NoFile
<1>1. Current(r) \in 0..MaxVersion
  BY DEF IInv, TypeOK, Entry, Current
<1>2. index[r].versions = 1..Current(r)
  BY DEF IInv, RetainedVersionsReadable
<1>3. ASSUME NEW v \in 1..Current(r) PROVE v \in Versions /\ file[r][v] # NoFile
  <2>1. file[r][v].status # "absent"
    BY DEF IInv, RetainedVersionsReadable
  <2>. QED BY <1>1, <2>1 DEF NoFile
<1>. QED BY <1>1, <1>2, <1>3

(* Opening the index starts well.                                          *)
LEMMA OpenInvariant ==
    ASSUME IInv, RInv, NEW what \in Requests \ {"none"}, NEW S \in SUBSET (Reqs \X Versions),
           Open(what, S),
           what \in {"list", "history"} =>
               \A p \in S : p[2] <= Current(p[1]) /\ file[p[1]][p[2]] # NoFile,
           what = "history" => \A p \in S, q \in S : p[1] = q[1]
    PROVE  RInv'
<1>. USE DEF Open, vars
<1>1. ReadersTypeOK'
  BY DEF RInv, ReadersTypeOK, Reading
<1>2. SnapshotsStayReadable'
  BY DEF SnapshotsStayReadable
<1>3. HistoryInv'
  BY DEF HistoryInv, Current
<1>. QED BY <1>1, <1>2, <1>3 DEF RInv

(* The three readers open it so.                                           *)
LEMMA ReadersOpen ==
    ASSUME IInv, RInv,
           \/ ListRequirements
           \/ \E r \in Reqs : RequirementHistory(r)
           \/ \E r \in Reqs, v \in Versions \cup {0} : LoadRequirement(r, v)
    PROVE  RInv'
<1>1. CASE ListRequirements
  <2>. DEFINE S == {<<r, Current(r)>> : r \in Listed}
  <2>1. \A r \in Listed : r \in Reqs /\ Current(r) \in 1..Current(r)
    BY IndexFacts DEF Listed, Exists
  <2>2. \A p \in S : /\ p[1] \in Reqs /\ p[2] \in Versions /\ p \in Reqs \X Versions
                     /\ p[2] <= Current(p[1]) /\ file[p[1]][p[2]] # NoFile
    BY <2>1, IndexFacts
  <2>3. Open("list", S) /\ "list" \in Requests \ {"none"}
    BY <1>1 DEF ListRequirements, Requests
  <2>. HIDE DEF S
  <2>4. S \in SUBSET (Reqs \X Versions)
    BY <2>2
  <2>. QED BY <2>2, <2>3, <2>4, OpenInvariant
<1>2. ASSUME NEW r \in Reqs, RequirementHistory(r)
      PROVE  RInv'
  <2>. DEFINE S == {<<r, v>> : v \in index[r].versions}
  <2>1. \A p \in S : /\ p[1] = r /\ p \in Reqs \X Versions
                     /\ p[2] <= Current(p[1]) /\ file[p[1]][p[2]] # NoFile
    BY IndexFacts
  <2>2. Open("history", S) /\ "history" \in Requests \ {"none"}
    BY <1>2 DEF RequirementHistory, Requests
  <2>. HIDE DEF S
  <2>3. S \in SUBSET (Reqs \X Versions)
    BY <2>1
  <2>. QED BY <2>1, <2>2, <2>3, OpenInvariant
<1>3. ASSUME NEW r \in Reqs, NEW v \in Versions \cup {0}, LoadRequirement(r, v)
      PROVE  RInv'
  <2>. DEFINE S == {<<r, IF v = 0 THEN Current(r) ELSE v>>}
  <2>1. Current(r) \in Versions
    BY <1>3, IndexFacts DEF LoadRequirement, Exists
  <2>2. S \in SUBSET (Reqs \X Versions)
    BY <2>1
  <2>3. Open("load", S) /\ "load" \in Requests \ {"none"}
    BY <1>3 DEF LoadRequirement, Requests
  <2>. HIDE DEF S
  <2>. QED BY <2>2, <2>3, OpenInvariant
<1>. QED BY <1>1, <1>2, <1>3

(* Reading a version file: if another is left, it is of a higher version,  *)
(* so this one lies below the current version and is superseded.           *)
LEMMA ReadInvariant ==
    ASSUME IInv, RInv, NEW p \in Reqs \X Versions, ReadVersion(p)
    PROVE  RInv'
<1>. USE DEF ReadVersion, vars
<1>. DEFINE g0 == [ver |-> p[2], status |-> FileOf(p).status]
<1>1. /\ got' = IF request = "history" THEN got \cup {g0} ELSE got
      /\ todo' = todo \ {p} /\ p \in todo /\ request' = request
      /\ g0.ver = p[2] /\ g0.status = FileOf(p).status
  OBVIOUS
<1>2. FileOf(p) \in Record
  BY DEF FileOf, IInv, TypeOK
<1>3. g0 \in [ver : Versions, status : Statuses]
  BY <1>2 DEF Record
<1>. HIDE DEF g0
<1>4. ReadersTypeOK'
  BY <1>1, <1>3 DEF RInv, ReadersTypeOK, Reading
<1>5. SnapshotsStayReadable'
  BY <1>1 DEF RInv, SnapshotsStayReadable
<1>6. HistoryInv'
  <2>. SUFFICES ASSUME request = "history" PROVE HistoryInv'
    BY <1>1 DEF HistoryInv
  <2>0. got' = got \cup {g0}
    BY <1>1
  <2>1. /\ \A q \in todo : q[1] \in Reqs /\ q[2] \in Versions /\ q = <<q[1], q[2]>>
        /\ \A q \in todo : q[1] \in Nat /\ q[2] \in Nat
        /\ \A g \in got : g.ver \in Nat
    BY DEF RInv, ReadersTypeOK
  <2>2. HistoryInv /\ Comes(p)
    BY DEF RInv
  <2>3. \A q \in todo : q[1] = p[1] /\ q[2] <= Current(q[1]) /\ p[2] <= q[2]
    <3>. SUFFICES ASSUME NEW q \in todo
                  PROVE  q[1] = p[1] /\ q[2] <= Current(q[1]) /\ p[2] <= q[2]
      OBVIOUS
    <3>1. q[1] = p[1] /\ q[2] <= Current(q[1])
      BY <1>1, <2>2 DEF HistoryInv
    <3>. QED BY <1>1, <2>1, <2>2, <3>1 DEF Comes
  <2>4. /\ \A q \in todo : q[1] = p[1] /\ q[2] <= Current(q[1]) /\ p[2] <= q[2]
        /\ \A g \in got : g.ver < p[2] /\ g.status = "superseded"
    BY <1>1, <2>2, <2>3 DEF HistoryInv
  <2>5. ASSUME NEW q \in todo' PROVE p[2] < q[2]
    <3>1. q \in todo /\ q # p /\ p[2] <= q[2] /\ q[1] = p[1]
      BY <1>1, <2>4
    <3>2. p = <<p[1], p[2]>> /\ q = <<q[1], q[2]>> /\ p[2] \in Nat /\ q[2] \in Nat
      BY <1>1, <2>1, <3>1
    <3>. QED BY <3>1, <3>2
  <2>6. todo' # {} => g0.status = "superseded"
    <3>. SUFFICES ASSUME NEW q \in todo' PROVE g0.status = "superseded"
      OBVIOUS
    <3>1. /\ p[1] \in Reqs /\ p[2] \in Versions /\ p[2] \in Nat /\ q[2] \in Nat
          /\ p[2] < q[2] /\ q[2] <= Current(p[1])
      BY <1>1, <2>1, <2>4, <2>5
    <3>2. Current(p[1]) \in Nat
      BY <3>1, IndexFacts
    <3>3. p[2] < Current(p[1])
      BY <3>1, <3>2
    <3>. QED BY <1>1, <3>1, <3>3 DEF IInv, OldVersionsSuperseded, FileOf
  <2>7. ASSUME NEW g \in got', NEW q \in todo' PROVE g.ver < q[2]
    <3>1. p[2] < q[2] /\ p[2] \in Nat /\ q[2] \in Nat
      BY <1>1, <2>1, <2>5
    <3>2. g = g0 \/ (g.ver \in Nat /\ g.ver < p[2])
      BY <2>0, <1>1, <2>1, <2>4
    <3>. QED BY <2>0, <1>1, <3>1, <3>2
  <2>8. ASSUME NEW h \in got' PROVE ~(g0.ver < h.ver)
    <3>1. p[2] \in Nat /\ (h = g0 \/ (h.ver \in Nat /\ h.ver < p[2]))
      BY <2>0, <1>1, <2>1, <2>4
    <3>. QED BY <2>0, <1>1, <3>1
  <2>9. \A g \in got' :
           todo' # {} \/ (\E h \in got' : g.ver < h.ver) => g.status = "superseded"
    BY <1>1, <2>0, <2>4, <2>6, <2>8
  <2>10. \A q \in todo' : q[1] = p[1] /\ q[2] <= Current(q[1])'
    BY <1>1, <2>4 DEF Current
  <2>. QED BY <2>7, <2>9, <2>10 DEF HistoryInv
<1>. QED BY <1>4, <1>5, <1>6 DEF RInv

(* Every step, of the writer or of the reader, preserves it.               *)
LEMMA ReadersNextInvariant == IInv /\ RInv /\ [ReadersNext]_allVars => RInv'
<1>. SUFFICES ASSUME IInv, RInv, [ReadersNext]_allVars PROVE RInv'
  OBVIOUS
<1>1. CASE [Next]_vars /\ UNCHANGED readerVars
  BY <1>1, WriterInvariant
<1>2. ASSUME NEW p \in Reqs \X Versions, ReadVersion(p) PROVE RInv'
  BY <1>2, ReadInvariant
<1>3. CASE (\E p \in Reqs \X Versions : ReadFails(p)) \/ Return
  BY <1>3 DEF ReadFails, Return, RInv, ReadersTypeOK, Reading, Requests, SnapshotsStayReadable,
     HistoryInv
<1>. QED BY <1>1, <1>2, <1>3, ReadersOpen DEF ReadersNext, Read, allVars

(* The readers leave the store alone.                                      *)
LEMMA ReadersStore == [ReadersNext]_allVars => [Next]_vars
BY DEF ReadersNext, Read, ListRequirements, RequirementHistory, LoadRequirement, Open,
   ReadVersion, ReadFails, Return, allVars

(* Both invariants hold while the writer and the reader go on.             *)
THEOREM ReadersInvariance == ReadersSpec => [](IInv /\ RInv)
<1>1. ReadersInit => IInv /\ RInv
  BY InitInvariant DEF ReadersInit, ReaderInit, RInv, ReadersTypeOK, Requests, Reading,
     SnapshotsStayReadable, HistoryInv
<1>2. IInv /\ RInv /\ [ReadersNext]_allVars => IInv' /\ RInv'
  BY NextInvariant, ReadersStore, ReadersNextInvariant
<1>. QED BY <1>1, <1>2, PTL DEF ReadersSpec

(* The reader's variables keep their types.                                *)
THEOREM ReadersTypeCorrect == ReadersSpec => []ReadersTypeOK
BY ReadersInvariance, PTL DEF RInv

(* A list or a history never meets a missing file, although the reader     *)
(* takes no lock and the index it opened may be stale by now.              *)
THEOREM SnapshotsReadable == ReadersSpec => []SnapshotsStayReadable
BY ReadersInvariance, PTL DEF RInv

(* A history never shows two versions that are not superseded, whatever    *)
(* the writer did while it was read.                                       *)
THEOREM HistoryShowsOld == ReadersSpec => []HistoryShowsOldSuperseded
<1>1. RInv => HistoryShowsOldSuperseded
  BY DEF RInv, HistoryInv, HistoryShowsOldSuperseded
<1>. QED BY <1>1, ReadersInvariance, PTL
=============================================================================
