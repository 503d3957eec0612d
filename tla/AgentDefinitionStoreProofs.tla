---------------------- MODULE AgentDefinitionStoreProofs ----------------------
(***************************************************************************)
(* Proofs about AgentDefinitionStore, for any agent definitions, override  *)
(* rules, versions and texts.                                              *)
(***************************************************************************)
EXTENDS AgentDefinitionStore, TLAPS

USE DefinitionAssumption DEF Items, Versions, Settable, Statuses

(***************************************************************************)
(* The plan an operation has made when it begins, and what it has written  *)
(* of it: no operation writes a version below the current one, the pointer *)
(* it will write lists what is then on disk, and the pointer's status is   *)
(* that of the file it writes if the file is the current version's.        *)
(***************************************************************************)
PlanOK ==
    op.phase # "idle" =>
        /\ op.ptr.current \in Versions
        /\ op.ptr.versions = 1..op.ptr.current
        /\ op.ver >= op.ptr.current
        /\ op.ver = op.ptr.current => op.ptr.status = op.rec.status
        /\ op.kind = "create" => op.ptr.current = 1 /\ op.ver = 1 /\ Current(op.item) = 0
        /\ op.kind = "update" => /\ op.ver = op.ptr.current
                                 /\ op.ptr.current = Current(op.item) + 1
                                 /\ Current(op.item) >= 1
        /\ op.kind = "status" => op.ptr.current = Current(op.item) /\ op.item \in Rules
        /\ op.ver # op.ptr.current => op.ptr = manifest[op.item]
        /\ op.phase = "supersede" => op.kind = "update" /\ op.item \in Rules
        /\ op.phase = "version" /\ op.kind = "status" =>
               op.rec.text = file[op.item][op.ver].text

ProgressOK ==
    /\ op.phase \in {"supersede", "manifest"} => file[op.item][op.ver] = op.rec
    /\ op.phase = "manifest" /\ op.kind = "update" /\ op.item \in Rules =>
           file[op.item][op.ver - 1].status = "superseded"

Agrees(r) == CurrentFile(r).status = manifest[r].status /\ manifest[r].status \in Settable

AgreesOrWriting ==
    \A r \in Rules \ torn :
        Listed(r) => Agrees(r) \/ (op.phase = "manifest" /\ op.item = r /\ WritesCurrent)

FilesHaveTexts ==
    \A i \in Items, v \in Versions :
        file[i][v] = NoFile \/ (file[i][v].text \in Texts /\ file[i][v].status # "absent")

UnlistedHasNoStatus == \A i \in Items : ~Listed(i) => manifest[i].status = "absent"

WInv ==
    /\ DefinitionsTypeOK
    /\ PlanOK
    /\ ProgressOK
    /\ PointersReadable
    /\ OldRulesSuperseded
    /\ AgreesOrWriting
    /\ UnlistedHasNoStatus
    /\ FilesHaveTexts

-----------------------------------------------------------------------------
(* No file and no pointer are a record and a pointer, and so is no         *)
(* operation.                                                              *)
LEMMA EmptyTypes == NoFile \in Record /\ NoPointer \in Pointer /\ Idle \in Operation
BY DEF NoFile, Record, NoPointer, Pointer, Idle, Operation, Phases, Kinds

(* An empty store satisfies the invariant.                                 *)
LEMMA InitInvariant == Init => WInv
<1>. SUFFICES ASSUME Init PROVE WInv
  OBVIOUS
<1>. USE DEF Init
<1>1. DefinitionsTypeOK
  BY EmptyTypes DEF DefinitionsTypeOK, Requests, Idle
<1>2. \A i \in Items : Current(i) = 0 /\ manifest[i] = NoPointer
  BY DEF Current, NoPointer
<1>3. PlanOK /\ ProgressOK
  BY DEF PlanOK, ProgressOK, Idle
<1>4. 1..0 = {}
  OBVIOUS
<1>5. PointersReadable
  BY <1>2, <1>4 DEF PointersReadable, NoPointer
<1>6. OldRulesSuperseded
  BY <1>2 DEF OldRulesSuperseded
<1>7. AgreesOrWriting /\ UnlistedHasNoStatus /\ FilesHaveTexts
  BY <1>2 DEF AgreesOrWriting, UnlistedHasNoStatus, FilesHaveTexts, Listed, NoPointer
<1>. QED BY <1>1, <1>3, <1>5, <1>6, <1>7 DEF WInv

(***************************************************************************)
(* withAgentDefinitions up to its first write leaves the disk alone, so it *)
(* is enough that the plan it makes is a good one.                         *)
(***************************************************************************)
LEMMA BeginInvariant ==
    ASSUME NEW kind \in Kinds, NEW i \in Items, NEW v \in Versions,
           NEW rec \in Record, NEW ptr \in Pointer,
           WInv, Begin(kind, i, v, rec, ptr),
           rec.text \in Texts, rec.status \in Settable,
           ptr.current \in Versions,
           ptr.versions = 1..ptr.current,
           v >= ptr.current,
           v = ptr.current => ptr.status = rec.status,
           kind = "create" => ptr.current = 1 /\ v = 1 /\ Current(i) = 0,
           kind = "update" => v = ptr.current /\ ptr.current = Current(i) + 1 /\ Current(i) >= 1,
           kind = "status" => ptr.current = Current(i) /\ i \in Rules,
           v # ptr.current => ptr = manifest[i],
           kind = "status" => rec.text = file[i][v].text
    PROVE  WInv'
<1>. USE DEF Begin, disk, reader
<1>1. op' = [phase |-> "version", kind |-> kind, item |-> i, ver |-> v, rec |-> rec, ptr |-> ptr]
  OBVIOUS
<1>2. DefinitionsTypeOK'
  <2>1. op' \in Operation
    BY <1>1 DEF Operation, Phases
  <2>2. /\ op'.item \in Items /\ op'.ver \in Versions
        /\ op'.rec.text \in Texts /\ op'.rec.status \in Settable
    BY <1>1
  <2>3. touched' \subseteq Items
    BY DEF WInv, DefinitionsTypeOK
  <2>. QED BY <2>1, <2>2, <2>3 DEF DefinitionsTypeOK, WInv
<1>3. PlanOK'
  BY <1>1 DEF PlanOK, Current
<1>4. ProgressOK'
  BY <1>1 DEF ProgressOK
<1>5. PointersReadable' /\ OldRulesSuperseded' /\ UnlistedHasNoStatus' /\ FilesHaveTexts'
  BY DEF WInv, PointersReadable, OldRulesSuperseded, UnlistedHasNoStatus, FilesHaveTexts, Listed,
         Current
<1>6. AgreesOrWriting'
  BY DEF WInv, AgreesOrWriting, Agrees, Listed, CurrentFile, Current
<1>. QED BY <1>2, <1>3, <1>4, <1>5, <1>6 DEF WInv

(* The start of a creation preserves it.                                   *)
LEMMA CreateInvariant ==
    ASSUME WInv, NEW i \in Items, NEW x \in Texts, NEW s \in Settable, Create(i, x, s)
    PROVE  WInv'
<1>. DEFINE rec == [text |-> x, status |-> s]
            ptr == [current |-> 1, versions |-> {1}, status |-> s]
<1>1. rec \in Record /\ ptr \in Pointer /\ 1..1 = {1}
  BY DEF Record, Pointer
<1>2. Current(i) = 0 /\ Begin("create", i, 1, rec, ptr)
  BY DEF Create, Listed
<1>3. /\ rec.text \in Texts /\ rec.status \in Settable /\ ptr.current = 1
      /\ ptr.versions = 1..1 /\ ptr.status = rec.status
  BY <1>1
<1>. HIDE DEF rec, ptr
<1>4. 1 \in Versions /\ "create" \in Kinds
  BY DEF Kinds
<1>5. ptr.current \in Versions /\ ptr.versions = 1..ptr.current /\ 1 >= ptr.current
  BY <1>3, <1>4
<1>. QED BY <1>1, <1>2, <1>3, <1>4, <1>5, BeginInvariant

(* That of an update does.                                                 *)
LEMMA UpdateInvariant ==
    ASSUME WInv, NEW i \in Items, NEW x \in Texts, Update(i, x)
    PROVE  WInv'
<1>. DEFINE next == Current(i) + 1
            rec == [text |-> x, status |-> "active"]
            ptr == [current |-> next, versions |-> manifest[i].versions \cup {next},
                    status |-> "active"]
<1>1. Current(i) \in 0..MaxVersion /\ Current(i) # 0 /\ next \in Versions
  BY DEF Update, Listed, Current, WInv, DefinitionsTypeOK, Pointer
<1>2. manifest[i].versions \cup {next} = 1..next
  BY <1>1 DEF WInv, PointersReadable
<1>3. rec \in Record /\ ptr \in Pointer
  BY <1>1, <1>2 DEF Record, Pointer
<1>4. Begin("update", i, next, rec, ptr)
  BY DEF Update
<1>5. /\ rec.text \in Texts /\ rec.status \in Settable /\ ptr.current = next
      /\ ptr.versions = 1..next /\ ptr.status = rec.status
  BY <1>2
<1>. HIDE DEF rec, ptr
<1>. QED BY <1>1, <1>3, <1>4, <1>5, BeginInvariant DEF Kinds

(* That of SetOverrideRuleStatus does: a superseded version is refused, so *)
(* no version below the current one is written.                            *)
LEMMA SetStatusInvariant ==
    ASSUME WInv, NEW r \in Rules, NEW v \in Versions, NEW s \in Settable,
           SetOverrideRuleStatus(r, v, s)
    PROVE  WInv'
<1>. DEFINE rec == [file[r][v] EXCEPT !.status = s]
            ptr == IF v = Current(r) THEN [manifest[r] EXCEPT !.status = s] ELSE manifest[r]
<1>1. file[r][v] \in Record /\ file[r][v].status \in Settable /\ Current(r) \in Versions
  BY DEF SetOverrideRuleStatus, Listed, Current, WInv, DefinitionsTypeOK, Pointer
<1>2. manifest[r] \in Pointer /\ manifest[r].versions = 1..Current(r)
  BY DEF WInv, DefinitionsTypeOK, PointersReadable
<1>3. v >= Current(r)
  BY <1>1 DEF WInv, OldRulesSuperseded
<1>4. rec \in Record /\ ptr \in Pointer
  BY <1>1, <1>2 DEF Record, Pointer
<1>5. Begin("status", r, v, rec, ptr)
  BY DEF SetOverrideRuleStatus
<1>6. /\ rec.status \in Settable /\ ptr.current = Current(r) /\ ptr.versions = 1..Current(r)
      /\ v = Current(r) => ptr.status = rec.status
      /\ v # Current(r) => ptr = manifest[r]
  BY <1>1, <1>2 DEF Record, Pointer, Current
<1>7. rec.text \in Texts /\ rec.text = file[r][v].text
  BY <1>1 DEF WInv, FilesHaveTexts, NoFile
<1>. HIDE DEF rec, ptr
<1>. QED BY <1>1, <1>3, <1>4, <1>5, <1>6, <1>7, BeginInvariant DEF Kinds

(***************************************************************************)
(* The write of the new version, or of the version whose status is set: it *)
(* lies at or above the current one, and if it is the current one the rule *)
(* disagrees with its pointer only until the manifest follows.             *)
(***************************************************************************)
LEMMA WriteVersionInvariant ==
    ASSUME WInv, WriteVersion
    PROVE  WInv'
<1>. USE DEF WriteVersion, reader
<1>1. /\ op \in Operation /\ op.phase = "version"
      /\ op.item \in Items /\ op.ver \in Versions /\ op.rec \in Record
      /\ op.rec.text \in Texts /\ op.rec.status \in Settable
  BY DEF WInv, DefinitionsTypeOK, Operation
<1>2. op' \in Operation /\ op'.phase \in {"supersede", "manifest"}
      /\ op' = [op EXCEPT !.phase = op'.phase]
      /\ (op'.phase = "supersede" <=> op.kind = "update" /\ op.item \in Rules)
  BY <1>1 DEF Operation, Phases, AfterVersion
<1>3. \A i \in Items, v \in Versions :
         file'[i][v] = IF i = op.item /\ v = op.ver THEN op.rec ELSE file[i][v]
  BY <1>1 DEF WInv, DefinitionsTypeOK
<1>4. DefinitionsTypeOK'
  BY <1>1, <1>2 DEF WInv, DefinitionsTypeOK, Operation
<1>5. PlanOK'
  BY <1>1, <1>2 DEF WInv, PlanOK, Current, Operation
<1>6. ProgressOK'
  BY <1>1, <1>2, <1>3 DEF ProgressOK, Operation
<1>7. /\ op.ver >= Current(op.item)
      /\ op.ver = Current(op.item) => op.kind # "update" /\ WritesCurrent
  <2>1. Current(op.item) \in 0..MaxVersion /\ op.kind \in Kinds /\ op.ptr.current \in 0..MaxVersion
    BY <1>1 DEF WInv, DefinitionsTypeOK, Operation, Pointer, Current
  <2>2. PlanOK /\ op.phase # "idle"
    BY <1>1 DEF WInv
  <2>. QED BY <1>1, <2>1, <2>2 DEF PlanOK, Kinds, WritesCurrent
<1>8. \A i \in Items : Current(i)' = Current(i) /\ Current(i) \in 0..MaxVersion
  BY DEF Current, WInv, DefinitionsTypeOK, Pointer
<1>9. PointersReadable'
  BY <1>1, <1>3, <1>8 DEF WInv, PointersReadable, NoFile
<1>10. OldRulesSuperseded'
  BY <1>1, <1>3, <1>7, <1>8 DEF WInv, OldRulesSuperseded
<1>11. AgreesOrWriting'
  <2>. SUFFICES ASSUME NEW r \in Rules \ torn', Listed(r)'
                PROVE  Agrees(r)' \/ (op.phase = "manifest" /\ op.item = r /\ WritesCurrent)'
    BY DEF AgreesOrWriting
  <2>1. Agrees(r) /\ Current(r) \in Versions
    BY <1>1, <1>8 DEF WInv, AgreesOrWriting, Listed, Current
  <2>2. CASE r = op.item /\ op.ver = Current(r)
    BY <2>2, <1>1, <1>2, <1>7 DEF WritesCurrent, Operation
  <2>3. CASE ~(r = op.item /\ op.ver = Current(r))
    <3>1. CurrentFile(r)' = CurrentFile(r)
      BY <2>1, <2>3, <1>3, <1>8 DEF CurrentFile
    <3>. QED BY <2>1, <3>1 DEF Agrees
  <2>. QED BY <2>2, <2>3
<1>12. UnlistedHasNoStatus'
  BY DEF WInv, UnlistedHasNoStatus, Listed, Current
<1>13. FilesHaveTexts'
  BY <1>1, <1>3 DEF WInv, FilesHaveTexts
<1>. QED BY <1>4, <1>5, <1>6, <1>9, <1>10, <1>11, <1>12, <1>13 DEF WInv

(* The write of the superseded version preserves it.                       *)
LEMMA WriteSupersededInvariant ==
    ASSUME WInv, WriteSuperseded
    PROVE  WInv'
<1>. USE DEF WriteSuperseded, reader
<1>1. /\ op \in Operation /\ op.phase = "supersede" /\ op.kind = "update"
      /\ op.item \in Rules /\ op.ver \in Versions /\ op.rec \in Record
      /\ op.ver = Current(op.item) + 1 /\ Current(op.item) \in Versions
      /\ op.ver = op.ptr.current
  BY DEF WInv, DefinitionsTypeOK, PlanOK, Operation, Pointer, Current
<1>2. op' \in Operation /\ op' = [op EXCEPT !.phase = "manifest"]
  BY <1>1 DEF Operation, Phases
<1>3. \A i \in Items, v \in Versions :
         file'[i][v] = IF i = op.item /\ v = op.ver - 1
                       THEN [file[i][v] EXCEPT !.status = "superseded"] ELSE file[i][v]
  BY <1>1 DEF WInv, DefinitionsTypeOK
<1>4. DefinitionsTypeOK'
  <2>1. file \in [Items -> [Versions -> Record]] /\ op.ver - 1 \in Versions
    BY <1>1 DEF WInv, DefinitionsTypeOK
  <2>2. \A rec \in Record : [rec EXCEPT !.status = "superseded"] \in Record
    BY DEF Record
  <2>3. file' \in [Items -> [Versions -> Record]]
    BY <1>1, <2>1, <2>2
  <2>. QED BY <1>1, <1>2, <2>3 DEF WInv, DefinitionsTypeOK, Operation
<1>5. PlanOK'
  BY <1>1, <1>2 DEF WInv, PlanOK, Current, Operation
<1>6. ProgressOK'
  BY <1>1, <1>2, <1>3 DEF WInv, DefinitionsTypeOK, ProgressOK, Operation, Record
<1>8. \A i \in Items : Current(i)' = Current(i) /\ Current(i) \in 0..MaxVersion
  BY DEF Current, WInv, DefinitionsTypeOK, Pointer
<1>9. PointersReadable'
  BY <1>1, <1>3, <1>8 DEF WInv, DefinitionsTypeOK, Record, PointersReadable, NoFile
<1>10. OldRulesSuperseded'
  BY <1>1, <1>3, <1>8 DEF WInv, DefinitionsTypeOK, Record, OldRulesSuperseded
<1>11. AgreesOrWriting'
  <2>. SUFFICES ASSUME NEW r \in Rules \ torn', Listed(r)'
                PROVE  Agrees(r)' \/ (op.phase = "manifest" /\ op.item = r /\ WritesCurrent)'
    BY DEF AgreesOrWriting
  <2>1. Agrees(r) /\ Current(r) \in Versions
    BY <1>1, <1>8 DEF WInv, AgreesOrWriting, Listed, Current
  <2>2. CASE r = op.item
    BY <2>2, <1>1, <1>2 DEF WritesCurrent, Operation
  <2>3. CASE r # op.item
    <3>1. CurrentFile(r)' = CurrentFile(r)
      BY <2>1, <2>3, <1>3, <1>8 DEF CurrentFile
    <3>. QED BY <2>1, <3>1 DEF Agrees
  <2>. QED BY <2>2, <2>3
<1>12. UnlistedHasNoStatus'
  BY DEF WInv, UnlistedHasNoStatus, Listed, Current
<1>13. FilesHaveTexts'
  <2>1. file[op.item][op.ver - 1] # NoFile /\ op.ver - 1 \in Versions
    BY <1>1 DEF WInv, PointersReadable
  <2>. QED BY <1>1, <1>3, <2>1 DEF WInv, DefinitionsTypeOK, Record, FilesHaveTexts, NoFile
<1>. QED BY <1>4, <1>5, <1>6, <1>9, <1>10, <1>11, <1>12, <1>13 DEF WInv

(***************************************************************************)
(* The write of the manifest: what it lists from now on is on disk because *)
(* an update has written both its files.                                   *)
(***************************************************************************)
LEMMA WriteManifestInvariant ==
    ASSUME WInv, WriteManifest
    PROVE  WInv'
<1>. USE DEF WriteManifest, reader
<1>1. /\ op \in Operation /\ op.phase = "manifest"
      /\ op.item \in Items /\ op.ver \in Versions /\ op.rec \in Record
      /\ op.rec.status \in Settable /\ op.rec.text \in Texts
      /\ op.ptr \in Pointer /\ op.ptr.current \in Versions
  BY DEF WInv, DefinitionsTypeOK, PlanOK, Operation
<1>2. op' \in Operation /\ op'.phase = "idle"
  BY EmptyTypes DEF Idle
<1>3. \A i \in Items : manifest'[i] = IF i = op.item THEN op.ptr ELSE manifest[i]
  BY <1>1 DEF WInv, DefinitionsTypeOK
<1>4. DefinitionsTypeOK'
  BY <1>1, <1>2 DEF WInv, DefinitionsTypeOK
<1>5. PlanOK' /\ ProgressOK'
  BY <1>2 DEF PlanOK, ProgressOK
<1>7. \A i \in Items : Current(i)' = IF i = op.item THEN op.ptr.current ELSE Current(i)
  BY <1>3 DEF Current
<1>8. \A i \in Items : Current(i) \in 0..MaxVersion
  BY DEF Current, WInv, DefinitionsTypeOK, Pointer
<1>9. file[op.item][op.ver] = op.rec /\ op.ptr.versions = 1..op.ptr.current
  BY <1>1 DEF WInv, ProgressOK, PlanOK
<1>10. \/ op.kind = "create" /\ op.ptr.current = 1 /\ op.ver = 1
       \/ /\ op.kind = "update" /\ op.ver = op.ptr.current /\ op.ptr.current = Current(op.item) + 1
          /\ op.item \in Rules => file[op.item][op.ver - 1].status = "superseded"
       \/ op.ptr.current = Current(op.item)
  BY <1>1 DEF WInv, PlanOK, ProgressOK, Operation, Kinds
<1>11. PointersReadable'
  <2>1. \A v \in 1..op.ptr.current : file[op.item][v] # NoFile
    BY <1>1, <1>8, <1>9, <1>10 DEF WInv, PointersReadable, NoFile
  <2>. QED BY <2>1, <1>3, <1>7, <1>9 DEF WInv, PointersReadable
<1>12. OldRulesSuperseded'
  <2>1. op.item \in Rules =>
          \A v \in Versions : v < op.ptr.current => file[op.item][v].status = "superseded"
    BY <1>1, <1>8, <1>10 DEF WInv, OldRulesSuperseded
  <2>. QED BY <2>1, <1>7 DEF WInv, OldRulesSuperseded
<1>13. AgreesOrWriting'
  <2>. SUFFICES ASSUME NEW r \in Rules \ torn', Listed(r)' PROVE Agrees(r)'
    BY DEF AgreesOrWriting
  <2>1. CASE r = op.item /\ WritesCurrent
    BY <2>1, <1>1, <1>3, <1>7, <1>9 DEF WInv, PlanOK, WritesCurrent, Agrees, CurrentFile
  <2>2. CASE r = op.item /\ ~WritesCurrent
    <3>1. manifest'[r] = manifest[r] /\ Current(r)' = Current(r)
      BY <2>2, <1>1, <1>3, <1>7 DEF WInv, PlanOK, WritesCurrent, Current
    <3>2. Agrees(r)
      BY <2>2, <3>1 DEF WInv, AgreesOrWriting, Listed
    <3>. QED BY <3>1, <3>2 DEF Agrees, CurrentFile
  <2>3. CASE r # op.item
    BY <2>3, <1>1, <1>3, <1>7 DEF WInv, AgreesOrWriting, Agrees, CurrentFile, Listed
  <2>. QED BY <2>1, <2>2, <2>3
<1>14. UnlistedHasNoStatus'
  BY <1>1, <1>3, <1>7 DEF WInv, UnlistedHasNoStatus, Listed
<1>15. FilesHaveTexts'
  BY DEF WInv, FilesHaveTexts
<1>. QED BY <1>4, <1>5, <1>11, <1>12, <1>13, <1>14, <1>15 DEF WInv

(***************************************************************************)
(* An operation may stop anywhere: before the manifest is written nothing  *)
(* it wrote is listed, and a disagreement it leaves is recorded as torn.   *)
(***************************************************************************)
LEMMA StopInvariant ==
    ASSUME WInv, Stop
    PROVE  WInv'
<1>. USE DEF Stop, disk, reader
<1>1. op' \in Operation /\ op'.phase = "idle"
  BY EmptyTypes DEF Idle
<1>2. DefinitionsTypeOK'
  BY <1>1 DEF WInv, DefinitionsTypeOK, WritesCurrent
<1>3. PlanOK' /\ ProgressOK'
  BY <1>1 DEF PlanOK, ProgressOK
<1>4. PointersReadable' /\ OldRulesSuperseded' /\ UnlistedHasNoStatus' /\ FilesHaveTexts'
  BY DEF WInv, PointersReadable, OldRulesSuperseded, UnlistedHasNoStatus, FilesHaveTexts, Listed,
         Current
<1>5. AgreesOrWriting'
  BY DEF WInv, AgreesOrWriting, Agrees, Listed, CurrentFile, Current, WritesCurrent
<1>. QED BY <1>2, <1>3, <1>4, <1>5 DEF WInv

-----------------------------------------------------------------------------
(* A step of a reader changes neither the store nor the operation.         *)
LEMMA ReadChanges ==
    ASSUME WInv, Read
    PROVE  /\ UNCHANGED <<disk, op, torn>>
           /\ touched' \subseteq Items /\ request' \in Requests
           /\ todo' \subseteq Items \X Versions
           /\ got' \subseteq [item : Items, ver : Versions, rec : Record]
<1>1. /\ file \in [Items -> [Versions -> Record]] /\ manifest \in [Items -> Pointer]
      /\ touched \subseteq Items /\ request \in Requests
      /\ todo \subseteq Items \X Versions
      /\ got \subseteq [item : Items, ver : Versions, rec : Record]
      /\ op.phase # "idle" => op.item \in Items
  BY DEF WInv, DefinitionsTypeOK
<1>2. \A i \in Items : Current(i) \in 0..MaxVersion /\ (Listed(i) => Current(i) \in Versions)
  BY <1>1 DEF Current, Listed, Pointer
<1>3. ASSUME NEW what \in Requests, NEW S \in SUBSET (Items \X Versions), Open(what, S)
      PROVE  /\ UNCHANGED <<disk, op, torn>>
             /\ touched' \subseteq Items /\ request' \in Requests
             /\ todo' \subseteq Items \X Versions
             /\ got' \subseteq [item : Items, ver : Versions, rec : Record]
  BY <1>1, <1>3 DEF Open
<1>4. ASSUME NEW i \in Items, NEW v \in Versions \cup {0}, Load(i, v)
      PROVE  \E what \in Requests, S \in SUBSET (Items \X Versions) : Open(what, S)
  <2>. DEFINE S == {<<i, IF v = 0 THEN Current(i) ELSE v>>}
  <2>1. Open("load", S) /\ S \in SUBSET (Items \X Versions) /\ "load" \in Requests
    BY <1>2, <1>4 DEF Load, Requests
  <2>. HIDE DEF S
  <2>. QED BY <2>1
<1>5. ASSUME NEW what \in Requests, NEW items \in SUBSET Items, List(what, items)
      PROVE  \E S \in SUBSET (Items \X Versions) : Open(what, S)
  <2>. DEFINE S == {<<i, Current(i)>> : i \in {j \in items : Listed(j)}}
  <2>1. Open(what, S) /\ S \in SUBSET (Items \X Versions)
    BY <1>2, <1>5 DEF List
  <2>. HIDE DEF S
  <2>. QED BY <2>1
<1>6. ASSUME NEW i \in Items, History(i)
      PROVE  \E what \in Requests, S \in SUBSET (Items \X Versions) : Open(what, S)
  <2>. DEFINE S == {<<i, v>> : v \in manifest[i].versions}
  <2>1. Open("history", S) /\ S \in SUBSET (Items \X Versions) /\ "history" \in Requests
    BY <1>1, <1>6 DEF History, Requests, Pointer
  <2>. HIDE DEF S
  <2>. QED BY <2>1
<1>7. ASSUME NEW p \in Items \X Versions, ReadVersion(p)
      PROVE  /\ UNCHANGED <<disk, op, torn, touched, request>> /\ todo' \subseteq todo
             /\ got' \subseteq [item : Items, ver : Versions, rec : Record]
  <2>1. FileOf(p) \in Record
    BY <1>1 DEF FileOf
  <2>. QED BY <1>1, <1>7, <2>1 DEF ReadVersion
<1>8. ASSUME NEW p \in Items \X Versions, ReadFails(p)
      PROVE  UNCHANGED <<disk, op, torn, touched>> /\ request' = "none" /\ todo' = {} /\ got' = {}
  BY <1>8 DEF ReadFails
<1>9. ASSUME Return
      PROVE  UNCHANGED <<disk, op, torn, todo, touched>> /\ request' = "none" /\ got' = {}
  BY <1>9 DEF Return
<1>10. "none" \in Requests /\ "list" \in Requests /\ "active" \in Requests
  BY DEF Requests
<1>. QED
  <2>1. CASE \E what \in Requests, S \in SUBSET (Items \X Versions) : Open(what, S)
    BY <2>1, <1>3
  <2>2. CASE \E p \in Items \X Versions : ReadVersion(p)
    BY <2>2, <1>1, <1>7
  <2>3. CASE (\E p \in Items \X Versions : ReadFails(p)) \/ Return
    BY <2>3, <1>1, <1>8, <1>9, <1>10
  <2>4. CASE \/ \E a \in Agents, v \in Versions \cup {0} : LoadAgentDefinition(a, v)
             \/ \E r \in Rules, v \in Versions \cup {0} : LoadOverrideRule(r, v)
    BY <2>4, <1>4, <2>1 DEF LoadAgentDefinition, LoadOverrideRule
  <2>5. CASE ListAgentDefinitions \/ ListOverrideRules \/ ActiveOverrideRules
    <3>1. Agents \in SUBSET Items /\ Rules \in SUBSET Items
      OBVIOUS
    <3>. QED BY <2>5, <3>1, <1>5, <1>10, <2>1 DEF ListAgentDefinitions, ListOverrideRules,
                ActiveOverrideRules
  <2>6. CASE \/ \E a \in Agents : AgentDefinitionHistory(a)
             \/ \E r \in Rules : OverrideRuleHistory(r)
    BY <2>6, <1>6, <2>1 DEF AgentDefinitionHistory, OverrideRuleHistory
  <2>. QED BY <2>1, <2>2, <2>3, <2>4, <2>5, <2>6 DEF Read

(* No step of a reader disturbs the invariant.                             *)
LEMMA ReadInvariant ==
    ASSUME WInv, Read
    PROVE  WInv'
<1>1. DefinitionsTypeOK'
  BY ReadChanges DEF WInv, DefinitionsTypeOK, disk
<1>2. PlanOK' /\ ProgressOK' /\ PointersReadable' /\ OldRulesSuperseded' /\ AgreesOrWriting'
      /\ UnlistedHasNoStatus' /\ FilesHaveTexts'
  BY ReadChanges DEF WInv, PlanOK, ProgressOK, PointersReadable, OldRulesSuperseded,
     AgreesOrWriting, Agrees, UnlistedHasNoStatus, FilesHaveTexts, Listed, CurrentFile, Current,
     WritesCurrent, disk
<1>. QED BY <1>1, <1>2 DEF WInv

(* A step begins an operation, writes a file, writes the manifest, stops   *)
(* an operation or is a reader's.                                          *)
LEMMA StepCases ==
    ASSUME Next
    PROVE  \/ \E kind \in Kinds, i \in Items : \E v, rec, ptr : Begin(kind, i, v, rec, ptr)
           \/ WriteVersion \/ WriteSuperseded \/ WriteManifest \/ Stop \/ Read
<1>1. "create" \in Kinds /\ "update" \in Kinds /\ "status" \in Kinds
  BY DEF Kinds
<1>2. ASSUME NEW i \in Items, NEW x, NEW s, Create(i, x, s)
      PROVE  \E kind \in Kinds, j \in Items : \E v, rec, ptr : Begin(kind, j, v, rec, ptr)
  BY <1>1, <1>2 DEF Create
<1>3. ASSUME NEW i \in Items, NEW x, Update(i, x)
      PROVE  \E kind \in Kinds, j \in Items : \E v, rec, ptr : Begin(kind, j, v, rec, ptr)
  BY <1>1, <1>3 DEF Update
<1>4. ASSUME NEW r \in Rules, NEW v, NEW s, SetOverrideRuleStatus(r, v, s)
      PROVE  \E kind \in Kinds, j \in Items : \E u, rec, ptr : Begin(kind, j, u, rec, ptr)
  BY <1>1, <1>4 DEF SetOverrideRuleStatus
<1>. QED BY <1>2, <1>3, <1>4 DEF Next, Write, CreateAgentDefinition, UpdateAgentDefinition,
            CreateOverrideRule, UpdateOverrideRule

(* Every step preserves the invariant.                                     *)
LEMMA NextInvariant == WInv /\ [Next]_vars => WInv'
<1>. SUFFICES ASSUME WInv, [Next]_vars PROVE WInv'
  OBVIOUS
<1>1. ASSUME NEW a \in Agents, NEW x \in Texts,
             CreateAgentDefinition(a, x) \/ UpdateAgentDefinition(a, x)
      PROVE  WInv'
  BY <1>1, CreateInvariant, UpdateInvariant DEF CreateAgentDefinition, UpdateAgentDefinition
<1>2. ASSUME NEW r \in Rules, NEW x \in Texts, NEW s \in Settable, CreateOverrideRule(r, x, s)
      PROVE  WInv'
  BY <1>2, CreateInvariant DEF CreateOverrideRule
<1>3. ASSUME NEW r \in Rules, NEW x \in Texts, UpdateOverrideRule(r, x)
      PROVE  WInv'
  BY <1>3, UpdateInvariant DEF UpdateOverrideRule
<1>4. ASSUME NEW r \in Rules, NEW v \in Versions, NEW s \in Settable,
             SetOverrideRuleStatus(r, v, s)
      PROVE  WInv'
  BY <1>4, SetStatusInvariant
<1>5. CASE WriteVersion \/ WriteSuperseded \/ WriteManifest \/ Stop
  BY <1>5, WriteVersionInvariant, WriteSupersededInvariant, WriteManifestInvariant, StopInvariant
<1>6. CASE Read
  BY <1>6, ReadInvariant
<1>7. CASE UNCHANGED vars
  <2>. USE <1>7 DEF vars, disk, reader
  <2>1. DefinitionsTypeOK' /\ PlanOK' /\ ProgressOK'
    BY DEF WInv, DefinitionsTypeOK, PlanOK, ProgressOK, Current
  <2>2. PointersReadable' /\ OldRulesSuperseded' /\ UnlistedHasNoStatus' /\ FilesHaveTexts'
    BY DEF WInv, PointersReadable, OldRulesSuperseded, UnlistedHasNoStatus, FilesHaveTexts,
       Listed, Current
  <2>3. AgreesOrWriting'
    BY DEF WInv, AgreesOrWriting, Agrees, Listed, CurrentFile, Current, WritesCurrent
  <2>. QED BY <2>1, <2>2, <2>3 DEF WInv
<1>. QED BY <1>1, <1>2, <1>3, <1>4, <1>5, <1>6, <1>7 DEF Next, Write

(* The inductive invariant holds in every reachable state.                 *)
THEOREM Invariance == Spec => []WInv
BY InitInvariant, NextInvariant, PTL DEF Spec

(* Every variable keeps its type, and an operation under way writes a      *)
(* version with a text and a status a caller may give.                     *)
THEOREM TypeCorrect == Spec => []DefinitionsTypeOK
BY Invariance, PTL DEF WInv

(* Every version a pointer lists has its file, wherever the operations of  *)
(* withAgentDefinitions stopped.                                           *)
THEOREM PointedReadable == Spec => []PointersReadable
BY Invariance, PTL DEF WInv

(* At most the current version of an override rule is active.              *)
THEOREM OldSuperseded == Spec => []OldRulesSuperseded
BY Invariance, PTL DEF WInv

(* current.json and the file of a rule's current version disagree only     *)
(* where an operation stopped between the two.                             *)
THEOREM PointerAgrees == Spec => []PointerAgreesUnlessTorn
<1>1. WInv => PointerAgreesUnlessTorn
  BY DEF WInv, AgreesOrWriting, Agrees, PointerAgreesUnlessTorn
<1>. QED BY <1>1, Invariance, PTL

-----------------------------------------------------------------------------
(* No step but the writes of the three files changes the disk.             *)
LEMMA DiskCases ==
    ASSUME [Next]_vars
    PROVE  UNCHANGED <<file, manifest>> \/ WriteVersion \/ WriteSuperseded \/ WriteManifest
<1>1. Read => UNCHANGED disk
  BY DEF Read, Open, Load, List, History, LoadAgentDefinition, LoadOverrideRule,
     ListAgentDefinitions, ListOverrideRules, ActiveOverrideRules, AgentDefinitionHistory,
     OverrideRuleHistory, ReadVersion, ReadFails, Return, disk
<1>2. CASE Next
  BY <1>2, <1>1, StepCases DEF Begin, Stop, disk
<1>3. CASE UNCHANGED vars
  BY <1>3 DEF vars, disk
<1>. QED BY <1>2, <1>3

(* What the three writes write, and where.                                 *)
LEMMA WritesAbove ==
    ASSUME WInv, op.phase # "idle"
    PROVE  /\ op.item \in Items /\ op.ver \in Versions
           /\ op.rec.text \in Texts /\ op.rec.status \in Settable
           /\ op.ptr.current \in Versions /\ op.ptr.versions = 1..op.ptr.current
           /\ Current(op.item) \in 0..MaxVersion
           /\ op.ptr.current >= Current(op.item)
           /\ op.phase = "version" /\ op.ver <= Current(op.item) =>
                  op.rec.text = file[op.item][op.ver].text
<1>1. /\ op \in Operation /\ op.item \in Items /\ op.ver \in Versions
      /\ op.rec.text \in Texts /\ op.rec.status \in Settable
  BY DEF WInv, DefinitionsTypeOK
<1>2. Current(op.item) \in 0..MaxVersion /\ op.kind \in Kinds /\ op.ptr.current \in 0..MaxVersion
  BY <1>1 DEF WInv, DefinitionsTypeOK, Operation, Pointer, Current
<1>3. PlanOK
  BY DEF WInv
<1>. QED BY <1>1, <1>2, <1>3 DEF PlanOK, Kinds

CitedStep ==
    \A i \in Items : \A v \in manifest[i].versions :
        v \in manifest'[i].versions /\ file'[i][v].text = file[i][v].text

(* No step changes the text of a listed version, or unlists one.           *)
LEMMA CitedNext == WInv /\ [Next]_vars => CitedStep
<1>. SUFFICES ASSUME WInv, [Next]_vars, NEW i \in Items, NEW v \in manifest[i].versions
              PROVE  v \in manifest'[i].versions /\ file'[i][v].text = file[i][v].text
  BY DEF CitedStep
<1>1. /\ file \in [Items -> [Versions -> Record]] /\ manifest \in [Items -> Pointer]
      /\ manifest[i].versions = 1..Current(i) /\ Current(i) \in 0..MaxVersion
      /\ v \in Versions /\ v <= Current(i)
  BY DEF WInv, DefinitionsTypeOK, PointersReadable, Current, Pointer
<1>2. CASE UNCHANGED <<file, manifest>>
  BY <1>2
<1>3. CASE WriteVersion
  <2>1. /\ op.item \in Items /\ op.ver \in Versions
        /\ op.ver <= Current(op.item) => op.rec.text = file[op.item][op.ver].text
    BY <1>3, WritesAbove DEF WriteVersion
  <2>2. file'[i][v] = IF i = op.item /\ v = op.ver THEN op.rec ELSE file[i][v]
    BY <1>1, <1>3, <2>1 DEF WriteVersion
  <2>. QED BY <1>1, <1>3, <2>1, <2>2 DEF WriteVersion
<1>4. CASE WriteSuperseded
  <2>1. op.item \in Items /\ op.ver \in Versions
    BY <1>4, WritesAbove DEF WriteSuperseded
  <2>2. \/ file'[i][v] = file[i][v]
        \/ file'[i][v] = [file[i][v] EXCEPT !.status = "superseded"]
    BY <1>1, <1>4, <2>1 DEF WriteSuperseded
  <2>. QED BY <1>1, <1>4, <2>2 DEF WriteSuperseded, Record
<1>5. CASE WriteManifest
  <2>1. /\ op.item \in Items /\ op.ptr.current >= Current(op.item)
        /\ op.ptr.current \in Versions /\ op.ptr.versions = 1..op.ptr.current
    BY <1>5, WritesAbove DEF WriteManifest
  <2>2. manifest'[i] = IF i = op.item THEN op.ptr ELSE manifest[i]
    BY <1>1, <1>5, <2>1 DEF WriteManifest
  <2>. QED BY <1>1, <1>5, <2>1, <2>2 DEF WriteManifest
<1>. QED BY <1>2, <1>3, <1>4, <1>5, DiskCases

(* "a suite generated earlier cites the exact rule version that shaped it, *)
(* so that version must stay readable" (agentdefinitions.go:303): no step, *)
(* of an operation that completes or of one that stops, changes what a     *)
(* listed version says.                                                    *)
THEOREM CitedFixed == Spec => CitedVersionsFixed
<1>1. WInv /\ [Next]_vars => [CitedStep]_vars
  BY CitedNext
<1>2. CitedVersionsFixed <=> [][CitedStep]_vars
  BY PTL DEF CitedVersionsFixed, CitedStep
<1>. QED BY <1>1, <1>2, Invariance, PTL DEF Spec

-----------------------------------------------------------------------------
(* No version file is ever taken away.                                     *)
LEMMA FilesStay ==
    ASSUME WInv, [Next]_vars, NEW i \in Items, NEW v \in Versions, file[i][v] # NoFile
    PROVE  file'[i][v] # NoFile
<1>1. file \in [Items -> [Versions -> Record]]
  BY DEF WInv, DefinitionsTypeOK
<1>2. CASE UNCHANGED <<file, manifest>> \/ WriteManifest
  BY <1>2 DEF WriteManifest
<1>3. CASE WriteVersion
  <2>1. op.item \in Items /\ op.ver \in Versions /\ op.rec.status \in Settable
    BY <1>3, WritesAbove DEF WriteVersion
  <2>. QED BY <1>1, <1>3, <2>1 DEF WriteVersion, NoFile
<1>4. CASE WriteSuperseded
  <2>1. op.item \in Items /\ op.ver \in Versions
    BY <1>4, WritesAbove DEF WriteSuperseded
  <2>2. \/ file'[i][v] = file[i][v]
        \/ file'[i][v] = [file[i][v] EXCEPT !.status = "superseded"]
    BY <1>1, <1>4, <2>1 DEF WriteSuperseded
  <2>. QED BY <1>1, <2>2 DEF NoFile, Record
<1>. QED BY <1>2, <1>3, <1>4, DiskCases

(* What a step does to the versions the reader has still to read.          *)
LEMMA TodoCases ==
    ASSUME Next
    PROVE  \/ UNCHANGED <<request, todo>>
           \/ \E i \in Items : \E v : Load(i, v)
           \/ ListAgentDefinitions \/ ListOverrideRules \/ ActiveOverrideRules
           \/ \E i \in Items : History(i)
           \/ \E p : ReadVersion(p)
           \/ request' = "none"
BY StepCases DEF Read, LoadAgentDefinition, LoadOverrideRule, AgentDefinitionHistory,
   OverrideRuleHistory, ReadFails, Return, Begin, WriteVersion, WriteSuperseded, WriteManifest,
   Stop, reader

(* The reader's promise is inductive with the writers' invariant.          *)
LEMMA ListsNext == WInv /\ ListsStayReadable /\ [Next]_vars => ListsStayReadable'
<1>. SUFFICES ASSUME WInv, ListsStayReadable, [Next]_vars,
                     request' \in {"list", "active", "history"}, NEW p \in todo'
              PROVE  file'[p[1]][p[2]] # NoFile
  BY DEF ListsStayReadable
<1>1. /\ todo \subseteq Items \X Versions
      /\ \A i \in Items : /\ manifest[i].versions = 1..Current(i) /\ Current(i) \in 0..MaxVersion
                          /\ \A v \in 1..Current(i) : v \in Versions /\ file[i][v] # NoFile
  BY DEF WInv, DefinitionsTypeOK, PointersReadable, Current, Pointer
<1>2. ASSUME p \in todo, request' = request
      PROVE  file'[p[1]][p[2]] # NoFile
  BY <1>1, <1>2, FilesStay DEF ListsStayReadable
<1>3. ASSUME NEW i \in Items, NEW v \in 1..Current(i), p = <<i, v>>
      PROVE  file'[p[1]][p[2]] # NoFile
  BY <1>1, <1>3, FilesStay
<1>4. ASSUME NEW what, NEW items \in SUBSET Items, List(what, items)
      PROVE  file'[p[1]][p[2]] # NoFile
  <2>1. PICK i \in items : Listed(i) /\ p = <<i, Current(i)>>
    BY <1>4 DEF List, Open
  <2>2. Current(i) \in 1..Current(i)
    BY <1>1, <2>1 DEF Listed
  <2>. QED BY <2>1, <2>2, <1>3
<1>5. ASSUME NEW i \in Items, History(i)
      PROVE  file'[p[1]][p[2]] # NoFile
  <2>1. PICK v \in manifest[i].versions : p = <<i, v>>
    BY <1>5 DEF History, Open
  <2>. QED BY <2>1, <1>1, <1>3
<1>6. ASSUME NEW i, NEW v, Load(i, v)
      PROVE  FALSE
  BY <1>6 DEF Load, Open
<1>7. ASSUME NEW q, ReadVersion(q)
      PROVE  file'[p[1]][p[2]] # NoFile
  BY <1>7, <1>2 DEF ReadVersion
<1>8. CASE UNCHANGED <<request, todo>> \/ UNCHANGED vars
  BY <1>8, <1>2 DEF vars, reader
<1>9. CASE ListAgentDefinitions \/ ListOverrideRules \/ ActiveOverrideRules
  <2>1. Agents \in SUBSET Items /\ Rules \in SUBSET Items
    OBVIOUS
  <2>. QED BY <1>9, <1>4, <2>1 DEF ListAgentDefinitions, ListOverrideRules, ActiveOverrideRules
<1>. QED BY <1>5, <1>6, <1>7, <1>8, <1>9, TodoCases

(* A list or a history never meets a missing file, although the reader     *)
(* takes no lock and the manifest it opened may be stale by now.           *)
THEOREM ListsReadable == Spec => []ListsStayReadable
<1>1. Init => ListsStayReadable
  BY DEF Init, ListsStayReadable
<1>. QED BY <1>1, ListsNext, Invariance, PTL DEF Spec

-----------------------------------------------------------------------------
(***************************************************************************)
(* What ActiveOverrideRules knows of a rule no operation has worked on     *)
(* since the call: of a listed one it has read, or has still to read, the  *)
(* current version, as it is on disk; of any other, nothing.               *)
(***************************************************************************)
AskedFor(r) == \A p \in todo : p[1] = r => Listed(r) /\ p[2] = Current(r)
ReadAsIs(r) == \A g \in got : g.item = r => Listed(r) /\ g.rec = CurrentFile(r)
Covered(r) ==
    Listed(r) => <<r, Current(r)>> \in todo \/ \E g \in got : g.item = r

ReaderInv ==
    request = "active" =>
        /\ op.phase # "idle" => op.item \in touched
        /\ \A r \in Rules \ touched : AskedFor(r) /\ ReadAsIs(r) /\ Covered(r)

(* A write only changes the rule or definition it works on.                *)
LEMMA OthersUntouched ==
    ASSUME WInv, [Next]_vars, NEW r \in Rules, op.phase # "idle" => op.item # r
    PROVE  /\ manifest'[r] = manifest[r] /\ file'[r] = file[r]
           /\ Listed(r)' = Listed(r) /\ Current(r)' = Current(r)
           /\ CurrentFile(r)' = CurrentFile(r)
<1>1. file \in [Items -> [Versions -> Record]] /\ manifest \in [Items -> Pointer]
  BY DEF WInv, DefinitionsTypeOK
<1>2. manifest'[r] = manifest[r] /\ file'[r] = file[r]
  <2>1. CASE UNCHANGED <<file, manifest>>
    BY <2>1
  <2>2. CASE WriteVersion
    BY <1>1, <2>2 DEF WriteVersion
  <2>3. CASE WriteSuperseded
    BY <1>1, <2>3 DEF WriteSuperseded
  <2>4. CASE WriteManifest
    BY <1>1, <2>4 DEF WriteManifest
  <2>. QED BY <2>1, <2>2, <2>3, <2>4, DiskCases
<1>. QED BY <1>2 DEF Listed, Current, CurrentFile

(* Opening the manifest for ActiveOverrideRules establishes the invariant. *)
LEMMA OpenActive == WInv /\ ActiveOverrideRules => ReaderInv'
<1>. SUFFICES ASSUME WInv, ActiveOverrideRules PROVE ReaderInv'
  OBVIOUS
<1>. USE DEF ActiveOverrideRules, List, Open
<1>1. UNCHANGED <<disk, op>> /\ got' = {} /\ touched' = IF op.phase = "idle" THEN {} ELSE {op.item}
  OBVIOUS
<1>2. todo' = {<<i, Current(i)>> : i \in {j \in Rules : Listed(j)}}
  OBVIOUS
<1>3. op.phase # "idle" => op.item \in touched'
  BY <1>1
<1>4. ASSUME NEW r \in Rules
      PROVE  AskedFor(r)' /\ ReadAsIs(r)' /\ Covered(r)'
  <2>1. Listed(r)' = Listed(r) /\ Current(r)' = Current(r)
    BY <1>1 DEF Listed, Current, disk
  <2>2. AskedFor(r)'
    BY <1>2, <2>1 DEF AskedFor
  <2>3. ReadAsIs(r)'
    BY <1>1 DEF ReadAsIs
  <2>4. Listed(r) => <<r, Current(r)>> \in todo'
    BY <1>2
  <2>. QED BY <2>1, <2>2, <2>3, <2>4 DEF Covered
<1>. QED BY <1>1, <1>3, <1>4 DEF ReaderInv

(* Reading a version file preserves it: what is read of an untouched rule  *)
(* is its current file.                                                    *)
LEMMA ReadActive ==
    ASSUME WInv, ReaderInv, NEW p \in Items \X Versions, ReadVersion(p)
    PROVE  ReaderInv'
<1>. SUFFICES ASSUME request = "active" PROVE ReaderInv'
  BY DEF ReadVersion, ReaderInv
<1>. USE DEF ReadVersion, disk
<1>1. op.phase # "idle" => op.item \in touched
  BY DEF ReaderInv
<1>. DEFINE g0 == [item |-> p[1], ver |-> p[2], rec |-> FileOf(p)]
<1>2. got' = got \cup {g0} /\ todo' = todo \ {p} /\ p \in todo
  OBVIOUS
<1>3. g0.item = p[1] /\ g0.rec = FileOf(p)
  OBVIOUS
<1>. HIDE DEF g0
<1>4. ASSUME NEW r \in Rules \ touched
      PROVE  AskedFor(r)' /\ ReadAsIs(r)' /\ Covered(r)'
  <2>1. AskedFor(r) /\ ReadAsIs(r) /\ Covered(r)
    BY DEF ReaderInv
  <2>2. Listed(r)' = Listed(r) /\ Current(r)' = Current(r) /\ CurrentFile(r)' = CurrentFile(r)
    BY DEF Listed, Current, CurrentFile
  <2>3. AskedFor(r)'
    BY <1>2, <2>1, <2>2 DEF AskedFor
  <2>4. p[1] = r => Listed(r) /\ p[2] = Current(r)
    BY <1>2, <2>1 DEF AskedFor
  <2>5. p[1] = r => FileOf(p) = CurrentFile(r)
    BY <2>4 DEF FileOf, CurrentFile
  <2>6. ReadAsIs(r)'
    BY <1>2, <1>3, <2>1, <2>2, <2>4, <2>5 DEF ReadAsIs
  <2>7. Covered(r)'
    <3>. SUFFICES ASSUME Listed(r)
                  PROVE  <<r, Current(r)>> \in todo' \/ \E g \in got' : g.item = r
      BY <2>2 DEF Covered
    <3>1. CASE p = <<r, Current(r)>>
      BY <3>1, <1>2, <1>3
    <3>2. CASE p # <<r, Current(r)>>
      BY <3>2, <1>2, <2>1 DEF Covered
    <3>. QED BY <3>1, <3>2
  <2>. QED BY <2>3, <2>6, <2>7
<1>. QED BY <1>1, <1>4 DEF ReaderInv

(* Every step preserves it.                                                *)
LEMMA ReaderNext == WInv /\ ReaderInv /\ [Next]_vars => ReaderInv'
<1>. SUFFICES ASSUME WInv, ReaderInv, [Next]_vars, request' = "active" PROVE ReaderInv'
  BY DEF ReaderInv
<1>1. ASSUME UNCHANGED reader, touched \subseteq touched',
             op'.phase # "idle" => op'.item \in touched'
      PROVE  ReaderInv'
  <2>1. op.phase # "idle" => op.item \in touched
    BY <1>1 DEF ReaderInv, reader
  <2>2. ASSUME NEW r \in Rules \ touched'
        PROVE  AskedFor(r)' /\ ReadAsIs(r)' /\ Covered(r)'
    <3>1. r \in Rules \ touched /\ (op.phase # "idle" => op.item # r)
      BY <1>1, <2>1
    <3>2. AskedFor(r) /\ ReadAsIs(r) /\ Covered(r)
      BY <1>1, <3>1 DEF ReaderInv, reader
    <3>3. /\ Listed(r)' = Listed(r) /\ Current(r)' = Current(r)
          /\ CurrentFile(r)' = CurrentFile(r)
      BY <3>1, OthersUntouched
    <3>4. AskedFor(r)'
      BY <1>1, <3>2, <3>3 DEF AskedFor, reader
    <3>5. ReadAsIs(r)'
      BY <1>1, <3>2, <3>3 DEF ReadAsIs, reader
    <3>6. Covered(r)'
      BY <1>1, <3>2, <3>3 DEF Covered, reader
    <3>. QED BY <3>4, <3>5, <3>6
  <2>. QED BY <1>1, <2>2 DEF ReaderInv
<1>2. request = "active" /\ op.phase # "idle" => op.item \in touched
  BY DEF ReaderInv
<1>3. CASE \E kind \in Kinds, i \in Items : \E v, rec, ptr : Begin(kind, i, v, rec, ptr)
  BY <1>1, <1>3 DEF Begin, reader
<1>4. CASE WriteVersion \/ WriteSuperseded \/ WriteManifest \/ Stop
  <2>1. UNCHANGED <<reader, touched>>
    BY <1>4 DEF WriteVersion, WriteSuperseded, WriteManifest, Stop
  <2>2. op.phase # "idle" /\ (op'.phase = "idle" \/ op'.item = op.item)
    <3>1. op \in Operation
      BY DEF WInv, DefinitionsTypeOK
    <3>. QED BY <1>4, <3>1 DEF WriteVersion, WriteSuperseded, WriteManifest, Stop, Idle, Operation
  <2>. QED BY <1>1, <1>2, <2>1, <2>2 DEF reader
<1>5. CASE Read
  <2>1. CASE ActiveOverrideRules
    BY <2>1, OpenActive
  <2>2. ASSUME NEW p \in Items \X Versions, ReadVersion(p) PROVE ReaderInv'
    BY <2>2, ReadActive
  <2>3. CASE \/ \E i \in Items : \E v : Load(i, v)
             \/ ListAgentDefinitions \/ ListOverrideRules
             \/ \E i \in Items : History(i)
             \/ \E p : ReadFails(p)
             \/ Return
    BY <2>3 DEF Load, ListAgentDefinitions, ListOverrideRules, List, History, Open, ReadFails,
       Return
  <2>. QED BY <1>5, <2>1, <2>2, <2>3 DEF Read, LoadAgentDefinition, LoadOverrideRule,
              AgentDefinitionHistory, OverrideRuleHistory
<1>6. CASE UNCHANGED vars
  BY <1>6, <1>1, <1>2 DEF vars, reader
<1>. QED BY <1>3, <1>4, <1>5, <1>6, StepCases

(* The invariants give the promise: a rule that is neither torn nor        *)
(* touched has its pointer's status in the file that was read.             *)
LEMMA ReaderEnough == WInv /\ ReaderInv => GoverningRulesComplete
<1>. SUFFICES ASSUME WInv, ReaderInv, request = "active", todo = {},
                     NEW r \in Rules \ (torn \cup touched)
              PROVE  manifest[r].status = "active" <=> \E g \in Governing : g.item = r
  BY DEF GoverningRulesComplete
<1>1. ReadAsIs(r) /\ Covered(r) /\ (op.phase # "idle" => op.item # r)
  BY DEF ReaderInv
<1>2. Listed(r) => CurrentFile(r).status = manifest[r].status
  BY <1>1 DEF WInv, AgreesOrWriting, Agrees
<1>3. ~Listed(r) => manifest[r].status = "absent"
  BY DEF WInv, UnlistedHasNoStatus
<1>4. ASSUME manifest[r].status = "active" PROVE \E g \in Governing : g.item = r
  BY <1>1, <1>2, <1>3, <1>4 DEF Covered, ReadAsIs, Governing
<1>5. ASSUME NEW g \in Governing, g.item = r PROVE manifest[r].status = "active"
  BY <1>1, <1>2, <1>5 DEF ReadAsIs, Governing
<1>. QED BY <1>4, <1>5

(* The set of rules that shapes a generation is the set the manifest calls *)
(* active, but for rules an operation is working on, or stopped halfway.   *)
THEOREM GoverningComplete == Spec => []GoverningRulesComplete
<1>1. Init => ReaderInv
  BY DEF Init, ReaderInv
<1>. QED BY <1>1, ReaderNext, ReaderEnough, Invariance, PTL DEF Spec
=============================================================================
