------------------------- MODULE AgentDefinitionStore -------------------------
(***************************************************************************)
(* The agent definitions and the override rules of one project, written by *)
(* internal/store/agentdefinitions.go.  Both are histories of version      *)
(* files, <name>.v<n>.md and <id>.v<n>.json, and ONE manifest,             *)
(* current.json, points at the current version of each.                    *)
(*                                                                         *)
(* withAgentDefinitions holds the store's lock (StoreMutex) around an      *)
(* operation, whose writes, each an atomic rename, follow one at a time:   *)
(* the new version, the version a rule update supersedes, the manifest.    *)
(* (project.json, written last, only gets a new updated_at and is left     *)
(* out.)  Between two writes the process may be killed or a write may      *)
(* fail.  A reader in another process takes no lock file: it reads the     *)
(* manifest once, then the version files one by one.                       *)
(***************************************************************************)
EXTENDS Naturals, FiniteSets

CONSTANTS
    Agents,      (* the names of agent definitions                          *)
    Rules,       (* the ids of override rules                               *)
    MaxVersion,  (* bound: versions of an agent definition or a rule        *)
    Texts,       (* what a version may say                                  *)
    Unparseable, (* the texts with a line break in a front matter field     *)
    NoText       (* the text of a version that does not exist               *)

ASSUME DefinitionAssumption ==
    /\ Agents \cap Rules = {}
    /\ MaxVersion \in Nat \ {0}
    /\ Unparseable \subseteq Texts
    /\ NoText \notin Texts

VARIABLES
    file,      (* file[i][v]: version v of the definition or rule i         *)
    manifest,  (* current.json: the pointer of each definition and rule     *)
    op,        (* the operation under way and what it has still to write    *)
    torn,      (* history: rules whose pointer was not written after the
                  file of their current version was                         *)
    request,   (* what the reader was called for                            *)
    todo,      (* the versions, <<i, v>>, the reader has still to read      *)
    got,       (* what it has read: records with item, ver and rec          *)
    touched    (* history: rules an operation worked on since the request   *)

disk == <<file, manifest>>
reader == <<request, todo, got>>
vars == <<disk, op, torn, reader, touched>>

Items == Agents \cup Rules
Versions == 1..MaxVersion
Settable == {"active", "obsolete"}
Statuses == Settable \cup {"superseded", "absent"}

(* A version file.  An agent definition has no status: it stays "active".  *)
Record == [text : Texts \cup {NoText}, status : Statuses]
NoFile == [text |-> NoText, status |-> "absent"]

(* AgentDefinitionPointer and OverrideRulePointer; current 0: not listed.  *)
Pointer == [current : 0..MaxVersion, versions : SUBSET Versions, status : Statuses]
NoPointer == [current |-> 0, versions |-> {}, status |-> "absent"]

Current(i) == manifest[i].current
Listed(i) == Current(i) # 0
CurrentFile(i) == file[i][Current(i)]

(* ParseAgentDefinitionMarkdown refuses the front matter that Markdown     *)
(* writes for a description or a metadata value of two lines; a rule is    *)
(* JSON and always comes back.                                             *)
Parses(i, rec) == rec # NoFile /\ (i \in Agents => rec.text \notin Unparseable)

Kinds == {"create", "update", "status"}
Phases == {"idle", "version", "supersede", "manifest"}
Operation == [phase : Phases, kind : Kinds, item : Items \cup {"none"}, ver : 0..MaxVersion,
              rec : Record, ptr : Pointer]
Idle == [phase |-> "idle", kind |-> "create", item |-> "none", ver |-> 0,
         rec |-> NoFile, ptr |-> NoPointer]
Requests == {"none", "load", "list", "active", "history"}

Init ==
    /\ file = [i \in Items |-> [v \in Versions |-> NoFile]]
    /\ manifest = [i \in Items |-> NoPointer]
    /\ op = Idle
    /\ torn = {}
    /\ request = "none" /\ todo = {} /\ got = {} /\ touched = {}

-----------------------------------------------------------------------------
(* withAgentDefinitions up to the first write: no operation is under way;  *)
(* what `mutate` reads decides the file and the pointer to write.          *)
Begin(kind, i, v, rec, ptr) ==
    /\ op.phase = "idle"
    /\ op' = [phase |-> "version", kind |-> kind, item |-> i, ver |-> v, rec |-> rec, ptr |-> ptr]
    /\ touched' = touched \cup {i}
    /\ UNCHANGED <<disk, torn, reader>>

(* The first version; its name or id is not in the manifest yet, although  *)
(* a creation that stopped may have left its file.                         *)
Create(i, x, s) ==
    /\ ~Listed(i)
    /\ Begin("create", i, 1, [text |-> x, status |-> s],
             [current |-> 1, versions |-> {1}, status |-> s])

(* Mutant: the next version takes the number of the current one.           *)
UpdateInPlace(i, x) ==
    /\ Listed(i)
    /\ Parses(i, CurrentFile(i))
    /\ Begin("update", i, Current(i), [text |-> x, status |-> "active"],
             [manifest[i] EXCEPT !.status = "active"])

(* NextVersion: the current version must be read back; the new one is      *)
(* active, since no caller passes a status and normalize fills it in.      *)
Update(i, x) ==
    LET next == Current(i) + 1 IN
    /\ Listed(i)
    /\ Parses(i, CurrentFile(i))
    /\ next \in Versions
    /\ Begin("update", i, next, [text |-> x, status |-> "active"],
             [current |-> next, versions |-> manifest[i].versions \cup {next}, status |-> "active"])

CreateAgentDefinition(a, x) == Create(a, x, "active")
UpdateAgentDefinition(a, x) == Update(a, x)
CreateOverrideRule(r, x, s) == Create(r, x, s)
UpdateOverrideRule(r, x) == Update(r, x)

(* Mutant: the pointer does not follow the current version's status.       *)
SetStatusOfFile(r, v, s) ==
    /\ Listed(r)
    /\ file[r][v].status \in Settable
    /\ Begin("status", r, v, [file[r][v] EXCEPT !.status = s], manifest[r])

(* Any version whose file is there, one the manifest does not list         *)
(* included; a superseded one is frozen.  The pointer follows the current  *)
(* version's status only.                                                  *)
SetOverrideRuleStatus(r, v, s) ==
    /\ Listed(r)
    /\ file[r][v].status \in Settable
    /\ Begin("status", r, v, [file[r][v] EXCEPT !.status = s],
             IF v = Current(r) THEN [manifest[r] EXCEPT !.status = s] ELSE manifest[r])

AfterVersion == IF op.kind = "update" /\ op.item \in Rules THEN "supersede" ELSE "manifest"

WriteVersion ==
    /\ op.phase = "version"
    /\ file' = [file EXCEPT ![op.item][op.ver] = op.rec]
    /\ op' = [op EXCEPT !.phase = AfterVersion]
    /\ UNCHANGED <<manifest, torn, reader, touched>>

(* Mutant: the superseded version is removed.                              *)
RemoveSuperseded ==
    /\ op.phase = "supersede"
    /\ file' = [file EXCEPT ![op.item][op.ver - 1] = NoFile]
    /\ op' = [op EXCEPT !.phase = "manifest"]
    /\ UNCHANGED <<manifest, torn, reader, touched>>

(* A rule alone: the version that was current is written as superseded.    *)
WriteSuperseded ==
    /\ op.phase = "supersede"
    /\ file' = [file EXCEPT ![op.item][op.ver - 1].status = "superseded"]
    /\ op' = [op EXCEPT !.phase = "manifest"]
    /\ UNCHANGED <<manifest, torn, reader, touched>>

(* The operation wrote the file that its pointer makes or keeps current.   *)
WritesCurrent == op.item \in Rules /\ op.ver = op.ptr.current

(* The manifest as it was read, with this one pointer, also for a status   *)
(* that does not change it; the lock is released.                          *)
WriteManifest ==
    /\ op.phase = "manifest"
    /\ manifest' = [manifest EXCEPT ![op.item] = op.ptr]
    /\ torn' = IF WritesCurrent THEN torn \ {op.item} ELSE torn
    /\ op' = Idle
    /\ UNCHANGED <<file, reader, touched>>

(* The process is killed or a write fails: nothing is undone.  A kill      *)
(* between the two files of an update has already taken the version file;  *)
(* the pointer is stale once the current version's file was changed.       *)
Stop ==
    /\ op.phase # "idle"
    /\ torn' = IF op.phase = "manifest" /\ WritesCurrent THEN torn \cup {op.item} ELSE torn
    /\ op' = Idle
    /\ UNCHANGED <<disk, reader, touched>>

-----------------------------------------------------------------------------
(* The readers.                                                            *)
Open(what, versions) ==
    /\ request = "none"
    /\ request' = what
    /\ todo' = versions
    /\ got' = {}
    /\ touched' = IF op.phase = "idle" THEN {} ELSE {op.item}
    /\ UNCHANGED <<disk, op, torn>>

(* Version 0 is the current one; any other number is tried as it is.       *)
Load(i, v) == Listed(i) /\ Open("load", {<<i, IF v = 0 THEN Current(i) ELSE v>>})
List(what, items) == Open(what, {<<i, Current(i)>> : i \in {j \in items : Listed(j)}})
History(i) == Listed(i) /\ Open("history", {<<i, v>> : v \in manifest[i].versions})

LoadAgentDefinition(a, v) == Load(a, v)
ListAgentDefinitions == List("list", Agents)
AgentDefinitionHistory(a) == History(a)
LoadOverrideRule(r, v) == Load(r, v)
ListOverrideRules == List("list", Rules)
ActiveOverrideRules == List("active", Rules)
OverrideRuleHistory(r) == History(r)

(* The version files one by one, those of one history in ascending order.  *)
Comes(p) == \A q \in todo : p[1] = q[1] => p[2] <= q[2]
FileOf(p) == file[p[1]][p[2]]

ReadVersion(p) ==
    /\ p \in todo /\ Comes(p)
    /\ Parses(p[1], FileOf(p))
    /\ got' = got \cup {[item |-> p[1], ver |-> p[2], rec |-> FileOf(p)]}
    /\ todo' = todo \ {p}
    /\ UNCHANGED <<disk, op, torn, request, touched>>

(* A file that is missing or cannot be parsed fails the whole call.        *)
ReadFails(p) ==
    /\ p \in todo /\ Comes(p)
    /\ ~Parses(p[1], FileOf(p))
    /\ request' = "none" /\ todo' = {} /\ got' = {}
    /\ UNCHANGED <<disk, op, torn, touched>>

(* ActiveOverrideRules returns those of `got` whose file says active.      *)
Governing == {g \in got : g.rec.status = "active"}

Return ==
    /\ request # "none" /\ todo = {}
    /\ request' = "none" /\ got' = {}
    /\ UNCHANGED <<disk, op, torn, todo, touched>>

-----------------------------------------------------------------------------
Write ==
    \/ \E a \in Agents, x \in Texts : CreateAgentDefinition(a, x) \/ UpdateAgentDefinition(a, x)
    \/ \E r \in Rules, x \in Texts, s \in Settable : CreateOverrideRule(r, x, s)
    \/ \E r \in Rules, x \in Texts : UpdateOverrideRule(r, x)
    \/ \E r \in Rules, v \in Versions, s \in Settable : SetOverrideRuleStatus(r, v, s)
    \/ WriteVersion \/ WriteSuperseded \/ WriteManifest \/ Stop

Read ==
    \/ \E a \in Agents, v \in Versions \cup {0} : LoadAgentDefinition(a, v)
    \/ \E r \in Rules, v \in Versions \cup {0} : LoadOverrideRule(r, v)
    \/ ListAgentDefinitions \/ ListOverrideRules \/ ActiveOverrideRules
    \/ \E a \in Agents : AgentDefinitionHistory(a)
    \/ \E r \in Rules : OverrideRuleHistory(r)
    \/ \E p \in Items \X Versions : ReadVersion(p) \/ ReadFails(p)
    \/ Return

Next == Write \/ Read
Spec == Init /\ [][Next]_vars

-----------------------------------------------------------------------------
DefinitionsTypeOK ==
    /\ file \in [Items -> [Versions -> Record]]
    /\ manifest \in [Items -> Pointer]
    /\ op \in Operation
    /\ op.phase # "idle" => /\ op.item \in Items /\ op.ver \in Versions
                            /\ op.rec.text \in Texts /\ op.rec.status \in Settable
    /\ torn \subseteq Rules /\ touched \subseteq Items
    /\ request \in Requests /\ todo \subseteq Items \X Versions
    /\ got \subseteq [item : Items, ver : Versions, rec : Record]

(* "keeping every earlier version retrievable" (agentdefinitions.go:159):  *)
(* at every moment, stopped operations included, a pointer lists exactly   *)
(* the versions 1 to current and each has its file.                        *)
PointersReadable ==
    \A i \in Items :
        /\ manifest[i].versions = 1..Current(i)
        /\ \A v \in 1..Current(i) : file[i][v] # NoFile

(* A suite cites a rule version; at most one version of a rule may be      *)
(* active, so every listed version below the current one is superseded.    *)
OldRulesSuperseded ==
    \A r \in Rules, v \in Versions : v < Current(r) => file[r][v].status = "superseded"

(* The status rule-list shows and the pointer's agree, and are not         *)
(* superseded, unless an operation on the rule stopped between the two.    *)
PointerAgreesUnlessTorn ==
    \A r \in Rules \ torn :
        Listed(r) /\ op.phase = "idle" =>
            CurrentFile(r).status = manifest[r].status /\ manifest[r].status \in Settable

(* "a suite generated earlier cites the exact rule version that shaped it, *)
(* so that version must stay readable" (agentdefinitions.go:303): what a   *)
(* listed version says never changes, and no pointer ever loses a version. *)
CitedVersionsFixed ==
    [][\A i \in Items : \A v \in manifest[i].versions :
          v \in manifest'[i].versions /\ file'[i][v].text = file[i][v].text]_vars

(* A list or a history opened on any manifest, however stale by now, only  *)
(* asks for files that are there.                                          *)
ListsStayReadable ==
    request \in {"list", "active", "history"} => \A p \in todo : file[p[1]][p[2]] # NoFile

(* ActiveOverrideRules, "the set that shapes a new generation": a rule no  *)
(* operation worked on during the call, or stopped halfway before it, is   *)
(* in the set exactly when the manifest says it is active.                 *)
GoverningRulesComplete ==
    request = "active" /\ todo = {} =>
        \A r \in Rules \ (torn \cup touched) :
            manifest[r].status = "active" <=> \E g \in Governing : g.item = r
=============================================================================
