--------------------------- MODULE ProjectCommands ----------------------------
(***************************************************************************)
(* The commands that work on projects, over ProjectStore: RunPrompt of     *)
(* internal/orchestrator, Run and Import of internal/analysis, the import  *)
(* of internal/projectimport, workbench run of internal/cli, and the plain *)
(* edits of internal/cli and internal/httpapi.                             *)
(*                                                                         *)
(* A command looks its project up without the lock, may work for minutes,  *)
(* and records what it made in later cycles under the lock.                *)
(***************************************************************************)
EXTENDS ProjectStore, WorkbenchRunner

CONSTANTS
    Extracted,  (* bound: how many requirements an analysis extracts        *)
    OutputName, (* the artifact name of an analysis                         *)
    Legacy      (* the flat document the store starts with                  *)

Artifacts == [id : Nat, name : ArtNames, type : {"generated", "test-result", "doc"},
              pinned : BOOLEAN, ver : Nat, parent : Nat]

ASSUME CommandAssumption ==
    /\ NoOne \notin Commands /\ Extracted \in Nat /\ OutputName \in ArtNames
    /\ Legacy \in [name : Names, arts : Seq(Artifacts), imported : {FALSE}]
    /\ "none" \notin Names

(* The revisions of a name are numbered 1, 2, ... in the order they were   *)
(* added, and the artifact each one was made from was there before it.     *)
Dense(doc) ==
    \A i \in DOMAIN doc.arts :
        /\ doc.arts[i].ver = Cardinality({j \in 1..i : doc.arts[j].name = doc.arts[i].name})
        /\ doc.arts[i].parent # 0 => \E j \in 1..(i - 1) : doc.arts[j].id = doc.arts[i].parent

(* The older version added artifacts to its one file as this one does.     *)
ASSUME LegacyAssumption == Dense(Legacy)

VARIABLE cmd    (* cmd[c]: how far the command is and what it knows         *)

vars == <<storeVars, cmd, runner>>

NoCmd == [stage |-> "idle", kind |-> "none", ref |-> "none", entries |-> {}, p |-> "none",
          loaded |-> NoDoc, target |-> 0, made |-> 0, left |-> 0]

CmdInit ==
    /\ dir = [p \in Ids |-> NoDoc]
    /\ \E p \in Ids : flat = [q \in Ids |-> IF q = p THEN Legacy ELSE NoDoc]
    /\ reqs = [p \in Ids |-> <<>>]
    /\ op = NoOp
    /\ born = Len(Legacy.arts)
    /\ cmd = [c \in Commands |-> NoCmd]
    /\ RunnerInit

At(c, stage) == cmd[c].stage = stage
Turns(c, new) == cmd' = [cmd EXCEPT ![c] = new]
Failed == [NoCmd EXCEPT !.stage = "failed"]
Fails(c) == Turns(c, Failed) /\ UNCHANGED storeVars

-----------------------------------------------------------------------------
(* Create and projectimport.Import: a new id, a name nobody has.           *)
Fresh == {p \in Ids : ByID(p) = NoDoc}

Create(c, name) ==
    /\ At(c, "idle") /\ LockFree
    /\ \/ NameTaken(name) /\ Fails(c)
       \/ /\ ~NameTaken(name)
          /\ \E p \in Fresh : Write(c, p, [NoDoc EXCEPT !.name = name])
          /\ Turns(c, [NoCmd EXCEPT !.stage = "update", !.kind = "create"])
          /\ UNCHANGED born

(* The snapshot is put together in memory, with the documents it found     *)
(* (here one at most) as artifacts.  It cannot be read, two artifacts of a *)
(* name differ in type, or the project's name is taken: nothing is stored. *)
Imported(name) == [NoDoc EXCEPT !.name = name, !.imported = TRUE]

ImportProject(c, name) ==
    /\ At(c, "idle") /\ LockFree
    /\ \/ Fails(c)
       \/ /\ ~NameTaken(name)
          /\ \E p \in Fresh :
             \/ Begin(c, "stage", p, Imported(name), <<0>>) /\ UNCHANGED born
             \/ \E n \in ArtNames :
                /\ born < MaxArts /\ born' = born + 1
                /\ Begin(c, "stage", p, AddArtifact(Imported(name), born + 1, n, "doc"), <<0>>)
          /\ Turns(c, [NoCmd EXCEPT !.stage = "update", !.kind = "import"])
          /\ UNCHANGED <<dir, flat, reqs>>

-----------------------------------------------------------------------------
(* The others resolve the project first.  The directory's document, or the *)
(* list of files, is read before the files themselves.                     *)
Start(c, kind, ref) ==
    /\ At(c, "idle")
    /\ Turns(c, [NoCmd EXCEPT
         !.stage = "resolve", !.kind = kind, !.ref = ref,
         !.entries = IF ref \in Ids THEN {<<IF dir[ref] # NoDoc THEN "dir" ELSE "flat", ref>>}
                     ELSE Entries])
    /\ UNCHANGED storeVars

RunPrompt(c, ref) == Start(c, "prompt", ref)
Analyze(c, ref) == Start(c, "analysis", ref)
Workbench(c, ref) == Start(c, "workbench", ref)

(* A file that is gone by now fails the lookup.                            *)
ResolveFails(c) ==
    /\ At(c, "resolve")
    /\ \/ ~(cmd[c].entries \subseteq Entries)
       \/ \A e \in cmd[c].entries : cmd[c].ref \notin {e[2], Holds(e).doc.name}
    /\ Fails(c)

(* RunPrompt and workbench run also resolve a target, any revision by its  *)
(* id or the latest by its name, or find none; only RunPrompt keeps the    *)
(* reference it was given, the others go on with the id of the project.    *)
ResolveProject(c) ==
    /\ At(c, "resolve") /\ cmd[c].entries \subseteq Entries
    /\ \E e \in cmd[c].entries : \E target \in ArtIds(Holds(e).doc) \cup {0} :
        /\ cmd[c].ref \in {e[2], Holds(e).doc.name}
        /\ cmd[c].kind = "analysis" => target = 0
        /\ Turns(c, [cmd[c] EXCEPT
             !.stage = "generate", !.entries = {}, !.p = e[2], !.loaded = Holds(e).doc,
             !.target = target, !.ref = IF cmd[c].kind = "prompt" THEN @ ELSE e[2]])
    /\ UNCHANGED storeVars

(* No target, a preset or provider that is not there, an answer that is    *)
(* empty or does not parse: nothing has been written yet.                  *)
GenerateFails(c) == At(c, "generate") /\ Fails(c) /\ UNCHANGED runner

Generate(c) ==
    /\ At(c, "generate") /\ cmd[c].kind # "workbench"
    /\ \E n \in 0..Extracted :
        /\ cmd[c].kind = "prompt" => n = 0 /\ cmd[c].target # 0
        /\ Turns(c, [cmd[c] EXCEPT !.stage = "record", !.left = n])
    /\ UNCHANGED <<storeVars, runner>>

(* workbench run: the scenario is there and the runner starts.             *)
RunTests(c) ==
    /\ At(c, "generate") /\ cmd[c].kind = "workbench" /\ cmd[c].target # 0
    /\ StartRunner(c)
    /\ Turns(c, [cmd[c] EXCEPT !.stage = "run"])
    /\ UNCHANGED storeVars

TestsReturn(c) ==
    /\ At(c, "run") /\ RunReturns(c)
    /\ Turns(c, IF Readable(c) THEN [cmd[c] EXCEPT !.stage = "record"] ELSE Failed)
    /\ UNCHANGED <<storeVars, runner>>

(* Mutant: the copy loaded before the generation is saved.                 *)
RecordOnLoaded(c, name) ==
    /\ At(c, "record") /\ cmd[c].kind = "prompt" /\ LockFree /\ born < MaxArts
    /\ CanAdd(cmd[c].loaded, name, "generated")
    /\ Write(c, cmd[c].p, DeriveArtifact(cmd[c].loaded, cmd[c].target, born + 1, name, "generated"))
    /\ born' = born + 1
    /\ Turns(c, [cmd[c] EXCEPT !.stage = "update", !.made = born + 1, !.loaded = NoDoc])

(* The Update of RunPrompt and workbench run: the project is resolved      *)
(* again, under the lock.                                                  *)
Made(c) == IF cmd[c].kind = "prompt" THEN "generated" ELSE "test-result"

Record(c, name) ==
    /\ At(c, "record") /\ cmd[c].kind # "analysis" /\ LockFree /\ born < MaxArts
    /\ \E x \in Resolve(cmd[c].ref) :
        \/ /\ cmd[c].target \in ArtIds(x.doc) /\ CanAdd(x.doc, name, Made(c))
           /\ Write(c, x.p, DeriveArtifact(x.doc, cmd[c].target, born + 1, name, Made(c)))
           /\ born' = born + 1
           /\ Turns(c, [cmd[c] EXCEPT !.stage = "update", !.p = x.p, !.made = born + 1,
                                      !.loaded = NoDoc])
        \/ /\ cmd[c].target \notin ArtIds(x.doc) \/ ~CanAdd(x.doc, name, Made(c))
           /\ Fails(c)

(* Mutant: the requirements first, the artifact when they are all there.   *)
PersistLater(c) ==
    /\ At(c, "record") /\ cmd[c].kind = "analysis" /\ LockFree /\ born < MaxArts
    /\ born' = born + 1
    /\ Turns(c, [cmd[c] EXCEPT !.stage = IF cmd[c].left > 0 THEN "extract" ELSE "failed",
                               !.made = born + 1, !.loaded = NoDoc])
    /\ UNCHANGED <<dir, flat, reqs, op>>

(* persist: the artifact first, so that requirements can point back at it. *)
PersistArtifact(c) ==
    /\ At(c, "record") /\ cmd[c].kind = "analysis" /\ LockFree /\ born < MaxArts
    /\ \/ /\ CanAdd(ByID(cmd[c].p), OutputName, "doc")
          /\ Write(c, cmd[c].p, AddArtifact(ByID(cmd[c].p), born + 1, OutputName, "doc"))
          /\ born' = born + 1
          /\ Turns(c, [cmd[c] EXCEPT !.stage = "update", !.made = born + 1, !.loaded = NoDoc])
       \/ ~CanAdd(ByID(cmd[c].p), OutputName, "doc") /\ Fails(c)

(* persist: one CreateRequirement after the other, each with a lock of its *)
(* own; one that fails leaves those before it.                             *)
Extract(c) ==
    /\ At(c, "extract") /\ LockFree
    /\ \/ /\ ~ByID(cmd[c].p).imported
          /\ Begin(c, "requirement", cmd[c].p, ByID(cmd[c].p), Append(reqs[cmd[c].p], cmd[c].made))
          /\ Turns(c, [cmd[c] EXCEPT !.stage = "update", !.left = @ - 1])
          /\ UNCHANGED <<dir, flat, reqs, born>>
       \/ ByID(cmd[c].p).imported /\ Fails(c)

(* An edit of an artifact: one Update by id or by name.                    *)
Pin(c, ref) ==
    /\ At(c, "idle") /\ LockFree
    /\ \E x \in Resolve(ref) : \E a \in ArtIds(x.doc) :
        /\ Write(c, x.p, SetPinned(x.doc, a))
        /\ Turns(c, [NoCmd EXCEPT !.stage = "update", !.kind = "pin", !.p = x.p, !.target = a])
    /\ UNCHANGED born

-----------------------------------------------------------------------------
LockTimesOut(c) == cmd[c].stage \in {"record", "extract"} /\ ~LockFree /\ Fails(c)

(* The store's writes; the last one lets its command go on.                *)
Finished == op' = NoOp
Continues(c) ==
    Turns(c, [cmd[c] EXCEPT !.stage = IF cmd[c].left > 0 THEN "extract" ELSE "done"])

Writes ==
    /\ WriteRequirement \/ WriteDocument \/ RemoveLegacy \/ Stage \/ Publish
    /\ IF Finished THEN Continues(op.by) ELSE UNCHANGED cmd

WriteFails == StopWriting /\ Turns(op.by, Failed)

Works(c) ==
    \/ Generate(c) \/ GenerateFails(c) \/ RunTests(c) \/ TestsReturn(c)
    \/ At(c, "run") /\ RunnerStep(c) /\ UNCHANGED <<storeVars, cmd>>
    \/ /\ \/ ResolveFails(c) \/ ResolveProject(c) \/ PersistArtifact(c) \/ Extract(c)
          \/ LockTimesOut(c) \/ \E n \in ArtNames : Record(c, n)
       /\ UNCHANGED runner

Asks(c) ==
    \/ \E n \in Names : Create(c, n) \/ ImportProject(c, n)
    \/ \E ref \in Ids \cup Names :
        RunPrompt(c, ref) \/ Analyze(c, ref) \/ Workbench(c, ref) \/ Pin(c, ref)

CmdNext ==
    \/ \E c \in Commands : Asks(c) /\ UNCHANGED runner
    \/ \E c \in Commands : Works(c)
    \/ (Writes \/ WriteFails) /\ UNCHANGED runner

CmdSpec == CmdInit /\ [][CmdNext]_vars

-----------------------------------------------------------------------------
Docs == {Holds(e).doc : e \in Entries}

(* Types; a command waits for the store exactly while the write is its     *)
(* own, and only a command that runs its tests has a runner.               *)
ProjectsTypeOK ==
    /\ \A doc \in Docs : doc.name \in Names
    /\ op.by \in Commands \cup {NoOne}
    /\ op.phase \in {"none", "requirement", "document", "legacy", "stage", "publish"}
    /\ \A c \in Commands :
        /\ cmd[c].stage \in {"idle", "resolve", "generate", "run", "record", "update", "extract",
                             "done", "failed"}
        /\ runner[c].alive \/ runner[c].held => At(c, "run")
        /\ runner[c].output \in Outputs
        /\ At(c, "update") <=> op.by = c

(* "rejecting duplicate names" (dirstore.go:128): two projects never have  *)
(* one name, imports, migrations and stops included.                       *)
NamesUnique ==
    \A e, f \in Entries : Holds(e).doc.name = Holds(f).doc.name => e[2] = f[2]

(* "so a concurrent run cannot be lost" (orchestrator.go:181): what a      *)
(* command reported done stays in the one document of its project,         *)
(* whatever ran while it was generating and whatever stopped before.       *)
ResultsKept ==
    \A c \in Commands :
        At(c, "done") =>
            /\ cmd[c].made # 0 => cmd[c].made \in ArtIds(dir[cmd[c].p]) /\ flat[cmd[c].p] = NoDoc
            /\ cmd[c].kind = "pin" =>
                \E a \in ToSet(dir[cmd[c].p].arts) : a.id = cmd[c].target /\ a.pinned

(* The history of an artifact is a history in every document that can be   *)
(* found, whichever commands added to it meanwhile and whatever stopped.   *)
RevisionsDense == \A doc \in Docs : Dense(doc)

(* "The artifact is stored first so requirement provenance can point back  *)
(* at it" (analyzer.go:218): also when the analysis stops halfway.         *)
ProvenanceResolves ==
    \A p \in Ids : \A i \in DOMAIN reqs[p] : reqs[p][i] # 0 => reqs[p][i] \in ArtIds(ByID(p))

(* An imported project appears with all its requirements, and they never   *)
(* change: analyses of it store their artifact and no requirement.         *)
ImportsWhole == \A p \in Ids : ByID(p).imported => reqs[p] = <<0>>

(* "a failing test run is a result", "Errors are reserved for the process  *)
(* not running at all ... or being killed by the deadline" (exec.go:83):   *)
(* a recorded run finished before its deadline with a whole report, which  *)
(* nobody was writing to any more when it was read.                        *)
RecordedRunsFinished ==
    \A c \in Commands :
        cmd[c].kind = "workbench" /\ cmd[c].stage \in {"record", "update", "done"} =>
            runner[c] = [NoRunner EXCEPT !.output = "report"]
=============================================================================
