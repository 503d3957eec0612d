# Loomwork: TLA+ models, checks and proofs

Loomwork is a Go program (with a Node bridge and a React front end) that keeps
projects, requirements, test suites, agent definitions and reports as JSON and
Markdown files, and generates artifacts and test suites from them with language
models. Its state is the directory tree of the *projects root*; it has no
database. Every command-line invocation is a process of its own, and a server
process may run next to them. What is hard to test here is what happens between
two file-system calls: another process, another thread, a kill, a failed write.

Paths below are relative to `src/`; `store/` etc. mean `src/internal/store/`.

## Inventory

| Component | Code | State it keeps | Operations | What makes it correct | Modules |
|---|---|---|---|---|---|
| Store lock | `store/lock.go`, `d.mu` of `store/dirstore.go` | the lock file `.lock`, one mutex per process | take, wait, break a stale lock, release | one read-modify-write cycle at a time, as long as nobody is killed or too slow; a killed process blocks nobody for good | `StoreLock`, `StoreMutex` |
| Requirement store | `store/dirstore.go:342-714`, `model/requirement.go` | version files, `index.json`, cached counts in `project.json` | create, update, amend, set status; list, load, history | append-only history; the index never points at nothing; a stopped operation leaves no half change that readers trip over | `RequirementStore`, `RequirementHistory`, `RequirementReaders` |
| Agent session and bridge | `provider/claudeagent.go`, `bridge/claude-agent-bridge.mjs`, `exec/stream.go` | turn, pending answer, tools; the bridge's inbox | start, send, run tool, close | an answer goes to the turn that asked; nobody waits for ever | `AgentBridge`, `AgentSession`, `AgentConversation` |
| Agent definition store | `store/agentdefinitions.go`, `model/agentdefinition.go` | definition and rule versions, `current.json` | create, update, set status; seven readers | cited versions keep their text; the active rules are complete | `AgentDefinitionStore` |
| Test suite store | `store/testsuites.go`, `model/testsuite.go` | version directories, case files, `current.json` | save; load, list, history | a stored version is what was generated and is never rewritten | `TestSuiteStore` |
| Override rules and audit | `model/overriderule.go`, `model/testsuite.go:481-566` | none | normalize, apply, flag | an unflagged suite honors every rule it was audited against | `OverrideAudit` |
| Test generation | `testgen/` | none | generate, import | a suite is judged by the inputs its run read | `TestGeneration` |
| Project store | `store/dirstore.go:129-340`, `store/snapshot.go`, `model/project.go` | `project.json` (or a legacy flat document), artifacts | create, update, resolve, migrate, import | names unique, updates not lost, imports published whole | `ProjectStore` |
| Process execution | `exec/exec.go` | a child process and its output | run | what is recorded is the report of a run that finished | `WorkbenchRunner` |
| Orchestrator, analysis, project import, workbench and artifact commands | `orchestrator/`, `analysis/`, `projectimport/`, `cli/workbench.go`, `cli/artifact.go` | none | one command each, of several store calls | a command that succeeded is kept, one that failed leaves nothing that dangles | `ProjectCommands` |
| Report store | `store/reports.go` | report files | add; list, load | a report is never overwritten, part of a report stays only where an upload was killed or its removal refused | `ReportStore` |
| Document suites | `model/documentsuites.go`, `httpapi/test_documents.go` | the folder list of a project | set, group documents | a document is in one suite | `DocumentSuites` |
| HTTP pages | `httpapi/items.go`, `httpapi/testability.go`, `httpapi/entities.go` | none (the browser keeps the tree) | item tree, rollup, open an item | pages made of several reads fit what is there later | `ProjectPages` |
| Traceability | `traceability/`, `httpapi/testability.go` | none | links, coverage | the two computations agree; no citation is lost | `Traceability` |
| Presets and parameters | `preset/`, `provider/provider.go` | the registry | validate, resolve, merge | each field from the right layer | `ModelParams` |
| Imported documents | `projectimport/speckit.go`, `traceability/requirements.go:139-228` | none | read line by line | examples are not requirements | `SpecDocuments` |
| Cuenote | `cuenote/`, `cli/cue.go` | cues and notes | create, resolve, render | the cue meant is found; its prompt is complete | `CueStore` |
| Stub agent, image generation, text providers, configuration, ingest, web UI | `provider/agentstub.go`, `provider/imgen.go`, `provider/`, `config/`, `ingest/`, `web/ui` | none that outlives a call (the web UI: view state) | one call each | conversions and lookups | see *Not modelled* |

How they interact: the CLI and the HTTP API call store methods directly, or
through the orchestrator, the analyzer and the test generator. Every mutating
store method takes `d.mu`, then the lock file, reads what it needs, writes
files one by one with temp-file-and-rename (`store/atomic.go`; reports are
written in place), and releases both. Readers take `d.mu` for reading and never
the lock file, so a reader in another process sees any prefix of a writer's
files. The generators read without the lock, call a model for seconds or
minutes, and then call a mutating method.

Hard behaviours: interleaved system calls of several processes on the lock
file; kills between any two writes; retries that meet leftovers of a stopped
operation; readers that see files of different moments; caches (counts, index
status) derived from other files; commands that act on what they read minutes
ago; answers of an abandoned agent turn; the deadline of a child process. Each
is a row of `hazards` in `PROJECT.json`, at its line, with the property that
would catch it going wrong.

## Plan

1. `StoreMutex`, `StoreLock`: the lock everything else rests on. *Done, with proofs.*
2. `RequirementHistory`, `RequirementStore`, `RequirementReaders`. *Done, with proofs.*
3. `AgentBridge`, `AgentSession`, `AgentConversation`. *Done, with proofs.*
4. `AgentDefinitionStore` and its readers. *Done, with proofs.*
5. `TestSuiteStore`, `OverrideAudit`, `TestGeneration`. *Done, with proofs.*
6. `ProjectStore`, `WorkbenchRunner`, `ProjectCommands`. *Done, with proofs.*
7. `ReportStore`, `DocumentSuites`, `ProjectPages`. *Done, with proofs.*
8. `Traceability`, `ModelParams`, `SpecDocuments`, `CueStore`, composed by `Queries`. *Done, with proofs.*

Every safety and action property that a run checks is proved. What is left, in
the order it would add most: an abstract map of project documents that
`ProjectCommands` implements; that `AgentSession` with abandoned turns
implements a conversation that may answer late; the poll loop of image
generation.

Composition: every store module takes the mutual exclusion of `StoreMutex` for
granted, as an untroubled `StoreMutex` gives it; `StoreLock` shows how far the lock
file delivers it, and when it does not. `ProjectCommands` sees a
requirement as one write, `RequirementStore` shows what that write is made of;
`TestGeneration` sees requirements and rules as their readers do, superseded in
the middle of an update, and takes from `AgentSession` that `Send` returns.

## Modules

### StoreLock, StoreMutex (`store/lock.go`)

A *thread* is a goroutine inside a mutating method, a *process* owns threads and
one `d.mu`. Every system call of `lockDir` on the lock file is one action:
`AcquireLock` and `FindLockHeld` (`OpenFile` with `O_EXCL`), `StatLock`,
`RemoveStale`, `CheckDeadline`; `EnterStore` and `ReleaseLock` are the method's
first and deferred calls. The lock file is its creator (`lockOwner`) and its age
(`lockAge`): the code writes the process id into it and never reads it.
`Crash(p)` kills a process, its mutex and its threads, and leaves its file.
`Tick` passes time. Nothing in the code bounds a cycle, and a lock is broken by
its age alone, so a cycle may outlast `StaleAfter`; which processes may be killed
and which threads may be too slow are bounds of a run (`Crashable`, `Slow`), not
assumptions: the theorems hold for all. `outlasted` is a history variable, the
threads that had such a cycle. `RemoveStale` and `ReleaseLock` remove whatever
file is there, as the code does. Errors of `OpenFile` other than `EEXIST` and
errors of `Remove` are left out, and so are the readers' `RLock` (see
`RequirementReaders`).

`StoreMutex` is what the lock delivers. Untroubled it has at most one holder.
Once a process was killed or a cycle was too slow (`troubled`), it may be
*exposed*: while a waiter is about to remove a lock file, or a holder has lost
its own, others may take the lock, though never two threads of one process; and
when it is exposed no longer it has at most one holder again. `ImplementsMutex`
maps its holders to the threads inside their cycles.

### RequirementStore, RequirementHistory (`store/dirstore.go`, `model/requirement.go`)

`file[r][v]` is `<id>.v<n>.json`, `index[r]` the entry of `index.json`, `counts`
the `ProjectIndex` cached in `project.json`. A version file is its text and its
status; tags, sources, metadata and timestamps travel with the text and decide
nothing. An operation *begins* by reading and checking everything it needs under
the lock (`Begin` and the four actions named as the methods), which fixes the
version file and the index entry it will write; then its writes happen one by
one: `WriteVersion`, `WriteSuperseded` (update only), `WriteIndex`,
`WriteProject`. `Stop` ends it between any two of them: a kill, or a write that
returned an error, since nothing is undone in either case. A write is atomic
because `writeFileAtomic` renames a complete temp file.

`torn` and `miscounted` are history variables: they record where an operation
stopped between a file and the index, or between the index and the counts, so
that the invariants say exactly how long a disagreement may last.

`RequirementHistory` is the promise: per requirement an append-only list of
texts, one current version, all changes all or nothing. The refinement reads
`latest` and `status` from the index and the texts up to the current version
from the files, so an update happens at the write of the index and an amendment
at the write of the file.

### RequirementReaders

One reader in another process: `ListRequirements`, `RequirementHistory` and
`LoadRequirement` read the index once (`Open`) and then one version file per
step (`ReadVersion`), between any steps of the writer. (Readers of the writer's
own process are excluded by `d.mu` and see less.) The lookup of a requirement by
its display id is left out: it reads the same files in the same way.

### AgentBridge, AgentSession, AgentConversation (`provider/claudeagent.go`, `exec/stream.go`, `bridge/claude-agent-bridge.mjs`)

`AgentBridge` is the Node process: `state.turn`, `state.inbox`, the pending tool
calls, and the two pipes. Node runs one callback at a time, so `handleLine` is
one action per type of line, and each stretch of `prompts`, `runSession` and a
tool between two awaits is one action. The agent SDK is external: it pulls
prompts, answers them in order, one result each, and runs one tool call at a time
(the tools carry no annotation that would let it run them in parallel).
`Killed` is a crash, the session's timeout or the end of its context.

`AgentSession` adds the Go side: `StartSession`, the senders in `Send` (`turnMu`,
registration under `mu`, the write, the `select` as one action per case), the
reader with `handle`, `deliver` and the inline tool handlers, and `Close` with
`Process.Close` step by step. A prompt is the number of its turn and an answer
the prompt it answers, so that an answer to the wrong turn is visible.
The reader stops at the end of the bridge's output, at a line that is too long for it
(any line may be), and when `Close` has closed the pipe; the bridge may live on.
`deliver`'s look at `pending` and its send to that channel are one action: the
channel belongs to one turn, and after the turn nobody reads it. `outcome` is a
history variable. The pipes are unbounded (a line fits in the
pipe's buffer or the other side reads it), malformed lines are left out: both
sides report them and go on.

`AgentConversation` is what `provider.AgentSession` promises: one turn at a
time, ended by the answer to its own prompt or by an error. The refinement maps
`turns` and `outcome` to themselves.

### AgentDefinitionStore (`store/agentdefinitions.go`, `model/agentdefinition.go`, `model/overriderule.go`)

Agent definitions and override rules are version files (`file[i][v]`) behind one
manifest, `current.json`. The five mutating methods begin, as those of the
requirement store do, by fixing what they will write; the new version, the
superseded version of a rule and the manifest follow one by one, and `Stop` ends
them anywhere. A definition's version is Markdown with a front matter: a text in
`Unparseable` is one with a line break in a front matter field, which the writer
accepts and the reader rejects. The seven readers of another process read the
manifest once and then file by file. `touched` and `torn` are histories: the
rules an operation worked on since the reader began, and those a stop left with
a pointer that disagrees with its current version.

### TestSuiteStore, OverrideAudit, TestGeneration (`store/testsuites.go`, `model/testsuite.go`, `model/overriderule.go`, `testgen/`)

`TestSuiteStore` writes one suite's version directory case by case, then
`suite.json`, then `current.json`; a stopped save leaves a directory into which
the next one writes. One suite is enough: suites share nothing but the lock.

`OverrideAudit` is pure: case ids are drawn around those the author gave
(`AssignIds`), conditions match on method, scenario and path pattern, an action
demands a status or an empty body, and `ApplyOverrideRules` cites what a case
follows and flags what it does not. A path pattern is a sequence of segments, `*`
one segment, `**` the rest.

`TestGeneration` runs `Generate` and `Import` from the first read to the last
write. Requirements and rules change meanwhile, as their readers see them:
superseded between the two writes of an update. A case links a requirement by its
id or by its reference, as the check of the links accepts. `stable` is a history: the rules
nobody touched between the start of the run and its reading of the rules.

### ProjectStore, WorkbenchRunner, ProjectCommands (`store/dirstore.go`, `store/snapshot.go`, `model/project.go`, `exec/exec.go`, `orchestrator/`, `analysis/`, `cli/`)

`ProjectStore` has the two forms of a project on disk, `dir[p]` and the flat
document `flat[p]` of an older version, the artifacts inside a document with
name, revision, parent and pin, and the write under way `op`: the requirement (a
single step here), `project.json`, the removal of the flat document, or the
staging and publication of an import. `Resolve` looks up by id, then by name;
after a stopped migration two files have one name and either may be found.

`ProjectCommands` has six kinds of commands, several at once: create, import,
prompt, analysis, workbench run, pin. A command resolves its project without the
lock (`Start` reads the list of files, `ResolveProject` the files), generates,
and records by id or by the reference it was given, resolving again under the
lock. An analysis stores its artifact and then requirement after requirement,
each with a lock of its own. Who stops, stops everywhere: `WriteFails` between
any two writes. A name stands for all its spellings; sources, tags and metadata
of a project are left out.

`WorkbenchRunner` is the child of `workbench run`: it prints a report piece by
piece, may leave a descendant that holds its output, exits, or is killed at the
deadline. Whether the output can be read is `ParseRunReport`'s verdict.

### ReportStore, DocumentSuites, ProjectPages (`store/reports.go`, `model/documentsuites.go`, `httpapi/`)

`ReportStore` is `AddReport` step by step: create with `O_EXCL`, write in place,
close; a failure removes the file (`failed`), unless the file system refuses that
too, whose error the code ignores (`stuck`), and a kill leaves it. `DocumentSuites` groups an
artifact under the configured folder that is a prefix of its name; folders are
accepted only if none is inside another. `ProjectPages` composes both with the
two pages that are put together from several store calls, one lock each: the
item tree (`ListProjectItems`) and the testability rollup. Other requests edit
the project between any two calls (`Edit`, single steps: their writes are the
matter of the stores' own modules). The tree then stays in the browser, the
state `tree`, and its items are opened later with the version it gave
(`GetProjectItem`), an item of every family: a folder of test documents is
looked up in the settings of that moment (`OpenFolder`). `missing` is the item
that was answered with 404. Reports of a rollup are read one by one after they were
listed; `by` remembers which upload made a file, which no code reads.

### Traceability, ModelParams, SpecDocuments, CueStore, Queries

Pure computations, as operators, each with the definition it must agree with.
`Traceability` has the links of `buildLinks` and the coverage of the rollup,
which the code computes in two packages; `ModelParams` the registry, its
validation, and the layers built-in, provider, model, preset, caller, as a chain
of `Merge`; `SpecDocuments` the line scanners of `spec.md` and of test scenarios, with code
blocks, as recursive functions (`SpecScans`, `ScenarioScans`) of the number of
lines read; `CueStore` the memory client, the lookup by id or name, and
rendering. `Queries` asks each of them every small input.

### Proof modules

`StoreLockProofs`, `RequirementStoreProofs` (with the readers),
`AgentSessionProofs`, `AgentDefinitionStoreProofs`, `TestGenerationProofs`,
`ProjectCommandsProofs`, `ProjectPagesProofs`, `QueriesProofs`; see *Proofs*.

## Runs

| Run | Shows | Bounds |
|---|---|---|
| `lock_crash` | a lock looks stale only if its owner is dead or too slow, waiters finish, abandoned locks go away, refinement of `StoreMutex` | 3 processes (server with 2 threads, two command lines), 2 of them may be killed, a thread of each of these 2 may be too slow; stale age 2 ticks, wait 1 |
| `lock_overlaps` | *violation*: two waiters break one dead lock, and the second breaks the first one's | 3 processes of one thread, one killed, no slow cycle |
| `requirements_interrupted` | index and counts agree unless an operation stopped in between, refinement of `RequirementHistory`, no list or history of a reader misses a file, a history shows one active version | 2 requirements, 2 versions, 2 texts, one of them while a reader reads; 1 reader |
| `agent_served` | Sends and Close return, refinement of `AgentConversation` | 2 senders, 3 turns, 2 tool calls, event buffer 1 |
| `agent_abandoned` | an answer is given once, Close stops the reader before it closes the channel, Sends and StartSession return although the bridge does nothing | as above, 1 tool call, a sender that may abandon |
| `agent_stale_answer` | *violation*: the answer to an abandoned turn is returned by the next | 2 turns |
| `definitions_interrupted` | cited versions keep their text, no reader misses a file, the active rules are complete but for those being worked on or left torn | 1 definition, 1 rule, 2 versions, 2 texts, one of them unreadable |
| `suites_generated` | a stored version is what its run returned and never changes, an unflagged one honors the rules, runs end | 2 runs, 2 suite versions, 1 requirement, 1 rule with 2 versions, 4 answers, 4 documents |
| `suites_unloadable` | *violation*: a stored version without cases cannot be loaded | as above |
| `projects_shared` | names unique, results kept, revisions dense, provenance resolves, imports whole, recorded runs finished | 3 commands, 2 ids, 2 names, 4 artifacts, 2 extracted requirements, one flat document, imports with at most 1 artifact |
| `projects_served` | items of a tree open but for failed reports and folders no longer named, documents are shown once, the last run is honest, reports are kept, parts accounted for | 2 uploads of 2 names, 1 entity and 1 suite with 2 versions, 2 artifacts, nested folders, 4 edits of entity, suite and artifacts |
| `queries_answered` | coverage and links agree, parameters come from the right layer, examples are ignored, prompts are complete, cues are kept | 2 requirements, 2 cases, registries of 2 entries, documents of 6 lines, 3 drawn ids |

The largest are `projects_served` (3.4 million states) and
`requirements_interrupted` (2.4 million), each below two minutes with two workers;
`projects_shared` has 1.1 million, `agent_abandoned` 0.6, `suites_generated` 0.5 and
`lock_crash` 0.3.

A run checks what says most: a property that a refinement or another property of
the run already contains, and one that is proved for all constants and says
little beyond its type, is left to the proofs. So type invariants,
`InProcessExclusion`, `OverlapsExplained`,
`RetainedVersionsReadable`, `OldVersionsSuperseded`, `HistoryFrozen`,
`PointersReadable`, `OldRulesSuperseded` and `PointerAgreesUnlessTorn` are in no
run and are theorems.

Why the bounds are enough. The lock's wait (1 tick) is shorter than its stale age
(2), as 30 s and 120 s are, so a waiter gives up before it may break a lock and
several generations of waiters pass; one tick past each
comparison distinguishes `>` from `>=`, and the clocks stop there. Three processes
are those of the two waiters that break one lock and its owner; a server with two
threads adds the mutex; kills and slow cycles may meet in one behaviour. The requirement store's operations touch
one requirement each and two consecutive versions (the superseded one and the new
one, or the leftover of a stopped update in its place); two requirements make the
index and the counts relate several entries, and two versions let a leftover be
met and overwritten. While a reader is at work the writer has one text
(`OneTextWhileReading`): the reader's properties are about which files are there and
the status in them, and texts are interchangeable (`TextSymmetry`). The same holds of definitions and rules, which share only
the manifest. A session's turns meet only the turn before and the turn after, so
three turns with two senders give every order; a second tool call follows a
first one in the same turn or in the next; the event buffer of one is full from
the handshake on. Two runs of the generator are the one that stops and the one
that meets its leftovers in the directory of version 1, or that adds version 2;
the answers and documents of `MCTestGeneration` follow, cite, break and miss the
rule, give a case id and leave one out. Of three commands on projects, one is in
the middle of its generation, one writes, and a third has stopped before them; two ids and
two names make a name and an id mean different projects. One JSON report with a
run time and one without, of two uploads, give every order of "latest"; a third
upload would meet at most what the second does. The tree depends on one earlier
and one later state of each part, which four edits (`FewEdits`) give to entity,
suite and artifacts, with any number of settings and uploads besides. `MaxReqs`, `MaxVersion`, `MaxSuiteVersion`,
`MaxArts`, `MaxTurns`, `MaxToolCalls`, `PipeBound`, `MaxSeq`, `Crashable` and `Slow` are the only
bounds in guards, `OneTextWhileReading` and `FewEdits` the only state constraints.
The proofs remove them.

`CHECK_DEADLOCK FALSE` is set where the system really may stop: an imported
read-only project accepts no operation (`requirements_interrupted`), a closed session has nothing left to do (the agent runs),
commands, runs, uploads and questions end (`projects_shared`, `suites_*`,
`projects_served`, `queries_answered`).

### Fairness

`AgentSession` states three: `HostFairness` for the goroutines (`turnMu` is a
`sync.Mutex`, which serves its waiters in turn; host tools return because they
only read what was loaded before the session started), `BridgeFairness` for a
bridge that reads and an SDK that answers, and `Timeout` for the kill at the end
of the session's time, which `exec.Start` always sets. `CloseReturns` needs the first
only, `SendReturns` the first and either of the others. Nobody has to call
`Send` or `Close`, and nobody reads the events.

In `StoreLock`, `FairSpec` asks for weak fairness of
each thread inside `lockDir` or its cycle (the Go scheduler runs every runnable
goroutine, and `lockDir` only sleeps) and of time, and that cycles do not outlast
the stale age for ever. The last is needed by `WaitersFinish`: `continue` skips the
deadline after a lock is broken, so that a waiter which breaks one slow cycle's lock
after the other, and loses each race afterwards, waits for ever. Two minutes are
far beyond the writes of a cycle, so an endless succession of such cycles is left
out. No fairness is assumed of
callers or of kills, and none of who wins the race for the lock:
`AbandonedLockIsBroken` assumes instead that somebody keeps calling the store,
because nothing in the program breaks a stale lock on its own.

`TestGeneration` asks for weak fairness of each run and of the save under way:
reads and writes of files finish or fail, and `Send` returns, which is
`SendReturns` of `AgentSession`. A run whose turn for the lock never comes times
out (`LockTimesOut`). The commands that change requirements and rules have no
fairness: an update may stay torn for ever.

## Findings

Each is a `violation` run whose property says what the quoted sentence says.

- The lock does not serialize the cycles of different processes once a lock file
  has to be broken (`store/lock.go:38-40`): between `Stat` and `Remove` the file may
  have become another process's fresh lock. `lock_overlaps` is the kill with three
  processes. With two, a live cycle of more than two minutes has its lock broken;
  its release then removes the lock file of the other, so that a third may enter as
  well. `OverlapsExplained` and `StoreMutex` say that nothing else makes cycles
  overlap, and that the lock recovers. (`lock_overlaps`)
- The bridge labels a result with the id of the latest prompt, not with that of
  the prompt answered (`bridge/claude-agent-bridge.mjs:241`): after an abandoned turn
  the next `Send` returns the abandoned turn's answer. The host's own check
  (`deliver`) is right and cannot see it. `testgen` sends one prompt per session
  and is not affected. (`agent_stale_answer`)
- A document with no cases but a list of case ids is stored as a version whose
  cases cannot be loaded (`model/testsuite.go:396`), and the item tree and the
  testability page of the project fail with it. (`suites_unloadable`)

### Observations

Seen while modelling, and part of the models (a stop, a lookup or a choice that
the code allows); none is claimed to be wrong, and no run is about them.

- `continue` after breaking a stale lock skips the deadline: a waiter that always
  loses the race afterwards waits longer than it says.
- A stop between the superseded version and the index (`store/dirstore.go:393`)
  leaves a current version that is superseded: only a new version gets out of it. The
  leftover version of a stopped update is retrievable by number and is overwritten by
  the next update (`store/dirstore.go:389`).
- An update of an obsolete requirement makes it active again
  (`model/requirement.go:140`), where a comment of the command line
  (`cli/requirement.go:66`) says that the status is inherited.
- A list across processes may return a superseded version (`store/dirstore.go:516`).
- An agent definition whose description or metadata has a line break is stored and
  can never be read again (`model/agentdefinition.go:203`,
  `store/agentdefinitions.go:238`).
- Two tool calls made in one millisecond get one id
  (`bridge/claude-agent-bridge.mjs:51`); the SDK runs these tools one at a time.
- A path pattern that mixes `*` and `**` takes `*` literally
  (`model/overriderule.go:121`).
- A reader by id may miss a project for a moment while its flat document is being
  replaced, and a list fails if a flat document vanishes between the listing of the
  directory and the reading of the file. After a stopped migration the stale flat
  document may be found by name and written back, without the artifact of the
  command that stopped.
- A command fails although its result is stored when the removal of the flat
  document fails (`orchestrator/orchestrator.go:101` says that a failure leaves the
  stored project untouched); so does a generation whose pointer was moved when
  the write of `project.json` fails after it.
- `exec.Run` sets no `WaitDelay` (`exec/exec.go:110`): a descendant that holds the
  runner's output keeps `Run` past its deadline. A run that finishes as the
  deadline passes is discarded as timed out.
- A folder of test documents in a tree answers 404 after the settings no longer
  name it (`httpapi/items.go:218`): the tree and the item are two requests.
- The errors of the two `root.Remove` of `AddReport` (`store/reports.go:170,174`) are
  ignored: a part of a report may stay although the upload reported its error, and
  its name is then taken.
- An over-long line of the bridge stops the reader while the bridge lives
  (`exec/stream.go:119`): every later `Send` fails.
- Of two requirements with one reference, which two features with the number 008
  have, traceability finds the last only and the rollup counts both.
- Parameters given by the caller are not checked against the ranges that the
  registry's values are.
- A code block ends the requirement before it: indented lines that follow the
  block belong to none.

## Proofs

`tlapm` proves, for every value of the constants:

- `StoreLockProofs`, from `LockAssumption` alone, for any processes, kills and
  cycles of any length: `Spec => []TypeOK`, `[]InProcessExclusion`,
  `StaleMeansDeadOrSlow` and `ImplementsMutex`; and `Overlaps`, that each thread
  inside its cycle owns the lock file and is the only one, unless a cycle has
  outlasted the stale age, or a process was killed and there are three or more.
  None of the exceptions can be dropped: `lock_overlaps` shows the second, and the
  first needs two processes only.
- `RequirementStoreProofs`: `Spec => []TypeOK`, `[]RetainedVersionsReadable`,
  `[]OldVersionsSuperseded`, `[]IndexAgreesUnlessTorn`,
  `[]CountsAgreeUnlessMiscounted`, `HistoryFrozen` and `ImplementsHistory`. The
  only assumptions are `RequirementAssumption`: the bounds are naturals, at least
  one version, and `NoText` is not a text.
  For the readers, `ReadersSpec => []ReadersTypeOK`, `[]SnapshotsStayReadable`
  and `[]HistoryShowsOldSuperseded`.
- `AgentSessionProofs`: `Spec => []SessionTypeOK` and `[]NoEmitAfterClose` from
  `BridgeAssumption` and `SessionAssumption` alone (the bounds are naturals, the
  senders finitely many), and `[]AnsweredOnce` from these too, whatever turns are
  abandoned; `AnswersOwnTurn` and `ImplementsConversation` when `NeverAbandoned`,
  that is, no caller's context ends in the middle of a turn. `agent_stale_answer`
  shows that this is needed.
- `AgentDefinitionStoreProofs`: types, `PointersReadable`, `OldRulesSuperseded`,
  `PointerAgreesUnlessTorn`, `CitedVersionsFixed`, `ListsStayReadable` and
  `GoverningRulesComplete`, from `DefinitionAssumption`.
- `TestGenerationProofs`: types, `ListedVersionsFrozen`, `StoredAsReturned`,
  `CompleteIsHonest` and `RulesInForceHonored`, from `SuiteAssumption`,
  `RunAssumption` and `SuitesAssumption`; and `AssignedNumbered`, that
  normalization gives no two cases one id.
- `ProjectCommandsProofs`: types, `NamesUnique`, `ResultsKept`, `RevisionsDense`,
  `ProvenanceResolves`, `ImportsWhole` and `RecordedRunsFinished`, from
  `ProjectAssumption` (ids are not names) and `CommandAssumption`;
  `RevisionsDense` in addition from `LegacyAssumption`, that the histories in the
  document an older version left are dense to begin with.
- `ProjectPagesProofs`: types, `AddedReportsKept`, `PartsAccountedFor`,
  `TreeItemsOpen`, `DocumentsShownOnce` and `LastRunHonest`, from
  `ReportAssumption` and `PagesAssumption`.
- `QueriesProofs`: `PromptsComplete` and `CuesKept` of a growing cue store from no
  assumption; `ParamsLayered` for every registry that loads, of any size;
  `RollupAgrees` for any requirements, cases and documents from
  `TraceAssumption` (no requirement has the id that stands for none); and
  `ExamplesIgnored` for documents of any length from `DocumentsAssumption`.

The inductive invariant of the requirement store, `IInv`, adds to the checked
invariants what the operation under way intends. `RetainedVersionsReadable` is
not inductive alone: the write of the index could list anything. `PlanOK` says
what an operation may have planned (it writes no version below the current one,
an update is to the next version, the entry lists 1 to its current version, its
status is that of the file if the file is the current one), `ProgressOK` what is
already on disk in each phase (before the index is written, the new version and,
for an update, the superseded one), and `AgreesOrWriting` and `CountsOK` extend
the two agreement invariants to the states in the middle of an operation. Each
method's beginning establishes the plan (`BeginInvariant` and one lemma per
method), each write one lemma, `NextInvariant` combines them. The refinement
needs `TextOK` in addition: a status change carries the text it read. `WInv` of
`AgentDefinitionStoreProofs` follows the same argument with one manifest.

A reader's snapshot is old when it is used. `RInv` says that what it listed is
still on disk, since no file is taken away, and `HistoryInv` that a history reads
upwards and no further than the version that is current now, so that all but the
last version it read were superseded when they were read: the frozen history of
the writer is what the reader's properties rest on.
`ReaderInv` of `AgentDefinitionStoreProofs` adds that a rule nobody touched is
still as the manifest said.

For the lock, `InsideHasMutex` (whoever is inside has its process's mutex) gives
in-process exclusion. `OwnerInv` says that a lock file is its creator's, who is
either inside the cycle it was created for, the file being no older than that cycle,
or dead; so what looks stale is a dead thread's or that of a cycle recorded in
`outlasted` (`StaleOwner`), and `DeathInv` that a thread about to remove a file does so
after some such trouble. Until a cycle outlasts the stale age, and with two
processes, every live thread is then of the remover's own process and by
`InsideHasMutex` outside its cycle (`BreakerAlone`), which gives `Overlaps`. For the
refinement each step is classified by what it does to holders, trouble and
exposure: a lock that is not exposed has no thread about to remove it and a file
that is its holder's, hence at most one holder.

For the agent session, the bridge labels a result with the *latest* prompt's id,
so the label alone says nothing about which prompt was answered. `Pipeline`
therefore follows the prompts themselves: as long as the reader runs, the pipe to
the bridge, the inbox, the SDK and the pipe back hold at most one prompt or
answer between them (`Singles`, `OnePlace`), it is that of the latest turn
(`OnlyLatest`), and there is none while no turn is pending, before its prompt is
written and after its answer was delivered (`NoneUnderWay`). Each step of the
bridge moves the prompt from one place to the next (`PipelineBridge`) or is
`Calm`; the host puts one in only when there is none (`PipelineSend`) and takes
out only the answer to the pending turn (`AwaitedAnswer`). Once the reader has
stopped nothing is delivered any more, and the pipeline no longer matters.
`OpenTurns` (a turn's outcome is open exactly if it is pending or to come) makes
each return of `Send` a step of the conversation.

A listed version of a suite is frozen because of `SaveInv`: the save under way
writes into the directory after the current version, which no pointer lists.
`TypeInv` adds that a superseded requirement or rule has a next version within
its bound, and that a run waits for the store exactly while the save is its own.

For the projects, `ProjectsInv` is `StoreOK` (documents are well formed, two
files with one name are of one project, requirements stem from artifacts that
are there, and the write under way, `OpOK`, writes a document that *fits*: its
name is the project's or nobody's, and it has what the document it replaces has)
and `CmdOK` (what a command works on is there, and what it is about to report
done is in the write under way or already stored). `NamesUnique` is not inductive
alone: a name that was free when `Create` looked is taken at the write, and
`Fits` says that it stays free in between. `Grows`, that no write loses a project,
an artifact or a pin, makes a result stay kept. It is about projects with one
file: after a stopped migration a lookup by name may still find the flat document,
and what only the other one has may be lost, which is no result, because the
command that stopped had failed. `RunsInv` follows the runner.

For the pages, `ReportInv` says that a part of a report is the file of the
upload that has the lock, of one that was killed, or of one whose removal was refused, `ProjectOK` what a project
is, and `PageOK` that what a page has read so far was true and, since a project
only grows (`EditGrows`), still is; a listed report is still there or its upload has failed, and a
folder in the tree that the settings still name has a newest document
(`FolderOpens`: of the revisions under it one is the latest of its name).
That folders are not nested gives, with `OneFolder`, one suite per document.

What a run returned is what `LoadTestSuite` reads back because of `StoredInv`: the
version a run waits for is the one the save under way writes, what it has written
so far is the suite that was handed over, a directory left by an earlier save is
no obstacle (a case file that is in it is overwritten before `suite.json` lists
it), and once listed the version is frozen. That a suite without flag is honest
is decided when `ApplyOverrideRules` looks at it, case by case, so it follows from
the operators (`Audited` and the lemmas before it) and is carried by `KnowsInv`,
which says that what a run knows of requirements and rules is some version of
each and, of a rule nobody touched since, the version in force. Ids are drawn
around those that are taken: `Least` (a nonempty set of naturals has a least
element) makes `NthFree` the n-th free number and gives distinct ones.

Of an abandoned turn the prompt remains under way, and several may be: `InOrder`
says that along the way from host to bridge to SDK and back they stand in rising
order. It does so with cuts: the prompts still in the pipe are above `e`, those
in the inbox up to `e` and above `d`, and so on back to those already returned,
up to `a`. Every step of the bridge moves a cut, so that no prompt is answered
twice, although an answer may go to a later turn.

`RevisionsDense` needs that a recorded artifact takes the revision after the
latest of its name in the document it is written to (`LatestNumber`), which
holds because the lock covers reading and writing. `LastInv` says that the rollup has
seen, of the reports read so far, none later than its last one.

`ParamsLayered` rests on what one `Merge` gives (`MergeFacts`), applied
four times (`Layers`, `LastLayerWins`): the value of a field is that of the last
layer that has it. For
`ExamplesIgnored`, a scan is its recursive function unfolded (`ScanRule`), and
what holds of no lines and passes from each line to the next holds of the whole
document (`UpTo`). A block leaves the scanner where it was (`BlockOpens`,
`BlockStays`, `BlockCloses`, put together by `InBlock`) as far as later lines can
tell (`Alike`: the open block, the verdict and the ids, not the entry that
indented lines continue), and what is alike stays alike (`SameRest`).

Only model-checked: the liveness properties (`WaitersFinish`,
`AbandonedLockIsBroken`, `SendReturns`, `CloseReturns`, `StartReturns`,
`RunsEnd`), since the prover does not reason about fairness or `ENABLED`. The
library's induction theorems take an operator as a parameter, which the provers
cannot instantiate; where a proof needs induction over a number it is taken from
a well-founded order instead (`Least`, `UpTo`), which is stated about sets. No
module declares a `RECURSIVE` operator.

## Not modelled

- The stub agent adapter replays a script in its caller's goroutine.
- Image generation submits a job and polls it until it ends or the context does:
  one goroutine, no state that anything else reads.
- Text providers, apart from the parameters they are given: one stateless request
  each. The HTTP client of cuenote likewise.
- Configuration is read once at start.
- `Chat` of the orchestrator keeps nothing.
- The HTTP handlers and commands that decode a request, call one store method and
  encode the answer; the walk of a Spec Kit directory.
- The web interface, apart from the tree that stays in the browser.

`components` in `PROJECT.json` lists them with their status. Within the modelled
parts: contents of the documents beyond what decides something, formatting and
parsing, errors of a read (they end an operation before its first write, which
changes nothing), and file systems on which `rename` or `O_EXCL` are not atomic.
