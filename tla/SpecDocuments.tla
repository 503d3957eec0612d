---------------------------- MODULE SpecDocuments -----------------------------
(***************************************************************************)
(* What is read line by line out of imported documents: the requirements   *)
(* of a spec.md (parseRequirements of internal/projectimport/speckit.go)   *)
(* and the citations of a test scenario (scenarioReferences of             *)
(* internal/traceability/requirements.go).  A line is a record of its kind *)
(* and the entry it is about.                                              *)
(***************************************************************************)
EXTENDS Naturals, Sequences

(* Mutant: any marker ends a code block.                                   *)
FenceToggled(fence, marker) == IF fence = "" THEN marker ELSE ""

(* A code block ends at the next line with the marker it began with.       *)
FenceAfter(fence, marker) ==
    IF fence = "" THEN marker ELSE IF fence = marker THEN "" ELSE fence

Fences == {"backticks", "tildes"}

-----------------------------------------------------------------------------
(* parseRequirements: one "- FR-001: text" line each, and the indented     *)
(* lines after it, up to a line that is neither indented nor empty or a    *)
(* code block.                                                             *)
SpecStart == [fence |-> "", current |-> 0, found |-> <<>>, ok |-> TRUE]

ReadSpecLine(scan, line) ==
    CASE line.kind \in Fences ->
            [scan EXCEPT !.fence = FenceAfter(@, line.kind),
                         !.current = IF scan.fence = "" THEN 0 ELSE @]
      [] line.kind \notin Fences /\ scan.fence # "" -> scan
      [] line.kind = "entry" /\ scan.fence = "" ->
            [scan EXCEPT !.ok = @ /\ \A i \in DOMAIN scan.found : scan.found[i].id # line.id,
                         !.found = Append(@, [id |-> line.id, lines |-> 1]),
                         !.current = Len(scan.found) + 1]
      [] line.kind = "indented" /\ scan.fence = "" ->
            IF scan.current = 0 THEN scan
            ELSE [scan EXCEPT !.found[scan.current].lines = @ + 1]
      [] line.kind = "empty" /\ scan.fence = "" -> scan
      [] OTHER -> [scan EXCEPT !.current = 0]

(* SpecScans(lines)[n]: what is known after n lines.                       *)
SpecScans(lines) ==
    LET scan[n \in 0..Len(lines)] ==
            IF n = 0 THEN SpecStart ELSE ReadSpecLine(scan[n - 1], lines[n])
    IN  scan

SpecScan(lines) == SpecScans(lines)[Len(lines)]

(* A duplicate entry refuses the whole document.                           *)
ParseRequirements(lines) == SpecScan(lines).found
Parses(lines) == SpecScan(lines).ok

-----------------------------------------------------------------------------
(* scenarioReferences: "fr: ..." in the front matter and "Covers: ..."     *)
(* outside of it and of code blocks; indented lines do not count at all.   *)
ScenarioStart == [front |-> FALSE, fence |-> "", first |-> TRUE, cited |-> {}]

Cites(scan, line) ==
    IF scan.front THEN line.kind = "fr" ELSE line.kind = "covers" /\ scan.fence = ""

ReadScenarioLine(scan, line) ==
    LET next == [scan EXCEPT !.first = FALSE] IN
    CASE line.kind = "indented" -> next
      [] line.kind = "---" /\ (scan.first \/ scan.front) -> [next EXCEPT !.front = scan.first]
      [] Cites(scan, line) -> [next EXCEPT !.cited = @ \cup {line.id}]
      [] line.kind \in Fences /\ ~scan.front -> [next EXCEPT !.fence = FenceAfter(@, line.kind)]
      [] OTHER -> next

ScenarioScans(lines) ==
    LET scan[n \in 0..Len(lines)] ==
            IF n = 0 THEN ScenarioStart ELSE ReadScenarioLine(scan[n - 1], lines[n])
    IN  scan

ScenarioScan(lines) == ScenarioScans(lines)[Len(lines)]
ScenarioReferences(lines) == ScenarioScan(lines).cited

-----------------------------------------------------------------------------
(* A whole code block of a document, as positions of its markers.          *)
Block(lines, i, j) ==
    /\ lines[i].kind \in Fences /\ lines[j].kind = lines[i].kind
    /\ \A k \in (i + 1)..(j - 1) : lines[k].kind # lines[i].kind

(* What stands in a code block is an example: a requirement or a citation  *)
(* in it does not count, whatever it contains, markers of the other kind   *)
(* included.                                                               *)
CodeBlocksIgnored(lines) ==
    \A i \in DOMAIN lines : \A j \in (i + 1)..Len(lines) :
        LET before == SubSeq(lines, 1, i - 1)
            without == before \o SubSeq(lines, j + 1, Len(lines))
        IN  Block(lines, i, j) =>
            /\ SpecScan(before).fence = "" =>
                /\ Parses(lines) = Parses(without)
                /\ [r \in DOMAIN ParseRequirements(lines) |-> ParseRequirements(lines)[r].id]
                    = [r \in DOMAIN ParseRequirements(without) |-> ParseRequirements(without)[r].id]
            /\ i > 1 /\ ScenarioScan(before).fence = "" /\ ~ScenarioScan(before).front =>
                ScenarioReferences(lines) = ScenarioReferences(without)

InFront(lines, i) ==
    i > 1 /\ lines[1].kind = "---" /\ \A k \in 2..(i - 1) : lines[k].kind # "---"

(* Citations come from the fr field of the front matter and the covers     *)
(* field after it, never the other way around.                             *)
CitationsInPlace(lines) ==
    \A id \in ScenarioReferences(lines) : \E i \in DOMAIN lines :
        lines[i].id = id /\ lines[i].kind = IF InFront(lines, i) THEN "fr" ELSE "covers"
=============================================================================
