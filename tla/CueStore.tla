------------------------------- MODULE CueStore -------------------------------
(***************************************************************************)
(* Reusable prompts and notes: internal/cuenote, with MemoryClient as the  *)
(* service, and the prompt of internal/cli/cue.go.  A name stands for all  *)
(* its spellings, a body for the sequence of its texts and {{variables}}.  *)
(***************************************************************************)
EXTENDS Naturals, Sequences, SequencesExt, FiniteSets

CONSTANTS
    Bodies,     (* the bodies that occur                                    *)
    CueNames,   (* the names that occur, some of which look like an id      *)
    MaxSeq      (* bound: ids that are generated                            *)

VARIABLES
    cues,       (* cues[id]: name and body                                  *)
    notes,      (* the ids of the notes                                     *)
    sequence    (* the number of the last id that was generated             *)

cueVars == <<cues, notes, sequence>>

CueInit == cues = <<>> /\ notes = {} /\ sequence = 0

CueId(n) == <<"cue-0001", "cue-0002", "cue-0003", "cue-0004">>[n]
NoteId(n) == <<"note-0001", "note-0002", "note-0003", "note-0004">>[n]
Variable(name) == [var |-> name, text |-> ""]
Text(text) == [var |-> "", text |-> text]

(* Mutant: the cue is stored whether or not the id is taken.               *)
StoreCueAnyway(id, name, body) ==
    cues' = [i \in DOMAIN cues \cup {id} |->
                IF i = id THEN [name |-> name, body |-> body] ELSE cues[i]]

StoreCue(id, name, body) ==
    cues' = [i \in DOMAIN cues \cup {id} |->
                IF i \in DOMAIN cues THEN cues[i] ELSE [name |-> name, body |-> body]]

(* An id that was taken is an error, but a number it drew is used up.      *)
CreateCue(id, name, body) ==
    /\ \/ id # "" /\ StoreCue(id, name, body) /\ UNCHANGED sequence
       \/ /\ id = "" /\ sequence < MaxSeq
          /\ sequence' = sequence + 1
          /\ StoreCue(CueId(sequence + 1), name, body)
    /\ UNCHANGED notes

CreateNote ==
    /\ sequence < MaxSeq
    /\ sequence' = sequence + 1
    /\ notes' = notes \cup {NoteId(sequence + 1)}
    /\ UNCHANGED cues

Named(name) == {id \in DOMAIN cues : cues[id].name = name}

(* Mutant: names are looked up first.                                      *)
ResolveCueByName(ref) ==
    IF Cardinality(Named(ref)) = 1 THEN Named(ref)
    ELSE IF ref \in DOMAIN cues THEN {ref} ELSE {}

(* By id, then by a name that only one cue has; else an error.             *)
ResolveCue(ref) ==
    IF ref \in DOMAIN cues THEN {ref}
    ELSE IF Cardinality(Named(ref)) = 1 THEN Named(ref) ELSE {}

TemplateVariables(body) == {body[i].var : i \in DOMAIN body} \ {""}

(* Render: one pass; a value is not searched for variables again.          *)
Render(body, values) ==
    [i \in DOMAIN body |->
        IF body[i].var = "" THEN body[i]
        ELSE Text(IF body[i].var \in DOMAIN values THEN values[body[i].var] ELSE "")]

Renders(body, values) == TemplateVariables(body) \subseteq DOMAIN values

(* resolveCuePrompt: the prompts a reference may stand for, one or none.   *)
CuePrompts(ref, values) ==
    {p \in {Render(cues[id].body, values) :
              id \in {x \in ResolveCue(ref) : Renders(cues[x].body, values)}} :
        \E i \in DOMAIN p : p[i].text # ""}

-----------------------------------------------------------------------------
(* "silently picking one of several cues would make a prompt run           *)
(* irreproducible" (cuenote.go:71): a cue's own id always finds that cue,  *)
(* even if others are named like it, and a name finds a cue only if no     *)
(* other cue has it.                                                       *)
CuesResolve ==
    /\ \A id \in DOMAIN cues : ResolveCue(id) = {id}
    /\ \A name \in CueNames : ResolveCue(name) # {} => name \in DOMAIN cues \/ ResolveCue(name) = Named(name)

(* "a silently empty prompt segment is never acceptable" (cuenote.go:129): *)
(* a prompt has a text for each variable of its cue, and some text at all. *)
PromptsWhole(values) ==
    \A ref \in CueNames \cup DOMAIN cues : \A p \in CuePrompts(ref, values) :
        \E id \in ResolveCue(ref) :
            /\ \A i \in DOMAIN p : cues[id].body[i].var # "" => cues[id].body[i].var \in DOMAIN values
            /\ \E i \in DOMAIN p : p[i].text # ""

(* A cue that was created is never replaced by another.                    *)
CuesKept == [][\A id \in DOMAIN cues : id \in DOMAIN cues' /\ cues'[id] = cues[id]]_cueVars
=============================================================================
