----------------------------- MODULE Traceability -----------------------------
(***************************************************************************)
(* Which tests cover which requirement: buildLinks of                      *)
(* internal/traceability/requirements.go and the rollup of                 *)
(* internal/httpapi/testability.go, which count on their own.              *)
(*                                                                         *)
(* requirements is a sequence of records with an id, the reference it is   *)
(* cited by (its ReferenceID, often the id itself), the numbered entry of  *)
(* a feature it was imported from and whether it is active; a test case    *)
(* has the ids it is linked to; a scenario document has what it cites and  *)
(* its feature.  An id stands for all its spellings.                       *)
(***************************************************************************)
EXTENDS Naturals, Sequences, SequencesExt

(* Of several requirements with one key the last one is found.             *)
LastOf(requirements, found) ==
    IF found = {} THEN "none"
    ELSE requirements[CHOOSE i \in found : \A j \in found : j <= i].id

(* Mutant: only ids are looked up.                                         *)
AliasOfId(requirements, id) ==
    LastOf(requirements, {i \in DOMAIN requirements : requirements[i].id = id})

Alias(requirements, id) ==
    LastOf(requirements,
           {i \in DOMAIN requirements : id \in {requirements[i].id, requirements[i].ref}})

(* The entry of a feature's spec.md that a scenario means by FR-001.       *)
Source(requirements, feature, entry) ==
    LastOf(requirements,
           {i \in DOMAIN requirements : requirements[i].source = <<feature, entry>>})

(* What a scenario cites: canonical ids, and entries of its own feature.   *)
Cited(requirements, doc) ==
    {Alias(requirements, id) : id \in doc.ids}
    \cup {Alias(requirements, Source(requirements, doc.feature, entry)) : entry \in doc.entries}

(* buildLinks: each test once, whichever of its citations leads there.     *)
RequirementTests(requirements, cases, docs) ==
    [id \in {requirements[i].id : i \in DOMAIN requirements} |->
        {<<"test-cases", c>> : c \in
            {x \in DOMAIN cases : \E link \in cases[x] : Alias(requirements, link) = id}}
        \cup {<<"artifacts", d>> : d \in
            {x \in DOMAIN docs : id \in Cited(requirements, docs[x])}}]

(* testability: the active requirements some case is linked to, by id or   *)
(* by reference.                                                           *)
Covered(requirements, cases) ==
    LET linked == UNION {cases[c] : c \in DOMAIN cases} IN
    {r.id : r \in {x \in ToSet(requirements) : x.active /\ {x.id, x.ref} \cap linked # {}}}

-----------------------------------------------------------------------------
Distinct(requirements) ==
    \A i \in DOMAIN requirements : \A j \in DOMAIN requirements :
        {requirements[i].id, requirements[i].ref}
            \cap {requirements[j].id, requirements[j].ref} # {} => i = j

(* The two pages agree: a requirement the rollup counts as covered has a   *)
(* test case on the requirement's own page, and an active one with a test  *)
(* case is counted, as long as no two requirements share an id or          *)
(* reference (two features with one number do; see the README).            *)
CoverageAgrees(requirements, cases, docs) ==
    Distinct(requirements) =>
        Covered(requirements, cases)
            = {r.id : r \in {x \in ToSet(requirements) : x.active /\
                \E t \in RequirementTests(requirements, cases, docs)[x.id] : t[1] = "test-cases"}}

(* No citation is lost: every test that cites a requirement that is there  *)
(* is on the page of a requirement with that id or reference.              *)
CitationsFollowed(requirements, cases, docs) ==
    \A c \in DOMAIN cases : \A link \in cases[c] :
        (\E r \in ToSet(requirements) : link \in {r.id, r.ref}) =>
            \E r \in ToSet(requirements) :
                /\ link \in {r.id, r.ref}
                /\ <<"test-cases", c>> \in RequirementTests(requirements, cases, docs)[r.id]
=============================================================================
