------------------------- MODULE MCRequirementReaders -------------------------
(***************************************************************************)
(* A small instance of RequirementReaders: two requirements with two       *)
(* versions and two texts, next to a reader.                               *)
(***************************************************************************)
EXTENDS RequirementReaders, TLC

CONSTANTS textA, textB

(* The store only copies texts.                                            *)
TextSymmetry == Permutations({textA, textB})

(* A bound: while a reader is at work, one text is in use.  Its properties *)
(* are about version numbers and statuses.                                 *)
OneTextWhileReading ==
    Reading =>
        \E x \in Texts : \A r \in Reqs, v \in Versions :
            {file[r][v].text, op.rec.text} \subseteq {x, NoText}
=============================================================================
