---------------------------- MODULE DocumentSuites ----------------------------
(***************************************************************************)
(* Folders of test documents: internal/model/documentsuites.go.  A folder  *)
(* and an artifact's name are sequences of path segments.                  *)
(***************************************************************************)
EXTENDS Naturals, Sequences, SequencesExt

Under(name, root) == IsStrictPrefix(root, name)

(* Mutant: nested folders are accepted.                                    *)
RootsOfAnyKind(roots) == TRUE

(* Each a relative folder, none inside another.                            *)
RootsAccepted(roots) ==
    /\ <<>> \notin roots
    /\ \A r \in roots, s \in roots : ~Under(r, s)

(* The folders of the project: those that were set, or the sdd-qa folder   *)
(* of every imported feature.                                              *)
TestDocumentRoots(project) ==
    IF project.rootsSet THEN project.roots
    ELSE {<<"specs", f, "sdd-qa">> : f \in project.features}

(* The newest revision of every name, by its position, its id.             *)
LatestArtifacts(project) ==
    {i \in DOMAIN project.arts :
        \A j \in DOMAIN project.arts : project.arts[j] = project.arts[i] => j <= i}

DocumentsIn(project, root) ==
    {i \in LatestArtifacts(project) : Under(project.arts[i], root)}

DocumentSuiteRoots(project) ==
    {r \in TestDocumentRoots(project) : DocumentsIn(project, r) # {}}
=============================================================================
