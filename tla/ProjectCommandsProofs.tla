------------------------- MODULE ProjectCommandsProofs ------------------------
(***************************************************************************)
(* Proofs about ProjectCommands, for any commands, projects and bounds:    *)
(* project names stay unique, what a command reported done stays stored,   *)
(* requirements point at artifacts that are there, imports stay whole.     *)
(***************************************************************************)
EXTENDS ProjectCommands, FiniteSetTheorems, TLAPS

-----------------------------------------------------------------------------
(* Documents, as far as the argument needs them.                           *)
Artifact(a) == a = [id |-> a.id, name |-> a.name, type |-> a.type, pinned |-> a.pinned,
                    ver |-> a.ver, parent |-> a.parent]
Document(d) ==
    /\ d = [name |-> d.name, arts |-> d.arts, imported |-> d.imported]
    /\ \E S : d.arts \in Seq(S)
    /\ \A i \in DOMAIN d.arts : Artifact(d.arts[i])

PinnedIds(d) == {d.arts[i].id : i \in {j \in DOMAIN d.arts : d.arts[j].pinned}}

(* e is d with more in it.                                                 *)
Extends(d, e) ==
    /\ Document(e) /\ e.name = d.name /\ e.imported = d.imported
    /\ ArtIds(d) \subseteq ArtIds(e) /\ PinnedIds(d) \subseteq PinnedIds(e)

(* A project without a file has an empty document.                         *)
LEMMA NoDocument == Document(NoDoc) /\ ArtIds(NoDoc) = {} /\ PinnedIds(NoDoc) = {}
<1>1. <<>> \in Seq({}) /\ DOMAIN <<>> = {}
  OBVIOUS
<1>. QED BY <1>1 DEF NoDoc, Document, ArtIds, PinnedIds

(* Appending an artifact extends a document.                               *)
LEMMA AppendExtends ==
    ASSUME NEW d, Document(d), NEW a, Artifact(a),
           NEW e, e = [d EXCEPT !.arts = Append(@, a)]
    PROVE  /\ Extends(d, e) /\ a.id \in ArtIds(e)
           /\ Len(e.arts) \in DOMAIN e.arts /\ e.arts[Len(e.arts)] = a
<1>1. e.name = d.name /\ e.imported = d.imported /\ e.arts = Append(d.arts, a)
      /\ e = [name |-> e.name, arts |-> e.arts, imported |-> e.imported]
  BY DEF Document
<1>2. PICK S : d.arts \in Seq(S)
  BY DEF Document
<1>3. d.arts \in Seq(S \cup {a})
  BY <1>2
<1>4. /\ e.arts \in Seq(S \cup {a})
      /\ Len(e.arts) = Len(d.arts) + 1 /\ DOMAIN e.arts = 1..(Len(d.arts) + 1)
      /\ DOMAIN d.arts = 1..Len(d.arts) /\ Len(d.arts) \in Nat
      /\ \A i \in 1..Len(d.arts) : e.arts[i] = d.arts[i]
      /\ e.arts[Len(d.arts) + 1] = a
  BY <1>1, <1>3
<1>5. \A i \in DOMAIN d.arts : i \in DOMAIN e.arts /\ e.arts[i] = d.arts[i]
  BY <1>4
<1>6. \A i \in DOMAIN e.arts : i \in DOMAIN d.arts \/ e.arts[i] = a
  BY <1>4
<1>7. Document(e)
  BY <1>1, <1>4, <1>5, <1>6 DEF Document
<1>8. ArtIds(d) \subseteq ArtIds(e) /\ PinnedIds(d) \subseteq PinnedIds(e)
  BY <1>5 DEF ArtIds, PinnedIds
<1>9. Len(e.arts) \in DOMAIN e.arts /\ e.arts[Len(e.arts)] = a
  BY <1>4
<1>. QED BY <1>1, <1>7, <1>8, <1>9 DEF Extends, ArtIds

(* Changing fields other than id and type, and unpinning none.             *)
LEMMA ReplaceExtends ==
    ASSUME NEW d, Document(d), NEW e,
           e = [name |-> d.name, arts |-> e.arts, imported |-> d.imported],
           DOMAIN e.arts = DOMAIN d.arts, e.arts = [i \in DOMAIN d.arts |-> e.arts[i]],
           \A i \in DOMAIN d.arts : /\ Artifact(e.arts[i]) /\ e.arts[i].id = d.arts[i].id
                                    /\ d.arts[i].pinned => e.arts[i].pinned
    PROVE  Extends(d, e)
<1>1. PICK S : d.arts \in Seq(S)
  BY DEF Document
<1>2. DOMAIN d.arts = 1..Len(d.arts) /\ Len(d.arts) \in Nat
  BY <1>1
<1>3. e.arts \in [1..Len(d.arts) -> {e.arts[i] : i \in DOMAIN d.arts}]
  BY <1>2
<1>4. e.arts \in Seq({e.arts[i] : i \in DOMAIN d.arts})
  BY <1>2, <1>3
<1>5. Document(e)
  BY <1>4 DEF Document
<1>6. ArtIds(d) \subseteq ArtIds(e) /\ PinnedIds(d) \subseteq PinnedIds(e)
  BY DEF ArtIds, PinnedIds
<1>. QED BY <1>5, <1>6 DEF Extends

(* Extending twice.                                                        *)
LEMMA ExtendsTransitive ==
    ASSUME NEW d, NEW e, NEW f, Extends(d, e), Extends(e, f) PROVE Extends(d, f)
BY DEF Extends

(* AddArtifact and DeriveArtifact extend a document by the new artifact.   *)
LEMMA AddExtends ==
    ASSUME NEW d, Document(d), NEW id, NEW name, NEW type
    PROVE  LET e == AddArtifact(d, id, name, type) IN
           /\ Extends(d, e) /\ id \in ArtIds(e) /\ Len(e.arts) \in DOMAIN e.arts
<1> DEFINE first == Revisions(d, name) = {}
           a == [id |-> id, name |-> name, type |-> type, pinned |-> FALSE,
                 ver |-> IF first THEN 1 ELSE Latest(d, name).ver + 1,
                 parent |-> IF first THEN 0 ELSE Latest(d, name).id]
           e == AddArtifact(d, id, name, type)
<1>1. e = [d EXCEPT !.arts = Append(@, a)]
  BY DEF AddArtifact
<1>2. Artifact(a) /\ a.id = id
  BY DEF Artifact
<1> HIDE DEF a, e
<1>3. Extends(d, e) /\ a.id \in ArtIds(e) /\ Len(e.arts) \in DOMAIN e.arts
  BY <1>1, <1>2, AppendExtends
<1>. QED BY <1>2, <1>3 DEF e

(* A derived artifact is added to what was there.                           *)
LEMMA DeriveExtends ==
    ASSUME NEW d, Document(d), NEW parent, NEW id, NEW name, NEW type
    PROVE  LET e == DeriveArtifact(d, parent, id, name, type) IN
           Extends(d, e) /\ id \in ArtIds(e)
<1> DEFINE f == AddArtifact(d, id, name, type)
           n == Len(f.arts)
           e == DeriveArtifact(d, parent, id, name, type)
<1>1. Extends(d, f) /\ id \in ArtIds(f) /\ n \in DOMAIN f.arts
  BY AddExtends
<1>2. e = [f EXCEPT !.arts[n].parent = parent]
  BY DEF DeriveArtifact
<1> HIDE DEF e, f, n
<1>3. f = [name |-> f.name, arts |-> f.arts, imported |-> f.imported]
      /\ \A i \in DOMAIN f.arts : Artifact(f.arts[i])
  BY <1>1 DEF Extends, Document
<1>4. e.arts = [f.arts EXCEPT ![n].parent = parent]
      /\ e = [name |-> f.name, arts |-> e.arts, imported |-> f.imported]
  BY <1>2, <1>3
<1>5. DOMAIN e.arts = DOMAIN f.arts /\ e.arts = [i \in DOMAIN f.arts |-> e.arts[i]]
  BY <1>4
<1>6. ASSUME NEW i \in DOMAIN f.arts
      PROVE  /\ Artifact(e.arts[i]) /\ e.arts[i].id = f.arts[i].id
             /\ f.arts[i].pinned => e.arts[i].pinned
  <2>1. Artifact(f.arts[i])
    BY <1>3
  <2>2. CASE i = n
    <3>1. e.arts[i] = [f.arts[i] EXCEPT !.parent = parent]
      BY <1>4, <2>2
    <3>. QED BY <2>1, <3>1 DEF Artifact
  <2>3. CASE i # n
    BY <1>4, <2>1, <2>3
  <2>. QED BY <2>2, <2>3
<1>7. Document(f)
  BY <1>1 DEF Extends
<1>8. Extends(f, e)
  BY <1>4, <1>5, <1>6, <1>7, ReplaceExtends
<1>9. Extends(d, e) /\ id \in ArtIds(e)
  BY <1>1, <1>8 DEF Extends
<1>. QED BY <1>9 DEF e

(* SetPinned extends a document, and its artifact is pinned.               *)
LEMMA PinExtends ==
    ASSUME NEW d, Document(d), NEW id \in ArtIds(d)
    PROVE  Extends(d, SetPinned(d, id)) /\ id \in PinnedIds(SetPinned(d, id))
<1> DEFINE e == SetPinned(d, id)
           arts == [i \in DOMAIN d.arts |-> IF d.arts[i].id = id
                                            THEN [d.arts[i] EXCEPT !.pinned = TRUE] ELSE d.arts[i]]
<1>0. e = [d EXCEPT !.arts = arts]
  BY DEF SetPinned
<1>1. e = [name |-> d.name, arts |-> e.arts, imported |-> d.imported] /\ e.arts = arts
  <2> HIDE DEF arts, e
  <2>. QED BY <1>0 DEF Document
<1> HIDE DEF e
<1>2. DOMAIN e.arts = DOMAIN d.arts /\ e.arts = [i \in DOMAIN d.arts |-> e.arts[i]]
  BY <1>1
<1>3. ASSUME NEW i \in DOMAIN d.arts
      PROVE  /\ Artifact(e.arts[i]) /\ e.arts[i].id = d.arts[i].id
             /\ d.arts[i].pinned => e.arts[i].pinned
             /\ d.arts[i].id = id => e.arts[i].pinned
  <2>1. Artifact(d.arts[i])
    BY DEF Document
  <2>2. CASE d.arts[i].id = id
    <3>1. e.arts[i] = [d.arts[i] EXCEPT !.pinned = TRUE]
      BY <1>1, <2>2
    <3>. QED BY <2>1, <3>1 DEF Artifact
  <2>3. CASE d.arts[i].id # id
    BY <1>1, <2>1, <2>3
  <2>. QED BY <2>2, <2>3
<1>4. Extends(d, e)
  BY <1>1, <1>2, <1>3, ReplaceExtends
<1>5. PICK i \in DOMAIN d.arts : d.arts[i].id = id
  BY DEF ArtIds
<1>6. id \in PinnedIds(e)
  BY <1>2, <1>3, <1>5 DEF PinnedIds
<1>. QED BY <1>4, <1>6 DEF e

-----------------------------------------------------------------------------
(* The documents on disk of one project.                                   *)
Held(p) == {d \in {dir[p], flat[p]} : d # NoDoc}

DocsOK ==
    /\ dir = [p \in Ids |-> dir[p]] /\ flat = [p \in Ids |-> flat[p]]
    /\ reqs = [p \in Ids |-> reqs[p]] /\ born \in Nat
    /\ \A p \in Ids : /\ Document(dir[p]) /\ (dir[p] = NoDoc \/ dir[p].name \in Names)
                      /\ Document(flat[p]) /\ (flat[p] = NoDoc \/ flat[p].name \in Names)
                      /\ reqs[p] \in Seq(Nat)

(* Two documents are of one project or have different names; those of one  *)
(* project agree on what they are.                                         *)
NamesOK ==
    \A p, q \in Ids : \A d \in Held(p), e \in Held(q) :
        IF p = q THEN d.name = e.name /\ d.imported = e.imported ELSE d.name # e.name

(* What a requirement came from is in the project's only document.         *)
Sourced(p, rs) ==
    \A i \in DOMAIN rs : rs[i] # 0 => rs[i] \in ArtIds(dir[p]) /\ flat[p] = NoDoc

ReqsOK ==
    \A p \in Ids : Sourced(p, reqs[p]) /\ \A d \in Held(p) : d.imported => reqs[p] = << 0 >>

(* A document that may be written for p: its name is p's or nobody's, and  *)
(* it has everything that is in the document it replaces.                  *)
Fits(p, doc) ==
    /\ \A q \in Ids : \A d \in Held(q) :
        IF q = p THEN d.name = doc.name /\ d.imported = doc.imported ELSE d.name # doc.name
    /\ flat[p] = NoDoc => /\ ArtIds(dir[p]) \subseteq ArtIds(doc)
                          /\ PinnedIds(dir[p]) \subseteq PinnedIds(doc)

OpOK ==
    \/ op = NoOp
    \/ /\ op = [by |-> op.by, phase |-> op.phase, p |-> op.p, doc |-> op.doc, reqs |-> op.reqs]
       /\ op.by \in Commands /\ op.p \in Ids /\ op.reqs \in Seq(Nat)
       /\ Document(op.doc) /\ op.doc.name \in Names
       /\ \/ /\ op.phase = "requirement" /\ Fits(op.p, op.doc)
             /\ ~op.doc.imported /\ Sourced(op.p, op.reqs)
          \/ /\ op.phase = "document" /\ Fits(op.p, op.doc)
             /\ op.doc.imported => reqs[op.p] = << 0 >>
          \/ op.phase = "legacy" /\ dir[op.p] = op.doc
          \/ /\ op.phase \in {"stage", "publish"} /\ Fits(op.p, op.doc)
             /\ Held(op.p) = {} /\ op.reqs = << 0 >>

StoreOK == DocsOK /\ NamesOK /\ ReqsOK /\ OpOK

(* What a command works on is there, and what it reported is stored, in a  *)
(* project that has no second document.                                    *)
Kept(r) ==
    r.made # 0 \/ r.kind = "pin" =>
        /\ r.p \in Ids /\ flat[r.p] = NoDoc
        /\ r.made # 0 => r.made \in ArtIds(dir[r.p])
        /\ r.kind = "pin" => r.target \in PinnedIds(dir[r.p])

CommandOK(r) ==
    /\ r = [stage |-> r.stage, kind |-> r.kind, ref |-> r.ref, entries |-> r.entries, p |-> r.p,
            loaded |-> r.loaded, target |-> r.target, made |-> r.made, left |-> r.left]
    /\ r.made \in Nat
    /\ r.stage \in {"generate", "run", "record", "extract"} \/ r.left > 0 =>
        r.p \in Ids /\ Held(r.p) # {}
    /\ r.stage \in {"done", "extract"} => Kept(r)
    /\ r.kind = "pin" => r.stage \in {"update", "done"} /\ ~(r.left > 0)

(* The write under way stores what its command will report.                *)
Storing(r) ==
    r.made # 0 \/ r.kind = "pin" =>
        /\ op.p = r.p /\ op.phase \in {"requirement", "document", "legacy"}
        /\ r.made # 0 => r.made \in ArtIds(op.doc)
        /\ r.kind = "pin" => r.target \in PinnedIds(op.doc)

CmdOK ==
    /\ cmd = [c \in Commands |-> cmd[c]]
    /\ \A c \in Commands : /\ CommandOK(cmd[c])
                           /\ At(c, "update") <=> op.by = c
                           /\ op.by = c => Storing(cmd[c])

ProjectsInv == StoreOK /\ CmdOK

-----------------------------------------------------------------------------
(* What the lookups return is on disk.                                     *)
LEMMA HoldsHeld ==
    ASSUME NEW e \in Entries
    PROVE  e[2] \in Ids /\ Holds(e).p = e[2] /\ Holds(e).doc \in Held(e[2])
BY DEF Entries, Holds, Held

(* A document that is held is in one of the files.                          *)
LEMMA HeldEntry ==
    ASSUME NEW p \in Ids, NEW d \in Held(p)
    PROVE  \E e \in Entries : e[2] = p /\ Holds(e).doc = d
<1>1. CASE d = dir[p] /\ d # NoDoc
  <2>1. <<"dir", p>> \in Entries /\ Holds(<<"dir", p>>).doc = d
    BY <1>1 DEF Entries, Holds
  <2>. QED BY <2>1
<1>2. CASE d = flat[p] /\ d # NoDoc
  <2>1. <<"flat", p>> \in Entries /\ Holds(<<"flat", p>>).doc = d
    BY <1>2 DEF Entries, Holds
  <2>. QED BY <2>1
<1>. QED BY <1>1, <1>2 DEF Held

(* A lookup by id finds a document exactly if one is held.                  *)
LEMMA ByIDHeld ==
    ASSUME NEW p \in Ids
    PROVE  /\ Held(p) # {} => ByID(p) \in Held(p)
           /\ ByID(p) = NoDoc <=> Held(p) = {}
BY DEF ByID, Held

(* What a reference resolves to is a document that is held.                 *)
LEMMA Resolved ==
    ASSUME NEW ref, NEW x \in Resolve(ref) PROVE x.p \in Ids /\ x.doc \in Held(x.p)
<1>1. CASE ref \in Ids /\ ByID(ref) # NoDoc
  BY <1>1, ByIDHeld DEF Resolve
<1>2. CASE ~(ref \in Ids /\ ByID(ref) # NoDoc)
  BY <1>2, HoldsHeld DEF Resolve
<1>. QED BY <1>1, <1>2

(* A new version of a document that is there fits.                         *)
LEMMA ExtensionFits ==
    ASSUME DocsOK, NamesOK, ReqsOK, NEW p \in Ids, NEW d \in Held(p), NEW e, Extends(d, e)
    PROVE  /\ Document(e) /\ e.name \in Names /\ Fits(p, e)
           /\ e.imported => reqs[p] = << 0 >>
<1>1. Document(e) /\ e.name = d.name /\ e.imported = d.imported
  BY DEF Extends
<1>2. d.name \in Names
  BY DEF DocsOK, Held
<1>3. flat[p] = NoDoc => d = dir[p]
  BY DEF Held
<1>4. \A q \in Ids : \A f \in Held(q) :
        IF q = p THEN f.name = e.name /\ f.imported = e.imported ELSE f.name # e.name
  BY <1>1 DEF NamesOK
<1>5. Fits(p, e)
  BY <1>3, <1>4 DEF Fits, Extends
<1>6. e.imported => reqs[p] = << 0 >>
  BY <1>1 DEF ReqsOK
<1>. QED BY <1>1, <1>2, <1>5, <1>6

(* A new document with a name nobody has fits an id nobody has.            *)
LEMMA NewFits ==
    ASSUME NEW p \in Fresh, NEW doc, ~NameTaken(doc.name)
    PROVE  p \in Ids /\ Held(p) = {} /\ Fits(p, doc)
<1>1. p \in Ids /\ Held(p) = {}
  BY ByIDHeld DEF Fresh
<1>2. ASSUME NEW q \in Ids, NEW d \in Held(q) PROVE d.name # doc.name
  BY <1>2, HeldEntry DEF NameTaken
<1>3. dir[p] = NoDoc
  BY <1>1 DEF Held
<1>. QED BY <1>1, <1>2, <1>3, NoDocument DEF Fits

-----------------------------------------------------------------------------
(* The store with one flat document satisfies the invariant.               *)
LEMMA ProjectsInit == CmdInit => ProjectsInv
<1>. SUFFICES ASSUME CmdInit PROVE ProjectsInv
  OBVIOUS
<1>. USE CommandAssumption
<1>1. PICK l \in Ids : flat = [q \in Ids |-> IF q = l THEN Legacy ELSE NoDoc]
  BY DEF CmdInit
<1>2. /\ Legacy.name \in Names /\ ~Legacy.imported /\ Legacy.arts \in Seq(Artifacts)
      /\ Legacy = [name |-> Legacy.name, arts |-> Legacy.arts, imported |-> Legacy.imported]
  OBVIOUS
<1>3. \A i \in DOMAIN Legacy.arts : Artifact(Legacy.arts[i])
  <2>1. \A i \in DOMAIN Legacy.arts : Legacy.arts[i] \in Artifacts
    BY <1>2
  <2>. QED BY <2>1 DEF Artifacts, Artifact
<1>4. Document(Legacy) /\ Len(Legacy.arts) \in Nat
  BY <1>2, <1>3 DEF Document
<1>5. /\ dir = [p \in Ids |-> NoDoc] /\ reqs = [p \in Ids |-> <<>>] /\ op = NoOp
      /\ born = Len(Legacy.arts) /\ cmd = [c \in Commands |-> NoCmd]
  BY DEF CmdInit
<1>6. DocsOK
  BY <1>1, <1>2, <1>4, <1>5, NoDocument DEF DocsOK
<1>7. \A p \in Ids : Held(p) \subseteq (IF p = l THEN {Legacy} ELSE {})
  BY <1>1, <1>5 DEF Held
<1>8. NamesOK
  BY <1>7 DEF NamesOK
<1>9. ReqsOK
  BY <1>2, <1>5, <1>7 DEF ReqsOK, Sourced
<1>10. CmdOK
  <2>1. op.by = NoOne /\ \A c \in Commands : cmd[c] = NoCmd
    BY <1>5 DEF NoOp
  <2>2. CommandOK(NoCmd)
    BY DEF CommandOK, NoCmd
  <2>. QED BY <1>5, <2>1, <2>2 DEF CmdOK, At, NoCmd
<1>. QED BY <1>5, <1>6, <1>8, <1>9, <1>10 DEF ProjectsInv, StoreOK, OpOK

-----------------------------------------------------------------------------
(* The beginning of a write: nothing is on disk yet.                       *)
LEMMA BeginStore ==
    ASSUME StoreOK, UNCHANGED <<dir, flat, reqs>>, born' \in Nat,
           op' = [by |-> op'.by, phase |-> op'.phase, p |-> op'.p, doc |-> op'.doc,
                  reqs |-> op'.reqs],
           op'.by \in Commands, op'.p \in Ids, op'.reqs \in Seq(Nat),
           Document(op'.doc), op'.doc.name \in Names, Fits(op'.p, op'.doc),
           \/ op'.phase = "requirement" /\ ~op'.doc.imported /\ Sourced(op'.p, op'.reqs)
           \/ op'.phase = "document" /\ (op'.doc.imported => reqs[op'.p] = << 0 >>)
           \/ op'.phase = "stage" /\ Held(op'.p) = {} /\ op'.reqs = << 0 >>
    PROVE  StoreOK'
<1>1. DocsOK'
  BY DEF StoreOK, DocsOK
<1>2. NamesOK'
  BY DEF StoreOK, NamesOK, Held
<1>3. ReqsOK'
  BY DEF StoreOK, ReqsOK, Held, Sourced
<1>4. Fits(op.p, op.doc)'
  BY DEF Fits, Held
<1>5. OpOK'
  BY <1>4 DEF OpOK, Sourced, Held
<1>. QED BY <1>1, <1>2, <1>3, <1>5 DEF StoreOK

(* A command that begins a write leaves the other commands alone.           *)
LEMMA BeginCmd ==
    ASSUME ProjectsInv, LockFree, UNCHANGED <<dir, flat>>, NEW c \in Commands, op'.by = c,
           cmd' = [cmd EXCEPT ![c] = cmd'[c]], cmd'[c].stage = "update",
           CommandOK(cmd[c])', Storing(cmd[c])'
    PROVE  CmdOK'
<1>1. cmd' = [d \in Commands |-> cmd'[d]]
  BY DEF ProjectsInv, CmdOK
<1>2. ASSUME NEW d \in Commands, d # c
      PROVE  /\ CommandOK(cmd[d])' /\ ~At(d, "update")' /\ op'.by # d
  <2>1. cmd'[d] = cmd[d] /\ CommandOK(cmd[d]) /\ ~At(d, "update")
    BY <1>2, CommandAssumption DEF ProjectsInv, CmdOK, LockFree
  <2>. QED BY <1>2, <2>1 DEF CommandOK, Kept, Held, At
<1>. QED BY <1>1, <1>2 DEF CmdOK, At

(* The part about the store depends on the store alone.                     *)
LEMMA StoreUnchanged == StoreOK /\ UNCHANGED storeVars => StoreOK'
<1>. SUFFICES ASSUME StoreOK, UNCHANGED storeVars PROVE StoreOK'
  OBVIOUS
<1>. USE DEF storeVars
<1>1. DocsOK' /\ NamesOK'
  BY DEF StoreOK, DocsOK, NamesOK, Held
<1>2. ReqsOK'
  BY DEF StoreOK, ReqsOK, Sourced, Held
<1>3. OpOK'
  BY DEF StoreOK, OpOK, Fits, Sourced, Held
<1>. QED BY <1>1, <1>2, <1>3 DEF StoreOK

(* A step of a command that writes nothing.                                *)
LEMMA TurnOnly ==
    ASSUME ProjectsInv, UNCHANGED storeVars, NEW c \in Commands, ~At(c, "update"),
           cmd' = [cmd EXCEPT ![c] = cmd'[c]], cmd'[c].stage # "update", CommandOK(cmd[c])'
    PROVE  ProjectsInv'
<1>1. StoreOK'
  BY StoreUnchanged DEF ProjectsInv
<1>2. cmd' = [d \in Commands |-> cmd'[d]]
  BY DEF ProjectsInv, CmdOK
<1>3. ASSUME NEW d \in Commands, d # c
      PROVE  /\ CommandOK(cmd[d])' /\ (At(d, "update")' <=> op'.by = d)
             /\ op'.by = d => Storing(cmd[d])'
  <2>1. cmd'[d] = cmd[d] /\ CommandOK(cmd[d])
    BY <1>3 DEF ProjectsInv, CmdOK
  <2>2. CommandOK(cmd[d])'
    BY <2>1 DEF CommandOK, Kept, Held, storeVars
  <2>3. (At(d, "update")' <=> op'.by = d) /\ (op'.by = d => Storing(cmd[d])')
    BY <2>1 DEF ProjectsInv, CmdOK, At, Storing, storeVars
  <2>. QED BY <2>2, <2>3
<1>4. op'.by # c
  BY DEF ProjectsInv, CmdOK, storeVars
<1>. QED BY <1>1, <1>2, <1>3, <1>4 DEF ProjectsInv, CmdOK, At

(* A step of the runner changes neither.                                   *)
LEMMA Unchanged == ProjectsInv /\ UNCHANGED <<storeVars, cmd>> => ProjectsInv'
<1>1. CmdOK /\ UNCHANGED <<storeVars, cmd>> => CmdOK'
  BY DEF CmdOK, CommandOK, Kept, Storing, Held, At, storeVars
<1>. QED BY <1>1, StoreUnchanged DEF ProjectsInv

(* A command that fails reports nothing.                                    *)
LEMMA FailsPreserves ==
    ASSUME ProjectsInv, NEW c \in Commands, ~At(c, "update"), Fails(c) PROVE ProjectsInv'
<1>1. UNCHANGED storeVars /\ cmd' = [cmd EXCEPT ![c] = Failed] /\ cmd'[c] = Failed
  BY DEF Fails, Turns, ProjectsInv, CmdOK
<1>2. CommandOK(cmd[c])' /\ cmd'[c].stage # "update"
  BY <1>1 DEF CommandOK, Failed, NoCmd
<1>. QED BY <1>1, <1>2, TurnOnly

-----------------------------------------------------------------------------
(* Create and ImportProject: the id and the name are free.                 *)
LEMMA CreatePreserves ==
    ASSUME ProjectsInv, NEW c \in Commands, NEW name \in Names, Create(c, name)
    PROVE  ProjectsInv'
<1>1. ~At(c, "update") /\ LockFree
  BY DEF Create, At
<1>2. CASE Fails(c)
  BY <1>1, <1>2, FailsPreserves
<1>3. ASSUME NEW p \in Fresh, ~NameTaken(name), Write(c, p, [NoDoc EXCEPT !.name = name]),
             Turns(c, [NoCmd EXCEPT !.stage = "update", !.kind = "create"]), UNCHANGED born
      PROVE  ProjectsInv'
  <2>0. PICK doc : doc = [NoDoc EXCEPT !.name = name]
    OBVIOUS
  <2>1. Document(doc) /\ doc.name = name /\ ~doc.imported
    <3>1. Document(doc) /\ doc.name = name /\ doc.imported = NoDoc.imported
      BY <2>0, NoDocument DEF Document
    <3>. QED BY <3>1 DEF NoDoc
  <2>2. /\ op' = [by |-> c, phase |-> "document", p |-> p, doc |-> doc, reqs |-> reqs[p]]
        /\ UNCHANGED <<dir, flat, reqs, born>>
    BY <1>3, <2>0 DEF Write, Begin
  <2>3. p \in Ids /\ Fits(p, doc) /\ reqs[p] \in Seq(Nat) /\ born' \in Nat
    BY <1>3, <2>1, <2>2, NewFits DEF ProjectsInv, StoreOK, DocsOK
  <2>4. StoreOK'
    BY <2>1, <2>2, <2>3, BeginStore DEF ProjectsInv
  <2>5. cmd'[c] = [NoCmd EXCEPT !.stage = "update", !.kind = "create"]
        /\ cmd' = [cmd EXCEPT ![c] = cmd'[c]]
    BY <1>3 DEF Turns, ProjectsInv, CmdOK
  <2>6. CommandOK(cmd[c])' /\ Storing(cmd[c])' /\ cmd'[c].stage = "update"
    <3>1. cmd'[c] = [stage |-> "update", kind |-> "create", ref |-> "none", entries |-> {},
                     p |-> "none", loaded |-> NoDoc, target |-> 0, made |-> 0, left |-> 0]
      BY <2>5 DEF NoCmd
    <3>. QED BY <3>1 DEF CommandOK, Storing
  <2>7. CmdOK'
    BY <1>1, <2>2, <2>5, <2>6, BeginCmd
  <2>. QED BY <2>4, <2>7 DEF ProjectsInv
<1>. QED BY <1>2, <1>3 DEF Create

(* An import begins with a name that nobody has, with an artifact or none. *)
LEMMA ImportPreserves ==
    ASSUME ProjectsInv, NEW c \in Commands, NEW name \in Names, ImportProject(c, name)
    PROVE  ProjectsInv'
<1>1. ~At(c, "update") /\ LockFree
  BY DEF ImportProject, At
<1>2. CASE Fails(c)
  BY <1>1, <1>2, FailsPreserves
<1>3. ASSUME NEW p \in Fresh, ~NameTaken(name), born' \in Nat,
             NEW doc, Document(doc), doc.name = name,
             Begin(c, "stage", p, doc, << 0 >>),
             Turns(c, [NoCmd EXCEPT !.stage = "update", !.kind = "import"]),
             UNCHANGED <<dir, flat, reqs>>
      PROVE  ProjectsInv'
  <2>1. Document(doc) /\ doc.name = name
    BY <1>3
  <2>2. op' = [by |-> c, phase |-> "stage", p |-> p, doc |-> doc, reqs |-> << 0 >>]
    BY <1>3 DEF Begin
  <2>3. p \in Ids /\ Held(p) = {} /\ Fits(p, doc)
    BY <1>3, <2>1, NewFits
  <2>4. << 0 >> \in Seq(Nat) /\ born' \in Nat
    BY <1>3 DEF ProjectsInv, StoreOK, DocsOK
  <2>5. StoreOK'
    BY <1>3, <2>1, <2>2, <2>3, <2>4, BeginStore DEF ProjectsInv
  <2>6. cmd'[c] = [NoCmd EXCEPT !.stage = "update", !.kind = "import"]
        /\ cmd' = [cmd EXCEPT ![c] = cmd'[c]]
    BY <1>3 DEF Turns, ProjectsInv, CmdOK
  <2>7. CommandOK(cmd[c])' /\ Storing(cmd[c])' /\ cmd'[c].stage = "update"
    <3>1. cmd'[c] = [stage |-> "update", kind |-> "import", ref |-> "none", entries |-> {},
                     p |-> "none", loaded |-> NoDoc, target |-> 0, made |-> 0, left |-> 0]
      BY <2>6 DEF NoCmd
    <3>. QED BY <3>1 DEF CommandOK, Storing
  <2>8. CmdOK'
    BY <1>1, <1>3, <2>2, <2>6, <2>7, BeginCmd
  <2>. QED BY <2>5, <2>8 DEF ProjectsInv
<1>4. PICK doc : doc = Imported(name)
  OBVIOUS
<1>5. Document(doc) /\ doc.name = name
  BY <1>4, NoDocument DEF Document, Imported
<1>6. born \in Nat
  BY DEF ProjectsInv, StoreOK, DocsOK
<1>7. ASSUME NEW p \in Fresh, ~NameTaken(name), UNCHANGED <<dir, flat, reqs, born>>,
             Begin(c, "stage", p, Imported(name), << 0 >>),
             Turns(c, [NoCmd EXCEPT !.stage = "update", !.kind = "import"])
      PROVE  ProjectsInv'
  BY <1>3, <1>4, <1>5, <1>6, <1>7
<1>8. ASSUME NEW p \in Fresh, ~NameTaken(name), UNCHANGED <<dir, flat, reqs>>,
             NEW n \in ArtNames, born' = born + 1,
             Begin(c, "stage", p, AddArtifact(Imported(name), born + 1, n, "doc"), << 0 >>),
             Turns(c, [NoCmd EXCEPT !.stage = "update", !.kind = "import"])
      PROVE  ProjectsInv'
  <2>1. PICK new : new = AddArtifact(doc, born + 1, n, "doc")
    OBVIOUS
  <2>2. Document(new) /\ new.name = name
    BY <1>5, <2>1, AddExtends DEF Extends
  <2>3. Begin(c, "stage", p, new, << 0 >>)
    BY <1>4, <1>8, <2>1
  <2>. QED BY <1>3, <1>6, <1>8, <2>2, <2>3
<1>. QED BY <1>2, <1>7, <1>8 DEF ImportProject

-----------------------------------------------------------------------------
(* The lookup and the work without the lock.                               *)
LEMMA StartPreserves ==
    ASSUME ProjectsInv, NEW c \in Commands, NEW kind, NEW ref, kind # "pin", Start(c, kind, ref)
    PROVE  ProjectsInv'
<1>1. PICK es : Turns(c, [NoCmd EXCEPT !.stage = "resolve", !.kind = kind, !.ref = ref,
                                       !.entries = es])
  BY DEF Start
<1>2. cmd'[c] = [NoCmd EXCEPT !.stage = "resolve", !.kind = kind, !.ref = ref, !.entries = es]
      /\ cmd' = [cmd EXCEPT ![c] = cmd'[c]]
  BY <1>1 DEF Turns, ProjectsInv, CmdOK
<1>3. CommandOK(cmd[c])' /\ cmd'[c].stage # "update"
  <2>1. cmd'[c] = [stage |-> "resolve", kind |-> kind, ref |-> ref, entries |-> es,
                   p |-> "none", loaded |-> NoDoc, target |-> 0, made |-> 0, left |-> 0]
    BY <1>2 DEF NoCmd
  <2>. QED BY <2>1 DEF CommandOK
<1>4. ~At(c, "update") /\ UNCHANGED storeVars
  BY DEF Start, At
<1>. QED BY <1>2, <1>3, <1>4, TurnOnly

(* What a command resolves to is a project that is there.                   *)
LEMMA ResolvePreserves ==
    ASSUME ProjectsInv, NEW c \in Commands, ResolveProject(c) PROVE ProjectsInv'
<1>1. CommandOK(cmd[c]) /\ ~At(c, "update") /\ UNCHANGED storeVars /\ cmd[c].kind # "pin"
  BY DEF ResolveProject, At, ProjectsInv, CmdOK, CommandOK
<1>2. PICK e \in cmd[c].entries : \E target : e \in Entries /\
        Turns(c, [cmd[c] EXCEPT
          !.stage = "generate", !.entries = {}, !.p = e[2], !.loaded = Holds(e).doc,
          !.target = target, !.ref = IF cmd[c].kind = "prompt" THEN @ ELSE e[2]])
  BY DEF ResolveProject
<1>3. PICK target :
        Turns(c, [cmd[c] EXCEPT
          !.stage = "generate", !.entries = {}, !.p = e[2], !.loaded = Holds(e).doc,
          !.target = target, !.ref = IF cmd[c].kind = "prompt" THEN @ ELSE e[2]])
  BY <1>2
<1>4. e[2] \in Ids /\ Held(e[2]) # {}
  BY <1>2, HoldsHeld
<1>5. PICK ref : cmd'[c] = [cmd[c] EXCEPT !.stage = "generate", !.entries = {}, !.p = e[2],
                              !.loaded = Holds(e).doc, !.target = target, !.ref = ref]
                 /\ cmd' = [cmd EXCEPT ![c] = cmd'[c]]
  BY <1>3 DEF Turns, ProjectsInv, CmdOK
<1>6. /\ cmd'[c] = [stage |-> "generate", kind |-> cmd[c].kind, ref |-> ref, entries |-> {},
                    p |-> e[2], loaded |-> Holds(e).doc, target |-> target,
                    made |-> cmd[c].made, left |-> cmd[c].left]
      /\ cmd[c].made \in Nat
  BY <1>1, <1>5 DEF CommandOK
<1>7. CommandOK(cmd[c])' /\ cmd'[c].stage # "update"
  BY <1>1, <1>4, <1>6 DEF CommandOK, Held, storeVars
<1>. QED BY <1>1, <1>5, <1>7, TurnOnly

(* A command that goes on with the project it found.                       *)
LEMMA GoesOn ==
    ASSUME ProjectsInv, NEW c \in Commands, cmd[c].stage \in {"generate", "run"},
           UNCHANGED storeVars, NEW stage \in {"run", "record"}, NEW left,
           Turns(c, [cmd[c] EXCEPT !.stage = stage, !.left = left])
    PROVE  ProjectsInv'
<1>1. CommandOK(cmd[c]) /\ ~At(c, "update") /\ cmd[c].kind # "pin"
  BY DEF At, ProjectsInv, CmdOK, CommandOK
<1>2. cmd'[c] = [cmd[c] EXCEPT !.stage = stage, !.left = left]
      /\ cmd' = [cmd EXCEPT ![c] = cmd'[c]]
  BY DEF Turns, ProjectsInv, CmdOK
<1>3. /\ cmd'[c] = [stage |-> stage, kind |-> cmd[c].kind, ref |-> cmd[c].ref,
                    entries |-> cmd[c].entries, p |-> cmd[c].p, loaded |-> cmd[c].loaded,
                    target |-> cmd[c].target, made |-> cmd[c].made, left |-> left]
      /\ cmd[c].made \in Nat /\ cmd[c].p \in Ids /\ Held(cmd[c].p) # {}
  BY <1>1, <1>2 DEF CommandOK
<1>4. CommandOK(cmd[c])' /\ cmd'[c].stage # "update"
  BY <1>1, <1>3 DEF CommandOK, Held, storeVars
<1>. QED BY <1>1, <1>2, <1>4, TurnOnly

(* Generating and running tests touch no project.                           *)
LEMMA GeneratePreserves ==
    ASSUME ProjectsInv, NEW c \in Commands, Generate(c) \/ RunTests(c) \/ TestsReturn(c)
    PROVE  ProjectsInv'
<1>1. CASE Generate(c)
  BY <1>1, GoesOn DEF Generate, At
<1>2. ASSUME cmd[c].stage \in {"generate", "run"}, UNCHANGED storeVars,
             NEW stage \in {"run", "record"}, Turns(c, [cmd[c] EXCEPT !.stage = stage])
      PROVE  ProjectsInv'
  <2>1. CommandOK(cmd[c])
    BY DEF ProjectsInv, CmdOK
  <2>2. PICK left : left = cmd[c].left
    OBVIOUS
  <2>3. [cmd[c] EXCEPT !.stage = stage] = [cmd[c] EXCEPT !.stage = stage, !.left = left]
    BY <2>1, <2>2 DEF CommandOK
  <2>. QED BY <1>2, <2>3, GoesOn
<1>3. CASE RunTests(c)
  BY <1>2, <1>3 DEF RunTests, At
<1>4. CASE TestsReturn(c)
  BY <1>2, <1>4, FailsPreserves DEF TestsReturn, At, Fails
<1>. QED BY <1>1, <1>3, <1>4

-----------------------------------------------------------------------------
(* What a command records is a longer version of what it found under the   *)
(* lock.                                                                   *)
LEMMA WriteExtension ==
    ASSUME StoreOK, NEW c \in Commands, NEW p \in Ids, NEW d \in Held(p), NEW e, Extends(d, e),
           Write(c, p, e), born' \in Nat
    PROVE  StoreOK' /\ LockFree /\ UNCHANGED <<dir, flat>>
<1>1. /\ Document(e) /\ e.name \in Names /\ Fits(p, e)
      /\ e.imported => reqs[p] = << 0 >>
  BY ExtensionFits DEF StoreOK
<1>2. /\ op' = [by |-> c, phase |-> "document", p |-> p, doc |-> e, reqs |-> reqs[p]]
      /\ UNCHANGED <<dir, flat, reqs>> /\ LockFree
  BY DEF Write, Begin
<1>3. reqs[p] \in Seq(Nat)
  BY DEF StoreOK, DocsOK
<1>4. StoreOK'
  BY <1>1, <1>2, <1>3, BeginStore
<1>. QED BY <1>2, <1>4

(* A result is recorded in a document read under the lock.                  *)
LEMMA RecordPreserves ==
    ASSUME ProjectsInv, NEW c \in Commands, NEW name, Record(c, name) PROVE ProjectsInv'
<1>1. /\ ~At(c, "update") /\ CommandOK(cmd[c]) /\ cmd[c].p \in Ids /\ Held(cmd[c].p) # {}
      /\ cmd[c].kind # "pin"
  BY DEF Record, At, ProjectsInv, CmdOK, CommandOK
<1>2. CASE Fails(c)
  BY <1>1, <1>2, FailsPreserves
<1>3. ASSUME NEW x \in Resolve(cmd[c].ref),
             Write(c, x.p, DeriveArtifact(x.doc, cmd[c].target, born + 1, name, Made(c))),
             born' = born + 1,
             Turns(c, [cmd[c] EXCEPT !.stage = "update", !.p = x.p, !.made = born + 1,
                                     !.loaded = NoDoc])
      PROVE  ProjectsInv'
  <2>1. x.p \in Ids /\ x.doc \in Held(x.p)
    BY Resolved
  <2>2. PICK p, d, id, parent, type :
          p \in Ids /\ p = x.p /\ d = x.doc /\ id = born + 1 /\ parent = cmd[c].target /\ type = Made(c)
    BY <2>1
  <2>3. PICK e : e = DeriveArtifact(d, parent, id, name, type)
    OBVIOUS
  <2>4. p \in Ids /\ d \in Held(p) /\ Document(d) /\ id \in Nat \ {0} /\ born' \in Nat
    BY <1>3, <2>1, <2>2 DEF ProjectsInv, StoreOK, DocsOK, Held
  <2>5. Extends(d, e) /\ id \in ArtIds(e)
    BY <2>3, <2>4, DeriveExtends
  <2>6. Write(c, p, e)
    BY <1>3, <2>2, <2>3
  <2>7. StoreOK' /\ LockFree /\ UNCHANGED <<dir, flat>>
    BY <2>4, <2>5, <2>6, WriteExtension DEF ProjectsInv
  <2>8. op'.by = c /\ op'.p = p /\ op'.phase = "document" /\ op'.doc = e
    BY <2>6 DEF Write, Begin
  <2>9. /\ cmd' = [cmd EXCEPT ![c] = cmd'[c]]
        /\ cmd'[c] = [stage |-> "update", kind |-> cmd[c].kind, ref |-> cmd[c].ref,
                      entries |-> cmd[c].entries, p |-> p, loaded |-> NoDoc,
                      target |-> cmd[c].target, made |-> id, left |-> cmd[c].left]
        /\ cmd[c].kind # "pin"
    <3>1. cmd'[c] = [cmd[c] EXCEPT !.stage = "update", !.p = p, !.made = id, !.loaded = NoDoc]
          /\ cmd' = [cmd EXCEPT ![c] = cmd'[c]]
      BY <1>3, <2>2 DEF Turns, ProjectsInv, CmdOK
    <3>. QED BY <1>1, <3>1 DEF CommandOK
  <2>10. CommandOK(cmd[c])' /\ Storing(cmd[c])' /\ cmd'[c].stage = "update"
    BY <1>1, <2>4, <2>5, <2>7, <2>8, <2>9 DEF CommandOK, Storing, Held
  <2>11. CmdOK'
    BY <2>7, <2>8, <2>9, <2>10, BeginCmd
  <2>. QED BY <2>7, <2>11 DEF ProjectsInv
<1>. QED BY <1>2, <1>3 DEF Record

(* So is the artifact of an analysis, before its requirements.              *)
LEMMA PersistPreserves ==
    ASSUME ProjectsInv, NEW c \in Commands, PersistArtifact(c) PROVE ProjectsInv'
<1>1. ~At(c, "update") /\ CommandOK(cmd[c]) /\ cmd[c].p \in Ids /\ Held(cmd[c].p) # {}
  BY DEF PersistArtifact, At, ProjectsInv, CmdOK, CommandOK
<1>2. CASE Fails(c)
  BY <1>1, <1>2, FailsPreserves
<1>3. ASSUME Write(c, cmd[c].p, AddArtifact(ByID(cmd[c].p), born + 1, OutputName, "doc")),
             born' = born + 1, cmd[c].kind = "analysis",
             Turns(c, [cmd[c] EXCEPT !.stage = "update", !.made = born + 1, !.loaded = NoDoc])
      PROVE  ProjectsInv'
  <2>1. PICK p, d, id : p \in Ids /\ p = cmd[c].p /\ d = ByID(cmd[c].p) /\ id = born + 1
    BY <1>1
  <2>2. PICK e : e = AddArtifact(d, id, OutputName, "doc")
    OBVIOUS
  <2>3. p \in Ids /\ d \in Held(p)
    BY <1>1, <2>1, ByIDHeld
  <2>4. Document(d) /\ id \in Nat \ {0} /\ born' \in Nat
    BY <1>3, <2>1, <2>3 DEF ProjectsInv, StoreOK, DocsOK, Held
  <2>5. Extends(d, e) /\ id \in ArtIds(e)
    BY <2>2, <2>4, AddExtends
  <2>6. Write(c, p, e)
    BY <1>3, <2>1, <2>2
  <2>7. StoreOK' /\ LockFree /\ UNCHANGED <<dir, flat>>
    BY <2>3, <2>4, <2>5, <2>6, WriteExtension DEF ProjectsInv
  <2>8. op'.by = c /\ op'.p = p /\ op'.phase = "document" /\ op'.doc = e
    BY <2>6 DEF Write, Begin
  <2>9. /\ cmd' = [cmd EXCEPT ![c] = cmd'[c]]
        /\ cmd'[c] = [stage |-> "update", kind |-> "analysis", ref |-> cmd[c].ref,
                      entries |-> cmd[c].entries, p |-> p, loaded |-> NoDoc,
                      target |-> cmd[c].target, made |-> id, left |-> cmd[c].left]
    <3>1. cmd'[c] = [cmd[c] EXCEPT !.stage = "update", !.made = id, !.loaded = NoDoc]
          /\ cmd' = [cmd EXCEPT ![c] = cmd'[c]]
      BY <1>3, <2>1 DEF Turns, ProjectsInv, CmdOK
    <3>. QED BY <1>1, <1>3, <2>1, <3>1 DEF CommandOK
  <2>10. CommandOK(cmd[c])' /\ Storing(cmd[c])' /\ cmd'[c].stage = "update"
    BY <1>1, <2>1, <2>4, <2>5, <2>7, <2>8, <2>9 DEF CommandOK, Storing, Held
  <2>11. CmdOK'
    BY <2>7, <2>8, <2>9, <2>10, BeginCmd
  <2>. QED BY <2>7, <2>11 DEF ProjectsInv
<1>. QED BY <1>2, <1>3 DEF PersistArtifact

(* A pin too is set in a document read under the lock.                      *)
LEMMA PinPreserves ==
    ASSUME ProjectsInv, NEW c \in Commands, NEW ref, Pin(c, ref) PROVE ProjectsInv'
<1>0. PICK x \in Resolve(ref) : \E a \in ArtIds(x.doc) :
        /\ Write(c, x.p, SetPinned(x.doc, a))
        /\ Turns(c, [NoCmd EXCEPT !.stage = "update", !.kind = "pin", !.p = x.p, !.target = a])
  BY DEF Pin
<1>1. PICK a \in ArtIds(x.doc) :
        /\ Write(c, x.p, SetPinned(x.doc, a))
        /\ Turns(c, [NoCmd EXCEPT !.stage = "update", !.kind = "pin", !.p = x.p, !.target = a])
  BY <1>0
<1>2. x.p \in Ids /\ x.doc \in Held(x.p)
  BY Resolved
<1>3. PICK p, d : p \in Ids /\ p = x.p /\ d = x.doc
  BY <1>2
<1>4. PICK e : e = SetPinned(d, a)
  OBVIOUS
<1>5. p \in Ids /\ d \in Held(p) /\ Document(d) /\ a \in ArtIds(d) /\ born' \in Nat
  BY <1>2, <1>3 DEF ProjectsInv, StoreOK, DocsOK, Held, Pin
<1>6. Extends(d, e) /\ a \in PinnedIds(e)
  BY <1>4, <1>5, PinExtends
<1>7. Write(c, p, e)
  BY <1>1, <1>3, <1>4
<1>8. StoreOK' /\ LockFree /\ UNCHANGED <<dir, flat>>
  BY <1>5, <1>6, <1>7, WriteExtension DEF ProjectsInv
<1>9. op'.by = c /\ op'.p = p /\ op'.phase = "document" /\ op'.doc = e
  BY <1>7 DEF Write, Begin
<1>10. /\ cmd' = [cmd EXCEPT ![c] = cmd'[c]]
       /\ cmd'[c] = [stage |-> "update", kind |-> "pin", ref |-> "none", entries |-> {},
                     p |-> p, loaded |-> NoDoc, target |-> a, made |-> 0, left |-> 0]
  <2>1. cmd'[c] = [NoCmd EXCEPT !.stage = "update", !.kind = "pin", !.p = p, !.target = a]
        /\ cmd' = [cmd EXCEPT ![c] = cmd'[c]]
    BY <1>1, <1>3 DEF Turns, ProjectsInv, CmdOK
  <2>. QED BY <2>1 DEF NoCmd
<1>11. CommandOK(cmd[c])' /\ Storing(cmd[c])' /\ cmd'[c].stage = "update"
  BY <1>6, <1>9, <1>10 DEF CommandOK, Storing
<1>12. CmdOK'
  BY <1>8, <1>9, <1>10, <1>11, BeginCmd
<1>. QED BY <1>8, <1>12 DEF ProjectsInv

(* A requirement is recorded with the artifact it came from.               *)
LEMMA ExtractPreserves ==
    ASSUME ProjectsInv, NEW c \in Commands, Extract(c) PROVE ProjectsInv'
<1>1. /\ ~At(c, "update") /\ CommandOK(cmd[c]) /\ cmd[c].p \in Ids /\ Held(cmd[c].p) # {}
      /\ Kept(cmd[c]) /\ cmd[c].made \in Nat /\ cmd[c].kind # "pin"
  BY DEF Extract, At, ProjectsInv, CmdOK, CommandOK
<1>2. CASE Fails(c)
  BY <1>1, <1>2, FailsPreserves
<1>3. ASSUME ~ByID(cmd[c].p).imported,
             Begin(c, "requirement", cmd[c].p, ByID(cmd[c].p),
                   Append(reqs[cmd[c].p], cmd[c].made)),
             Turns(c, [cmd[c] EXCEPT !.stage = "update", !.left = @ - 1]),
             UNCHANGED <<dir, flat, reqs, born>>
      PROVE  ProjectsInv'
  <2>1. PICK p, d, rs :
          p \in Ids /\ p = cmd[c].p /\ d = ByID(cmd[c].p) /\ rs = Append(reqs[cmd[c].p], cmd[c].made)
    BY <1>1
  <2>2. p \in Ids /\ d \in Held(p) /\ ~d.imported
    BY <1>1, <1>3, <2>1, ByIDHeld
  <2>3. Document(d) /\ Extends(d, d) /\ born' \in Nat /\ reqs[p] \in Seq(Nat)
    BY <1>3, <2>2 DEF ProjectsInv, StoreOK, DocsOK, Held, Extends
  <2>4. Fits(p, d) /\ d.name \in Names
    BY <2>2, <2>3, ExtensionFits DEF ProjectsInv, StoreOK
  <2>5. rs \in Seq(Nat) /\ Sourced(p, rs)
    <3>1. Sourced(p, reqs[p])
      BY <2>2 DEF ProjectsInv, StoreOK, ReqsOK
    <3>2. rs \in Seq(Nat) /\ \A i \in DOMAIN rs : \/ i \in DOMAIN reqs[p] /\ rs[i] = reqs[p][i]
                                                  \/ rs[i] = cmd[c].made
      BY <1>1, <2>1, <2>3
    <3>3. cmd[c].made # 0 => cmd[c].made \in ArtIds(dir[p]) /\ flat[p] = NoDoc
      BY <1>1, <2>1 DEF Kept
    <3>. QED BY <3>1, <3>2, <3>3 DEF Sourced
  <2>6. /\ op' = [by |-> c, phase |-> "requirement", p |-> p, doc |-> d, reqs |-> rs]
        /\ LockFree
    BY <1>3, <2>1 DEF Begin
  <2>7. StoreOK'
    BY <1>3, <2>2, <2>3, <2>4, <2>5, <2>6, BeginStore DEF ProjectsInv
  <2>8. /\ cmd' = [cmd EXCEPT ![c] = cmd'[c]]
        /\ cmd'[c] = [stage |-> "update", kind |-> cmd[c].kind, ref |-> cmd[c].ref,
                      entries |-> cmd[c].entries, p |-> p, loaded |-> cmd[c].loaded,
                      target |-> cmd[c].target, made |-> cmd[c].made, left |-> cmd[c].left - 1]
    <3>1. cmd'[c] = [cmd[c] EXCEPT !.stage = "update", !.left = cmd[c].left - 1]
          /\ cmd' = [cmd EXCEPT ![c] = cmd'[c]]
      BY <1>1, <1>3 DEF Turns, ProjectsInv, CmdOK, CommandOK
    <3>. QED BY <1>1, <2>1, <3>1 DEF CommandOK
  <2>9. CommandOK(cmd[c])' /\ cmd'[c].stage = "update"
    <3>1. /\ p \in Ids /\ Held(p)' # {} /\ cmd[c].made \in Nat /\ cmd[c].kind # "pin"
      BY <1>1, <1>3, <2>1 DEF Held
    <3>. QED BY <2>8, <3>1 DEF CommandOK
  <2>10. Storing(cmd[c])'
    <3>1. cmd[c].made # 0 \/ cmd[c].kind = "pin" =>
            /\ d = dir[p]
            /\ cmd[c].made # 0 => cmd[c].made \in ArtIds(d)
            /\ cmd[c].kind = "pin" => cmd[c].target \in PinnedIds(d)
      BY <1>1, <2>1, <2>2 DEF Kept, Held
    <3>. QED BY <2>6, <2>8, <3>1 DEF Storing
  <2>11. CmdOK'
    BY <1>3, <2>6, <2>8, <2>9, <2>10, BeginCmd
  <2>. QED BY <2>7, <2>11 DEF ProjectsInv
<1>. QED BY <1>2, <1>3 DEF Extract

-----------------------------------------------------------------------------
(* What a write may do to a project: it stays, and once it has one         *)
(* document only, that document loses nothing.                             *)
Grows ==
    \A p \in Ids :
        /\ Held(p) # {} => Held(p)' # {}
        /\ flat[p] = NoDoc => /\ flat'[p] = NoDoc
                              /\ ArtIds(dir[p]) \subseteq ArtIds(dir'[p])
                              /\ PinnedIds(dir[p]) \subseteq PinnedIds(dir'[p])

(* An operation under way is no idle one.                                  *)
LEMMA Writing ==
    ASSUME StoreOK, op.phase # "none"
    PROVE  /\ op = [by |-> op.by, phase |-> op.phase, p |-> op.p, doc |-> op.doc, reqs |-> op.reqs]
           /\ op.by \in Commands /\ op.p \in Ids /\ op.reqs \in Seq(Nat)
           /\ Document(op.doc) /\ op.doc.name \in Names
           /\ op.phase = "requirement" =>
                Fits(op.p, op.doc) /\ ~op.doc.imported /\ Sourced(op.p, op.reqs)
           /\ op.phase = "document" =>
                Fits(op.p, op.doc) /\ (op.doc.imported => reqs[op.p] = << 0 >>)
           /\ op.phase = "legacy" => dir[op.p] = op.doc
           /\ op.phase \in {"stage", "publish"} =>
                Fits(op.p, op.doc) /\ Held(op.p) = {} /\ op.reqs = << 0 >>
BY DEF StoreOK, OpOK, NoOp

(* A document that fits may replace the one in the directory.              *)
LEMMA PutDocument ==
    ASSUME StoreOK, op.phase # "none", NEW doc, NEW q, q = op.p, doc = op.doc,
           Fits(q, doc), dir' = [dir EXCEPT ![q] = doc], UNCHANGED flat
    PROVE  /\ NamesOK' /\ Grows
           /\ \A r \in Ids : r # q => Held(r)' = Held(r)
           /\ doc # NoDoc /\ dir'[q] = doc
           /\ dir' = [p \in Ids |-> dir'[p]]
           /\ \A r \in Ids : r # q => dir'[r] = dir[r]
<1>1. q \in Ids /\ Document(doc) /\ doc.name \in Names
  BY Writing
<1>2. doc # NoDoc
  BY <1>1, CommandAssumption DEF NoDoc
<1>3. /\ dir'[q] = doc /\ dir' = [p \in Ids |-> dir'[p]]
      /\ \A r \in Ids : r # q => dir'[r] = dir[r]
  BY <1>1 DEF StoreOK, DocsOK
<1>4. \A r \in Ids : r # q => Held(r)' = Held(r)
  BY <1>3 DEF Held
<1>5. doc \in Held(q)' /\ \A d \in Held(q)' : d = doc \/ d \in Held(q)
  BY <1>2, <1>3 DEF Held
<1>6. \A d \in Held(q)' : d.name = doc.name /\ d.imported = doc.imported
  BY <1>1, <1>5 DEF Fits
<1>7. ASSUME NEW r \in Ids, r # q, NEW d \in Held(r)' PROVE d.name # doc.name
  BY <1>1, <1>4, <1>7 DEF Fits
<1>8. NamesOK'
  <2>. SUFFICES ASSUME NEW p \in Ids, NEW r \in Ids, NEW d \in Held(p)', NEW e \in Held(r)'
                PROVE  IF p = r THEN d.name = e.name /\ d.imported = e.imported
                                ELSE d.name # e.name
    BY DEF NamesOK
  <2>1. CASE p = q /\ r = q
    BY <1>6, <2>1
  <2>2. CASE p = q /\ r # q
    BY <1>6, <1>7, <2>2
  <2>3. CASE p # q /\ r = q
    BY <1>6, <1>7, <2>3
  <2>4. CASE p # q /\ r # q
    BY <1>4, <2>4 DEF StoreOK, NamesOK
  <2>. QED BY <2>1, <2>2, <2>3, <2>4
<1>9. Grows
  <2>. SUFFICES ASSUME NEW p \in Ids
                PROVE  /\ Held(p) # {} => Held(p)' # {}
                       /\ flat[p] = NoDoc => /\ flat'[p] = NoDoc
                                             /\ ArtIds(dir[p]) \subseteq ArtIds(dir'[p])
                                             /\ PinnedIds(dir[p]) \subseteq PinnedIds(dir'[p])
    BY DEF Grows
  <2>1. CASE p = q
    BY <1>3, <1>5, <2>1 DEF Fits
  <2>2. CASE p # q
    BY <1>3, <1>4, <2>2
  <2>. QED BY <2>1, <2>2
<1>. QED BY <1>2, <1>3, <1>4, <1>6, <1>8, <1>9

(* Requirements stay sourced while the documents grow.                     *)
LEMMA SourcedGrows ==
    ASSUME Grows, NEW p \in Ids, NEW rs, Sourced(p, rs) PROVE Sourced(p, rs)'
BY DEF Grows, Sourced

-----------------------------------------------------------------------------
(* The writes of the store.                                                *)
LEMMA WriteRequirementStore == StoreOK /\ WriteRequirement => StoreOK' /\ Grows
<1>. SUFFICES ASSUME StoreOK, WriteRequirement PROVE StoreOK' /\ Grows
  OBVIOUS
<1>1. PICK q, doc, rs : q = op.p /\ doc = op.doc /\ rs = op.reqs
  OBVIOUS
<1>2. /\ q \in Ids /\ op.by \in Commands /\ rs \in Seq(Nat)
      /\ Document(doc) /\ doc.name \in Names /\ Fits(q, doc) /\ ~doc.imported /\ Sourced(q, rs)
      /\ op' = [by |-> op.by, phase |-> "document", p |-> q, doc |-> doc, reqs |-> rs]
      /\ reqs' = [reqs EXCEPT ![q] = rs] /\ UNCHANGED <<dir, flat, born>>
  BY <1>1, Writing DEF WriteRequirement
<1>3. Grows
  BY <1>2 DEF Grows, Held
<1>4. /\ reqs'[q] = rs /\ reqs' = [p \in Ids |-> reqs'[p]]
      /\ \A p \in Ids : p # q => reqs'[p] = reqs[p]
  BY <1>2 DEF StoreOK, DocsOK
<1>5. DocsOK'
  BY <1>2, <1>4 DEF StoreOK, DocsOK
<1>6. NamesOK'
  BY <1>2 DEF StoreOK, NamesOK, Held
<1>7. \A d \in Held(q) : ~d.imported
  BY <1>2 DEF Fits
<1>8. ReqsOK'
  BY <1>2, <1>4, <1>7 DEF StoreOK, ReqsOK, Sourced, Held
<1>9. Fits(q, doc)'
  BY <1>2 DEF Fits, Held
<1>10. OpOK'
  BY <1>2, <1>9 DEF OpOK
<1>. QED BY <1>3, <1>5, <1>6, <1>8, <1>10 DEF StoreOK

(* The write of project.json, also over a flat document.                    *)
LEMMA WriteDocumentStore ==
    StoreOK /\ WriteDocument =>
        /\ StoreOK' /\ Grows
        /\ op' = NoOp => flat'[op.p] = NoDoc /\ dir'[op.p] = op.doc
<1>. SUFFICES ASSUME StoreOK, WriteDocument
              PROVE  /\ StoreOK' /\ Grows
                     /\ op' = NoOp => flat'[op.p] = NoDoc /\ dir'[op.p] = op.doc
  OBVIOUS
<1>1. PICK q, doc, rs : q = op.p /\ doc = op.doc /\ rs = op.reqs
  OBVIOUS
<1>2. /\ op.phase = "document" /\ q \in Ids /\ op.by \in Commands /\ rs \in Seq(Nat)
      /\ Document(doc) /\ doc.name \in Names /\ Fits(q, doc)
      /\ doc.imported => reqs[q] = << 0 >>
      /\ dir' = [dir EXCEPT ![q] = doc] /\ UNCHANGED <<flat, reqs, born>>
  BY <1>1, Writing DEF WriteDocument
<1>3. /\ NamesOK' /\ Grows
      /\ \A r \in Ids : r # q => Held(r)' = Held(r)
      /\ dir'[q] = doc /\ dir' = [p \in Ids |-> dir'[p]]
      /\ \A r \in Ids : r # q => dir'[r] = dir[r]
  BY <1>1, <1>2, PutDocument
<1>4. DocsOK'
  BY <1>2, <1>3 DEF StoreOK, DocsOK
<1>5. \A p \in Ids : Sourced(p, reqs[p])'
  BY <1>2, <1>3, SourcedGrows DEF StoreOK, ReqsOK, Sourced, Grows
<1>6. ReqsOK'
  <2>1. \A d \in Held(q)' : d = doc \/ d \in Held(q)
    BY <1>2, <1>3 DEF Held
  <2>2. \A d \in Held(q)' : d.imported => reqs[q] = << 0 >>
    BY <1>2, <2>1 DEF StoreOK, ReqsOK
  <2>. QED BY <1>2, <1>3, <1>5, <2>2 DEF StoreOK, ReqsOK
<1>7. CASE flat[q] = NoDoc
  <2>1. op' = NoOp /\ flat'[q] = NoDoc
    BY <1>1, <1>2, <1>7 DEF WriteDocument
  <2>. QED BY <1>1, <1>3, <1>4, <1>6, <2>1 DEF StoreOK, OpOK
<1>8. CASE flat[q] # NoDoc
  <2>1. op' = [by |-> op.by, phase |-> "legacy", p |-> q, doc |-> doc, reqs |-> rs]
    BY <1>1, <1>2, <1>8, Writing DEF WriteDocument
  <2>2. op' # NoOp
    BY <1>2, <2>1, CommandAssumption DEF NoOp
  <2>. QED BY <1>2, <1>3, <1>4, <1>6, <2>1, <2>2 DEF StoreOK, OpOK
<1>. QED BY <1>7, <1>8

(* The removal of the flat document after it.                               *)
LEMMA RemoveLegacyStore ==
    StoreOK /\ RemoveLegacy =>
        StoreOK' /\ Grows /\ flat'[op.p] = NoDoc /\ dir'[op.p] = op.doc
<1>. SUFFICES ASSUME StoreOK, RemoveLegacy
              PROVE  StoreOK' /\ Grows /\ flat'[op.p] = NoDoc /\ dir'[op.p] = op.doc
  OBVIOUS
<1>1. PICK q, doc : q = op.p /\ doc = op.doc
  OBVIOUS
<1>2. /\ q \in Ids /\ doc.name \in Names /\ dir[q] = doc /\ op' = NoOp
      /\ flat' = [flat EXCEPT ![q] = NoDoc] /\ UNCHANGED <<dir, reqs, born>>
  BY <1>1, Writing DEF RemoveLegacy
<1>3. doc # NoDoc
  BY <1>2, CommandAssumption DEF NoDoc
<1>4. /\ flat'[q] = NoDoc /\ flat' = [p \in Ids |-> flat'[p]]
      /\ \A p \in Ids : p # q => flat'[p] = flat[p]
  BY <1>2 DEF StoreOK, DocsOK
<1>5. \A p \in Ids : Held(p)' \subseteq Held(p) /\ (Held(p) # {} => Held(p)' # {})
  <2>. SUFFICES ASSUME NEW p \in Ids
                PROVE  Held(p)' \subseteq Held(p) /\ (Held(p) # {} => Held(p)' # {})
    OBVIOUS
  <2>1. CASE p = q
    BY <1>2, <1>3, <1>4, <2>1 DEF Held
  <2>2. CASE p # q
    BY <1>2, <1>4, <2>2 DEF Held
  <2>. QED BY <2>1, <2>2
<1>6. Grows
  BY <1>2, <1>4, <1>5 DEF Grows
<1>7. DocsOK'
  BY <1>2, <1>4, NoDocument DEF StoreOK, DocsOK
<1>8. NamesOK'
  BY <1>5 DEF StoreOK, NamesOK
<1>9. \A p \in Ids : Sourced(p, reqs[p])'
  BY <1>2, <1>4 DEF StoreOK, ReqsOK, Sourced
<1>10. ReqsOK'
  BY <1>2, <1>5, <1>9 DEF StoreOK, ReqsOK
<1>. QED BY <1>1, <1>2, <1>4, <1>6, <1>7, <1>8, <1>10 DEF StoreOK, OpOK

(* The staging of an import shows nothing yet.                              *)
LEMMA StageStore == StoreOK /\ Stage => StoreOK' /\ Grows
<1>. SUFFICES ASSUME StoreOK, Stage PROVE StoreOK' /\ Grows
  OBVIOUS
<1>1. PICK q, doc, rs : q = op.p /\ doc = op.doc /\ rs = op.reqs
  OBVIOUS
<1>2. /\ q \in Ids /\ op.by \in Commands /\ rs \in Seq(Nat) /\ rs = << 0 >>
      /\ Document(doc) /\ doc.name \in Names /\ Fits(q, doc) /\ Held(q) = {}
      /\ op' = [by |-> op.by, phase |-> "publish", p |-> q, doc |-> doc, reqs |-> rs]
      /\ UNCHANGED <<dir, flat, reqs, born>>
  BY <1>1, Writing DEF Stage
<1>3. DocsOK' /\ NamesOK' /\ ReqsOK' /\ Grows
  <2>1. DocsOK' /\ NamesOK'
    BY <1>2 DEF StoreOK, DocsOK, NamesOK, Held
  <2>2. ReqsOK'
    BY <1>2 DEF StoreOK, ReqsOK, Sourced, Held
  <2>3. Grows
    BY <1>2 DEF Grows, Held
  <2>. QED BY <2>1, <2>2, <2>3
<1>4. Fits(q, doc)' /\ Held(q)' = {}
  BY <1>2 DEF Fits, Held
<1>5. OpOK'
  BY <1>2, <1>4 DEF OpOK
<1>. QED BY <1>3, <1>5 DEF StoreOK

(* Its publication shows project and requirements at once.                  *)
LEMMA PublishStore == StoreOK /\ Publish => StoreOK' /\ Grows
<1>. SUFFICES ASSUME StoreOK, Publish PROVE StoreOK' /\ Grows
  OBVIOUS
<1>1. PICK q, doc, rs : q = op.p /\ doc = op.doc /\ rs = op.reqs
  OBVIOUS
<1>2. /\ op.phase = "publish" /\ q \in Ids /\ rs \in Seq(Nat) /\ rs = << 0 >>
      /\ Document(doc) /\ doc.name \in Names /\ Fits(q, doc)
      /\ dir' = [dir EXCEPT ![q] = doc] /\ reqs' = [reqs EXCEPT ![q] = rs]
      /\ op' = NoOp /\ UNCHANGED <<flat, born>>
  BY <1>1, Writing DEF Publish
<1>3. /\ NamesOK' /\ Grows
      /\ \A r \in Ids : r # q => Held(r)' = Held(r)
      /\ dir'[q] = doc /\ dir' = [p \in Ids |-> dir'[p]]
      /\ \A r \in Ids : r # q => dir'[r] = dir[r]
  BY <1>1, <1>2, PutDocument
<1>4. /\ reqs'[q] = << 0 >> /\ reqs' = [p \in Ids |-> reqs'[p]]
      /\ \A p \in Ids : p # q => reqs'[p] = reqs[p]
  BY <1>2 DEF StoreOK, DocsOK
<1>5. DocsOK'
  BY <1>2, <1>3, <1>4 DEF StoreOK, DocsOK
<1>6. \A p \in Ids : Sourced(p, reqs[p])'
  <2>1. Sourced(q, reqs[q])'
    BY <1>1, <1>4 DEF Sourced
  <2>2. ASSUME NEW p \in Ids, p # q PROVE Sourced(p, reqs[p])'
    BY <1>3, <1>4, <2>2 DEF StoreOK, ReqsOK, Sourced, Grows
  <2>. QED BY <2>1, <2>2
<1>7. ReqsOK'
  BY <1>3, <1>4, <1>6 DEF StoreOK, ReqsOK
<1>. QED BY <1>2, <1>3, <1>5, <1>7 DEF StoreOK, OpOK

(* Who stops leaves the files as they are.                                  *)
LEMMA StopStore == StoreOK /\ StopWriting => StoreOK' /\ Grows
<1>. SUFFICES ASSUME StoreOK, StopWriting PROVE StoreOK' /\ Grows
  OBVIOUS
<1>1. op' = NoOp /\ UNCHANGED <<dir, flat, reqs, born>>
  BY DEF StopWriting
<1>2. DocsOK' /\ NamesOK' /\ ReqsOK' /\ Grows
  <2>1. DocsOK' /\ NamesOK'
    BY <1>1 DEF StoreOK, DocsOK, NamesOK, Held
  <2>2. ReqsOK'
    BY <1>1 DEF StoreOK, ReqsOK, Sourced, Held
  <2>3. Grows
    BY <1>1 DEF Grows, Held
  <2>. QED BY <2>1, <2>2, <2>3
<1>. QED BY <1>1, <1>2 DEF StoreOK, OpOK

-----------------------------------------------------------------------------
(* What a command knows stays true while others write.                     *)
LEMMA OthersKeep ==
    ASSUME Grows, NEW c, CommandOK(cmd[c]), cmd'[c] = cmd[c] PROVE CommandOK(cmd[c])'
<1>1. Kept(cmd[c]) => Kept(cmd[c])'
  BY DEF Grows, Kept
<1>. QED BY <1>1 DEF Grows, CommandOK

(* A write that is not the last one.                                       *)
LEMMA WriteGoesOn ==
    ASSUME ProjectsInv, Grows, NEW phase, op' = [op EXCEPT !.phase = phase], UNCHANGED cmd,
           op.phase # "none",
           op.phase \in {"stage", "publish"} \/ phase \in {"requirement", "document", "legacy"}
    PROVE  CmdOK'
<1>1. /\ op' = [by |-> op.by, phase |-> phase, p |-> op.p, doc |-> op.doc, reqs |-> op.reqs]
  BY Writing DEF ProjectsInv
<1>2. ASSUME NEW c \in Commands
      PROVE  /\ CommandOK(cmd[c])' /\ (At(c, "update")' <=> op'.by = c)
             /\ op'.by = c => Storing(cmd[c])'
  <2>1. CommandOK(cmd[c])'
    BY OthersKeep DEF ProjectsInv, CmdOK
  <2>. QED BY <1>1, <2>1 DEF ProjectsInv, CmdOK, At, Storing
<1>. QED BY <1>2 DEF ProjectsInv, CmdOK

(* The last write: its command goes on, or fails.                          *)
LEMMA WriteEnds ==
    ASSUME ProjectsInv, Grows, op.phase # "none", op' = NoOp,
           \/ /\ Continues(op.by)
              /\ \/ op.phase \in {"stage", "publish"}
                 \/ flat'[op.p] = NoDoc /\ dir'[op.p] = op.doc
           \/ Turns(op.by, Failed)
    PROVE  CmdOK'
<1>1. PICK c : c = op.by
  OBVIOUS
<1>2. c \in Commands /\ op'.by = NoOne /\ NoOne \notin Commands
  BY <1>1, Writing, CommandAssumption DEF ProjectsInv, NoOp
<1>3. CommandOK(cmd[c]) /\ Storing(cmd[c])
  BY <1>1, <1>2 DEF ProjectsInv, CmdOK
<1>4. /\ cmd' = [d \in Commands |-> cmd'[d]]
      /\ \A d \in Commands : d # c => cmd'[d] = cmd[d]
      /\ Continues(c) => cmd'[c] = [cmd[c] EXCEPT !.stage = IF cmd[c].left > 0 THEN "extract"
                                                            ELSE "done"]
      /\ Turns(c, Failed) => cmd'[c] = Failed
  BY <1>1, <1>2 DEF Continues, Turns, ProjectsInv, CmdOK
<1>5. CommandOK(cmd[c])' /\ cmd'[c].stage # "update"
  <2>1. CASE Turns(c, Failed)
    BY <1>4, <2>1 DEF CommandOK, Failed, NoCmd
  <2>2. CASE /\ Continues(c)
             /\ op.phase \in {"stage", "publish"} \/ (flat'[op.p] = NoDoc /\ dir'[op.p] = op.doc)
    <3>1. PICK stage \in {"extract", "done"} :
            /\ cmd[c].left > 0 <=> stage = "extract"
            /\ cmd'[c] = [cmd[c] EXCEPT !.stage = stage]
      BY <1>4, <2>2
    <3>2. cmd'[c] = [stage |-> stage, kind |-> cmd[c].kind, ref |-> cmd[c].ref,
                     entries |-> cmd[c].entries, p |-> cmd[c].p, loaded |-> cmd[c].loaded,
                     target |-> cmd[c].target, made |-> cmd[c].made, left |-> cmd[c].left]
      BY <1>3, <3>1 DEF CommandOK
    <3>3. cmd[c].made \in Nat /\ (cmd[c].kind = "pin" => ~(cmd[c].left > 0))
      BY <1>3 DEF CommandOK
    <3>4. cmd[c].left > 0 => cmd[c].p \in Ids /\ Held(cmd[c].p)' # {}
      <4>1. PICK p : p = cmd[c].p
        OBVIOUS
      <4>2. cmd[c].left > 0 => p \in Ids /\ Held(p)' # {}
        BY <1>3, <4>1 DEF CommandOK, Grows
      <4>. QED BY <3>2, <4>1, <4>2
    <3>5. cmd[c].made # 0 \/ cmd[c].kind = "pin" =>
            /\ cmd[c].p \in Ids /\ flat'[cmd[c].p] = NoDoc
            /\ cmd[c].made # 0 => cmd[c].made \in ArtIds(dir'[cmd[c].p])
            /\ cmd[c].kind = "pin" => cmd[c].target \in PinnedIds(dir'[cmd[c].p])
      BY <1>3, <2>2, Writing DEF Storing, ProjectsInv
    <3>6. Kept(cmd[c])'
      BY <3>2, <3>5 DEF Kept
    <3>. QED BY <3>1, <3>2, <3>3, <3>4, <3>6 DEF CommandOK
  <2>. QED BY <1>1, <2>1, <2>2
<1>6. ASSUME NEW d \in Commands, d # c
      PROVE  CommandOK(cmd[d])' /\ ~At(d, "update")' /\ op'.by # d
  <2>1. CommandOK(cmd[d])'
    BY <1>4, <1>6, OthersKeep DEF ProjectsInv, CmdOK
  <2>. QED BY <1>1, <1>2, <1>4, <1>6, <2>1 DEF ProjectsInv, CmdOK, At
<1>. QED BY <1>2, <1>4, <1>5, <1>6 DEF CmdOK, At

(* No write, finished or stopped, breaks a result.                          *)
LEMMA WritesPreserve == ProjectsInv /\ (Writes \/ WriteFails) => ProjectsInv'
<1>. SUFFICES ASSUME ProjectsInv, Writes \/ WriteFails PROVE ProjectsInv'
  OBVIOUS
<1>. USE DEF ProjectsInv
<1>1. CASE WriteFails
  <2>1. StoreOK' /\ Grows
    BY <1>1, StopStore DEF WriteFails
  <2>2. op.phase # "none" /\ op' = NoOp /\ Turns(op.by, Failed)
    BY <1>1 DEF WriteFails, StopWriting, LockFree, StoreOK, OpOK, NoOp
  <2>. QED BY <2>1, <2>2, WriteEnds
<1>2. CASE Writes /\ op' = NoOp
  <2>1. Continues(op.by)
    BY <1>2 DEF Writes, Finished
  <2>2. CASE WriteRequirement
    <3>1. op'.by \in Commands
      BY <2>2, Writing DEF WriteRequirement
    <3>. QED BY <1>2, <3>1, CommandAssumption DEF NoOp
  <2>3. CASE Stage
    <3>1. op'.by \in Commands
      BY <2>3, Writing DEF Stage
    <3>. QED BY <1>2, <3>1, CommandAssumption DEF NoOp
  <2>4. CASE WriteDocument
    <3>1. op.phase # "none"
      BY <2>4 DEF WriteDocument
    <3>2. StoreOK' /\ Grows /\ flat'[op.p] = NoDoc /\ dir'[op.p] = op.doc
      BY <1>2, <2>4, WriteDocumentStore
    <3>. QED BY <1>2, <2>1, <3>1, <3>2, WriteEnds
  <2>5. CASE RemoveLegacy
    <3>1. op.phase # "none"
      BY <2>5 DEF RemoveLegacy
    <3>. QED BY <1>2, <2>1, <2>5, <3>1, RemoveLegacyStore, WriteEnds
  <2>6. CASE Publish
    <3>1. op.phase = "publish"
      BY <2>6 DEF Publish
    <3>. QED BY <1>2, <2>1, <2>6, <3>1, PublishStore, WriteEnds
  <2>. QED BY <1>2, <2>2, <2>3, <2>4, <2>5, <2>6 DEF Writes
<1>3. CASE Writes /\ op' # NoOp
  <2>1. UNCHANGED cmd
    BY <1>3 DEF Writes, Finished
  <2>2. CASE WriteRequirement
    <3>1. op.phase # "none" /\ op' = [op EXCEPT !.phase = "document"]
      BY <2>2 DEF WriteRequirement
    <3>. QED BY <2>1, <2>2, <3>1, WriteRequirementStore, WriteGoesOn
  <2>3. CASE Stage
    <3>1. op.phase = "stage" /\ op' = [op EXCEPT !.phase = "publish"]
      BY <2>3 DEF Stage
    <3>. QED BY <2>1, <2>3, <3>1, StageStore, WriteGoesOn
  <2>4. CASE WriteDocument
    <3>1. op.phase # "none" /\ op' = [op EXCEPT !.phase = "legacy"]
      BY <1>3, <2>4 DEF WriteDocument
    <3>2. StoreOK' /\ Grows
      BY <2>4, WriteDocumentStore
    <3>. QED BY <2>1, <3>1, <3>2, WriteGoesOn
  <2>5. ~RemoveLegacy /\ ~Publish
    BY <1>3 DEF RemoveLegacy, Publish
  <2>. QED BY <1>3, <2>2, <2>3, <2>4, <2>5 DEF Writes
<1>. QED BY <1>1, <1>2, <1>3

-----------------------------------------------------------------------------
(* Every step preserves the invariant.                                     *)
LEMMA ProjectsNext == ProjectsInv /\ [CmdNext]_vars => ProjectsInv'
<1>. SUFFICES ASSUME ProjectsInv, [CmdNext]_vars PROVE ProjectsInv'
  OBVIOUS
<1>1. CASE UNCHANGED vars
  BY <1>1, Unchanged DEF vars
<1>2. ASSUME NEW c \in Commands, Asks(c) PROVE ProjectsInv'
  BY <1>2, CreatePreserves, ImportPreserves, StartPreserves, PinPreserves
     DEF Asks, RunPrompt, Analyze, Workbench
<1>3. ASSUME NEW c \in Commands, Works(c) PROVE ProjectsInv'
  <2>1. CASE Generate(c) \/ RunTests(c) \/ TestsReturn(c)
    BY <2>1, GeneratePreserves
  <2>2. CASE GenerateFails(c) \/ ResolveFails(c) \/ LockTimesOut(c)
    <3>1. ~At(c, "update") /\ Fails(c)
      BY <2>2 DEF GenerateFails, ResolveFails, LockTimesOut, At
    <3>. QED BY <3>1, FailsPreserves
  <2>3. CASE UNCHANGED <<storeVars, cmd>>
    BY <2>3, Unchanged
  <2>4. CASE ResolveProject(c)
    BY <2>4, ResolvePreserves
  <2>5. CASE PersistArtifact(c)
    BY <2>5, PersistPreserves
  <2>6. CASE Extract(c)
    BY <2>6, ExtractPreserves
  <2>7. ASSUME NEW n \in ArtNames, Record(c, n) PROVE ProjectsInv'
    BY <2>7, RecordPreserves
  <2>. QED BY <1>3, <2>1, <2>2, <2>3, <2>4, <2>5, <2>6, <2>7 DEF Works
<1>4. CASE Writes \/ WriteFails
  BY <1>4, WritesPreserve
<1>. QED BY <1>1, <1>2, <1>3, <1>4 DEF CmdNext

(* The invariant holds in every reachable state.                           *)
THEOREM ProjectsInvariance == CmdSpec => []ProjectsInv
<1>. QED BY ProjectsInit, ProjectsNext, PTL DEF CmdSpec

-----------------------------------------------------------------------------
(* "rejecting duplicate names" (dirstore.go:128): no two projects have one *)
(* name, whatever ran together and wherever it stopped.                    *)
THEOREM UniqueNames == CmdSpec => []NamesUnique
<1>1. ProjectsInv => NamesUnique
  <2>. SUFFICES ASSUME ProjectsInv, NEW e \in Entries, NEW f \in Entries,
                       Holds(e).doc.name = Holds(f).doc.name
                PROVE  e[2] = f[2]
    BY DEF NamesUnique
  <2>. QED BY HoldsHeld DEF ProjectsInv, StoreOK, NamesOK
<1>. QED BY <1>1, ProjectsInvariance, PTL

(* "so a concurrent run cannot be lost" (orchestrator.go:181): what a      *)
(* command reported done is in the only document of its project for good.  *)
THEOREM DoneIsKept == CmdSpec => []ResultsKept
<1>1. ProjectsInv => ResultsKept
  <2>. SUFFICES ASSUME ProjectsInv, NEW c \in Commands, At(c, "done")
                PROVE  /\ cmd[c].made # 0 => /\ cmd[c].made \in ArtIds(dir[cmd[c].p])
                                             /\ flat[cmd[c].p] = NoDoc
                       /\ cmd[c].kind = "pin" =>
                            \E a \in ToSet(dir[cmd[c].p].arts) : a.id = cmd[c].target /\ a.pinned
    BY DEF ResultsKept
  <2>1. Kept(cmd[c])
    BY DEF ProjectsInv, CmdOK, CommandOK, At
  <2>2. ASSUME NEW d, NEW id \in PinnedIds(d)
        PROVE  \E a \in ToSet(d.arts) : a.id = id /\ a.pinned
    BY DEF PinnedIds, ToSet
  <2>. QED BY <2>1, <2>2 DEF Kept
<1>. QED BY <1>1, ProjectsInvariance, PTL

(* "The artifact is stored first so requirement provenance can point back  *)
(* at it" (analyzer.go:218): it can, in every project at any time.         *)
THEOREM ProvenanceHolds == CmdSpec => []ProvenanceResolves
<1>1. ProjectsInv => ProvenanceResolves
  <2>. SUFFICES ASSUME ProjectsInv, NEW p \in Ids, NEW i \in DOMAIN reqs[p], reqs[p][i] # 0
                PROVE  reqs[p][i] \in ArtIds(ByID(p))
    BY DEF ProvenanceResolves
  <2>1. reqs[p][i] \in ArtIds(dir[p])
    BY DEF ProjectsInv, StoreOK, ReqsOK, Sourced
  <2>2. dir[p] # NoDoc
    BY <2>1, NoDocument
  <2>. QED BY <2>1, <2>2 DEF ByID
<1>. QED BY <1>1, ProjectsInvariance, PTL

(* An imported project has its own requirements and no others.             *)
THEOREM ImportsKept == CmdSpec => []ImportsWhole
<1>1. ProjectsInv => ImportsWhole
  <2>. SUFFICES ASSUME ProjectsInv, NEW p \in Ids, ByID(p).imported PROVE reqs[p] = << 0 >>
    BY DEF ImportsWhole
  <2>1. ByID(p) # NoDoc
    BY DEF NoDoc
  <2>. QED BY <2>1, ByIDHeld DEF ProjectsInv, StoreOK, ReqsOK
<1>. QED BY <1>1, ProjectsInvariance, PTL

-----------------------------------------------------------------------------
(* The revisions of a name, in a document where they are numbered.         *)

(* A set of naturals has a least element.                                  *)
LEMMA Least ==
    ASSUME NEW S \in SUBSET Nat, S # {} PROVE \E m \in S : \A n \in S : m <= n
<1>. DEFINE LT == {ss \in Nat \X Nat : ss[1] < ss[2]}
<1>1. IsWellFoundedOn(LT, Nat)
  BY NatLessThanWellFounded DEF OpToRel
<1>2. PICK m \in S : \A n \in S : ~(<<n, m>> \in LT)
  <2>. HIDE DEF LT
  <2>. QED BY <1>1, WFMin
<1>3. ASSUME NEW n \in S PROVE m <= n
  <2>1. m \in Nat /\ n \in Nat /\ ~(<<n, m>> \in LT)
    BY <1>2
  <2>. QED BY <2>1
<1>. QED BY <1>3

(* The artifacts of a document are numbered 1 to n.                        *)
LEMMA Numbers ==
    ASSUME NEW d, Document(d)
    PROVE  DOMAIN d.arts = 1..Len(d.arts) /\ Len(d.arts) \in Nat
BY DEF Document

(* How many of the first i artifacts have the name.                        *)
Earlier(d, i, name) == {j \in 1..i : d.arts[j].name = name}

(* The revisions before a place can be counted.                             *)
LEMMA EarlierFinite ==
    ASSUME NEW d, NEW i \in Nat, NEW name
    PROVE  IsFiniteSet(Earlier(d, i, name)) /\ Cardinality(Earlier(d, i, name)) \in Nat
<1>1. IsFiniteSet(1..i)
  BY FS_Interval
<1>2. IsFiniteSet(Earlier(d, i, name))
  <2>1. Earlier(d, i, name) \in SUBSET (1..i)
    BY DEF Earlier
  <2>. QED BY <1>1, <2>1, FS_Subset
<1>. QED BY <1>2, FS_CardinalityType

(* The latest revision is in the document, and its number is how many      *)
(* there are.                                                              *)
LEMMA LatestNumber ==
    ASSUME NEW d, Document(d), Dense(d), NEW name, Revisions(d, name) # {}
    PROVE  /\ \E i \in DOMAIN d.arts : Latest(d, name) = d.arts[i]
           /\ Latest(d, name).ver = Cardinality(Revisions(d, name))
<1> DEFINE R == Revisions(d, name)
           n == Len(d.arts)
<1>1. DOMAIN d.arts = 1..n /\ n \in Nat /\ R = Earlier(d, n, name)
  BY Numbers DEF Revisions, Earlier
<1>2. IsFiniteSet(R) /\ Cardinality(R) \in Nat
  BY <1>1, EarlierFinite
<1>3. PICK m \in R : \A i \in R : i <= m
  <2>. DEFINE S == {k \in Nat : n - k \in R}
  <2>1. PICK i \in R : i \in 1..n
    BY <1>1 DEF Revisions
  <2>2. n - i \in S
    <3>1. n - i \in Nat /\ n - (n - i) = i
      BY <1>1, <2>1
    <3>. HIDE DEF R
    <3>. QED BY <2>1, <3>1
  <2>3. PICK k \in S : \A l \in S : k <= l
    <3>. HIDE DEF S
    <3>1. S \in SUBSET Nat
      BY DEF S
    <3>. QED BY <2>2, <3>1, Least
  <2>4. ASSUME NEW j \in R PROVE j <= n - k
    <3>1. j \in 1..n
      BY <1>1 DEF Revisions
    <3>2. n - j \in Nat /\ n - (n - j) = j
      BY <1>1, <3>1
    <3>3. n - j \in S
      <4>. HIDE DEF R
      <4>. QED BY <2>4, <3>2
    <3>4. k <= n - j /\ k \in Nat
      BY <2>3, <3>3
    <3>. HIDE DEF S, R
    <3>. QED BY <1>1, <3>1, <3>4
  <2>. QED BY <2>3, <2>4
<1>4. ASSUME NEW i \in R
      PROVE  /\ i \in 1..n /\ d.arts[i].ver = Cardinality(Earlier(d, i, name))
             /\ Earlier(d, i, name) \in SUBSET R
  <2>1. i \in 1..n /\ d.arts[i].name = name
    BY <1>1 DEF Revisions
  <2>. QED BY <1>1, <2>1 DEF Dense, Earlier
<1>5. d.arts[m].ver = Cardinality(R)
  <2>1. Earlier(d, m, name) = R
    <3>1. R \subseteq Earlier(d, m, name)
      BY <1>1, <1>3, <1>4 DEF Earlier
    <3>. QED BY <1>4, <3>1
  <2>. QED BY <1>4, <2>1
<1>6. ASSUME NEW i \in R PROVE d.arts[i].ver <= Cardinality(R) /\ d.arts[i].ver \in Nat
  <2>1. Cardinality(Earlier(d, i, name)) <= Cardinality(R)
    <3>. HIDE DEF R
    <3>. QED BY <1>2, <1>4, FS_Subset
  <2>. QED BY <1>1, <1>4, <2>1, EarlierFinite
<1>7. PICK i \in R : Latest(d, name) = d.arts[i] /\ \A j \in R : d.arts[j].ver <= d.arts[i].ver
  <2>1. \E i \in R : \A j \in R : d.arts[j].ver <= d.arts[i].ver
    BY <1>5, <1>6
  <2>. QED BY <2>1 DEF Latest
<1>8. d.arts[i].ver = Cardinality(R)
  BY <1>2, <1>5, <1>6, <1>7
<1>. QED BY <1>1, <1>4, <1>7, <1>8

(* A document with the same names, numbers and parents is as dense.        *)
LEMMA DenseReplaced ==
    ASSUME NEW d, Dense(d), NEW e, DOMAIN e.arts = DOMAIN d.arts, Document(d),
           \A i \in DOMAIN d.arts : /\ e.arts[i].id = d.arts[i].id
                                    /\ e.arts[i].name = d.arts[i].name
                                    /\ e.arts[i].ver = d.arts[i].ver,
           \A i \in DOMAIN d.arts :
              e.arts[i].parent # 0 => \/ e.arts[i].parent = d.arts[i].parent
                                      \/ \E j \in 1..(i - 1) : d.arts[j].id = e.arts[i].parent
    PROVE  Dense(e)
<1>. SUFFICES ASSUME NEW i \in DOMAIN e.arts
              PROVE  /\ e.arts[i].ver = Cardinality(Earlier(e, i, e.arts[i].name))
                     /\ e.arts[i].parent # 0 =>
                          \E j \in 1..(i - 1) : e.arts[j].id = e.arts[i].parent
  BY DEF Dense, Earlier
<1>1. DOMAIN d.arts = 1..Len(d.arts) /\ Len(d.arts) \in Nat
  BY Numbers
<1>2. 1..i \subseteq DOMAIN d.arts /\ 1..(i - 1) \subseteq DOMAIN d.arts
  BY <1>1
<1>3. Earlier(e, i, e.arts[i].name) = Earlier(d, i, d.arts[i].name)
  BY <1>2 DEF Earlier
<1>4. e.arts[i].ver = Cardinality(Earlier(e, i, e.arts[i].name))
  BY <1>3 DEF Dense, Earlier
<1>5. ASSUME e.arts[i].parent # 0
      PROVE  \E j \in 1..(i - 1) : e.arts[j].id = e.arts[i].parent
  <2>1. PICK j \in 1..(i - 1) : d.arts[j].id = e.arts[i].parent
    BY <1>5 DEF Dense
  <2>. QED BY <1>2, <2>1
<1>. QED BY <1>4, <1>5

(* AddArtifact numbers the new revision one after the others and makes the *)
(* latest of them its parent.                                              *)
LEMMA AddDense ==
    ASSUME NEW d, Document(d), Dense(d), NEW id, NEW name, NEW type
    PROVE  LET e == AddArtifact(d, id, name, type) IN
           /\ Dense(e) /\ Document(e) /\ Len(e.arts) = Len(d.arts) + 1
           /\ \A i \in DOMAIN d.arts : e.arts[i] = d.arts[i]
<1> DEFINE first == Revisions(d, name) = {}
           new == [id |-> id, name |-> name, type |-> type, pinned |-> FALSE,
                   ver |-> IF first THEN 1 ELSE Latest(d, name).ver + 1,
                   parent |-> IF first THEN 0 ELSE Latest(d, name).id]
           e == AddArtifact(d, id, name, type)
           n == Len(d.arts)
<1>1. e = [d EXCEPT !.arts = Append(@, new)]
  BY DEF AddArtifact
<1>2. Document(e)
  BY AddExtends DEF Extends
<1>3. PICK a : a = new
  OBVIOUS
<1>4. /\ a.name = name
      /\ a.ver = IF first THEN 1 ELSE Latest(d, name).ver + 1
      /\ a.parent = IF first THEN 0 ELSE Latest(d, name).id
  BY <1>3
<1>5. e.arts = Append(d.arts, a)
  <2>. HIDE DEF new, e
  <2>. QED BY <1>1, <1>3 DEF Document
<1> HIDE DEF new, e
<1>6. PICK S : d.arts \in Seq(S)
  BY DEF Document
<1>7. d.arts \in Seq(S \cup {a})
  BY <1>6
<1>8. /\ n \in Nat /\ DOMAIN d.arts = 1..n /\ DOMAIN e.arts = 1..(n + 1)
      /\ Len(e.arts) = n + 1 /\ e.arts[n + 1] = a
      /\ \A i \in 1..n : e.arts[i] = d.arts[i]
  BY <1>5, <1>7
<1>9. Dense(e)
  <2>. SUFFICES ASSUME NEW i \in 1..(n + 1)
                PROVE  /\ e.arts[i].ver = Cardinality(Earlier(e, i, e.arts[i].name))
                       /\ e.arts[i].parent # 0 =>
                            \E j \in 1..(i - 1) : e.arts[j].id = e.arts[i].parent
    BY <1>8 DEF Dense, Earlier
  <2>1. CASE i \in 1..n
    <3>1. 1..i \subseteq 1..n /\ 1..(i - 1) \subseteq 1..n
      BY <1>8, <2>1
    <3>2. Earlier(e, i, e.arts[i].name) = Earlier(d, i, d.arts[i].name)
      BY <1>8, <2>1, <3>1 DEF Earlier
    <3>3. e.arts[i].ver = Cardinality(Earlier(e, i, e.arts[i].name))
      BY <1>8, <2>1, <3>2 DEF Dense, Earlier
    <3>4. ASSUME e.arts[i].parent # 0
          PROVE  \E j \in 1..(i - 1) : e.arts[j].id = e.arts[i].parent
      <4>1. PICK j \in 1..(i - 1) : d.arts[j].id = d.arts[i].parent
        BY <1>8, <2>1, <3>4 DEF Dense
      <4>. QED BY <1>8, <2>1, <3>1, <4>1
    <3>. QED BY <3>3, <3>4
  <2>2. CASE i = n + 1
    <3>1. e.arts[i] = a
      BY <1>8, <2>2
    <3>2. Earlier(e, i, name) = Revisions(d, name) \cup {n + 1} /\ n + 1 \notin Revisions(d, name)
      <4>1. 1..(n + 1) = (1..n) \cup {n + 1} /\ n + 1 \notin 1..n
        BY <1>8
      <4>. QED BY <1>4, <1>8, <2>2, <4>1 DEF Earlier, Revisions
    <3>3. Revisions(d, name) = Earlier(d, n, name)
      BY <1>8 DEF Revisions, Earlier
    <3>4. IsFiniteSet(Revisions(d, name)) /\ Cardinality(Revisions(d, name)) \in Nat
      BY <1>8, <3>3, EarlierFinite
    <3>5. Cardinality(Earlier(e, i, name)) = Cardinality(Revisions(d, name)) + 1
      BY <3>2, <3>4, FS_AddElement
    <3>6. a.ver = Cardinality(Revisions(d, name)) + 1
      <4>1. CASE first
        <5>1. Cardinality(Revisions(d, name)) = 0
          BY <4>1, FS_EmptySet
        <5>. QED BY <1>4, <4>1, <5>1
      <4>2. CASE ~first
        <5>1. Latest(d, name).ver = Cardinality(Revisions(d, name))
          BY <4>2, LatestNumber
        <5>. QED BY <1>4, <4>2, <5>1
      <4>. QED BY <4>1, <4>2
    <3>7. ASSUME a.parent # 0 PROVE \E j \in 1..(i - 1) : e.arts[j].id = a.parent
      <4>1. PICK j \in 1..n : Latest(d, name) = d.arts[j]
        BY <1>4, <1>8, <3>7, LatestNumber
      <4>2. j \in 1..(i - 1) /\ e.arts[j].id = a.parent
        BY <1>4, <1>8, <2>2, <3>7, <4>1
      <4>. QED BY <4>2
    <3>. QED BY <1>4, <3>1, <3>5, <3>6, <3>7
  <2>. QED BY <2>1, <2>2
<1>10. Dense(e) /\ Document(e) /\ Len(e.arts) = Len(d.arts) + 1
       /\ \A i \in DOMAIN d.arts : e.arts[i] = d.arts[i]
  BY <1>2, <1>8, <1>9
<1>. QED BY <1>10 DEF e

(* DeriveArtifact numbers as AddArtifact does; the parent is there.        *)
LEMMA DeriveDense ==
    ASSUME NEW d, Document(d), Dense(d), NEW parent \in ArtIds(d), NEW id, NEW name, NEW type
    PROVE  Dense(DeriveArtifact(d, parent, id, name, type))
<1> DEFINE f == AddArtifact(d, id, name, type)
           n == Len(f.arts)
           e == DeriveArtifact(d, parent, id, name, type)
<1>1. /\ Dense(f) /\ Document(f) /\ n = Len(d.arts) + 1
      /\ \A i \in DOMAIN d.arts : f.arts[i] = d.arts[i]
  BY AddDense
<1>2. e = [f EXCEPT !.arts[n].parent = parent]
  BY DEF DeriveArtifact
<1> HIDE DEF e, f, n
<1>3. f = [name |-> f.name, arts |-> f.arts, imported |-> f.imported]
      /\ \A i \in DOMAIN f.arts : Artifact(f.arts[i])
  BY <1>1 DEF Document
<1>4. e.arts = [f.arts EXCEPT ![n].parent = parent]
  BY <1>2, <1>3
<1>5. ASSUME NEW i \in DOMAIN f.arts, i # n PROVE e.arts[i] = f.arts[i]
  BY <1>4, <1>5
<1>6. ASSUME NEW i \in DOMAIN f.arts, i = n
      PROVE  /\ e.arts[i].id = f.arts[i].id /\ e.arts[i].name = f.arts[i].name
             /\ e.arts[i].ver = f.arts[i].ver
             /\ \E j \in 1..(i - 1) : f.arts[j].id = e.arts[i].parent
  <2>1. e.arts[i] = [f.arts[i] EXCEPT !.parent = parent] /\ Artifact(f.arts[i])
    BY <1>3, <1>4, <1>6
  <2>2. PICK b : b = f.arts[i]
    OBVIOUS
  <2>3. e.arts[i] = [id |-> b.id, name |-> b.name, type |-> b.type, pinned |-> b.pinned,
                     ver |-> b.ver, parent |-> parent]
    BY <2>1, <2>2 DEF Artifact
  <2>4. PICK j \in DOMAIN d.arts : d.arts[j].id = parent
    BY DEF ArtIds
  <2>5. j \in 1..(i - 1) /\ f.arts[j].id = parent
    <3>1. DOMAIN d.arts = 1..Len(d.arts) /\ Len(d.arts) \in Nat
      BY Numbers
    <3>. QED BY <1>1, <1>6, <2>4, <3>1
  <2>. QED BY <2>2, <2>3, <2>5
<1>7. DOMAIN e.arts = DOMAIN f.arts
  BY <1>4
<1>8. Dense(e)
  BY <1>1, <1>5, <1>6, <1>7, DenseReplaced
<1>. QED BY <1>8 DEF e

(* SetPinned changes no number.                                            *)
LEMMA PinDense ==
    ASSUME NEW d, Document(d), Dense(d), NEW id PROVE Dense(SetPinned(d, id))
<1> DEFINE e == SetPinned(d, id)
           arts == [i \in DOMAIN d.arts |-> IF d.arts[i].id = id
                                            THEN [d.arts[i] EXCEPT !.pinned = TRUE] ELSE d.arts[i]]
<1>1. e = [d EXCEPT !.arts = arts]
  BY DEF SetPinned
<1>2. e.arts = arts
  <2> HIDE DEF arts, e
  <2>. QED BY <1>1 DEF Document
<1> HIDE DEF e
<1>3. ASSUME NEW i \in DOMAIN d.arts
      PROVE  /\ e.arts[i].id = d.arts[i].id /\ e.arts[i].name = d.arts[i].name
             /\ e.arts[i].ver = d.arts[i].ver /\ e.arts[i].parent = d.arts[i].parent
  <2>1. CASE d.arts[i].id = id
    <3>1. e.arts[i] = [d.arts[i] EXCEPT !.pinned = TRUE] /\ Artifact(d.arts[i])
      BY <1>2, <2>1 DEF Document
    <3>2. PICK b : b = d.arts[i]
      OBVIOUS
    <3>3. e.arts[i] = [id |-> b.id, name |-> b.name, type |-> b.type, pinned |-> TRUE,
                       ver |-> b.ver, parent |-> b.parent]
      BY <3>1, <3>2 DEF Artifact
    <3>. QED BY <3>2, <3>3
  <2>2. CASE d.arts[i].id # id
    BY <1>2, <2>2
  <2>. QED BY <2>1, <2>2
<1>4. DOMAIN e.arts = DOMAIN d.arts
  BY <1>2
<1>5. Dense(e)
  BY <1>3, <1>4, DenseReplaced
<1>. QED BY <1>5 DEF e

(* Every document that is stored or about to be is dense.                  *)
DenseInv == (\A p \in Ids : Dense(dir[p]) /\ Dense(flat[p])) /\ Dense(op.doc)

(* A document without artifacts is dense.                                   *)
LEMMA EmptyDense == \A doc : doc.arts = << >> => Dense(doc)
<1>1. DOMAIN << >> = {}
  OBVIOUS
<1>. QED BY <1>1 DEF Dense

(* All documents are dense to begin with.                                   *)
LEMMA DenseInit == CmdInit => DenseInv
<1>. SUFFICES ASSUME CmdInit PROVE DenseInv
  OBVIOUS
<1>1. Dense(NoDoc)
  BY EmptyDense DEF NoDoc
<1>2. PICK l \in Ids : flat = [q \in Ids |-> IF q = l THEN Legacy ELSE NoDoc]
  BY DEF CmdInit
<1>3. dir = [p \in Ids |-> NoDoc] /\ op.doc = NoDoc
  BY DEF CmdInit, NoOp
<1>. QED BY <1>1, <1>2, <1>3, LegacyAssumption DEF DenseInv

(* The document a command begins to write is a change of one that is there *)
(* or a new one, or nothing begins.                                        *)
LEMMA BeginsDense ==
    ASSUME ProjectsInv, DenseInv, NEW c \in Commands, Asks(c) \/ Works(c)
    PROVE  UNCHANGED <<dir, flat>> /\ Dense(op'.doc)
<1>1. \A p \in Ids : \A d \in Held(p) : Document(d) /\ Dense(d)
  BY DEF ProjectsInv, StoreOK, DocsOK, DenseInv, Held
<1>2. ASSUME NEW phase, NEW p, NEW doc, NEW rs, Begin(c, phase, p, doc, rs), Dense(doc)
      PROVE  Dense(op'.doc)
  BY <1>2 DEF Begin
<1>3. CASE UNCHANGED storeVars
  BY <1>3 DEF storeVars, DenseInv
<1>4. ASSUME NEW name, Create(c, name) \/ ImportProject(c, name), ~Fails(c)
      PROVE  UNCHANGED <<dir, flat>> /\ Dense(op'.doc)
  <2>1. [NoDoc EXCEPT !.name = name].arts = << >> /\ Imported(name).arts = << >>
    BY DEF NoDoc, Imported
  <2>2. Dense([NoDoc EXCEPT !.name = name]) /\ Dense(Imported(name))
    BY <2>1, EmptyDense
  <2>3. Document(Imported(name))
    <3>1. PICK doc : doc = [NoDoc EXCEPT !.name = name, !.imported = TRUE]
      OBVIOUS
    <3>2. Document(doc)
      BY <3>1, NoDocument DEF Document
    <3>. QED BY <3>1, <3>2 DEF Imported
  <2>4. \A n : Dense(AddArtifact(Imported(name), born + 1, n, "doc"))
    BY <2>2, <2>3, AddDense
  <2>5. CASE Create(c, name)
    BY <1>2, <1>4, <2>2, <2>5 DEF Create, Write
  <2>6. CASE ImportProject(c, name)
    <3>1. UNCHANGED <<dir, flat>>
      BY <1>4, <2>6 DEF ImportProject
    <3>2. PICK p \in Fresh :
            \/ Begin(c, "stage", p, Imported(name), << 0 >>)
            \/ \E n \in ArtNames :
                 Begin(c, "stage", p, AddArtifact(Imported(name), born + 1, n, "doc"), << 0 >>)
      BY <1>4, <2>6 DEF ImportProject
    <3>. QED BY <1>2, <2>2, <2>4, <3>1, <3>2
  <2>. QED BY <1>4, <2>5, <2>6
<1>5. ASSUME NEW ref, Pin(c, ref) PROVE UNCHANGED <<dir, flat>> /\ Dense(op'.doc)
  <2>1. PICK x \in Resolve(ref) : \E a \in ArtIds(x.doc) : Write(c, x.p, SetPinned(x.doc, a))
    BY <1>5 DEF Pin
  <2>2. PICK a \in ArtIds(x.doc) : Write(c, x.p, SetPinned(x.doc, a))
    BY <2>1
  <2>. QED BY <1>1, <1>2, <2>1, <2>2, Resolved, PinDense DEF Write
<1>6. ASSUME NEW n, Record(c, n), ~Fails(c) PROVE UNCHANGED <<dir, flat>> /\ Dense(op'.doc)
  <2>1. PICK x \in Resolve(cmd[c].ref) :
          /\ cmd[c].target \in ArtIds(x.doc)
          /\ Write(c, x.p, DeriveArtifact(x.doc, cmd[c].target, born + 1, n, Made(c)))
    BY <1>6 DEF Record
  <2>. QED BY <1>1, <1>2, <2>1, Resolved, DeriveDense DEF Write
<1>7. At(c, "record") \/ At(c, "extract") => cmd[c].p \in Ids /\ ByID(cmd[c].p) \in Held(cmd[c].p)
  BY ByIDHeld DEF ProjectsInv, CmdOK, CommandOK, At
<1>8. CASE PersistArtifact(c) /\ ~Fails(c)
  <2>1. /\ At(c, "record")
        /\ Write(c, cmd[c].p, AddArtifact(ByID(cmd[c].p), born + 1, OutputName, "doc"))
    BY <1>8 DEF PersistArtifact
  <2>2. Dense(AddArtifact(ByID(cmd[c].p), born + 1, OutputName, "doc"))
    BY <1>1, <1>7, <2>1, AddDense
  <2>. QED BY <1>2, <2>1, <2>2 DEF Write
<1>9. CASE Extract(c) /\ ~Fails(c)
  BY <1>1, <1>2, <1>7, <1>9 DEF Extract
<1>10. Fails(c) => UNCHANGED storeVars
  BY DEF Fails
<1>11. CASE Fails(c)
  BY <1>3, <1>10, <1>11
<1>12. CASE Asks(c) /\ ~Fails(c)
  <2>1. (\E ref : RunPrompt(c, ref) \/ Analyze(c, ref) \/ Workbench(c, ref)) => UNCHANGED storeVars
    BY DEF RunPrompt, Analyze, Workbench, Start
  <2>. QED BY <1>3, <1>4, <1>5, <1>12, <2>1 DEF Asks
<1>13. CASE Works(c) /\ ~Fails(c)
  <2>1. Generate(c) \/ RunTests(c) \/ TestsReturn(c) \/ ResolveProject(c) => UNCHANGED storeVars
    <3>1. Generate(c) => UNCHANGED storeVars
      BY DEF Generate
    <3>2. RunTests(c) => UNCHANGED storeVars
      BY DEF RunTests
    <3>3. TestsReturn(c) => UNCHANGED storeVars
      BY DEF TestsReturn
    <3>4. ResolveProject(c) => UNCHANGED storeVars
      BY DEF ResolveProject
    <3>. QED BY <3>1, <3>2, <3>3, <3>4
  <2>2. ~GenerateFails(c) /\ ~ResolveFails(c) /\ ~LockTimesOut(c)
    BY <1>13 DEF GenerateFails, ResolveFails, LockTimesOut
  <2>3. \/ UNCHANGED storeVars \/ PersistArtifact(c) \/ Extract(c)
        \/ \E n \in ArtNames : Record(c, n)
    BY <1>13, <2>1, <2>2 DEF Works
  <2>. QED BY <1>3, <1>6, <1>8, <1>9, <1>13, <2>3
<1>. QED BY <1>11, <1>12, <1>13

(* Each write adds a revision to the document read under the lock, so that  *)
(* they stay dense.                                                         *)
LEMMA DenseNext == ProjectsInv /\ DenseInv /\ [CmdNext]_vars => DenseInv'
<1>. SUFFICES ASSUME ProjectsInv, DenseInv, [CmdNext]_vars PROVE DenseInv'
  OBVIOUS
<1>1. Dense(NoDoc) /\ NoOp.doc = NoDoc
  BY EmptyDense DEF NoDoc, NoOp
<1>2. CASE UNCHANGED vars
  BY <1>2 DEF vars, storeVars, DenseInv
<1>3. ASSUME NEW c \in Commands, Asks(c) \/ Works(c) PROVE DenseInv'
  BY <1>3, BeginsDense DEF DenseInv
<1>4. CASE Writes \/ WriteFails
  <2>1. /\ dir = [p \in Ids |-> dir[p]] /\ flat = [p \in Ids |-> flat[p]] /\ Dense(op.doc)
        /\ op = NoOp \/ op = [by |-> op.by, phase |-> op.phase, p |-> op.p, doc |-> op.doc,
                              reqs |-> op.reqs]
    BY DEF ProjectsInv, StoreOK, DocsOK, OpOK, DenseInv
  <2>2. ASSUME NEW phase, op' = [op EXCEPT !.phase = phase] PROVE Dense(op'.doc)
    BY <1>1, <2>1, <2>2 DEF NoOp
  <2>3. Dense(op'.doc)
    BY <1>1, <1>4, <2>2 DEF Writes, WriteFails, StopWriting, WriteRequirement, WriteDocument,
                            RemoveLegacy, Stage, Publish
  <2>4. /\ UNCHANGED dir \/ dir' = [dir EXCEPT ![op.p] = op.doc]
        /\ UNCHANGED flat \/ flat' = [flat EXCEPT ![op.p] = NoDoc]
    BY <1>4 DEF Writes, WriteFails, StopWriting, WriteRequirement, WriteDocument, RemoveLegacy,
                Stage, Publish
  <2>5. ASSUME NEW p \in Ids PROVE Dense(dir'[p]) /\ Dense(flat'[p])
    BY <1>1, <2>1, <2>4 DEF DenseInv
  <2>. QED BY <2>3, <2>5 DEF DenseInv
<1>. QED BY <1>2, <1>3, <1>4 DEF CmdNext

(* DeriveArtifact (project.go:123) numbers the revisions of a name 1, 2,   *)
(* ... and takes the parent from the document that is there, in whatever   *)
(* order the commands that generated for minutes record their results.     *)
THEOREM HistoriesDense == CmdSpec => []RevisionsDense
<1>1. DenseInv => RevisionsDense
  <2>. SUFFICES ASSUME DenseInv, NEW e \in Entries PROVE Dense(Holds(e).doc)
    BY DEF RevisionsDense, Docs
  <2>. QED BY HoldsHeld DEF DenseInv, Held
<1>. QED BY <1>1, DenseInit, DenseNext, ProjectsInvariance, PTL DEF CmdSpec

-----------------------------------------------------------------------------
(* The runner of a command that records its run has come to its end.       *)
Stages ==
    {"idle", "resolve", "generate", "run", "record", "update", "extract", "done", "failed"}

Ended(c) ==
    /\ cmd[c].stage \in Stages
    /\ runner[c].alive \/ runner[c].held => cmd[c].stage = "run"
    /\ cmd[c].kind = "workbench" /\ cmd[c].stage \in {"record", "update", "extract", "done"} =>
          runner[c] = [NoRunner EXCEPT !.output = "report"]

RunsInv ==
    /\ runner = [c \in Commands |-> runner[c]]
    /\ \A c \in Commands :
        /\ runner[c] \in [alive : BOOLEAN, held : BOOLEAN, late : BOOLEAN, output : Outputs]
        /\ Ended(c)

(* No step takes a recorded run back or records an unfinished one.          *)
LEMMA RunsNext == ProjectsInv /\ RunsInv /\ [CmdNext]_vars => RunsInv'
<1>. SUFFICES ASSUME ProjectsInv, RunsInv, [CmdNext]_vars PROVE RunsInv'
  OBVIOUS
<1> DEFINE Runner == [alive : BOOLEAN, held : BOOLEAN, late : BOOLEAN, output : Outputs]
<1>1. /\ cmd = [c \in Commands |-> cmd[c]] /\ runner = [c \in Commands |-> runner[c]]
      /\ \A c \in Commands : runner[c] \in Runner /\ Ended(c)
      /\ \A c \in Commands : CommandOK(cmd[c])
  BY DEF ProjectsInv, CmdOK, RunsInv
(* Only the runner of c moves, and c does not record it.                   *)
<1>2. ASSUME NEW c \in Commands, UNCHANGED cmd, cmd[c].stage = "run",
             runner' = [runner EXCEPT ![c] = runner'[c]], runner'[c] \in Runner
      PROVE  RunsInv'
  BY <1>1, <1>2 DEF RunsInv, Ended
(* Only c takes a turn, and its runner was at its end or is not recorded.  *)
<1>3. ASSUME NEW c \in Commands, cmd' = [cmd EXCEPT ![c] = cmd'[c]], UNCHANGED runner, Ended(c)'
      PROVE  RunsInv'
  BY <1>1, <1>3 DEF RunsInv, Ended
<1>4. ASSUME NEW c \in Commands, Fails(c), UNCHANGED runner, cmd[c].stage # "run"
      PROVE  RunsInv'
  <2>1. cmd' = [cmd EXCEPT ![c] = cmd'[c]] /\ cmd'[c] = Failed
    BY <1>1, <1>4 DEF Fails, Turns
  <2>2. Ended(c)'
    BY <1>1, <1>4, <2>1 DEF Ended, Failed, NoCmd, Stages
  <2>. QED BY <1>3, <1>4, <2>1, <2>2
<1>5. CASE UNCHANGED <<cmd, runner>>
  BY <1>1, <1>5 DEF RunsInv, Ended
<1>6. ASSUME NEW c \in Commands, Asks(c), UNCHANGED runner PROVE RunsInv'
  <2>1. ASSUME NEW n, Create(c, n) \/ ImportProject(c, n)
        PROVE  /\ cmd' = [cmd EXCEPT ![c] = cmd'[c]] /\ cmd[c].stage = "idle"
               /\ cmd'[c].kind # "workbench" /\ cmd'[c].stage \in Stages
    BY <1>1, <2>1 DEF Create, ImportProject, Fails, Failed, Turns, NoCmd, Stages, At
  <2>2. ASSUME NEW kind, NEW ref, Start(c, kind, ref)
        PROVE  /\ cmd' = [cmd EXCEPT ![c] = cmd'[c]] /\ cmd[c].stage = "idle"
               /\ cmd'[c].stage = "resolve"
    BY <1>1, <2>2 DEF Start, Turns, NoCmd, At
  <2>3. ASSUME NEW ref, Pin(c, ref)
        PROVE  /\ cmd' = [cmd EXCEPT ![c] = cmd'[c]] /\ cmd[c].stage = "idle"
               /\ cmd'[c].kind = "pin" /\ cmd'[c].stage = "update"
    BY <1>1, <2>3 DEF Pin, Turns, NoCmd, At
  <2>4. cmd' = [cmd EXCEPT ![c] = cmd'[c]] /\ Ended(c)'
    BY <1>1, <1>6, <2>1, <2>2, <2>3 DEF Asks, RunPrompt, Analyze, Workbench, Ended, Stages
  <2>. QED BY <1>3, <1>6, <2>4
<1>7. ASSUME NEW c \in Commands, Works(c) PROVE RunsInv'
  <2>1. CASE RunTests(c)
    <3>1. /\ runner' = [runner EXCEPT ![c] = [NoRunner EXCEPT !.alive = TRUE]]
          /\ cmd' = [cmd EXCEPT ![c] = [cmd[c] EXCEPT !.stage = "run"]]
      BY <2>1 DEF RunTests, StartRunner, Turns
    <3>2. [NoRunner EXCEPT !.alive = TRUE] \in Runner
      BY DEF NoRunner, Outputs
    <3>3. runner' = [runner EXCEPT ![c] = runner'[c]] /\ runner'[c] \in Runner
      BY <1>1, <3>1, <3>2
    <3>4. [cmd[c] EXCEPT !.stage = "run"].stage = "run"
      BY <1>1 DEF CommandOK
    <3>5. cmd' = [cmd EXCEPT ![c] = cmd'[c]] /\ cmd'[c].stage = "run"
      BY <1>1, <3>1, <3>4
    <3>. QED BY <1>1, <3>3, <3>5 DEF RunsInv, Ended, Stages
  <2>2. CASE TestsReturn(c)
    <3>0. CommandOK(cmd[c])
      BY <1>1
    <3>1. cmd' = [cmd EXCEPT ![c] = cmd'[c]] /\ UNCHANGED runner /\ RunReturns(c)
          /\ cmd'[c].stage \in {"record", "failed"}
          /\ (cmd'[c].kind = "workbench" /\ cmd'[c].stage # "failed" => Readable(c) /\ RunReturns(c))
      <4>1. [cmd[c] EXCEPT !.stage = "record"].stage = "record"
        BY <3>0 DEF CommandOK
      <4>. QED BY <1>1, <2>2, <4>1 DEF TestsReturn, Turns, Failed, NoCmd
    <3>2. Readable(c) /\ RunReturns(c) => runner[c] = [NoRunner EXCEPT !.output = "report"]
      <4>1. runner[c] \in Runner
        BY <1>1
      <4>2. runner[c] = [alive |-> runner[c].alive, held |-> runner[c].held,
                         late |-> runner[c].late, output |-> runner[c].output]
        BY <4>1
      <4>3. PICK r : r = [NoRunner EXCEPT !.output = "report"]
        OBVIOUS
      <4>4. r \in Runner /\ r.alive = FALSE /\ r.held = FALSE /\ r.late = FALSE
            /\ r.output = "report"
        BY <4>3 DEF NoRunner, Outputs
      <4>5. r = [alive |-> r.alive, held |-> r.held, late |-> r.late, output |-> r.output]
        BY <4>4
      <4>6. Readable(c) /\ RunReturns(c) =>
              /\ runner[c].alive = FALSE /\ runner[c].held = FALSE /\ runner[c].late = FALSE
              /\ runner[c].output = "report"
        BY <4>1 DEF Readable, RunReturns
      <4>. QED BY <4>2, <4>3, <4>4, <4>5, <4>6
    <3>. QED BY <1>3, <3>1, <3>2 DEF Ended, Stages, RunReturns
  <2>3. CASE At(c, "run") /\ RunnerStep(c) /\ UNCHANGED <<storeVars, cmd>>
    <3>1. runner' = [runner EXCEPT ![c] = runner'[c]] /\ runner'[c] \in Runner
      <4>0. runner[c] \in Runner /\ runner = [d \in Commands |-> runner[d]]
        BY <1>1
      <4>1. CASE Prints(c)
        <5>1. PICK out \in {"part", "report"} : runner' = [runner EXCEPT ![c].output = out]
          BY <4>1 DEF Prints
        <5>2. runner'[c] = [runner[c] EXCEPT !.output = out]
          BY <4>0, <5>1
        <5>. QED BY <4>0, <5>1, <5>2 DEF Outputs
      <4>2. CASE Forks(c)
        BY <4>0, <4>2 DEF Forks
      <4>3. CASE Exits(c)
        BY <4>0, <4>3 DEF Exits
      <4>4. CASE DescendantExits(c)
        BY <4>0, <4>4 DEF DescendantExits
      <4>5. CASE DeadlinePasses(c)
        BY <4>0, <4>5 DEF DeadlinePasses
      <4>. QED BY <2>3, <4>1, <4>2, <4>3, <4>4, <4>5 DEF RunnerStep
    <3>. QED BY <1>2, <2>3, <3>1 DEF At
  <2>4. ASSUME UNCHANGED runner, NEW new, Turns(c, new), cmd[c].stage # "run",
               new.stage \in Stages,
               new.stage = "generate" \/ new.kind # "workbench"
                 \/ (new.kind = cmd[c].kind /\ cmd[c].stage \in {"record", "extract"})
        PROVE  RunsInv'
    <3>1. cmd' = [cmd EXCEPT ![c] = cmd'[c]] /\ cmd'[c] = new
      BY <1>1, <2>4 DEF Turns
    <3>. QED BY <1>1, <1>3, <2>4, <3>1 DEF Ended
  <2>5. CASE UNCHANGED runner /\ ~Fails(c) /\ (Generate(c) \/ ResolveProject(c)
                \/ (\E n \in ArtNames : Record(c, n)) \/ PersistArtifact(c) \/ Extract(c))
    <3>1. CommandOK(cmd[c])
      BY <1>1
    <3>2. CASE Generate(c)
      <4>1. PICK n : Turns(c, [cmd[c] EXCEPT !.stage = "record", !.left = n])
        BY <3>2 DEF Generate
      <4>2. /\ [cmd[c] EXCEPT !.stage = "record", !.left = n].kind # "workbench"
            /\ [cmd[c] EXCEPT !.stage = "record", !.left = n].stage = "record"
            /\ cmd[c].stage = "generate"
        BY <3>1, <3>2 DEF Generate, CommandOK, At
      <4>. QED BY <2>4, <2>5, <4>1, <4>2 DEF Stages
    <3>3. CASE ResolveProject(c)
      <4>1. PICK e, target, ref :
              Turns(c, [cmd[c] EXCEPT !.stage = "generate", !.entries = {}, !.p = e[2],
                          !.loaded = Holds(e).doc, !.target = target, !.ref = ref])
        BY <3>3 DEF ResolveProject
      <4>2. [cmd[c] EXCEPT !.stage = "generate", !.entries = {}, !.p = e[2],
               !.loaded = Holds(e).doc, !.target = target, !.ref = ref].stage = "generate"
            /\ cmd[c].stage = "resolve"
        BY <3>1, <3>3 DEF CommandOK, ResolveProject, At
      <4>. QED BY <2>4, <2>5, <4>1, <4>2 DEF Stages
    <3>4. ASSUME NEW n, Record(c, n) PROVE RunsInv'
      <4>1. PICK x : Turns(c, [cmd[c] EXCEPT !.stage = "update", !.p = x.p, !.made = born + 1,
                                            !.loaded = NoDoc])
        BY <2>5, <3>4 DEF Record
      <4>2. /\ [cmd[c] EXCEPT !.stage = "update", !.p = x.p, !.made = born + 1,
                              !.loaded = NoDoc].kind = cmd[c].kind
            /\ [cmd[c] EXCEPT !.stage = "update", !.p = x.p, !.made = born + 1,
                              !.loaded = NoDoc].stage = "update"
            /\ cmd[c].stage = "record"
        BY <3>1, <3>4 DEF CommandOK, Record, At
      <4>. QED BY <2>4, <2>5, <4>1, <4>2 DEF Stages
    <3>5. CASE PersistArtifact(c)
      <4>1. Turns(c, [cmd[c] EXCEPT !.stage = "update", !.made = born + 1, !.loaded = NoDoc])
        BY <2>5, <3>5 DEF PersistArtifact
      <4>2. /\ [cmd[c] EXCEPT !.stage = "update", !.made = born + 1, !.loaded = NoDoc].kind
                  = cmd[c].kind
            /\ [cmd[c] EXCEPT !.stage = "update", !.made = born + 1, !.loaded = NoDoc].stage
                  = "update"
            /\ cmd[c].stage = "record"
        BY <3>1, <3>5 DEF CommandOK, PersistArtifact, At
      <4>. QED BY <2>4, <2>5, <4>1, <4>2 DEF Stages
    <3>6. CASE Extract(c)
      <4>1. Turns(c, [cmd[c] EXCEPT !.stage = "update", !.left = @ - 1])
        BY <2>5, <3>6 DEF Extract
      <4>2. /\ [cmd[c] EXCEPT !.stage = "update", !.left = @ - 1].kind = cmd[c].kind
            /\ [cmd[c] EXCEPT !.stage = "update", !.left = @ - 1].stage = "update"
            /\ cmd[c].stage = "extract"
        BY <3>1, <3>6 DEF CommandOK, Extract, At
      <4>. QED BY <2>4, <2>5, <4>1, <4>2 DEF Stages
    <3>. QED BY <2>5, <3>2, <3>3, <3>4, <3>5, <3>6
  <2>6. CASE (GenerateFails(c) \/ ResolveFails(c) \/ LockTimesOut(c)) /\ UNCHANGED runner
    BY <1>4, <2>6 DEF GenerateFails, ResolveFails, LockTimesOut, At
  <2>7. Fails(c) /\ UNCHANGED runner /\ ((\E n \in ArtNames : Record(c, n)) \/ PersistArtifact(c)
              \/ Extract(c) \/ Generate(c) \/ ResolveProject(c)) => RunsInv'
    BY <1>4 DEF Record, PersistArtifact, Extract, Generate, ResolveProject, At
  <2>. QED BY <1>7, <2>1, <2>2, <2>3, <2>5, <2>6, <2>7 DEF Works, GenerateFails, Generate
<1>8. CASE (Writes \/ WriteFails) /\ UNCHANGED runner
  <2>1. ASSUME UNCHANGED runner, op.by \in Commands, Continues(op.by) PROVE RunsInv'
    <3>1. PICK c \in Commands : c = op.by
      BY <2>1
    <3>2. cmd[c].stage = "update"
      BY <3>1 DEF ProjectsInv, CmdOK, At
    <3>3. /\ cmd' = [cmd EXCEPT ![c] = cmd'[c]] /\ cmd'[c].kind = cmd[c].kind
          /\ cmd'[c].stage \in {"extract", "done"}
      <4>1. Turns(c, [cmd[c] EXCEPT !.stage = IF cmd[c].left > 0 THEN "extract" ELSE "done"])
        BY <2>1, <3>1 DEF Continues
      <4>2. /\ [cmd[c] EXCEPT !.stage = IF cmd[c].left > 0 THEN "extract" ELSE "done"].kind
                  = cmd[c].kind
            /\ [cmd[c] EXCEPT !.stage = IF cmd[c].left > 0 THEN "extract" ELSE "done"].stage
                  \in {"extract", "done"}
        BY <1>1 DEF CommandOK
      <4>. QED BY <1>1, <4>1, <4>2 DEF Turns
    <3>. QED BY <1>1, <1>3, <2>1, <3>2, <3>3 DEF Ended, Stages
  <2>2. Writes => op.phase # "none"
    BY DEF Writes, WriteRequirement, WriteDocument, RemoveLegacy, Stage, Publish
  <2>3. CASE Writes /\ UNCHANGED runner
    BY <1>5, <2>1, <2>2, <2>3, Writing DEF Writes, ProjectsInv
  <2>4. CASE WriteFails /\ UNCHANGED runner
    <3>1. op.by \in Commands
      BY <2>4 DEF WriteFails, StopWriting, LockFree, ProjectsInv, StoreOK, OpOK, NoOp
    <3>2. PICK c \in Commands : c = op.by
      BY <3>1
    <3>3. cmd' = [cmd EXCEPT ![c] = cmd'[c]] /\ cmd'[c] = Failed
      BY <1>1, <2>4, <3>2 DEF WriteFails, Turns
    <3>4. Ended(c)'
      <4>1. cmd[c].stage = "update"
        BY <3>2 DEF ProjectsInv, CmdOK, At
      <4>. QED BY <1>1, <2>4, <3>3, <4>1 DEF Ended, Failed, NoCmd, Stages
    <3>. QED BY <1>3, <2>4, <3>3, <3>4
  <2>. QED BY <1>8, <2>3, <2>4
<1>. QED BY <1>5, <1>6, <1>7, <1>8 DEF CmdNext, vars

(* "Errors are reserved for the process not running at all ... or being    *)
(* killed by the deadline" (exec.go:83): a recorded run finished in time,  *)
(* with a whole report that nobody was writing to any more.                *)
THEOREM RecordedFinished == CmdSpec => []RecordedRunsFinished
<1>1. CmdInit => RunsInv
  BY DEF CmdInit, RunnerInit, RunsInv, Ended, NoRunner, NoCmd, Outputs, Stages
<1>2. RunsInv => RecordedRunsFinished
  BY DEF RunsInv, Ended, RecordedRunsFinished
<1>. QED BY <1>1, <1>2, RunsNext, ProjectsInvariance, PTL DEF CmdSpec

(* The variables keep their types; a command waits for the store exactly   *)
(* while the write under way is its own, and only a command that runs its  *)
(* tests has a runner (exec.go:83).                                        *)
THEOREM ProjectsTypeCorrect == CmdSpec => []ProjectsTypeOK
<1>1. CmdInit => RunsInv
  BY DEF CmdInit, RunnerInit, RunsInv, Ended, NoRunner, NoCmd, Outputs, Stages
<1>2. ProjectsInv /\ RunsInv => ProjectsTypeOK
  <2>. SUFFICES ASSUME ProjectsInv, RunsInv PROVE ProjectsTypeOK
    OBVIOUS
  <2>1. ASSUME NEW e \in Entries
        PROVE  Holds(e).doc.name \in Names
    <3>1. PICK p \in Ids : Holds(e).doc \in Held(p)
      BY HoldsHeld
    <3>. QED BY <3>1 DEF ProjectsInv, StoreOK, DocsOK, Held
  <2>2. /\ op.by \in Commands \cup {NoOne}
        /\ op.phase \in {"none", "requirement", "document", "legacy", "stage", "publish"}
    BY DEF ProjectsInv, StoreOK, OpOK, NoOp
  <2>3. ASSUME NEW c \in Commands
        PROVE  /\ cmd[c].stage \in {"idle", "resolve", "generate", "run", "record", "update",
                                    "extract", "done", "failed"}
               /\ runner[c].alive \/ runner[c].held => At(c, "run")
               /\ runner[c].output \in Outputs
               /\ At(c, "update") <=> op.by = c
    BY DEF ProjectsInv, CmdOK, RunsInv, Ended, Stages, At
  <2>. QED BY <2>1, <2>2, <2>3 DEF ProjectsTypeOK, Docs
<1>. QED BY <1>1, <1>2, RunsNext, ProjectsInvariance, PTL DEF CmdSpec
=============================================================================
