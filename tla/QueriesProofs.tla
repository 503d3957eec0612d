---------------------------- MODULE QueriesProofs -----------------------------
(***************************************************************************)
(* Proofs about Queries: what the pure computations return for every input *)
(* and what a cue store of any size resolves and renders.                  *)
(***************************************************************************)
EXTENDS Queries, FiniteSetTheorems, WellFoundedInduction, NaturalsInduction, TLAPS

-----------------------------------------------------------------------------
(* Cues.                                                                   *)

(* A reference finds a cue by its id, or by a name that no other cue has.  *)
LEMMA Resolves == CuesResolve
<1>1. \A id \in DOMAIN cues : ResolveCue(id) = {id}
  BY DEF ResolveCue
<1>2. ASSUME NEW name \in CueNames, ResolveCue(name) # {}, name \notin DOMAIN cues
      PROVE  ResolveCue(name) = Named(name)
  BY <1>2 DEF ResolveCue
<1>. QED BY <1>1, <1>2 DEF CuesResolve

(* A rendered prompt has a value for each variable of its cue.             *)
LEMMA Whole == ASSUME NEW values PROVE PromptsWhole(values)
<1>. SUFFICES ASSUME NEW ref \in CueNames \cup DOMAIN cues, NEW p \in CuePrompts(ref, values)
              PROVE  \E id \in ResolveCue(ref) :
                        /\ \A i \in DOMAIN p : cues[id].body[i].var # "" =>
                                                   cues[id].body[i].var \in DOMAIN values
                        /\ \E i \in DOMAIN p : p[i].text # ""
  BY DEF PromptsWhole
<1>1. /\ p \in {Render(cues[id].body, values) :
                  id \in {x \in ResolveCue(ref) : Renders(cues[x].body, values)}}
      /\ \E i \in DOMAIN p : p[i].text # ""
  BY DEF CuePrompts
<1>2. PICK id \in ResolveCue(ref) :
         p = Render(cues[id].body, values) /\ Renders(cues[id].body, values)
  BY <1>1
<1>3. DOMAIN p = DOMAIN cues[id].body
  BY <1>2 DEF Render
<1>4. ASSUME NEW i \in DOMAIN p, cues[id].body[i].var # ""
      PROVE  cues[id].body[i].var \in DOMAIN values
  BY <1>2, <1>3, <1>4 DEF Renders, TemplateVariables
<1>. QED BY <1>1, <1>4

(***************************************************************************)
(* A reference finds one cue, and each variable of its prompt has a value, *)
(* for any cues and names (Resolve, Render).                               *)
(***************************************************************************)
THEOREM PromptsAreComplete == QueriesSpec => []PromptsComplete
<1>1. PromptsComplete
  BY Resolves, Whole DEF PromptsComplete
<1>. QED BY <1>1, PTL

(***************************************************************************)
(* A cue that was created is never replaced (CreateCue), whatever ids are  *)
(* asked for or generated.                                                 *)
(***************************************************************************)
THEOREM CuesStay == QueriesSpec => CuesKept
<1>1. [QueriesNext]_vars =>
        [\A id \in DOMAIN cues : id \in DOMAIN cues' /\ cues'[id] = cues[id]]_cueVars
  <2>. SUFFICES ASSUME [QueriesNext]_vars
                PROVE  \/ UNCHANGED cueVars
                       \/ \A id \in DOMAIN cues : id \in DOMAIN cues' /\ cues'[id] = cues[id]
    OBVIOUS
  <2>1. ASSUME NEW id, NEW name, NEW body, StoreCue(id, name, body)
        PROVE  \A k \in DOMAIN cues : k \in DOMAIN cues' /\ cues'[k] = cues[k]
    BY <2>1 DEF StoreCue
  <2>2. ASSUME NEW id, NEW name, NEW body, CreateCue(id, name, body)
        PROVE  \A k \in DOMAIN cues : k \in DOMAIN cues' /\ cues'[k] = cues[k]
    BY <2>1, <2>2 DEF CreateCue
  <2>3. CASE CreateNote
    BY <2>3 DEF CreateNote
  <2>4. CASE UNCHANGED cueVars
    BY <2>4
  <2>. QED BY <2>2, <2>3, <2>4 DEF QueriesNext, vars
<1>. QED BY <1>1, PTL DEF QueriesSpec, CuesKept

-----------------------------------------------------------------------------
(* Parameters.                                                             *)

(* A registry that loads has one entry of each model.                      *)
LEMMA OneEntry ==
    ASSUME NEW entries, NewRegistry(entries), NEW model
    PROVE  /\ Registered(entries, model) =>
                {e \in ToSet(entries) : e.model = model} = {EntryOf(entries, model)}
           /\ ~Registered(entries, model) => {e \in ToSet(entries) : e.model = model} = {}
<1>1. CASE Registered(entries, model)
  <2>. DEFINE i == CHOOSE i \in DOMAIN entries : entries[i].model = model
  <2>1. i \in DOMAIN entries /\ entries[i].model = model
    BY <1>1 DEF Registered
  <2>2. EntryOf(entries, model) = entries[i]
    BY DEF EntryOf
  <2>. HIDE DEF i
  <2>3. \A j \in DOMAIN entries : entries[j].model = model => j = i
    BY <2>1 DEF NewRegistry
  <2>. QED BY <1>1, <2>1, <2>2, <2>3 DEF ToSet
<1>2. CASE ~Registered(entries, model)
  BY <1>2 DEF Registered, ToSet
<1>. QED BY <1>1, <1>2

(* The values of a merge are those of the two, the second's first.         *)
LEMMA MergeFacts ==
    ASSUME NEW p, NEW q
    PROVE  /\ DOMAIN Merge(p, q) = DOMAIN p \cup DOMAIN q
           /\ \A f \in DOMAIN q : Merge(p, q)[f] = q[f]
           /\ \A f \in DOMAIN p \ DOMAIN q : Merge(p, q)[f] = p[f]
BY DEF Merge

\* Five layers of parameters, the last one on top.
Layered(params, p1, p2, p3, p4, p5) ==
    /\ DOMAIN params = DOMAIN p1 \cup DOMAIN p2 \cup DOMAIN p3 \cup DOMAIN p4 \cup DOMAIN p5
    /\ \A f :
        /\ f \in DOMAIN p5 => params[f] = p5[f]
        /\ f \in DOMAIN p4 \ DOMAIN p5 => params[f] = p4[f]
        /\ f \in DOMAIN p3 \ (DOMAIN p4 \cup DOMAIN p5) => params[f] = p3[f]
        /\ f \in DOMAIN p2 \ (DOMAIN p3 \cup DOMAIN p4 \cup DOMAIN p5) => params[f] = p2[f]
        /\ f \in DOMAIN p1 \ (DOMAIN p2 \cup DOMAIN p3 \cup DOMAIN p4 \cup DOMAIN p5) =>
               params[f] = p1[f]

(* That is what ResolveParams merges.                                      *)
LEMMA Layers ==
    \A p1, p2, p3, p4, p5 :
        Layered(Merge(Merge(Merge(Merge(p1, p2), p3), p4), p5), p1, p2, p3, p4, p5)
<1>. SUFFICES ASSUME NEW p1, NEW p2, NEW p3, NEW p4, NEW p5
              PROVE  Layered(Merge(Merge(Merge(Merge(p1, p2), p3), p4), p5), p1, p2, p3, p4, p5)
  OBVIOUS
<1>. DEFINE q2 == Merge(p1, p2)  q3 == Merge(q2, p3)  q4 == Merge(q3, p4)  q5 == Merge(q4, p5)
<1>1. /\ DOMAIN q2 = DOMAIN p1 \cup DOMAIN p2 /\ \A g \in DOMAIN p2 : q2[g] = p2[g]
      /\ \A g \in DOMAIN p1 \ DOMAIN p2 : q2[g] = p1[g]
  BY MergeFacts
<1>. HIDE DEF q2
<1>2. /\ DOMAIN q3 = DOMAIN q2 \cup DOMAIN p3 /\ \A g \in DOMAIN p3 : q3[g] = p3[g]
      /\ \A g \in DOMAIN q2 \ DOMAIN p3 : q3[g] = q2[g]
  BY MergeFacts
<1>. HIDE DEF q3
<1>3. /\ DOMAIN q4 = DOMAIN q3 \cup DOMAIN p4 /\ \A g \in DOMAIN p4 : q4[g] = p4[g]
      /\ \A g \in DOMAIN q3 \ DOMAIN p4 : q4[g] = q3[g]
  BY MergeFacts
<1>. HIDE DEF q4
<1>4. /\ DOMAIN q5 = DOMAIN q4 \cup DOMAIN p5 /\ \A g \in DOMAIN p5 : q5[g] = p5[g]
      /\ \A g \in DOMAIN q4 \ DOMAIN p5 : q5[g] = q4[g]
  BY MergeFacts
<1>. HIDE DEF q5
<1>5. q5 = Merge(Merge(Merge(Merge(p1, p2), p3), p4), p5)
  BY DEF q2, q3, q4, q5
<1>6. DOMAIN q5 = DOMAIN p1 \cup DOMAIN p2 \cup DOMAIN p3 \cup DOMAIN p4 \cup DOMAIN p5
  BY <1>1, <1>2, <1>3, <1>4
<1>7. \A f :
         /\ f \in DOMAIN p5 => q5[f] = p5[f]
         /\ f \in DOMAIN p4 \ DOMAIN p5 => q5[f] = p4[f]
         /\ f \in DOMAIN p3 \ (DOMAIN p4 \cup DOMAIN p5) => q5[f] = p3[f]
         /\ f \in DOMAIN p2 \ (DOMAIN p3 \cup DOMAIN p4 \cup DOMAIN p5) => q5[f] = p2[f]
         /\ f \in DOMAIN p1 \ (DOMAIN p2 \cup DOMAIN p3 \cup DOMAIN p4 \cup DOMAIN p5) =>
                q5[f] = p1[f]
  BY <1>1, <1>2, <1>3, <1>4
<1>. QED BY <1>5, <1>6, <1>7 DEF Layered
(* What the layers of a resolvable selector are: each source sets at most  *)
(* one of them, the preset that is named being the model's own if it has   *)
(* one and the provider's otherwise.                                       *)
LEMMA DefaultsLayer ==
    ASSUME NEW entries, NewRegistry(entries), NEW model
    PROVE  LET found == {e.defaults : e \in {x \in ToSet(entries) : x.model = model}} IN
           \/ found = {DefaultsOf(entries, model)}
           \/ found = {} /\ DefaultsOf(entries, model) = Unset
BY OneEntry DEF DefaultsOf

(* The entries of a model give its own preset of a name, or none.           *)
LEMMA PresetLayer ==
    ASSUME NEW entries, NewRegistry(entries), NEW model, NEW name
    PROVE  {e.presets[name] : e \in {x \in {y \in ToSet(entries) : y.model = model} :
                                         name \in DOMAIN x.presets}}
             = IF HasPreset(entries, model, name) THEN {EntryOf(entries, model).presets[name]} ELSE {}
BY OneEntry DEF HasPreset

\* A source that sets layer p: nothing but p, or nothing at all.
Supplies(source, p) == source = {p} \/ (source = {} /\ DOMAIN p = {})

(* Each field is that of the last of the sources that have it.             *)
LastWins(params, sources) ==
    /\ \A i \in 1..5 : \A p \in sources[i] : DOMAIN p \subseteq DOMAIN params
    /\ \A f \in DOMAIN params : \E i \in 1..5 :
        /\ \E p \in {q \in sources[i] : f \in DOMAIN q} : params[f] = p[f]
        /\ \A j \in (i + 1)..5 : {q \in sources[j] : f \in DOMAIN q} = {}

(* Of five layers that are merged the last one that has a field wins.      *)
LEMMA LastLayerWins ==
    ASSUME NEW p1, NEW p2, NEW p3, NEW p4, NEW p5,
           NEW s1, NEW s2, NEW s3, NEW s4, NEW s5,
           Supplies(s1, p1), Supplies(s2, p2), Supplies(s3, p3), Supplies(s4, p4),
           Supplies(s5, p5),
           NEW params, params = Merge(Merge(Merge(Merge(p1, p2), p3), p4), p5),
           NEW sources, sources = <<s1, s2, s3, s4, s5>>
    PROVE  LastWins(params, sources)
<1>1. /\ sources[1] = s1 /\ sources[2] = s2 /\ sources[3] = s3 /\ sources[4] = s4
      /\ sources[5] = s5
  OBVIOUS
<1>2. \A i \in 1..5 : i = 1 \/ i = 2 \/ i = 3 \/ i = 4 \/ i = 5
  OBVIOUS
<1>layered. Layered(params, p1, p2, p3, p4, p5)
  BY Layers
<1>3. DOMAIN params = DOMAIN p1 \cup DOMAIN p2 \cup DOMAIN p3 \cup DOMAIN p4 \cup DOMAIN p5
  BY <1>layered DEF Layered
<1>4. ASSUME NEW i \in 1..5, NEW p \in sources[i]
      PROVE  DOMAIN p \subseteq DOMAIN params
  BY <1>1, <1>2, <1>3, <1>4 DEF Supplies
<1>5. ASSUME NEW f \in DOMAIN params
      PROVE  \E i \in 1..5 :
                /\ \E p \in {q \in sources[i] : f \in DOMAIN q} : params[f] = p[f]
                /\ \A j \in (i + 1)..5 : {q \in sources[j] : f \in DOMAIN q} = {}
  <2>1. /\ f \in DOMAIN p5 => params[f] = p5[f]
        /\ f \in DOMAIN p4 \ DOMAIN p5 => params[f] = p4[f]
        /\ f \in DOMAIN p3 \ (DOMAIN p4 \cup DOMAIN p5) => params[f] = p3[f]
        /\ f \in DOMAIN p2 \ (DOMAIN p3 \cup DOMAIN p4 \cup DOMAIN p5) => params[f] = p2[f]
        /\ f \in DOMAIN p1 \ (DOMAIN p2 \cup DOMAIN p3 \cup DOMAIN p4 \cup DOMAIN p5) =>
               params[f] = p1[f]
    BY <1>layered DEF Layered
  <2>2. /\ {q \in s1 : f \in DOMAIN q} = IF f \in DOMAIN p1 THEN {p1} ELSE {}
        /\ {q \in s2 : f \in DOMAIN q} = IF f \in DOMAIN p2 THEN {p2} ELSE {}
        /\ {q \in s3 : f \in DOMAIN q} = IF f \in DOMAIN p3 THEN {p3} ELSE {}
        /\ {q \in s4 : f \in DOMAIN q} = IF f \in DOMAIN p4 THEN {p4} ELSE {}
        /\ {q \in s5 : f \in DOMAIN q} = IF f \in DOMAIN p5 THEN {p5} ELSE {}
    BY DEF Supplies
  <2>3. ASSUME NEW i \in 1..5, NEW p, {q \in sources[i] : f \in DOMAIN q} = {p},
               params[f] = p[f],
               \A j \in 1..5 : j > i => {q \in sources[j] : f \in DOMAIN q} = {}
        PROVE  \E k \in 1..5 :
                  /\ \E q \in {q \in sources[k] : f \in DOMAIN q} : params[f] = q[f]
                  /\ \A j \in (k + 1)..5 : {q \in sources[j] : f \in DOMAIN q} = {}
    <3>1. \A j \in (i + 1)..5 : j \in 1..5 /\ j > i
      OBVIOUS
    <3>. QED BY <2>3, <3>1
  <2>4. CASE f \in DOMAIN p5
    <3>1. {q \in sources[5] : f \in DOMAIN q} = {p5} /\ params[f] = p5[f]
      BY <1>1, <2>1, <2>2, <2>4
    <3>. QED BY <2>3, <3>1
  <2>5. CASE f \in DOMAIN p4 \ DOMAIN p5
    <3>1. {q \in sources[4] : f \in DOMAIN q} = {p4} /\ params[f] = p4[f]
      BY <1>1, <2>1, <2>2, <2>5
    <3>2. \A j \in 1..5 : j > 4 => {q \in sources[j] : f \in DOMAIN q} = {}
      BY <1>1, <1>2, <2>2, <2>5
    <3>. QED BY <2>3, <3>1, <3>2
  <2>6. CASE f \in DOMAIN p3 \ (DOMAIN p4 \cup DOMAIN p5)
    <3>1. {q \in sources[3] : f \in DOMAIN q} = {p3} /\ params[f] = p3[f]
      BY <1>1, <2>1, <2>2, <2>6
    <3>2. \A j \in 1..5 : j > 3 => {q \in sources[j] : f \in DOMAIN q} = {}
      BY <1>1, <1>2, <2>2, <2>6
    <3>. QED BY <2>3, <3>1, <3>2
  <2>7. CASE f \in DOMAIN p2 \ (DOMAIN p3 \cup DOMAIN p4 \cup DOMAIN p5)
    <3>1. {q \in sources[2] : f \in DOMAIN q} = {p2} /\ params[f] = p2[f]
      BY <1>1, <2>1, <2>2, <2>7
    <3>2. \A j \in 1..5 : j > 2 => {q \in sources[j] : f \in DOMAIN q} = {}
      BY <1>1, <1>2, <2>2, <2>7
    <3>. QED BY <2>3, <3>1, <3>2
  <2>8. CASE f \in DOMAIN p1 \ (DOMAIN p2 \cup DOMAIN p3 \cup DOMAIN p4 \cup DOMAIN p5)
    <3>1. {q \in sources[1] : f \in DOMAIN q} = {p1} /\ params[f] = p1[f]
      BY <1>1, <2>1, <2>2, <2>8
    <3>2. \A j \in 1..5 : j > 1 => {q \in sources[j] : f \in DOMAIN q} = {}
      BY <1>1, <1>2, <2>2, <2>8
    <3>. QED BY <2>3, <3>1, <3>2
  <2>. QED BY <1>3, <2>4, <2>5, <2>6, <2>7, <2>8
<1>. QED BY <1>4, <1>5 DEF LastWins

(* Resolve merges the sources in that order.                               *)
LEMMA LayersInOrder ==
    ASSUME NEW entries, NEW selector, NEW overrides,
           NewRegistry(entries), Resolvable(entries, selector)
    PROVE  LaterSourcesWin(entries, selector, overrides)
<1>. DEFINE at(model) == {e \in ToSet(entries) : e.model = model}
            defaults(model) == {e.defaults : e \in at(model)}
            presets(model) ==
                {e.presets[selector.preset] :
                    e \in {x \in at(model) : selector.preset \in DOMAIN x.presets}}
            named == IF selector.preset = "none" THEN {}
                     ELSE IF presets(selector.model) # {} THEN presets(selector.model)
                     ELSE presets("*")
            s2 == defaults("*")  s3 == defaults(selector.model)
<1>1. DOMAIN Unset = {}
  BY DEF Unset
<1>2. \A model : Supplies(defaults(model), DefaultsOf(entries, model))
  BY <1>1, DefaultsLayer DEF Supplies
<1>3. \A model : presets(model) = IF HasPreset(entries, model, selector.preset)
                                  THEN {EntryOf(entries, model).presets[selector.preset]} ELSE {}
  BY PresetLayer
<1>4. Supplies(named, Preset(entries, selector))
  <2>1. CASE selector.preset = "none"
    BY <1>1, <2>1 DEF Preset, Supplies
  <2>2. CASE selector.preset # "none" /\ HasPreset(entries, selector.model, selector.preset)
    <3>1. named = {EntryOf(entries, selector.model).presets[selector.preset]}
      BY <1>3, <2>2
    <3>. QED BY <2>2, <3>1 DEF Preset, LookupPreset, Supplies
  <2>3. CASE selector.preset # "none" /\ ~HasPreset(entries, selector.model, selector.preset)
    <3>1. HasPreset(entries, "*", selector.preset)
      BY <2>3 DEF Resolvable
    <3>2. named = {EntryOf(entries, "*").presets[selector.preset]}
      BY <1>3, <2>3, <3>1
    <3>. QED BY <2>3, <3>2 DEF Preset, LookupPreset, Supplies
  <2>. QED BY <2>1, <2>2, <2>3
<1>builtin. PICK builtin : builtin = BuiltinDefaults(selector.provider)
  OBVIOUS
<1>5. Supplies(s2, DefaultsOf(entries, "*")) /\ Supplies(s3, DefaultsOf(entries, selector.model))
  BY <1>2
<1>6. Supplies({builtin}, builtin) /\ Supplies({overrides}, overrides)
  BY DEF Supplies
<1>. DEFINE params == ResolveParams(entries, selector, overrides)
            sources == <<{builtin}, s2, s3, named, {overrides}>>
<1>7. params = Merge(Merge(Merge(Merge(builtin, DefaultsOf(entries, "*")),
                                 DefaultsOf(entries, selector.model)),
                           Preset(entries, selector)), overrides)
  BY <1>builtin DEF ResolveParams
<1>8. sources = <<{builtin}, s2, s3, named, {overrides}>>
  OBVIOUS
<1>9. LaterSourcesWin(entries, selector, overrides) <=> LastWins(params, sources)
  BY <1>builtin DEF LaterSourcesWin, LastWins
<1>. HIDE DEF params, sources, s2, s3, named
<1>10. LastWins(params, sources)
  BY <1>4, <1>5, <1>6, <1>7, <1>8, LastLayerWins
<1>. QED BY <1>9, <1>10

(* What a registry that loads sets is in range.                            *)
LEMMA LayersValid ==
    ASSUME NEW entries, NEW selector, NEW overrides,
           NewRegistry(entries), Resolvable(entries, selector)
    PROVE  OnlyOverridesWild(entries, selector, overrides)
<1>1. /\ Valid(Unset) /\ Valid(BuiltinDefaults(selector.provider))
  BY DEF Valid, Unset, BuiltinDefaults
<1>2. ASSUME NEW model, Registered(entries, model)
      PROVE  /\ Valid(EntryOf(entries, model).defaults)
             /\ \A name \in DOMAIN EntryOf(entries, model).presets :
                    Valid(EntryOf(entries, model).presets[name])
  <2>1. PICK i \in DOMAIN entries : EntryOf(entries, model) = entries[i]
    BY <1>2 DEF Registered, EntryOf
  <2>. QED BY <2>1 DEF NewRegistry
<1>3. \A model : Valid(DefaultsOf(entries, model))
  BY <1>1, <1>2 DEF DefaultsOf
<1>4. Valid(Preset(entries, selector))
  <2>1. CASE selector.preset = "none"
    BY <1>1, <2>1 DEF Preset
  <2>2. CASE selector.preset # "none"
    <3>1. PICK model : /\ HasPreset(entries, model, selector.preset)
                       /\ Preset(entries, selector)
                            = EntryOf(entries, model).presets[selector.preset]
      BY <2>2 DEF Resolvable, Preset, LookupPreset
    <3>. QED BY <1>2, <3>1 DEF HasPreset
  <2>. QED BY <2>1, <2>2
<1>. SUFFICES ASSUME NEW f \in DOMAIN ResolveParams(entries, selector, overrides),
                     f \notin DOMAIN overrides
              PROVE  ResolveParams(entries, selector, overrides)[f] # "wild"
  BY DEF OnlyOverridesWild
<1>5. PICK p2 : p2 = DefaultsOf(entries, "*") /\ Valid(p2)
  BY <1>3
<1>6. PICK p3 : p3 = DefaultsOf(entries, selector.model) /\ Valid(p3)
  BY <1>3
<1>7. PICK p4 : p4 = Preset(entries, selector) /\ Valid(p4)
  BY <1>4
<1>8. PICK params : /\ params = ResolveParams(entries, selector, overrides)
                    /\ params = Merge(Merge(Merge(Merge(BuiltinDefaults(selector.provider), p2), p3), p4), overrides)
  BY <1>5, <1>6, <1>7 DEF ResolveParams
<1>layered. Layered(params, BuiltinDefaults(selector.provider), p2, p3, p4, overrides)
  BY <1>8, Layers
<1>9. /\ DOMAIN params = DOMAIN BuiltinDefaults(selector.provider) \cup DOMAIN p2 \cup DOMAIN p3 \cup DOMAIN p4
                            \cup DOMAIN overrides
      /\ f \in DOMAIN p4 => params[f] = p4[f]
      /\ f \in DOMAIN p3 \ DOMAIN p4 => params[f] = p3[f]
      /\ f \in DOMAIN p2 \ (DOMAIN p3 \cup DOMAIN p4) => params[f] = p2[f]
      /\ f \in DOMAIN BuiltinDefaults(selector.provider) \ (DOMAIN p2 \cup DOMAIN p3 \cup DOMAIN p4) =>
             params[f] = BuiltinDefaults(selector.provider)[f]
  BY <1>layered DEF Layered
<1>. QED BY <1>1, <1>5, <1>6, <1>7, <1>8, <1>9 DEF Valid

-----------------------------------------------------------------------------
(* Traceability.                                                           *)

(* A set of natural numbers below a bound has a greatest element.          *)
LEMMA Greatest ==
    ASSUME NEW n \in Nat, NEW S \in SUBSET (1..n), S # {}
    PROVE  \E i \in S : \A j \in S : j <= i
<1>. DEFINE LT == {ss \in Nat \X Nat : ss[1] < ss[2]}
            U == {n - i : i \in S}
<1>1. IsWellFoundedOn(LT, Nat)
  BY NatLessThanWellFounded DEF OpToRel
<1>2. U \in SUBSET Nat /\ U # {}
  <2>1. \A i \in S : n - i \in Nat
    OBVIOUS
  <2>. QED BY <2>1
<1>3. PICK x \in U : \A y \in U : ~(<<y, x>> \in LT)
  <2>. HIDE DEF LT, U
  <2>. QED BY <1>1, <1>2, WFMin
<1>4. PICK i \in S : x = n - i
  OBVIOUS
<1>5. ASSUME NEW j \in S PROVE j <= i
  <2>1. n - j \in U /\ n - j \in Nat /\ n - i \in Nat /\ i \in Nat /\ j \in Nat
    OBVIOUS
  <2>2. ~(n - j < n - i)
    BY <1>3, <1>4, <2>1
  <2>. QED BY <2>1, <2>2
<1>. QED BY <1>5

\* The positions of the requirements with an id or reference.
Having(requirements, id) ==
    {i \in DOMAIN requirements : id \in {requirements[i].id, requirements[i].ref}}

(* An alias is the id of a requirement that has the citation as its id or  *)
(* reference (buildLinks).                                                 *)
LEMMA AliasFound ==
    ASSUME NEW T, NEW requirements \in Seq(T), NEW id
    PROVE  /\ Having(requirements, id) = {} => Alias(requirements, id) = "none"
           /\ Having(requirements, id) # {} =>
                \E i \in Having(requirements, id) : Alias(requirements, id) = requirements[i].id
<1>. DEFINE found == Having(requirements, id)
<1>1. Alias(requirements, id)
        = IF found = {} THEN "none"
          ELSE requirements[CHOOSE i \in found : \A j \in found : j <= i].id
  BY DEF Alias, LastOf, Having
<1>2. found \in SUBSET (1..Len(requirements)) /\ Len(requirements) \in Nat
  BY DEF Having
<1>. HIDE DEF found
<1>3. found # {} => (CHOOSE i \in found : \A j \in found : j <= i) \in found
  BY <1>2, Greatest
<1>. QED BY <1>1, <1>3 DEF found

(* Every test that cites a requirement is on the page of one with that id  *)
(* or reference.                                                           *)
LEMMA Followed ==
    ASSUME NEW T, NEW requirements \in Seq(T), NEW cases, NEW docs
    PROVE  CitationsFollowed(requirements, cases, docs)
<1>. SUFFICES ASSUME NEW c \in DOMAIN cases, NEW link \in cases[c],
                     NEW r \in ToSet(requirements), link \in {r.id, r.ref}
              PROVE  \E q \in ToSet(requirements) :
                        /\ link \in {q.id, q.ref}
                        /\ <<"test-cases", c>> \in RequirementTests(requirements, cases, docs)[q.id]
  BY DEF CitationsFollowed
<1>1. Having(requirements, link) # {}
  BY DEF Having, ToSet
<1>2. PICK i \in Having(requirements, link) : Alias(requirements, link) = requirements[i].id
  BY <1>1, AliasFound
<1>3. /\ i \in DOMAIN requirements /\ requirements[i] \in ToSet(requirements)
      /\ link \in {requirements[i].id, requirements[i].ref}
  BY DEF Having, ToSet
<1>4. <<"test-cases", c>> \in RequirementTests(requirements, cases, docs)[requirements[i].id]
  BY <1>2, <1>3 DEF RequirementTests
<1>. QED BY <1>3, <1>4

(* When no two requirements share an id or reference, the rollup counts    *)
(* what the requirements' pages show.                                      *)
LEMMA Agrees ==
    ASSUME NEW T, NEW requirements \in Seq(T), NEW cases, NEW docs,
           \A r \in ToSet(requirements) : r.id # "none"
    PROVE  CoverageAgrees(requirements, cases, docs)
<1>. SUFFICES ASSUME Distinct(requirements)
              PROVE  Covered(requirements, cases)
                       = {r.id : r \in {x \in ToSet(requirements) : x.active /\
                           \E t \in RequirementTests(requirements, cases, docs)[x.id] :
                               t[1] = "test-cases"}}
  BY DEF CoverageAgrees
<1>. DEFINE linked == UNION {cases[c] : c \in DOMAIN cases}
<1>1. ASSUME NEW k \in DOMAIN requirements, NEW link
      PROVE  (Alias(requirements, link) = requirements[k].id)
               = (link \in {requirements[k].id, requirements[k].ref})
  <2>1. requirements[k].id # "none"
    BY DEF ToSet
  <2>2. ASSUME NEW i \in Having(requirements, link),
               Alias(requirements, link) = requirements[i].id
        PROVE  (Alias(requirements, link) = requirements[k].id)
                 = (link \in {requirements[k].id, requirements[k].ref})
    <3>1. i \in DOMAIN requirements /\ link \in {requirements[i].id, requirements[i].ref}
      BY DEF Having
    <3>2. Alias(requirements, link) = requirements[k].id => i = k
      BY <2>2, <3>1 DEF Distinct
    <3>3. link \in {requirements[k].id, requirements[k].ref} => i = k
      BY <3>1 DEF Distinct
    <3>. QED BY <2>2, <3>1, <3>2, <3>3
  <2>3. CASE Having(requirements, link) = {}
    BY <2>1, <2>3, AliasFound DEF Having
  <2>4. CASE Having(requirements, link) # {}
    BY <2>2, <2>4, AliasFound
  <2>. QED BY <2>3, <2>4
<1>2. ASSUME NEW k \in DOMAIN requirements
      PROVE  (\E t \in RequirementTests(requirements, cases, docs)[requirements[k].id] :
                  t[1] = "test-cases")
               <=> {requirements[k].id, requirements[k].ref} \cap linked # {}
  <2>. DEFINE own == {<<"test-cases", c>> : c \in {x \in DOMAIN cases :
                         \E link \in cases[x] : Alias(requirements, link) = requirements[k].id}}
              arts == {<<"artifacts", d>> : d \in
                         {x \in DOMAIN docs : requirements[k].id \in Cited(requirements, docs[x])}}
  <2>1. RequirementTests(requirements, cases, docs)[requirements[k].id] = own \cup arts
    BY DEF RequirementTests
  <2>2. /\ \A t \in arts : t[1] # "test-cases"
        /\ \A t \in own : t[1] = "test-cases"
    OBVIOUS
  <2>3. own # {} <=> \E c \in DOMAIN cases : \E link \in cases[c] :
                         Alias(requirements, link) = requirements[k].id
    OBVIOUS
  <2>4. own # {} <=> \E c \in DOMAIN cases : \E link \in cases[c] :
                         link \in {requirements[k].id, requirements[k].ref}
    BY <1>1, <2>3
  <2>. HIDE DEF own, arts
  <2>5. (\E t \in own \cup arts : t[1] = "test-cases") <=> own # {}
    BY <2>2
  <2>. QED BY <2>1, <2>4, <2>5
<1>3. \A x \in ToSet(requirements) :
        (\E t \in RequirementTests(requirements, cases, docs)[x.id] : t[1] = "test-cases")
          <=> {x.id, x.ref} \cap linked # {}
  BY <1>2 DEF ToSet
<1>. QED BY <1>3 DEF Covered

-----------------------------------------------------------------------------
(* The question that was asked is one of those that may be asked.          *)
AskedInv ==
    /\ asked.topic = "traceability" => asked.input \in TraceInputs
    /\ asked.topic = "params" => /\ NewRegistry(asked.input.entries)
                                 /\ Resolvable(asked.input.entries, asked.input.selector)
    /\ asked.topic = "document" => asked.input \in Documents

(* It stays so.                                                            *)
LEMMA AskedHolds == QueriesSpec => []AskedInv
<1>1. QueriesInit => AskedInv
  BY DEF QueriesInit, AskedInv
<1>2. AskedInv /\ [QueriesNext]_vars => AskedInv'
  BY DEF AskedInv, QueriesNext, AskAnything, Ask, vars
<1>. QED BY <1>1, <1>2, PTL DEF QueriesSpec

(***************************************************************************)
(* The rollup and the requirements' pages agree on what is covered as long *)
(* as no two requirements share an id or reference, and no citation of a   *)
(* requirement that is there is lost, for any requirements, test cases and *)
(* documents (buildLinks, testability).                                    *)
(***************************************************************************)
THEOREM RollupAgreesAlways == QueriesSpec => []RollupAgrees
<1>1. AskedInv => RollupAgrees
  BY TraceAssumption, Followed, Agrees DEF AskedInv, RollupAgrees
<1>. QED BY <1>1, AskedHolds, PTL

(***************************************************************************)
(* Each parameter comes from the latest source that sets it, and only a    *)
(* caller's override may be out of range, for any registry that loads and  *)
(* any selector it resolves (Resolve).                                     *)
(***************************************************************************)
THEOREM ParamsAreLayered == QueriesSpec => []ParamsLayered
<1>1. AskedInv => ParamsLayered
  BY LayersInOrder, LayersValid DEF AskedInv, ParamsLayered
<1>. QED BY <1>1, AskedHolds, PTL

-----------------------------------------------------------------------------
(* Documents.                                                              *)

(* What holds of 0 and passes from each number to the next holds up to N.  *)
LEMMA UpTo ==
    ASSUME NEW N \in Nat, NEW S, 0 \in S, \A n \in 0..N : n < N /\ n \in S => n + 1 \in S
    PROVE  \A n \in 0..N : n \in S
<1>. DEFINE LT == {ss \in Nat \X Nat : ss[1] < ss[2]}
            U == (0..N) \ S
<1>. SUFFICES ASSUME U # {} PROVE FALSE
  OBVIOUS
<1>1. IsWellFoundedOn(LT, Nat)
  BY NatLessThanWellFounded DEF OpToRel
<1>2. U \in SUBSET Nat
  OBVIOUS
<1>3. PICK x \in U : \A y \in U : ~(<<y, x>> \in LT)
  <2>. HIDE DEF LT, U
  <2>. QED BY <1>1, <1>2, WFMin
<1>4. x \in 0..N /\ x \notin S /\ x # 0
  OBVIOUS
<1>5. x - 1 \in 0..N /\ x - 1 < N /\ x - 1 < x /\ x - 1 + 1 = x
  BY <1>4
<1>6. x - 1 \notin S
  BY <1>4, <1>5
<1>7. x - 1 \in U /\ <<x - 1, x>> \in LT
  BY <1>4, <1>5, <1>6
<1>. QED BY <1>3, <1>7

\* The two scanners, of requirements and of citations, as one.
Scans(what, lines) == IF what = "spec" THEN SpecScans(lines) ELSE ScenarioScans(lines)
StartOf(what) == IF what = "spec" THEN SpecStart ELSE ScenarioStart
ReadAs(what, scan, line) ==
    IF what = "spec" THEN ReadSpecLine(scan, line) ELSE ReadScenarioLine(scan, line)

(* A document is read from its first line to its last (parseRequirements,  *)
(* scenarioReferences).                                                    *)
LEMMA ScanRule ==
    ASSUME NEW L, NEW lines \in Seq(L), NEW what \in {"spec", "scenario"}
    PROVE  /\ Scans(what, lines)[0] = StartOf(what)
           /\ \A n \in 1..Len(lines) :
                  Scans(what, lines)[n] = ReadAs(what, Scans(what, lines)[n - 1], lines[n])
<1>. DEFINE N == Len(lines)
            start == StartOf(what)
            Read(s, n) == ReadAs(what, s, lines[n])
            Follows(g, n) == /\ g = [k \in 0..n |-> g[k]]
                             /\ g[0] = start
                             /\ \A k \in 1..n : g[k] = Read(g[k - 1], k)
            S == {n \in 0..N : \E g : Follows(g, n)}
<1>1. N \in Nat
  OBVIOUS
<1>. HIDE DEF N, Read, start
<1>2. 0 \in S
  <2>. DEFINE g == [k \in 0..0 |-> start]
  <2>1. Follows(g, 0)
    OBVIOUS
  <2>. HIDE DEF g, Follows
  <2>. QED BY <1>1, <2>1
<1>3. ASSUME NEW n \in 0..N, n < N, n \in S
      PROVE  n + 1 \in S
  <2>1. PICK g : Follows(g, n)
    BY <1>3
  <2>. DEFINE h == [k \in 0..(n + 1) |-> IF k = n + 1 THEN Read(g[n], n + 1) ELSE g[k]]
  <2>2. /\ h = [k \in 0..(n + 1) |-> h[k]] /\ h[0] = start
        /\ h[n + 1] = Read(g[n], n + 1) /\ \A k \in 0..n : h[k] = g[k]
    BY <1>1, <2>1
  <2>. HIDE DEF h
  <2>3. ASSUME NEW k \in 1..(n + 1) PROVE h[k] = Read(h[k - 1], k)
    <3>1. CASE k = n + 1
      <4>1. k - 1 = n /\ n \in 0..n
        BY <3>1
      <4>. QED BY <2>2, <3>1, <4>1
    <3>2. CASE k # n + 1
      <4>1. k \in 1..n /\ k \in 0..n /\ k - 1 \in 0..n
        BY <3>2
      <4>. QED BY <2>1, <2>2, <4>1
    <3>. QED BY <3>1, <3>2
  <2>4. Follows(h, n + 1)
    BY <2>2, <2>3
  <2>5. n + 1 \in 0..N
    BY <1>1, <1>3
  <2>. HIDE DEF Follows
  <2>. QED BY <2>4, <2>5
<1>4. N \in S
  <2>. HIDE DEF S
  <2>1. \A n \in 0..N : n < N /\ n \in S => n + 1 \in S
    BY <1>3
  <2>2. \A n \in 0..N : n \in S
    BY <1>1, <1>2, <2>1, UpTo
  <2>. QED BY <1>1, <2>2
<1>5. PICK g : Follows(g, N)
  BY <1>4
<1>6. g = [n \in 0..N |-> IF n = 0 THEN start ELSE Read(g[n - 1], n)]
  BY <1>1, <1>5
<1>7. Scans(what, lines) = [n \in 0..N |-> IF n = 0 THEN start
                                            ELSE Read(Scans(what, lines)[n - 1], n)]
  <2>1. Scans(what, lines) = CHOOSE scan : scan = [n \in 0..N |-> IF n = 0 THEN start
                                                       ELSE Read(scan[n - 1], n)]
    <3>1. CASE what = "spec"
      BY <3>1 DEF Scans, SpecScans, N, Read, ReadAs, start, StartOf
    <3>2. CASE what = "scenario"
      BY <3>2 DEF Scans, ScenarioScans, N, Read, ReadAs, start, StartOf
    <3>. QED BY <3>1, <3>2
  <2>. QED BY <1>6, <2>1
<1>8. \A n \in 1..N : n \in 0..N /\ n # 0
  BY <1>1
<1>9. /\ Scans(what, lines)[0] = start
      /\ \A n \in 1..N : Scans(what, lines)[n] = Read(Scans(what, lines)[n - 1], n)
  BY <1>1, <1>7, <1>8
<1>. QED BY <1>9 DEF N, Read, start

(* Documents that begin with the same lines are read alike so far.         *)
LEMMA SamePrefix ==
    ASSUME NEW L, NEW a \in Seq(L), NEW b \in Seq(L), NEW what \in {"spec", "scenario"},
           NEW m \in Nat, m <= Len(a), m <= Len(b), \A k \in 1..m : a[k] = b[k]
    PROVE  \A n \in 0..m : Scans(what, a)[n] = Scans(what, b)[n]
<1>. DEFINE S == {n \in 0..m : Scans(what, a)[n] = Scans(what, b)[n]}
<1>1. 0 \in S
  BY ScanRule
<1>2. ASSUME NEW n \in 0..m, n < m, n \in S
      PROVE  n + 1 \in S
  <2>1. n + 1 \in 1..m /\ n + 1 \in 1..Len(a) /\ n + 1 \in 1..Len(b) /\ n + 1 - 1 = n
    BY <1>2
  <2>2. /\ Scans(what, a)[n + 1] = ReadAs(what, Scans(what, a)[n + 1 - 1], a[n + 1])
        /\ Scans(what, b)[n + 1] = ReadAs(what, Scans(what, b)[n + 1 - 1], b[n + 1])
    BY <2>1, ScanRule
  <2>. QED BY <1>2, <2>1, <2>2
<1>3. \A n \in 0..m : n < m /\ n \in S => n + 1 \in S
  BY <1>2
<1>. HIDE DEF S
<1>4. \A n \in 0..m : n \in S
  BY <1>1, <1>3, UpTo
<1>. QED BY <1>4 DEF S

-----------------------------------------------------------------------------
(* Requirements.                                                           *)

Ids(found) == [r \in DOMAIN found |-> found[r].id]
Entry(X) == [id : X, lines : Nat]

\* What is known is a function of at least these fields; Len, Append and ids of
\* its entries make sense.
SpecFields == {"fence", "current", "found", "ok"}
SpecKnown(X, s) ==
    /\ SpecFields \subseteq DOMAIN s
    /\ s.current \in Nat /\ s.found \in Seq(Entry(X)) /\ s.ok \in BOOLEAN

(* What an entry is.                                                       *)
LEMMA EntryFacts ==
    ASSUME NEW X
    PROVE  /\ \A e \in Entry(X) : /\ e.id \in X /\ e.lines \in Nat
                                  /\ e = [id |-> e.id, lines |-> e.lines]
           /\ \A i \in X, n \in Nat : [id |-> i, lines |-> n] \in Entry(X)
BY DEF Entry

(* The ids of entries, when one is appended or continued.                  *)
LEMMA IdsFacts ==
    ASSUME NEW X, NEW found \in Seq(Entry(X))
    PROVE  /\ Ids(found) \in Seq(X) /\ DOMAIN Ids(found) = DOMAIN found
           /\ \A i \in DOMAIN found : Ids(found)[i] = found[i].id
           /\ \A e \in Entry(X) : /\ Append(found, e) \in Seq(Entry(X))
                           /\ Ids(Append(found, e)) = Append(Ids(found), e.id)
           /\ \A n \in Nat : LET more == [found EXCEPT ![n].lines = @ + 1]
                              IN  more \in Seq(Entry(X)) /\ Ids(more) = Ids(found)
<1>1. /\ \A e \in Entry(X) : e.id \in X /\ e.lines \in Nat /\ e = [id |-> e.id, lines |-> e.lines]
      /\ \A i \in X, n \in Nat : [id |-> i, lines |-> n] \in Entry(X)
  BY EntryFacts
<1>2. Ids(found) \in Seq(X)
  BY <1>1 DEF Ids
<1>3. ASSUME NEW e \in Entry(X)
      PROVE  Append(found, e) \in Seq(Entry(X)) /\ Ids(Append(found, e)) = Append(Ids(found), e.id)
  BY <1>1, <1>2 DEF Ids
<1>4. ASSUME NEW n \in Nat
      PROVE  LET more == [found EXCEPT ![n].lines = @ + 1]
             IN  more \in Seq(Entry(X)) /\ Ids(more) = Ids(found)
  <2>1. CASE n \in DOMAIN found
    <3>1. found[n] \in Entry(X)
      BY <2>1
    <3>2. PICK e \in Entry(X) : e = [found[n] EXCEPT !.lines = @ + 1] /\ e.id = found[n].id
      <4>1. [id |-> found[n].id, lines |-> found[n].lines + 1] \in Entry(X)
        BY <1>1, <3>1
      <4>2. [found[n] EXCEPT !.lines = @ + 1] = [id |-> found[n].id, lines |-> found[n].lines + 1]
        BY <1>1, <3>1
      <4>. QED BY <4>1, <4>2
    <3>. DEFINE more == [found EXCEPT ![n] = e]
    <3>3. [found EXCEPT ![n].lines = @ + 1] = more
      BY <3>2
    <3>4. more \in Seq(Entry(X)) /\ DOMAIN more = DOMAIN found
      BY <2>1
    <3>5. \A i \in DOMAIN found : more[i].id = found[i].id
      BY <3>2
    <3>6. Ids(more) = Ids(found)
      BY <3>4, <3>5 DEF Ids
    <3>. HIDE DEF more
    <3>. QED BY <3>3, <3>4, <3>6
  <2>2. CASE n \notin DOMAIN found
    <3>1. [found EXCEPT ![n].lines = @ + 1] = found
      BY <2>2
    <3>. QED BY <3>1
  <2>. QED BY <2>1, <2>2
<1>. QED BY <1>2, <1>3, <1>4 DEF Ids

(* What an assignment to some of the fields leaves.                        *)
LEMMA SpecAssigned ==
    ASSUME NEW s, SpecFields \subseteq DOMAIN s, NEW f, NEW c, NEW g, NEW o
    PROVE  /\ LET r == [s EXCEPT !.fence = f, !.current = c]
              IN  /\ DOMAIN r = DOMAIN s
                  /\ r.fence = f /\ r.current = c /\ r.found = s.found /\ r.ok = s.ok
           /\ LET r == [s EXCEPT !.ok = o, !.found = g, !.current = c]
              IN  /\ DOMAIN r = DOMAIN s
                  /\ r.fence = s.fence /\ r.current = c /\ r.found = g /\ r.ok = o
           /\ LET r == [s EXCEPT !.found = g]
              IN  /\ DOMAIN r = DOMAIN s
                  /\ r.fence = s.fence /\ r.current = s.current /\ r.found = g /\ r.ok = s.ok
           /\ LET r == [s EXCEPT !.current = c]
              IN  /\ DOMAIN r = DOMAIN s
                  /\ r.fence = s.fence /\ r.current = c /\ r.found = s.found /\ r.ok = s.ok
BY DEF SpecFields

\* The effect of one line on what later lines depend on.
SpecRead(X, s, line, r) ==
    /\ SpecKnown(X, r)
    /\ line.kind \in Fences =>
          /\ r.fence = FenceAfter(s.fence, line.kind)
          /\ Ids(r.found) = Ids(s.found) /\ r.ok = s.ok
    /\ line.kind \notin Fences => r.fence = s.fence
    /\ line.kind \notin Fences /\ (s.fence # "" \/ line.kind # "entry") =>
          Ids(r.found) = Ids(s.found) /\ r.ok = s.ok
    /\ line.kind \notin Fences /\ line.kind = "entry" /\ s.fence = "" =>
          /\ r.ok = (s.ok /\ \A i \in DOMAIN Ids(s.found) : Ids(s.found)[i] # line.id)
          /\ Ids(r.found) = Append(Ids(s.found), line.id)

(* One line, as far as the ids of the requirements are concerned: nothing  *)
(* else decides what later lines do to them (parseRequirements).           *)
LEMMA SpecStep ==
    ASSUME NEW X, NEW s, SpecKnown(X, s), NEW line, line.id \in X
    PROVE  SpecRead(X, s, line, ReadSpecLine(s, line))
<1>. DEFINE r == ReadSpecLine(s, line)
<1>1. CASE line.kind \in Fences
  <2>1. PICK f, c : f = FenceAfter(s.fence, line.kind) /\ c = IF s.fence = "" THEN 0 ELSE s.current
    OBVIOUS
  <2>2. r = [s EXCEPT !.fence = f, !.current = c]
    BY <1>1, <2>1 DEF ReadSpecLine, Fences
  <2>3. c \in Nat
    BY <2>1 DEF SpecKnown
  <2>4. DOMAIN r = DOMAIN s /\ r.fence = f /\ r.current = c /\ r.found = s.found /\ r.ok = s.ok
    BY <2>2, SpecAssigned DEF SpecKnown
  <2>. HIDE DEF r
  <2>5. SpecKnown(X, r)
    BY <2>3, <2>4 DEF SpecKnown
  <2>6. SpecRead(X, s, line, r)
    BY <1>1, <2>1, <2>4, <2>5 DEF SpecRead
  <2>. QED BY <2>6 DEF r
<1>2. CASE line.kind \notin Fences /\ (s.fence # "" \/ line.kind # "entry") /\ r = s
  <2>. HIDE DEF r
  <2>1. SpecRead(X, s, line, r)
    BY <1>2 DEF SpecRead
  <2>. QED BY <2>1 DEF r
<1>3. CASE line.kind = "entry" /\ s.fence = ""
  <2>1. PICK g, o, c : /\ g = Append(s.found, [id |-> line.id, lines |-> 1])
                       /\ o = (s.ok /\ \A i \in DOMAIN s.found : s.found[i].id # line.id)
                       /\ c = Len(s.found) + 1
    OBVIOUS
  <2>2. r = [s EXCEPT !.ok = o, !.found = g, !.current = c]
    BY <1>3, <2>1 DEF ReadSpecLine, Fences
  <2>3. s.found \in Seq(Entry(X))
    BY DEF SpecKnown
  <2>4. c \in Nat /\ o \in BOOLEAN
    BY <2>1, <2>3
  <2>5. DOMAIN r = DOMAIN s /\ r.fence = s.fence /\ r.current = c /\ r.found = g /\ r.ok = o
    BY <2>2, SpecAssigned DEF SpecKnown
  <2>6. PICK e \in Entry(X) : e.id = line.id /\ g = Append(s.found, e)
    BY <2>1, EntryFacts
  <2>7. g \in Seq(Entry(X)) /\ Ids(g) = Append(Ids(s.found), line.id)
    BY <2>3, <2>6, IdsFacts
  <2>8. o = (s.ok /\ \A i \in DOMAIN Ids(s.found) : Ids(s.found)[i] # line.id)
    BY <2>1 DEF Ids
  <2>. HIDE DEF r
  <2>9. SpecKnown(X, r)
    BY <2>4, <2>5, <2>7 DEF SpecKnown
  <2>10. SpecRead(X, s, line, r)
    BY <1>3, <2>5, <2>7, <2>8, <2>9 DEF SpecRead, Fences
  <2>. QED BY <2>10 DEF r
<1>4. CASE line.kind = "indented" /\ s.fence = "" /\ s.current # 0
  <2>1. PICK g : g = [s.found EXCEPT ![s.current].lines = @ + 1]
    OBVIOUS
  <2>2. r = [s EXCEPT !.found = g]
    BY <1>4, <2>1 DEF ReadSpecLine, Fences
  <2>3. s.found \in Seq(Entry(X)) /\ s.current \in Nat
    BY DEF SpecKnown
  <2>4. g \in Seq(Entry(X)) /\ Ids(g) = Ids(s.found)
    BY <2>1, <2>3, IdsFacts
  <2>5. DOMAIN r = DOMAIN s /\ r.fence = s.fence /\ r.current = s.current /\ r.found = g /\ r.ok = s.ok
    BY <2>2, SpecAssigned DEF SpecKnown
  <2>. HIDE DEF r
  <2>6. SpecKnown(X, r)
    BY <2>4, <2>5 DEF SpecKnown
  <2>7. SpecRead(X, s, line, r)
    BY <1>4, <2>4, <2>5, <2>6 DEF SpecRead, Fences
  <2>. QED BY <2>7 DEF r
<1>5. CASE line.kind \notin Fences /\ s.fence # ""
  <2>1. r = s
    BY <1>5 DEF ReadSpecLine, Fences
  <2>. QED BY <1>2, <1>5, <2>1
<1>6. CASE line.kind = "indented" /\ s.fence = "" /\ s.current = 0
  <2>1. r = s /\ line.kind \notin Fences /\ line.kind # "entry"
    BY <1>6 DEF ReadSpecLine, Fences
  <2>. QED BY <1>2, <2>1
<1>7. CASE line.kind = "empty" /\ s.fence = ""
  <2>1. r = s /\ line.kind \notin Fences /\ line.kind # "entry"
    BY <1>7 DEF ReadSpecLine, Fences
  <2>. QED BY <1>2, <2>1
<1>8. CASE line.kind \notin Fences \cup {"entry", "indented", "empty"} /\ s.fence = ""
  <2>1. r = [s EXCEPT !.current = 0]
    BY <1>8 DEF ReadSpecLine, Fences
  <2>2. DOMAIN r = DOMAIN s /\ r.fence = s.fence /\ r.current = 0 /\ r.found = s.found /\ r.ok = s.ok
    BY <2>1, SpecAssigned DEF SpecKnown
  <2>. HIDE DEF r
  <2>3. SpecKnown(X, r)
    BY <2>2 DEF SpecKnown
  <2>4. SpecRead(X, s, line, r)
    BY <1>8, <2>2, <2>3 DEF SpecRead
  <2>. QED BY <2>4 DEF r
<1>. QED BY <1>1, <1>3, <1>4, <1>5, <1>6, <1>7, <1>8

-----------------------------------------------------------------------------
(* Citations.                                                              *)

ScenarioFields == {"front", "fence", "first", "cited"}
ScenarioKnown(s) ==
    s = [x \in ScenarioFields |-> s[x]] /\ s.front \in BOOLEAN /\ s.first \in BOOLEAN

\* r is s with these values, first apart.
ScenarioSet(s, r, front, fence, cited) ==
    /\ ScenarioKnown(r) /\ r.first = FALSE
    /\ r.front = front /\ r.fence = fence /\ r.cited = cited

(* What an assignment to some of the fields leaves.                        *)
LEMMA ScenarioAssigned ==
    ASSUME NEW s, ScenarioKnown(s)
    PROVE  /\ ScenarioSet(s, [s EXCEPT !.first = FALSE], s.front, s.fence, s.cited)
           /\ \A v \in BOOLEAN : ScenarioSet(s, [[s EXCEPT !.first = FALSE] EXCEPT !.front = v],
                                             v, s.fence, s.cited)
           /\ \A v : ScenarioSet(s, [[s EXCEPT !.first = FALSE] EXCEPT !.fence = v],
                                 s.front, v, s.cited)
           /\ \A v : ScenarioSet(s, [[s EXCEPT !.first = FALSE] EXCEPT !.cited = v],
                                 s.front, s.fence, v)
BY DEF ScenarioKnown, ScenarioFields, ScenarioSet

(* What is known is known field by field.                                  *)
LEMMA ScenarioSame ==
    ASSUME NEW s, NEW t, ScenarioKnown(s), ScenarioKnown(t), s.front = t.front,
           s.fence = t.fence, s.first = t.first, s.cited = t.cited
    PROVE  s = t
<1>1. \A x \in ScenarioFields : s[x] = t[x]
  BY DEF ScenarioFields
<1>. QED BY <1>1 DEF ScenarioKnown

\* The effect of one line.
ScenarioRead(s, line, r) ==
    /\ ScenarioKnown(r) /\ r.first = FALSE
    /\ r.front = IF line.kind = "---" /\ (s.first \/ s.front) THEN s.first ELSE s.front
    /\ r.cited = IF Cites(s, line) THEN s.cited \cup {line.id} ELSE s.cited
    /\ r.fence = IF line.kind \in Fences /\ ~s.front THEN FenceAfter(s.fence, line.kind) ELSE s.fence

(* One line, field by field (scenarioReferences).                          *)
LEMMA ScenarioStep ==
    ASSUME NEW s, ScenarioKnown(s), NEW line
    PROVE  ScenarioRead(s, line, ReadScenarioLine(s, line))
<1>. PICK next, r : next = [s EXCEPT !.first = FALSE] /\ r = ReadScenarioLine(s, line)
  OBVIOUS
<1>0. ScenarioSet(s, next, s.front, s.fence, s.cited)
  BY ScenarioAssigned
<1>1. CASE line.kind = "---" /\ (s.first \/ s.front)
  <2>1. r = [next EXCEPT !.front = s.first]
    BY <1>1 DEF ReadScenarioLine, Cites, Fences
  <2>2. s.first \in BOOLEAN
    BY DEF ScenarioKnown
  <2>3. ScenarioSet(s, r, s.first, s.fence, s.cited)
    BY <2>1, <2>2, ScenarioAssigned
  <2>. QED BY <1>1, <2>2, <2>3 DEF ScenarioRead, ScenarioSet, Fences, Cites
<1>2. CASE Cites(s, line)
  <2>1. line.kind \in {"fr", "covers"}
    BY <1>2 DEF Cites
  <2>2. PICK v : v = s.cited \cup {line.id}
    OBVIOUS
  <2>3. r = [next EXCEPT !.cited = v]
    BY <1>0, <1>2, <2>1, <2>2 DEF ReadScenarioLine, ScenarioSet, Fences
  <2>4. ScenarioSet(s, r, s.front, s.fence, v)
    BY <2>3, ScenarioAssigned
  <2>. QED BY <1>2, <2>1, <2>2, <2>4 DEF ScenarioRead, ScenarioSet, Fences
<1>3. CASE line.kind \in Fences /\ ~s.front
  <2>1. ~Cites(s, line) /\ line.kind # "---" /\ line.kind # "indented"
    BY <1>3 DEF Cites, Fences
  <2>2. PICK v : v = FenceAfter(s.fence, line.kind)
    OBVIOUS
  <2>3. r = [next EXCEPT !.fence = v]
    BY <1>0, <1>3, <2>1, <2>2 DEF ReadScenarioLine, ScenarioSet
  <2>4. ScenarioSet(s, r, s.front, v, s.cited)
    BY <2>3, ScenarioAssigned
  <2>. QED BY <1>3, <2>1, <2>2, <2>4 DEF ScenarioRead, ScenarioSet
<1>4. CASE /\ ~(line.kind = "---" /\ (s.first \/ s.front))
           /\ ~Cites(s, line) /\ ~(line.kind \in Fences /\ ~s.front)
  <2>1. r = next
    BY <1>4 DEF ReadScenarioLine
  <2>. QED BY <1>0, <1>4, <2>1 DEF ScenarioRead, ScenarioSet
<1>. QED BY <1>1, <1>2, <1>3, <1>4

-----------------------------------------------------------------------------
(* A code block leaves both scanners where they were.                      *)

Known(what, X, s) == IF what = "spec" THEN SpecKnown(X, s) ELSE ScenarioKnown(s)
\* Outside of code blocks, front matter and the first line.
Plain(what, s) == s.fence = "" /\ (what = "scenario" => ~s.front /\ ~s.first)
Alike(what, s, t) ==
    IF what = "spec" THEN s.fence = t.fence /\ s.ok = t.ok /\ Ids(s.found) = Ids(t.found)
    ELSE s = t
\* What t was at the marker, s is in its block.
Inside(what, s, t, marker) ==
    /\ s.fence = marker
    /\ IF what = "spec" THEN s.ok = t.ok /\ Ids(s.found) = Ids(t.found)
       ELSE s.front = t.front /\ s.first = t.first /\ s.cited = t.cited

(* Reading keeps known what is known.                                      *)
LEMMA KnownStep ==
    ASSUME NEW what \in {"spec", "scenario"}, NEW X, NEW s, Known(what, X, s),
           NEW line, line.id \in X
    PROVE  Known(what, X, ReadAs(what, s, line))
<1>1. CASE what = "spec"
  BY <1>1, SpecStep DEF Known, ReadAs, SpecRead
<1>2. CASE what = "scenario"
  BY <1>2, ScenarioStep DEF Known, ReadAs, ScenarioRead
<1>. QED BY <1>1, <1>2

(* What is alike stays alike.                                              *)
LEMMA AlikeStep ==
    ASSUME NEW what \in {"spec", "scenario"}, NEW X, NEW s, NEW t,
           Known(what, X, s), Known(what, X, t), Alike(what, s, t), NEW line, line.id \in X
    PROVE  Alike(what, ReadAs(what, s, line), ReadAs(what, t, line))
<1>1. CASE what = "spec"
  <2>1. PICK r, q : r = ReadSpecLine(s, line) /\ q = ReadSpecLine(t, line)
    OBVIOUS
  <2>2. SpecRead(X, s, line, r) /\ SpecRead(X, t, line, q)
    BY <1>1, <2>1, SpecStep DEF Known
  <2>3. s.fence = t.fence /\ s.ok = t.ok /\ Ids(s.found) = Ids(t.found)
    BY <1>1 DEF Alike
  <2>4. r.fence = q.fence /\ r.ok = q.ok /\ Ids(r.found) = Ids(q.found)
    BY <2>2, <2>3 DEF SpecRead
  <2>. QED BY <1>1, <2>1, <2>4 DEF Alike, ReadAs
<1>2. CASE what = "scenario"
  BY <1>2 DEF Alike, ReadAs
<1>. QED BY <1>1, <1>2

(* The first marker opens the block.                                       *)
LEMMA BlockOpens ==
    ASSUME NEW what \in {"spec", "scenario"}, NEW X, NEW t, Known(what, X, t), Plain(what, t),
           NEW line, line.id \in X, line.kind \in Fences
    PROVE  Inside(what, ReadAs(what, t, line), t, line.kind)
<1>1. CASE what = "spec"
  <2>1. PICK r : r = ReadSpecLine(t, line)
    OBVIOUS
  <2>2. SpecRead(X, t, line, r)
    BY <1>1, <2>1, SpecStep DEF Known
  <2>. QED BY <1>1, <2>1, <2>2 DEF SpecRead, Inside, Plain, ReadAs, FenceAfter
<1>2. CASE what = "scenario"
  <2>1. PICK r : r = ReadScenarioLine(t, line)
    OBVIOUS
  <2>2. ScenarioRead(t, line, r)
    BY <1>2, <2>1, ScenarioStep DEF Known
  <2>3. ~Cites(t, line) /\ line.kind # "---"
    BY DEF Cites, Fences
  <2>4. ~t.front /\ t.first = FALSE /\ t.fence = ""
    BY <1>2 DEF Plain, Known, ScenarioKnown
  <2>5. r.front = t.front /\ r.cited = t.cited /\ r.first = FALSE
    BY <2>2, <2>3 DEF ScenarioRead
  <2>6. r.fence = line.kind
    BY <2>2, <2>4 DEF ScenarioRead, FenceAfter
  <2>7. r.first = t.first
    BY <2>4, <2>5
  <2>. QED BY <1>2, <2>1, <2>5, <2>6, <2>7 DEF Inside, ReadAs
<1>. QED BY <1>1, <1>2

(* Other lines, other markers included, change nothing.                    *)
LEMMA BlockStays ==
    ASSUME NEW what \in {"spec", "scenario"}, NEW X, NEW s, NEW t, NEW marker \in Fences,
           Known(what, X, s), Plain(what, t), Inside(what, s, t, marker),
           NEW line, line.id \in X, line.kind # marker
    PROVE  Inside(what, ReadAs(what, s, line), t, marker)
<1>0. marker # "" /\ FenceAfter(marker, line.kind) = marker
  BY DEF Fences, FenceAfter
<1>1. CASE what = "spec"
  <2>1. PICK r : r = ReadSpecLine(s, line)
    OBVIOUS
  <2>2. SpecRead(X, s, line, r)
    BY <1>1, <2>1, SpecStep DEF Known
  <2>. QED BY <1>0, <1>1, <2>1, <2>2 DEF SpecRead, Inside, ReadAs
<1>2. CASE what = "scenario"
  <2>1. PICK r : r = ReadScenarioLine(s, line)
    OBVIOUS
  <2>2. ScenarioRead(s, line, r)
    BY <1>2, <2>1, ScenarioStep DEF Known
  <2>3. s.fence = marker /\ s.front = t.front /\ s.first = t.first /\ s.cited = t.cited
    BY <1>2 DEF Inside
  <2>4. ~s.front /\ ~s.first /\ s.first = FALSE
    BY <1>2, <2>3 DEF Plain, Known, ScenarioKnown
  <2>5. ~Cites(s, line)
    BY <1>0, <2>3, <2>4 DEF Cites
  <2>6. r.front = s.front /\ r.cited = s.cited /\ r.first = FALSE
    BY <2>2, <2>4, <2>5 DEF ScenarioRead
  <2>7. r.fence = marker
    BY <1>0, <2>2, <2>3 DEF ScenarioRead
  <2>8. r.first = s.first
    BY <2>4, <2>6
  <2>. QED BY <1>2, <2>1, <2>3, <2>6, <2>7, <2>8 DEF Inside, ReadAs
<1>. QED BY <1>1, <1>2

(* The next marker of the kind closes it.                                  *)
LEMMA BlockCloses ==
    ASSUME NEW what \in {"spec", "scenario"}, NEW X, NEW s, NEW t, NEW marker \in Fences,
           Known(what, X, s), Known(what, X, t), Plain(what, t), Inside(what, s, t, marker),
           NEW line, line.id \in X, line.kind = marker
    PROVE  Alike(what, ReadAs(what, s, line), t)
<1>0. FenceAfter(marker, line.kind) = ""
  BY DEF Fences, FenceAfter
<1>1. CASE what = "spec"
  <2>1. PICK r : r = ReadSpecLine(s, line)
    OBVIOUS
  <2>2. SpecRead(X, s, line, r)
    BY <1>1, <2>1, SpecStep DEF Known
  <2>. QED BY <1>0, <1>1, <2>1, <2>2 DEF SpecRead, Inside, Plain, Alike, ReadAs
<1>2. CASE what = "scenario"
  <2>1. PICK r : r = ReadScenarioLine(s, line)
    OBVIOUS
  <2>2. ScenarioRead(s, line, r)
    BY <1>2, <2>1, ScenarioStep DEF Known
  <2>3. /\ s.fence = marker /\ s.front = t.front /\ s.first = t.first /\ s.cited = t.cited
        /\ t.fence = ""
    BY <1>2 DEF Inside, Plain
  <2>4. ~s.front /\ ~s.first /\ s.first = FALSE
    BY <1>2, <2>3 DEF Plain, Known, ScenarioKnown
  <2>5. ~Cites(s, line) /\ line.kind # "---"
    BY <1>0, <2>3, <2>4 DEF Cites, Fences
  <2>6. r.front = s.front /\ r.cited = s.cited /\ r.first = FALSE
    BY <2>2, <2>5 DEF ScenarioRead
  <2>7. r.fence = ""
    BY <1>0, <2>2, <2>3, <2>4 DEF ScenarioRead
  <2>8. r.first = s.first
    BY <2>4, <2>6
  <2>9. r = t
    BY <1>2, <2>2, <2>3, <2>6, <2>7, <2>8, ScenarioSame DEF ScenarioRead, Known
  <2>. QED BY <1>2, <2>1, <2>9 DEF Alike, ReadAs
<1>. QED BY <1>1, <1>2

-----------------------------------------------------------------------------
(* Whole documents.                                                        *)

(* Whatever is read, the scanners know what they must.                     *)
LEMMA KnownAlways ==
    ASSUME NEW L, NEW lines \in Seq(L), NEW what \in {"spec", "scenario"}, NEW X,
           \A k \in 1..Len(lines) : lines[k].id \in X
    PROVE  \A n \in 0..Len(lines) : Known(what, X, Scans(what, lines)[n])
<1>. DEFINE S == {n \in 0..Len(lines) : Known(what, X, Scans(what, lines)[n])}
<1>0. Len(lines) \in Nat
  OBVIOUS
<1>1. 0 \in S
  <2>1. Known(what, X, StartOf(what))
    <3>1. SpecKnown(X, SpecStart)
      BY DEF SpecKnown, SpecStart, SpecFields
    <3>2. ScenarioKnown(ScenarioStart)
      BY DEF ScenarioKnown, ScenarioStart, ScenarioFields
    <3>. QED BY <3>1, <3>2 DEF Known, StartOf
  <2>. QED BY <1>0, <2>1, ScanRule
<1>2. ASSUME NEW n \in 0..Len(lines), n < Len(lines), n \in S
      PROVE  n + 1 \in S
  <2>1. n + 1 \in 1..Len(lines) /\ n + 1 \in 0..Len(lines) /\ n + 1 - 1 = n
    BY <1>0, <1>2
  <2>2. Scans(what, lines)[n + 1] = ReadAs(what, Scans(what, lines)[n + 1 - 1], lines[n + 1])
    BY <2>1, ScanRule
  <2>3. lines[n + 1].id \in X
    BY <2>1
  <2>4. Known(what, X, ReadAs(what, Scans(what, lines)[n], lines[n + 1]))
    BY <1>2, <2>3, KnownStep
  <2>. QED BY <2>1, <2>2, <2>4
<1>3. \A n \in 0..Len(lines) : n < Len(lines) /\ n \in S => n + 1 \in S
  BY <1>2
<1>. HIDE DEF S
<1>4. \A n \in 0..Len(lines) : n \in S
  BY <1>0, <1>1, <1>3, UpTo
<1>. QED BY <1>4 DEF S

(* From the marker to the last line of the block.                          *)
LEMMA InBlock ==
    ASSUME NEW L, NEW lines \in Seq(L), NEW what \in {"spec", "scenario"}, NEW X,
           \A k \in 1..Len(lines) : lines[k].id \in X,
           NEW i \in 1..Len(lines), NEW j \in (i + 1)..Len(lines), Block(lines, i, j),
           NEW t, t = Scans(what, lines)[i - 1], Plain(what, t)
    PROVE  Alike(what, Scans(what, lines)[j], t)
<1>. DEFINE N == j - 1 - i
            sc(n) == Scans(what, lines)[n]
            S == {n \in 0..N : Inside(what, sc(i + n), t, lines[i].kind)}
<1>0. Len(lines) \in Nat /\ N \in Nat /\ i - 1 \in 0..Len(lines)
  OBVIOUS
<1>1. /\ \A n \in 0..Len(lines) : Known(what, X, sc(n))
      /\ \A n \in 1..Len(lines) : sc(n) = ReadAs(what, sc(n - 1), lines[n])
  BY KnownAlways, ScanRule
<1>2. lines[i].kind \in Fences /\ lines[j].kind = lines[i].kind
  BY DEF Block
<1>. HIDE DEF sc
<1>3. Known(what, X, t) /\ t = sc(i - 1)
  BY <1>0, <1>1 DEF sc
<1>4. 0 \in S
  <2>1. sc(i) = ReadAs(what, t, lines[i]) /\ lines[i].id \in X
    BY <1>1, <1>3
  <2>2. Inside(what, sc(i), t, lines[i].kind)
    BY <1>2, <1>3, <2>1, BlockOpens
  <2>3. i + 0 = i
    OBVIOUS
  <2>. QED BY <1>0, <2>2, <2>3
<1>5. ASSUME NEW n \in 0..N, n < N, n \in S
      PROVE  n + 1 \in S
  <2>. DEFINE k == i + n
  <2>1. /\ k \in 0..Len(lines) /\ k + 1 \in 1..Len(lines) /\ k + 1 - 1 = k
        /\ k + 1 \in (i + 1)..(j - 1) /\ i + (n + 1) = k + 1 /\ n + 1 \in 0..N
    BY <1>0, <1>5
  <2>2. Inside(what, sc(k), t, lines[i].kind)
    BY <1>5
  <2>. HIDE DEF k
  <2>3. /\ sc(k + 1) = ReadAs(what, sc(k), lines[k + 1]) /\ lines[k + 1].id \in X
        /\ Known(what, X, sc(k)) /\ lines[k + 1].kind # lines[i].kind
    BY <1>1, <2>1 DEF Block
  <2>4. Inside(what, sc(k + 1), t, lines[i].kind)
    BY <1>2, <2>2, <2>3, BlockStays
  <2>. QED BY <2>1, <2>4
<1>6. \A n \in 0..N : n < N /\ n \in S => n + 1 \in S
  BY <1>5
<1>7. N \in S
  <2>. HIDE DEF S
  <2>1. \A n \in 0..N : n \in S
    BY <1>0, <1>4, <1>6, UpTo
  <2>. QED BY <1>0, <2>1
<1>8. /\ i + N = j - 1 /\ j - 1 \in 0..Len(lines) /\ j \in 1..Len(lines)
  BY <1>0
<1>9. Inside(what, sc(j - 1), t, lines[i].kind)
  BY <1>7, <1>8
<1>10. sc(j) = ReadAs(what, sc(j - 1), lines[j]) /\ lines[j].id \in X /\ Known(what, X, sc(j - 1))
  BY <1>1, <1>8
<1>11. Alike(what, sc(j), t)
  BY <1>2, <1>3, <1>9, <1>10, BlockCloses
<1>. QED BY <1>11 DEF sc

(* With the same lines left, what is alike ends alike.                     *)
LEMMA SameRest ==
    ASSUME NEW L, NEW a \in Seq(L), NEW b \in Seq(L), NEW what \in {"spec", "scenario"}, NEW X,
           \A k \in 1..Len(a) : a[k].id \in X, \A k \in 1..Len(b) : b[k].id \in X,
           NEW p \in 0..Len(a), NEW q \in 0..Len(b), NEW N \in Nat,
           Len(a) = p + N, Len(b) = q + N, \A n \in 1..N : a[p + n] = b[q + n],
           Alike(what, Scans(what, a)[p], Scans(what, b)[q])
    PROVE  Alike(what, Scans(what, a)[Len(a)], Scans(what, b)[Len(b)])
<1>. DEFINE sa(n) == Scans(what, a)[n]
            sb(n) == Scans(what, b)[n]
            S == {n \in 0..N : Alike(what, sa(p + n), sb(q + n))}
<1>0. /\ \A n \in 0..Len(a) : Known(what, X, sa(n))
      /\ \A n \in 1..Len(a) : sa(n) = ReadAs(what, sa(n - 1), a[n])
      /\ \A n \in 0..Len(b) : Known(what, X, sb(n))
      /\ \A n \in 1..Len(b) : sb(n) = ReadAs(what, sb(n - 1), b[n])
  BY KnownAlways, ScanRule
<1>1. 0 \in S
  <2>1. p + 0 = p /\ q + 0 = q /\ 0 \in 0..N
    OBVIOUS
  <2>. QED BY <2>1
<1>. HIDE DEF sa, sb
<1>2. ASSUME NEW n \in 0..N, n < N, n \in S
      PROVE  n + 1 \in S
  <2>. DEFINE k == p + n
              m == q + n
  <2>1. /\ k \in 0..Len(a) /\ k + 1 \in 1..Len(a) /\ k + 1 - 1 = k /\ p + (n + 1) = k + 1
        /\ m \in 0..Len(b) /\ m + 1 \in 1..Len(b) /\ m + 1 - 1 = m /\ q + (n + 1) = m + 1
        /\ n + 1 \in 1..N /\ n + 1 \in 0..N
    BY <1>2
  <2>2. Alike(what, sa(k), sb(m))
    BY <1>2
  <2>7. a[p + (n + 1)] = b[q + (n + 1)]
    BY <2>1
  <2>. HIDE DEF k, m
  <2>3. a[k + 1] = b[m + 1]
    BY <2>1, <2>7
  <2>4. /\ sa(k + 1) = ReadAs(what, sa(k), a[k + 1]) /\ a[k + 1].id \in X /\ Known(what, X, sa(k))
        /\ sb(m + 1) = ReadAs(what, sb(m), b[m + 1]) /\ Known(what, X, sb(m))
    BY <1>0, <2>1
  <2>5. Alike(what, sa(k + 1), sb(m + 1))
    BY <2>2, <2>3, <2>4, AlikeStep
  <2>. QED BY <2>1, <2>5
<1>3. \A n \in 0..N : n < N /\ n \in S => n + 1 \in S
  BY <1>2
<1>4. N \in S
  <2>. HIDE DEF S
  <2>1. \A n \in 0..N : n \in S
    BY <1>1, <1>3, UpTo
  <2>. QED BY <2>1
<1>. QED BY <1>4 DEF sa, sb

(* A document without one of its blocks.                                   *)
LEMMA Without ==
    ASSUME NEW L, NEW lines \in Seq(L), NEW i \in 1..Len(lines), NEW j \in (i + 1)..Len(lines)
    PROVE  LET before == SubSeq(lines, 1, i - 1)
               without == before \o SubSeq(lines, j + 1, Len(lines))
           IN  /\ before \in Seq(L) /\ Len(before) = i - 1
               /\ without \in Seq(L) /\ Len(without) = (i - 1) + (Len(lines) - j)
               /\ \A k \in 1..(i - 1) : before[k] = lines[k] /\ without[k] = lines[k]
               /\ \A n \in 1..(Len(lines) - j) : without[(i - 1) + n] = lines[j + n]
<1>. DEFINE before == SubSeq(lines, 1, i - 1)
            after == SubSeq(lines, j + 1, Len(lines))
            without == before \o after
<1>1. before \in Seq(L) /\ Len(before) = i - 1 /\ \A k \in 1..(i - 1) : before[k] = lines[k]
  OBVIOUS
<1>2. /\ after \in Seq(L) /\ Len(after) = Len(lines) - j
      /\ \A n \in 1..(Len(lines) - j) : after[n] = lines[j + n]
  OBVIOUS
<1>. HIDE DEF before, after
<1>3. without \in Seq(L) /\ Len(without) = (i - 1) + (Len(lines) - j)
  <2>1. before \in Seq(L) /\ after \in Seq(L)
    BY <1>1, <1>2
  <2>2. without \in Seq(L) /\ Len(without) = Len(before) + Len(after)
    BY <2>1
  <2>. QED BY <1>1, <1>2, <2>2
<1>4. \A k \in 1..(i - 1) : without[k] = before[k]
  BY <1>1, <1>2
<1>5. ASSUME NEW n \in 1..(Len(lines) - j) PROVE without[(i - 1) + n] = after[n]
  <2>1. /\ (i - 1) + n \in 1..(Len(before) + Len(after)) /\ ~((i - 1) + n <= Len(before))
        /\ ((i - 1) + n) - Len(before) = n
    BY <1>1, <1>2
  <2>. QED BY <1>1, <1>2, <2>1
<1>. QED BY <1>1, <1>2, <1>3, <1>4, <1>5 DEF before, after

(* A scanner is no longer on the first line once it has read one.          *)
LEMMA NotFirst ==
    ASSUME NEW L, NEW lines \in Seq(L), NEW n \in 1..Len(lines)
    PROVE  Scans("scenario", lines)[n].first = FALSE
<1>1. \A k \in 1..Len(lines) : lines[k].id \in {lines[m].id : m \in 1..Len(lines)}
  OBVIOUS
<1>2. n - 1 \in 0..Len(lines)
  OBVIOUS
<1>3. ScenarioKnown(Scans("scenario", lines)[n - 1])
  BY <1>1, <1>2, KnownAlways DEF Known
<1>4. Scans("scenario", lines)[n] = ReadScenarioLine(Scans("scenario", lines)[n - 1], lines[n])
  BY ScanRule DEF ReadAs
<1>5. ScenarioRead(Scans("scenario", lines)[n - 1], lines[n], Scans("scenario", lines)[n])
  BY <1>3, <1>4, ScenarioStep
<1>. QED BY <1>5 DEF ScenarioRead

\* What is before lines i to j of a document, and what is left without them.
Cut(lines, i, j, before, without) ==
    before = SubSeq(lines, 1, i - 1) /\ without = before \o SubSeq(lines, j + 1, Len(lines))

\* Where line i does not stand in a code block.
Outside(what, i, s) == s.fence = "" /\ (what = "scenario" => i > 1 /\ ~s.front)

(* Both scanners end as if a code block were not there.                    *)
LEMMA BlockSkipped ==
    ASSUME NEW L, NEW lines \in Seq(L), NEW what \in {"spec", "scenario"},
           NEW i \in 1..Len(lines), NEW j \in (i + 1)..Len(lines), Block(lines, i, j),
           NEW before, NEW without, Cut(lines, i, j, before, without),
           Outside(what, i, Scans(what, before)[Len(before)])
    PROVE  Alike(what, Scans(what, lines)[Len(lines)], Scans(what, without)[Len(without)])
<1>. DEFINE X == {lines[m].id : m \in 1..Len(lines)}
            N == Len(lines) - j
            p == i - 1
<1>1. /\ before \in Seq(L) /\ Len(before) = p
      /\ without \in Seq(L) /\ Len(without) = p + N
      /\ \A k \in 1..p : before[k] = lines[k] /\ without[k] = lines[k]
      /\ \A n \in 1..N : without[p + n] = lines[j + n]
  BY Without DEF Cut
<1>2. p \in Nat /\ N \in Nat /\ p \in 0..Len(lines) /\ j \in 0..Len(lines) /\ Len(lines) = j + N
  OBVIOUS
<1>3. \A k \in 1..Len(lines) : lines[k].id \in X
  OBVIOUS
<1>4. \A k \in 1..Len(without) : without[k].id \in X
  <2>1. SUFFICES ASSUME NEW k \in 1..Len(without) PROVE without[k].id \in X
    OBVIOUS
  <2>2. CASE k <= p
    <3>1. k \in 1..p /\ k \in 1..Len(lines)
      BY <1>2, <2>2
    <3>. QED BY <1>1, <1>3, <3>1
  <2>3. CASE ~(k <= p)
    <3>1. k - p \in 1..N /\ p + (k - p) = k /\ j + (k - p) \in 1..Len(lines)
      BY <1>1, <1>2, <2>3
    <3>2. without[p + (k - p)] = lines[j + (k - p)]
      BY <1>1, <3>1
    <3>. QED BY <1>3, <3>1, <3>2
  <2>. QED BY <2>2, <2>3
<1>5. PICK t : t = Scans(what, lines)[p]
  OBVIOUS
<1>. HIDE DEF X, N
<1>6. t = Scans(what, before)[p] /\ t = Scans(what, without)[p]
  <2>1. \A k \in 1..p : before[k] = lines[k] /\ lines[k] = before[k] /\ lines[k] = without[k]
    BY <1>1
  <2>2. p <= Len(lines) /\ p <= Len(before) /\ p <= Len(without) /\ p \in 0..p
    BY <1>1, <1>2
  <2>3. \A n \in 0..p : Scans(what, lines)[n] = Scans(what, before)[n]
    BY <1>1, <1>2, <2>1, <2>2, SamePrefix
  <2>4. \A n \in 0..p : Scans(what, lines)[n] = Scans(what, without)[n]
    <3>1. without \in Seq(L) /\ p \in Nat /\ \A k \in 1..p : lines[k] = without[k]
      BY <1>1, <1>2
    <3>2. p <= Len(lines) /\ p <= Len(without)
      BY <2>2
    <3>. HIDE DEF p
    <3>. QED BY <3>1, <3>2, SamePrefix
  <2>. QED BY <1>5, <2>2, <2>3, <2>4
<1>7. Plain(what, t)
  <2>1. Outside(what, i, t)
    BY <1>1, <1>6
  <2>2. ASSUME what = "scenario" PROVE ~t.front /\ ~t.first
    <3>1. ~t.front /\ i > 1
      BY <2>1, <2>2 DEF Outside
    <3>2. p \in 1..Len(lines)
      BY <1>2, <3>1
    <3>3. t.first = FALSE
      BY <1>5, <2>2, <3>2, NotFirst
    <3>. QED BY <3>1, <3>3
  <2>. QED BY <2>1, <2>2 DEF Plain, Outside
<1>8. Alike(what, Scans(what, lines)[j], Scans(what, without)[p])
  BY <1>3, <1>5, <1>6, <1>7, InBlock
<1>9. p \in 0..Len(without) /\ \A n \in 1..N : lines[j + n] = without[p + n]
  BY <1>1, <1>2
<1>. HIDE DEF p
<1>. QED BY <1>1, <1>2, <1>3, <1>4, <1>8, <1>9, SameRest

(* Code blocks do not count (parseRequirements, scenarioReferences).       *)
LEMMA BlocksIgnored ==
    ASSUME NEW L, NEW lines \in Seq(L)
    PROVE  CodeBlocksIgnored(lines)
<1>1. SUFFICES ASSUME NEW i \in DOMAIN lines, NEW j \in (i + 1)..Len(lines),
                      NEW before, NEW without, Cut(lines, i, j, before, without),
                      Block(lines, i, j)
               PROVE  /\ SpecScan(before).fence = "" =>
                          /\ Parses(lines) = Parses(without)
                          /\ Ids(ParseRequirements(lines)) = Ids(ParseRequirements(without))
                      /\ i > 1 /\ ScenarioScan(before).fence = "" /\ ~ScenarioScan(before).front =>
                          ScenarioReferences(lines) = ScenarioReferences(without)
  BY DEF CodeBlocksIgnored, Ids, Cut
<1>2. i \in 1..Len(lines)
  OBVIOUS
<1>3. ASSUME SpecScan(before).fence = ""
      PROVE  /\ Parses(lines) = Parses(without)
             /\ Ids(ParseRequirements(lines)) = Ids(ParseRequirements(without))
  <2>1. Outside("spec", i, Scans("spec", before)[Len(before)])
    BY <1>3 DEF Scans, SpecScan, Outside
  <2>2. Alike("spec", Scans("spec", lines)[Len(lines)], Scans("spec", without)[Len(without)])
    BY <1>1, <1>2, <2>1, BlockSkipped
  <2>. QED BY <2>2 DEF Alike, Scans, Parses, ParseRequirements, SpecScan
<1>4. ASSUME i > 1, ScenarioScan(before).fence = "", ~ScenarioScan(before).front
      PROVE  ScenarioReferences(lines) = ScenarioReferences(without)
  <2>1. Outside("scenario", i, Scans("scenario", before)[Len(before)])
    BY <1>4 DEF Scans, ScenarioScan, Outside
  <2>2. Alike("scenario", Scans("scenario", lines)[Len(lines)],
                          Scans("scenario", without)[Len(without)])
    BY <1>1, <1>2, <2>1, BlockSkipped
  <2>. QED BY <2>2 DEF Alike, Scans, ScenarioReferences, ScenarioScan
<1>. QED BY <1>3, <1>4

-----------------------------------------------------------------------------
(* Citations are where they count.                                         *)

CitedUpTo(lines, s, n) ==
    \A id \in s.cited : \E k \in 1..n :
        lines[k].id = id /\ lines[k].kind = IF InFront(lines, k) THEN "fr" ELSE "covers"

(* Front matter is what stands between a first line "---" and the next.    *)
LEMMA FrontStep ==
    ASSUME NEW lines, NEW n \in Nat
    PROVE  /\ ~InFront(lines, 1)
           /\ n = 0 => (InFront(lines, n + 2) <=> lines[n + 1].kind = "---")
           /\ n > 0 => (InFront(lines, n + 2) <=>
                            InFront(lines, n + 1) /\ lines[n + 1].kind # "---")
BY DEF InFront

(* The scanner of citations knows where it is.                             *)
LEMMA CitationsKnown ==
    ASSUME NEW L, NEW lines \in Seq(L)
    PROVE  \A n \in 0..Len(lines) :
              LET s == Scans("scenario", lines)[n] IN
              /\ ScenarioKnown(s) /\ (s.first <=> n = 0)
              /\ (s.front <=> InFront(lines, n + 1)) /\ CitedUpTo(lines, s, n)
<1>. DEFINE sc(n) == Scans("scenario", lines)[n]
            Good(n) == /\ sc(n).first <=> n = 0
                       /\ sc(n).front <=> InFront(lines, n + 1)
                       /\ CitedUpTo(lines, sc(n), n)
            S == {n \in 0..Len(lines) : Good(n)}
<1>0. Len(lines) \in Nat
  OBVIOUS
<1>1. /\ \A n \in 0..Len(lines) : ScenarioKnown(sc(n))
      /\ sc(0) = ScenarioStart
      /\ \A n \in 1..Len(lines) : sc(n) = ReadScenarioLine(sc(n - 1), lines[n])
  <2>1. \A k \in 1..Len(lines) : lines[k].id \in {lines[m].id : m \in 1..Len(lines)}
    OBVIOUS
  <2>. QED BY <2>1, KnownAlways, ScanRule DEF Known, ReadAs, StartOf
<1>. HIDE DEF sc
<1>2. 0 \in S
  <2>1. sc(0).first = TRUE /\ sc(0).front = FALSE /\ sc(0).cited = {}
    <3>. DEFINE s == sc(0)
    <3>1. s = ScenarioStart
      BY <1>1
    <3>. HIDE DEF s
    <3>2. s.first = TRUE /\ s.front = FALSE /\ s.cited = {}
      BY <3>1 DEF ScenarioStart
    <3>. QED BY <3>2 DEF s
  <2>2. ~InFront(lines, 0 + 1)
    BY DEF InFront
  <2>. QED BY <1>0, <2>1, <2>2 DEF CitedUpTo
<1>3. ASSUME NEW n \in 0..Len(lines), n < Len(lines), n \in S
      PROVE  n + 1 \in S
  <2>1. n + 1 \in 1..Len(lines) /\ n + 1 \in 0..Len(lines) /\ n + 1 - 1 = n /\ n + 1 # 0 /\ n \in Nat
    BY <1>0, <1>3
  <2>2. PICK s, r, line : s = sc(n) /\ r = sc(n + 1) /\ line = lines[n + 1]
    OBVIOUS
  <2>3. ScenarioRead(s, line, r) /\ ScenarioKnown(s)
    BY <1>1, <2>1, <2>2, ScenarioStep
  <2>4. (s.first <=> n = 0) /\ (s.front <=> InFront(lines, n + 1)) /\ CitedUpTo(lines, s, n)
    BY <1>3, <2>2
  <2>5. r.first = FALSE
    BY <2>3 DEF ScenarioRead
  <2>6. r.front <=> InFront(lines, n + 1 + 1)
    <3>1. n + 1 + 1 = n + 2
      BY <2>1
    <3>2. /\ ~InFront(lines, 1)
          /\ n = 0 => (InFront(lines, n + 2) <=> line.kind = "---")
          /\ n > 0 => (InFront(lines, n + 2) <=> InFront(lines, n + 1) /\ line.kind # "---")
      BY <2>1, <2>2, FrontStep
    <3>3. s.first \in BOOLEAN /\ s.front \in BOOLEAN
      BY <2>3 DEF ScenarioKnown
    <3>4. r.front = IF line.kind = "---" /\ (s.first \/ s.front) THEN s.first ELSE s.front
      BY <2>3 DEF ScenarioRead
    <3>5. CASE n = 0
      <4>1. ~s.front /\ s.first /\ n + 1 = 1
        BY <2>4, <3>2, <3>5
      <4>. QED BY <3>1, <3>2, <3>3, <3>4, <3>5, <4>1
    <3>6. CASE n # 0
      <4>1. ~s.first /\ n > 0
        BY <2>1, <2>4, <3>6
      <4>. QED BY <2>4, <3>1, <3>2, <3>3, <3>4, <4>1
    <3>. QED BY <3>5, <3>6
  <2>7. CitedUpTo(lines, r, n + 1)
    <3>1. SUFFICES ASSUME NEW id \in r.cited
                   PROVE  \E k \in 1..(n + 1) :
                              /\ lines[k].id = id
                              /\ lines[k].kind = IF InFront(lines, k) THEN "fr" ELSE "covers"
      BY DEF CitedUpTo
    <3>2. CASE id \in s.cited
      <4>1. PICK k \in 1..n : /\ lines[k].id = id
                              /\ lines[k].kind = IF InFront(lines, k) THEN "fr" ELSE "covers"
        BY <2>4, <3>2 DEF CitedUpTo
      <4>2. k \in 1..(n + 1)
        BY <2>1
      <4>. QED BY <4>1, <4>2
    <3>3. CASE id \notin s.cited
      <4>1. Cites(s, line) /\ id = line.id
        BY <2>3, <3>3 DEF ScenarioRead
      <4>2. line.kind = IF InFront(lines, n + 1) THEN "fr" ELSE "covers"
        BY <2>4, <4>1 DEF Cites
      <4>3. n + 1 \in 1..(n + 1)
        BY <2>1
      <4>. QED BY <2>2, <4>1, <4>2, <4>3
    <3>. QED BY <3>2, <3>3
  <2>8. Good(n + 1)
    BY <2>1, <2>2, <2>5, <2>6, <2>7
  <2>. HIDE DEF Good
  <2>. QED BY <2>1, <2>8
<1>4. \A n \in 0..Len(lines) : n < Len(lines) /\ n \in S => n + 1 \in S
  BY <1>3
<1>5. \A n \in 0..Len(lines) : n \in S
  <2>. HIDE DEF S
  <2>. QED BY <1>0, <1>2, <1>4, UpTo
<1>. QED BY <1>1, <1>5 DEF sc

(* Front matter cites with fr, the rest with Covers.                       *)
LEMMA CitationsPlaced ==
    ASSUME NEW L, NEW lines \in Seq(L)
    PROVE  CitationsInPlace(lines)
<1>1. Len(lines) \in 0..Len(lines) /\ DOMAIN lines = 1..Len(lines)
  OBVIOUS
<1>2. CitedUpTo(lines, Scans("scenario", lines)[Len(lines)], Len(lines))
  BY <1>1, CitationsKnown
<1>. QED BY <1>1, <1>2 DEF CitationsInPlace, CitedUpTo, ScenarioReferences, ScenarioScan, Scans

(* For every document of any length and any kinds of lines: no example in  *)
(* a code block counts, and a citation stands in the field that counts     *)
(* where it is (parseRequirements, scenarioReferences).                    *)
THEOREM ExamplesAreIgnored == QueriesSpec => []ExamplesIgnored
<1>1. AskedInv => ExamplesIgnored
  <2>1. SUFFICES ASSUME AskedInv, asked.topic = "document"
                 PROVE  CodeBlocksIgnored(asked.input) /\ CitationsInPlace(asked.input)
    BY DEF ExamplesIgnored
  <2>2. asked.input \in Documents
    BY <2>1 DEF AskedInv
  <2>3. asked.input \in Seq(ToSet(asked.input))
    BY <2>2, DocumentsAssumption
  <2>. QED BY <2>3, BlocksIgnored, CitationsPlaced
<1>. QED BY <1>1, AskedHolds, PTL
=============================================================================
