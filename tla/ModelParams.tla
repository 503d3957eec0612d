------------------------------ MODULE ModelParams -----------------------------
(***************************************************************************)
(* The parameters of a model call: the registry of internal/preset and     *)
(* Merge of internal/provider.  Parameters are a function from the fields  *)
(* that are set to their values; a preset name stands for all its          *)
(* spellings, and the entries are those of the selector's provider.        *)
(***************************************************************************)
EXTENDS Naturals, Sequences, SequencesExt

Unset == <<>>

(* Every value that is set in override is applied on top.                  *)
Merge(params, override) ==
    [f \in DOMAIN params \cup DOMAIN override |->
        IF f \in DOMAIN override THEN override[f] ELSE params[f]]

BuiltinDefaults(provider) ==
    IF provider \in {"ollama", "lmstudio"} THEN [temperature |-> "low", top_p |-> "high"]
    ELSE [temperature |-> "low"]

(* validateParams: "wild" stands for a value out of the range of its field. *)
Valid(params) == \A f \in DOMAIN params : params[f] # "wild"

(* NewRegistry: no entry twice, and all its values in range.               *)
NewRegistry(entries) ==
    /\ \A i \in DOMAIN entries :
        /\ Valid(entries[i].defaults)
        /\ \A name \in DOMAIN entries[i].presets : Valid(entries[i].presets[name])
    /\ \A i \in DOMAIN entries : \A j \in DOMAIN entries :
        entries[i].model = entries[j].model => i = j

Registered(entries, model) == \E i \in DOMAIN entries : entries[i].model = model
EntryOf(entries, model) == entries[CHOOSE i \in DOMAIN entries : entries[i].model = model]
DefaultsOf(entries, model) ==
    IF Registered(entries, model) THEN EntryOf(entries, model).defaults ELSE Unset

HasPreset(entries, model, name) ==
    Registered(entries, model) /\ name \in DOMAIN EntryOf(entries, model).presets

(* A selector may name no preset; one that is nowhere is an error.         *)
Resolvable(entries, selector) ==
    selector.preset # "none" => \E model \in {selector.model, "*"} :
                                    HasPreset(entries, model, selector.preset)

(* lookupPreset: the model's own preset hides that of the provider.        *)
LookupPreset(entries, selector) ==
    LET model == IF HasPreset(entries, selector.model, selector.preset)
                 THEN selector.model ELSE "*"
    IN  EntryOf(entries, model).presets[selector.preset]

Preset(entries, selector) ==
    IF selector.preset = "none" THEN Unset ELSE LookupPreset(entries, selector)

(* Mutant: the defaults are merged after the preset.                       *)
ResolveParamsDefaultsLast(entries, selector, overrides) ==
    Merge(Merge(Merge(Merge(BuiltinDefaults(selector.provider), DefaultsOf(entries, "*")),
                      Preset(entries, selector)),
                DefaultsOf(entries, selector.model)), overrides)

ResolveParams(entries, selector, overrides) ==
    Merge(Merge(Merge(Merge(BuiltinDefaults(selector.provider), DefaultsOf(entries, "*")),
                      DefaultsOf(entries, selector.model)),
                Preset(entries, selector)), overrides)

-----------------------------------------------------------------------------
(* "Later sources win: built-in provider defaults, the provider's wildcard *)
(* entry defaults, the model entry defaults, the named preset, then the    *)
(* caller's overrides" (preset.go:155), field by field, and a preset of    *)
(* the model is not mixed with the one of that name of the provider.       *)
LaterSourcesWin(entries, selector, overrides) ==
    LET at(model) == {e \in ToSet(entries) : e.model = model}
        defaults(model) == {e.defaults : e \in at(model)}
        presets(model) ==
            {e.presets[selector.preset] :
                e \in {x \in at(model) : selector.preset \in DOMAIN x.presets}}
        named == IF selector.preset = "none" THEN {}
                 ELSE IF presets(selector.model) # {} THEN presets(selector.model)
                 ELSE presets("*")
        sources == <<{BuiltinDefaults(selector.provider)}, defaults("*"),
                     defaults(selector.model), named, {overrides}>>
        params == ResolveParams(entries, selector, overrides)
        sets(i, f) == {p \in sources[i] : f \in DOMAIN p}
    IN  /\ \A i \in 1..5 : \A p \in sources[i] : DOMAIN p \subseteq DOMAIN params
        /\ \A f \in DOMAIN params : \E i \in 1..5 :
            /\ \E p \in sets(i, f) : params[f] = p[f]
            /\ \A j \in (i + 1)..5 : sets(j, f) = {}

(* "Parameter bounds enforced at load time" (validate.go:9): with a        *)
(* registry that loads, only the caller's overrides, which nobody checks,  *)
(* can bring a value out of range.                                         *)
OnlyOverridesWild(entries, selector, overrides) ==
    LET params == ResolveParams(entries, selector, overrides) IN
    \A f \in DOMAIN params : params[f] = "wild" => f \in DOMAIN overrides
=============================================================================
