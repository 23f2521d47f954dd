-------------------------- MODULE ConfigValidation --------------------------
(***************************************************************************)
(* The admission webhook of src/cmd/webhook/main.go: validateConfigMap-   *)
(* Admission, validatePrunerConfigMap, validatePrunerConfigFields,        *)
(* validateNamespaceSpec and validateResourceSpec, deciding which writes  *)
(* of ConfigMaps the API server keeps.                                    *)
(*                                                                         *)
(* The webhook decodes into config.PrunerConfig, whose enforcedConfigLevel *)
(* is a *string at every layer and whose resource specs carry the fields  *)
(* directly.  A level is NoLevel (nil) or a string, possibly none of the  *)
(* three levels; a field is Unset (nil) or an integer.  Selector names,   *)
(* namespace names and error wording do not affect the decision and are  *)
(* left out.  failurePolicy is Fail, so a write is kept only when the     *)
(* webhook allows it.                                                     *)
(***************************************************************************)
EXTENDS Integers, Sequences

CONSTANTS
    Fields,        \* the numeric fields validated
    Contents,      \* global-config documents a write may carry
    Requests,      \* the writes tried: target ConfigMap and its content
    NoLevel,       \* a nil enforcedConfigLevel
    Unset,         \* a nil numeric field
    NoData,        \* a ConfigMap with no Data or no/empty global-config
    Malformed,     \* a global-config value yaml.Unmarshal rejects
    Undecodable,   \* a request body or object json.Unmarshal rejects
    PrunerConfig,  \* tekton-pipelines/tekton-pruner-default-spec
    OtherConfig,   \* any other ConfigMap
    Absent         \* the ConfigMap does not exist yet

ASSUME FieldsAssumption ==
    Fields \subseteq {"ttlSecondsAfterFinished", "successfulHistoryLimit",
                      "failedHistoryLimit", "historyLimit"}
ASSUME ValuesAssumption == Unset \notin Int /\ NoLevel \notin STRING

Targets == {PrunerConfig, OtherConfig}

Levels == {"global", "namespace", "resource"}

ASSUME RequestsAssumption ==
    Requests \subseteq Targets \X (Contents \cup {NoData, Malformed, Undecodable})

ASSUME TargetsAssumption == PrunerConfig # OtherConfig

\* A stored document is never confused with a missing or unparsable one.
ASSUME MarkersAssumption == {Absent, NoData, Malformed, Undecodable} \cap Contents = {}

\* The entries of a list.
Range(s) == {s[i] : i \in DOMAIN s}

\* A decoded YAML list is a finite sequence of its entries.
IsList(s) == s \in Seq(Range(s))

\* Every document's selector lists are lists.
ASSUME ContentsAssumption ==
    \A c \in Contents : \A ns \in DOMAIN c.namespaces :
        IsList(c.namespaces[ns].pipelineRuns) /\ IsList(c.namespaces[ns].taskRuns)

VARIABLES
    configMaps   \* what the API server stores for each ConfigMap

vars == <<configMaps>>

TypeOK ==
    configMaps \in [Targets -> Contents \cup {NoData, Malformed, Absent}]

Init == configMaps = [t \in Targets |-> Absent]

-----------------------------------------------------------------------------
\* The `x != nil && *x < 0` checks, one per numeric field of a layer.
NonNegative(spec) == \A f \in Fields : spec.fields[f] # Unset => spec.fields[f] >= 0

\* The switch on *EnforcedConfigLevel: nil, or one of the three levels.
LevelAccepted(level) == level = NoLevel \/ level \in Levels

\* validateResourceSpec: its fields, then its level.
validateResourceSpec(resourceSpec) ==
    NonNegative(resourceSpec) /\ LevelAccepted(resourceSpec.enforcedConfigLevel)

\* validateNamespaceSpec with the loop over TaskRuns left out.
validateNamespaceSpecPipelineRunsOnly(nsSpec) ==
    /\ NonNegative(nsSpec)
    /\ \A i \in 1..Len(nsSpec.pipelineRuns) : validateResourceSpec(nsSpec.pipelineRuns[i])

(* validateNamespaceSpec: the namespace's fields and every pipelineRuns    *)
(* and taskRuns entry.  nsSpec.EnforcedConfigLevel is not checked.        *)
validateNamespaceSpec(nsSpec) ==
    /\ NonNegative(nsSpec)
    /\ \A i \in 1..Len(nsSpec.pipelineRuns) : validateResourceSpec(nsSpec.pipelineRuns[i])
    /\ \A i \in 1..Len(nsSpec.taskRuns) : validateResourceSpec(nsSpec.taskRuns[i])

\* validatePrunerConfigFields: the root level and fields, then each namespace.
validatePrunerConfigFields(cfg) ==
    /\ LevelAccepted(cfg.enforcedConfigLevel)
    /\ NonNegative(cfg)
    /\ \A ns \in DOMAIN cfg.namespaces : validateNamespaceSpec(cfg.namespaces[ns])

\* validatePrunerConfigMap: data and key present, YAML parses, fields valid.
validatePrunerConfigMap(cm) ==
    /\ cm \notin {NoData, Malformed}
    /\ validatePrunerConfigFields(cm)

(* validateConfigMapAdmission: an object that does not decode is denied; *)
(* any ConfigMap but the pruner's is allowed as it is; the pruner's must  *)
(* validate.  Allowed writes are stored, denied ones leave the stored     *)
(* object as it was.                                                      *)
validateConfigMapAdmission(target, cm) ==
    /\ cm # Undecodable
    /\ target = PrunerConfig => validatePrunerConfigMap(cm)
    /\ configMaps' = [configMaps EXCEPT ![target] = cm]

(* validateConfigMap, the HTTP handler: an AdmissionReview that does not *)
(* decode gets a response without Allowed, a denial; otherwise the         *)
(* request goes to validateConfigMapAdmission.                            *)
Next == \E req \in Requests : validateConfigMapAdmission(req[1], req[2])

Spec == Init /\ [][Next]_vars

-----------------------------------------------------------------------------
(* Properties *)

\* Every layer of a document: the root, each namespace, each selector.
Layers(cfg) ==
    {cfg}
    \cup {cfg.namespaces[ns] : ns \in DOMAIN cfg.namespaces}
    \cup UNION {Range(cfg.namespaces[ns].pipelineRuns) \cup Range(cfg.namespaces[ns].taskRuns) :
                ns \in DOMAIN cfg.namespaces}

\* The pruner ConfigMap as stored holds a document.
PrunerDocument == configMaps[PrunerConfig] \in Contents

(* Spec 4.1 and 8: negative values are rejected at validation: whatever   *)
(* sequence of writes the API server admits, the pruner's stored policy   *)
(* has no negative field at any layer (validatePrunerConfigFields,        *)
(* validateNamespaceSpec, validateResourceSpec, main.go:169-270).         *)
AdmittedLimitsNonNegative ==
    PrunerDocument =>
        \A l \in Layers(configMaps[PrunerConfig]), f \in Fields :
            l.fields[f] # Unset => l.fields[f] >= 0

(* Spec 2: enforcedConfigLevel is one of global, namespace or resource at *)
(* every layer of an admitted policy (main.go:171-178, 207-239, 259-267). *)
AdmittedLevelsValid ==
    PrunerDocument =>
        \A l \in Layers(configMaps[PrunerConfig]) :
            l.enforcedConfigLevel \in Levels \cup {NoLevel}

=============================================================================
