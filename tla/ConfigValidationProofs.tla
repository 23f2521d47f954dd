----------------------- MODULE ConfigValidationProofs -----------------------
(***************************************************************************)
(* Proof that the admission webhook keeps negative limits out of the      *)
(* stored pruner policy, for every set of documents and writes.           *)
(***************************************************************************)
EXTENDS ConfigValidation, TLAPS

USE RequestsAssumption, TargetsAssumption, MarkersAssumption, ContentsAssumption

\* No numeric field of a layer is negative.
LayerNonNegative(l) == \A f \in Fields : l.fields[f] # Unset => l.fields[f] >= 0

(* Every entry of a list validated by the `for _, spec := range` loops of *)
(* validateNamespaceSpec has non-negative fields.                         *)
LEMMA ValidatedListEntries ==
    ASSUME NEW s, IsList(s),
           \A i \in 1..Len(s) : validateResourceSpec(s[i]),
           NEW l \in Range(s)
    PROVE  LayerNonNegative(l)
<1>1. PICK i \in DOMAIN s : l = s[i]
  BY DEF Range
<1>2. i \in 1..Len(s)
  BY <1>1 DEF IsList
<1>. QED BY <1>1, <1>2 DEF validateResourceSpec, NonNegative, LayerNonNegative

(* A document validatePrunerConfigFields accepts has no negative field at *)
(* any of its layers.                                                     *)
LEMMA ValidatedLayers ==
    ASSUME NEW cfg \in Contents, validatePrunerConfigFields(cfg),
           NEW l \in Layers(cfg)
    PROVE  LayerNonNegative(l)
<1>1. CASE l = cfg
  BY <1>1 DEF validatePrunerConfigFields, NonNegative, LayerNonNegative
<1>2. CASE \E ns \in DOMAIN cfg.namespaces : l = cfg.namespaces[ns]
  BY <1>2 DEF validatePrunerConfigFields, validateNamespaceSpec, NonNegative, LayerNonNegative
<1>3. CASE \E ns \in DOMAIN cfg.namespaces :
              l \in Range(cfg.namespaces[ns].pipelineRuns) \cup Range(cfg.namespaces[ns].taskRuns)
  <2>1. PICK ns \in DOMAIN cfg.namespaces :
            l \in Range(cfg.namespaces[ns].pipelineRuns) \cup Range(cfg.namespaces[ns].taskRuns)
    BY <1>3
  <2>2. validateNamespaceSpec(cfg.namespaces[ns])
    BY <2>1 DEF validatePrunerConfigFields
  <2>3. IsList(cfg.namespaces[ns].pipelineRuns) /\ IsList(cfg.namespaces[ns].taskRuns)
    BY <2>1, ContentsAssumption
  <2>4. CASE l \in Range(cfg.namespaces[ns].pipelineRuns)
    BY <2>2, <2>3, <2>4, ValidatedListEntries DEF validateNamespaceSpec
  <2>5. CASE l \in Range(cfg.namespaces[ns].taskRuns)
    BY <2>2, <2>3, <2>5, ValidatedListEntries DEF validateNamespaceSpec
  <2>. QED BY <2>1, <2>4, <2>5
<1>. QED BY <1>1, <1>2, <1>3 DEF Layers

\* The inductive invariant: the property, and the stored ConfigMaps typed.
AdmissionInv == TypeOK /\ AdmittedLimitsNonNegative

LEMMA InitAdmissionInv == Init => AdmissionInv
BY DEF Init, AdmissionInv, TypeOK, AdmittedLimitsNonNegative, PrunerDocument, Targets

LEMMA NextAdmissionInv == AdmissionInv /\ [Next]_vars => AdmissionInv'
<1> SUFFICES ASSUME TypeOK, AdmittedLimitsNonNegative, [Next]_vars
             PROVE  AdmissionInv'
  BY DEF AdmissionInv
<1>1. ASSUME NEW req \in Requests, validateConfigMapAdmission(req[1], req[2])
      PROVE  AdmissionInv'
  <2> DEFINE target == req[1]
             cm == req[2]
  <2>1. target \in Targets /\ cm \in Contents \cup {NoData, Malformed} /\ cm # Undecodable
    BY <1>1, RequestsAssumption DEF validateConfigMapAdmission
  <2>2. TypeOK'
    BY <1>1, <2>1 DEF validateConfigMapAdmission, TypeOK
  <2>3. CASE target = PrunerConfig
    <3>1. cm \in Contents /\ validatePrunerConfigFields(cm)
      BY <1>1, <2>1, <2>3 DEF validateConfigMapAdmission, validatePrunerConfigMap
    <3>2. configMaps'[PrunerConfig] = cm
      BY <1>1, <2>3 DEF validateConfigMapAdmission, TypeOK, Targets
    <3>3. \A l \in Layers(cm) : LayerNonNegative(l)
      BY <3>1, ValidatedLayers
    <3>. QED BY <2>2, <3>2, <3>3 DEF AdmissionInv, AdmittedLimitsNonNegative, LayerNonNegative
  <2>4. CASE target = OtherConfig
    <3>1. configMaps'[PrunerConfig] = configMaps[PrunerConfig]
      BY <1>1, <2>4 DEF validateConfigMapAdmission, TypeOK, Targets
    <3>. QED BY <2>2, <3>1 DEF AdmissionInv, AdmittedLimitsNonNegative, PrunerDocument
  <2>. QED BY <2>1, <2>3, <2>4 DEF Targets
<1>2. CASE UNCHANGED vars
  BY <1>2 DEF AdmissionInv, TypeOK, AdmittedLimitsNonNegative, PrunerDocument, vars
<1>. QED BY <1>1, <1>2 DEF Next

(* Negative limits never reach the pruner: whatever writes the API server *)
(* admits through validateConfigMapAdmission (main.go:117-143), the       *)
(* stored tekton-pruner-default-spec has no negative field at its root,   *)
(* in any namespace, or in any selector of a namespace.                   *)
THEOREM AdmittedLimitsNonNegativeHolds == Spec => []AdmittedLimitsNonNegative
<1>1. Init => AdmissionInv
  BY InitAdmissionInv
<1>2. AdmissionInv /\ [Next]_vars => AdmissionInv'
  BY NextAdmissionInv
<1>3. AdmissionInv => AdmittedLimitsNonNegative
  BY DEF AdmissionInv
<1>. QED BY <1>1, <1>2, <1>3, PTL DEF Spec

=============================================================================
