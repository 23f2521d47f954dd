----------------------------- MODULE ConfigStore ----------------------------
(***************************************************************************)
(* The pruner configuration store of src/unnamed/part_006 (package helper, *)
(* prunerConfigStore): LoadGlobalConfig, getFromPrunerConfigResourceLevel, *)
(* getResourceFieldData, GetEnforcedConfigLevelFromNamespaceSpec,          *)
(* getEnforcedConfigLevel and the Get* accessors.                         *)
(*                                                                         *)
(* A policy document is a record: the root fields and enforced level, and *)
(* a map from namespace to a namespace spec with its own fields, level    *)
(* and selector lists per resource kind.  A nil *int32 is Unset and an    *)
(* empty EnforcedConfigLevel string is "".  The accessors take ps.mutex   *)
(* exclusively, as LoadGlobalConfig does, so every read sees one loaded   *)
(* document.                                                              *)
(***************************************************************************)
EXTENDS Naturals, Sequences

CONSTANTS
    Fields,      \* the PrunerFieldTypes resolved
    Documents,   \* the documents the start-up load may have read
    ConfigMaps,  \* the ConfigMap contents a reload is given: documents,
                 \* Malformed or NoData
    Namespaces,  \* namespaces a lookup may ask for
    Names,       \* pipeline / task names a lookup may ask for
    Unset,       \* a nil *int32
    Malformed,   \* a global-config value yaml.Unmarshal rejects
    NoData,      \* a ConfigMap with no or an empty global-config key
    FieldValues  \* the *int32 values documents use, Unset included

Kinds == {"pipelinerun", "taskrun"}

Levels == {"global", "namespace", "resource"}

\* An enforcedConfigLevel as read from YAML: one of the levels or empty.
LevelValues == Levels \cup {""}

ASSUME FieldsAssumption ==
    Fields \subseteq {"ttlSecondsAfterFinished", "successfulHistoryLimit",
                      "failedHistoryLimit"}
ASSUME ConfigMapsAssumption == {Malformed, NoData} \cap Documents = {}
ASSUME UnsetAssumption == Unset \notin Nat /\ Unset \in FieldValues

\* The zero PrunerConfig: no fields, no level, an empty Namespaces map.
ZeroConfig ==
    [enforcedConfigLevel |-> "",
     fields |-> [f \in Fields |-> Unset],
     namespaces |-> << >>]

\* A decoded ResourceSpec's Selector (part_006:507-522): name, level, fields.
SelectorSpecs ==
    [name : STRING, enforcedConfigLevel : STRING, fields : [Fields -> FieldValues]]

\* A decoded NamespaceSpec (part_006:525-534).
NamespaceSpecs ==
    [enforcedConfigLevel : STRING, fields : [Fields -> FieldValues],
     pipelineRuns : Seq(SelectorSpecs), taskRuns : Seq(SelectorSpecs)]

(* A parsed global-config document, a PrunerConfig (part_006:540-548): a  *)
(* value, possibly nil, for every field, a map from namespace name to     *)
(* NamespaceSpec, and a root enforcedConfigLevel that is one of the levels *)
(* or empty, which is what the webhook admits at the root                 *)
(* (validatePrunerConfigFields, webhook main.go:171-178).                 *)
IsDocument(d) ==
    d \in [enforcedConfigLevel : LevelValues, fields : [Fields -> FieldValues],
           namespaces : [DOMAIN d.namespaces -> NamespaceSpecs]]

ASSUME DocumentsAssumption ==
    \A d \in Documents \cup (ConfigMaps \ {Malformed, NoData}) : IsDocument(d)

VARIABLES
    globalConfig,      \* ps.globalConfig
    namespacedConfig   \* ps.namespacedConfig: nothing ever adds to it, since
                       \* UpdateNamespacedSpec is commented out

vars == <<globalConfig, namespacedConfig>>

\* The receiver ps of the store's methods.
Store == [globalConfig |-> globalConfig, namespacedConfig |-> namespacedConfig]

TypeOK ==
    /\ globalConfig \in Documents \cup (ConfigMaps \ {Malformed, NoData}) \cup {ZeroConfig}
    /\ namespacedConfig = << >>

-----------------------------------------------------------------------------
(* Lookups shared by the resolvers. *)

\* The switch on fieldType with the failedHistoryLimit case returning the
\* successful limit.
FieldOfSwapped(spec, fieldType) ==
    IF fieldType = "failedHistoryLimit"
    THEN spec.fields["successfulHistoryLimit"] ELSE spec.fields[fieldType]

\* The switch on fieldType over a spec's *int32 fields.
FieldOf(spec, fieldType) == spec.fields[fieldType]

\* The switch on resourceType choosing a namespace spec's selector list.
SelectorsOf(nsSpec, resourceType) ==
    IF resourceType = "pipelinerun" THEN nsSpec.pipelineRuns ELSE nsSpec.taskRuns

\* The loops over resourceSpecs stop at the first selector with the name.
HasSelector(specs, name) == \E i \in 1..Len(specs) : specs[i].name = name

FirstSelector(specs, name) ==
    specs[CHOOSE i \in 1..Len(specs) :
              /\ specs[i].name = name
              /\ \A j \in 1..(i - 1) : specs[j].name # name]

\* a, or b when a is nil: the `if ttl == nil` steps.
OrElse(a, b) == IF a # Unset THEN a ELSE b

-----------------------------------------------------------------------------
(* getFromPrunerConfigResourceLevel: the field of the first selector of   *)
(* the namespace named name; nil when there is none.                      *)
getFromPrunerConfigResourceLevel(namespacesSpec, namespace, name, resourceType, fieldType) ==
    IF namespace \in DOMAIN namespacesSpec
       /\ HasSelector(SelectorsOf(namespacesSpec[namespace], resourceType), name)
    THEN FieldOf(FirstSelector(SelectorsOf(namespacesSpec[namespace], resourceType), name),
                 fieldType)
    ELSE Unset

\* The namespace root level of a namespaces map.
NamespaceRoot(namespacesSpec, namespace, fieldType) ==
    IF namespace \in DOMAIN namespacesSpec
    THEN FieldOf(namespacesSpec[namespace], fieldType) ELSE Unset

\* The global block with the root-level lookup moved before the namespace
\* root.
GlobalChainRootFirst(globalSpec, namespace, name, resourceType, fieldType) ==
    OrElse(getFromPrunerConfigResourceLevel(globalSpec.namespaces, namespace, name,
                                            resourceType, fieldType),
           OrElse(FieldOf(globalSpec, fieldType),
                  NamespaceRoot(globalSpec.namespaces, namespace, fieldType)))

\* The `case EnforcedConfigLevelGlobal` block, reached by every level:
\* global per-namespace selector, then its namespace root, then the root.
GlobalChain(globalSpec, namespace, name, resourceType, fieldType) ==
    OrElse(getFromPrunerConfigResourceLevel(globalSpec.namespaces, namespace, name,
                                            resourceType, fieldType),
           OrElse(NamespaceRoot(globalSpec.namespaces, namespace, fieldType),
                  FieldOf(globalSpec, fieldType)))

(* getResourceFieldData: the switch on the enforced level, whose cases    *)
(* fall through from resource to namespace to global; an unknown level    *)
(* matches no case and yields nil.                                        *)
getResourceFieldData(namespacedSpec, globalSpec, namespace, name, resourceType, fieldType, enforcedConfigLevel) ==
    LET global == GlobalChain(globalSpec, namespace, name, resourceType, fieldType)
        nsRoot == OrElse(NamespaceRoot(namespacedSpec, namespace, fieldType), global)
    IN  CASE enforcedConfigLevel = "resource" ->
               OrElse(getFromPrunerConfigResourceLevel(namespacedSpec, namespace, name,
                                                       resourceType, fieldType),
                      nsRoot)
          [] enforcedConfigLevel = "namespace" -> nsRoot
          [] enforcedConfigLevel = "global" -> global
          [] OTHER -> Unset

(* GetEnforcedConfigLevelFromNamespaceSpec: the level of the first        *)
(* selector with the name, else of the namespace root, else "".  It reads *)
(* ps.globalConfig.Namespaces whatever map it is passed.  The methods     *)
(* take the receiver ps, a record of the store's two fields.             *)
GetEnforcedConfigLevelFromNamespaceSpec(ps, namespacesSpec, namespace, name, resourceType) ==
    IF namespace \notin DOMAIN ps.globalConfig.namespaces THEN ""
    ELSE LET spec  == ps.globalConfig.namespaces[namespace]
             specs == SelectorsOf(spec, resourceType)
         IN  IF HasSelector(specs, name) /\ FirstSelector(specs, name).enforcedConfigLevel # ""
             THEN FirstSelector(specs, name).enforcedConfigLevel
             ELSE spec.enforcedConfigLevel

\* getEnforcedConfigLevel: global namespaces map, global root, namespaced
\* map, then the default "resource".
getEnforcedConfigLevel(ps, namespace, name, resourceType) ==
    LET fromGlobal == GetEnforcedConfigLevelFromNamespaceSpec(ps, ps.globalConfig.namespaces,
                                                              namespace, name, resourceType)
        fromNamespaced == GetEnforcedConfigLevelFromNamespaceSpec(ps, ps.namespacedConfig,
                                                                  namespace, name, resourceType)
    IN  IF fromGlobal # "" THEN fromGlobal
        ELSE IF ps.globalConfig.enforcedConfigLevel # "" THEN ps.globalConfig.enforcedConfigLevel
        ELSE IF fromNamespaced # "" THEN fromNamespaced
        ELSE "resource"

\* The six Get{Pipeline,Task}{TTLSecondsAfterFinished,...} accessors.
GetField(ps, namespace, name, resourceType, fieldType) ==
    getResourceFieldData(ps.namespacedConfig, ps.globalConfig, namespace, name, resourceType,
                         fieldType, getEnforcedConfigLevel(ps, namespace, name, resourceType))

-----------------------------------------------------------------------------
(* LoadGlobalConfig(configMap): a document that does not parse returns    *)
(* the error and keeps the old configuration; an absent or empty key      *)
(* loads the zero config; otherwise the parsed document is swapped in.    *)
(* No value is validated here.                                            *)
LoadGlobalConfig(configMap) ==
    /\ configMap # Malformed
    /\ globalConfig' = IF configMap = NoData THEN ZeroConfig ELSE configMap
    /\ UNCHANGED namespacedConfig

(* DeleteNamespacedSpec: drop a namespace's entry from namespacedConfig, *)
(* under the store lock.                                                  *)
DeleteNamespacedSpec(namespace) ==
    /\ namespacedConfig' = [ns \in DOMAIN namespacedConfig \ {namespace} |-> namespacedConfig[ns]]
    /\ UNCHANGED globalConfig

\* Start-up has loaded some document; reloads follow ConfigMap updates.
Init ==
    /\ globalConfig \in Documents \cup {ZeroConfig}
    /\ namespacedConfig = << >>

Next ==
    \/ \E cm \in ConfigMaps : LoadGlobalConfig(cm)
    \/ \E namespace \in Namespaces : DeleteNamespacedSpec(namespace)

Spec == Init /\ [][Next]_vars

-----------------------------------------------------------------------------
(* Properties *)

\* A lookup: namespace, name, kind and field.
Queries == Namespaces \X Names \X Kinds \X Fields

\* The document with one field cleared at every layer.
WithoutField(doc, f) ==
    [doc EXCEPT
       !.fields[f] = Unset,
       !.namespaces = [ns \in DOMAIN doc.namespaces |->
          LET spec == doc.namespaces[ns]
              clear(specs) == [i \in 1..Len(specs) |->
                                 [specs[i] EXCEPT !.fields[f] = Unset]]
          IN  [spec EXCEPT !.fields[f] = Unset,
                           !.pipelineRuns = clear(spec.pipelineRuns),
                           !.taskRuns = clear(spec.taskRuns)]]]

(* Spec 3: the policy fields are independent: what the accessors return  *)
(* for one field does not depend on any layer's value of another field   *)
(* (getResourceFieldData's field switches, part_006:632-709).            *)
FieldsResolveIndependently ==
    \A q \in Queries, g \in Fields :
        g # q[4] =>
            GetField(Store, q[1], q[2], q[3], q[4]) =
            GetField([Store EXCEPT !.globalConfig = WithoutField(globalConfig, g)],
                     q[1], q[2], q[3], q[4])

\* The document with its root field and root level replaced.
WithRoot(doc, f, v, level) ==
    [doc EXCEPT !.fields[f] = v, !.enforcedConfigLevel = level]

(* Spec 8: changing a lower-precedence layer while a higher one sets the *)
(* field is a no-op: when the namespace's entry in the global policy     *)
(* sets the field at its root, no global root value or enforcement level *)
(* changes what the accessors return (getEnforcedConfigLevel and the     *)
(* fallthrough chain of getResourceFieldData, part_006:650-711, 753-776).*)
RootShadowedByNamespace ==
    \A q \in Queries, v \in FieldValues, level \in LevelValues :
        NamespaceRoot(globalConfig.namespaces, q[1], q[4]) # Unset =>
            GetField(Store, q[1], q[2], q[3], q[4]) =
            GetField([Store EXCEPT !.globalConfig = WithRoot(globalConfig, q[4], v, level)],
                     q[1], q[2], q[3], q[4])

\* The document with every selector list emptied.
WithoutSelectors(doc) ==
    [doc EXCEPT !.namespaces = [ns \in DOMAIN doc.namespaces |->
        [doc.namespaces[ns] EXCEPT !.pipelineRuns = << >>, !.taskRuns = << >>]]]

(* Spec 4.1: at the namespace enforcement level resolution skips the     *)
(* resource selectors entirely (getResourceFieldData's                   *)
(* EnforcedConfigLevelNamespace case, part_006:657-711).                 *)
NamespaceLevelIgnoresSelectors ==
    \A q \in Queries :
        getResourceFieldData(namespacedConfig, globalConfig, q[1], q[2], q[3], q[4], "namespace") =
        getResourceFieldData(namespacedConfig, WithoutSelectors(globalConfig),
                             q[1], q[2], q[3], q[4], "namespace")

=============================================================================
