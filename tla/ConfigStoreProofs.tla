-------------------------- MODULE ConfigStoreProofs --------------------------
(***************************************************************************)
(* Proof that the config store's lookups never fall through to the root   *)
(* of the global policy when the namespace's entry sets the field, for    *)
(* every document the store can hold.                                     *)
(***************************************************************************)
EXTENDS ConfigStore, WellFoundedInduction, TLAPS

USE FieldsAssumption, ConfigMapsAssumption, UnsetAssumption, DocumentsAssumption

LEMMA InitTypeOK == Init => TypeOK
BY DEF Init, TypeOK

LEMMA NextTypeOK == TypeOK /\ [Next]_vars => TypeOK'
BY DEF TypeOK, Next, LoadGlobalConfig, DeleteNamespacedSpec, vars

\* Every document the store can hold has the shape of a parsed one.
LEMMA StoredIsDocument == TypeOK => IsDocument(globalConfig)
<1>1. IsDocument(ZeroConfig)
  <2>1. << >> \in [DOMAIN << >> -> NamespaceSpecs]
    OBVIOUS
  <2>2. ZeroConfig.fields \in [Fields -> FieldValues]
    BY DEF ZeroConfig
  <2>. QED BY <2>1, <2>2 DEF IsDocument, ZeroConfig, LevelValues
<1>. QED BY <1>1 DEF TypeOK

(* With the namespaced map empty, as it always is, each case of the       *)
(* fallthrough switch of getResourceFieldData reaches the global chain    *)
(* unchanged, and a level outside the three yields nil.                   *)
LEMMA FieldDataAtLevel ==
    ASSUME NEW G, NEW ns, NEW nm, NEW rt, NEW f, NEW L
    PROVE  getResourceFieldData(<< >>, G, ns, nm, rt, f, L) =
           IF L \in Levels THEN GlobalChain(G, ns, nm, rt, f) ELSE Unset
BY DEF getResourceFieldData, getFromPrunerConfigResourceLevel, NamespaceRoot, OrElse, Levels

(* The global chain stops at the namespace root when it is set, so the    *)
(* global root does not matter.                                           *)
LEMMA ChainShadowed ==
    ASSUME NEW G, NEW G2, NEW ns, NEW nm, NEW rt, NEW f,
           G2.namespaces = G.namespaces,
           NamespaceRoot(G.namespaces, ns, f) # Unset
    PROVE  GlobalChain(G, ns, nm, rt, f) = GlobalChain(G2, ns, nm, rt, f)
BY DEF GlobalChain, OrElse

(* GetEnforcedConfigLevelFromNamespaceSpec reads the receiver's global    *)
(* namespaces map whatever map it is passed, so the namespaced lookup of  *)
(* getEnforcedConfigLevel repeats the global one.                         *)
LEMMA EnforcedLevel ==
    ASSUME NEW ps, NEW ns, NEW nm, NEW rt
    PROVE  LET fg == GetEnforcedConfigLevelFromNamespaceSpec(ps, ps.globalConfig.namespaces,
                                                             ns, nm, rt)
           IN  getEnforcedConfigLevel(ps, ns, nm, rt) =
                   IF fg # "" THEN fg
                   ELSE IF ps.globalConfig.enforcedConfigLevel # ""
                        THEN ps.globalConfig.enforcedConfigLevel ELSE "resource"
<1>1. GetEnforcedConfigLevelFromNamespaceSpec(ps, ps.namespacedConfig, ns, nm, rt) =
      GetEnforcedConfigLevelFromNamespaceSpec(ps, ps.globalConfig.namespaces, ns, nm, rt)
  BY DEF GetEnforcedConfigLevelFromNamespaceSpec
<1>. QED BY <1>1 DEF getEnforcedConfigLevel

(* One lookup of RootShadowedByNamespace, in a state the store can be in. *)
LEMMA ShadowedLookup ==
    ASSUME TypeOK, NEW q \in Queries, NEW v \in FieldValues, NEW level \in LevelValues,
           NamespaceRoot(globalConfig.namespaces, q[1], q[4]) # Unset
    PROVE  GetField(Store, q[1], q[2], q[3], q[4]) =
           GetField([Store EXCEPT !.globalConfig = WithRoot(globalConfig, q[4], v, level)],
                    q[1], q[2], q[3], q[4])
<1> DEFINE G   == globalConfig
           G2  == WithRoot(G, q[4], v, level)
           ps2 == [Store EXCEPT !.globalConfig = G2]
           fg(ps) == GetEnforcedConfigLevelFromNamespaceSpec(ps, ps.globalConfig.namespaces,
                                                             q[1], q[2], q[3])
           chain == GlobalChain(G, q[1], q[2], q[3], q[4])
<1>1. IsDocument(G)
  BY StoredIsDocument
<1>2. G2.namespaces = G.namespaces /\ G2.enforcedConfigLevel = level
  BY <1>1 DEF IsDocument, WithRoot
<1>3. /\ Store.globalConfig = G /\ Store.namespacedConfig = << >>
      /\ ps2.globalConfig = G2 /\ ps2.namespacedConfig = << >>
  BY DEF Store, TypeOK
<1>4. fg(Store) = fg(ps2)
  BY <1>2, <1>3 DEF GetEnforcedConfigLevelFromNamespaceSpec
<1>5. GlobalChain(G2, q[1], q[2], q[3], q[4]) = chain
  BY <1>2, ChainShadowed
<1>6. /\ GetField(Store, q[1], q[2], q[3], q[4]) =
           IF getEnforcedConfigLevel(Store, q[1], q[2], q[3]) \in Levels THEN chain ELSE Unset
      /\ GetField(ps2, q[1], q[2], q[3], q[4]) =
           IF getEnforcedConfigLevel(ps2, q[1], q[2], q[3]) \in Levels THEN chain ELSE Unset
  BY <1>3, <1>5, FieldDataAtLevel DEF GetField
<1>7. CASE fg(Store) # ""
  <2>1. getEnforcedConfigLevel(Store, q[1], q[2], q[3]) = fg(Store)
        /\ getEnforcedConfigLevel(ps2, q[1], q[2], q[3]) = fg(Store)
    BY <1>4, <1>7, EnforcedLevel
  <2>. QED BY <1>6, <2>1
<1>8. CASE fg(Store) = ""
  <2>1. G.enforcedConfigLevel \in LevelValues
    BY <1>1 DEF IsDocument
  <2>2. getEnforcedConfigLevel(Store, q[1], q[2], q[3]) \in Levels
    BY <1>3, <1>8, <2>1, EnforcedLevel DEF LevelValues, Levels
  <2>3. getEnforcedConfigLevel(ps2, q[1], q[2], q[3]) \in Levels
    BY <1>2, <1>3, <1>4, <1>8, EnforcedLevel DEF LevelValues, Levels
  <2>. QED BY <1>6, <2>2, <2>3
<1>. QED BY <1>7, <1>8

(* A namespace's own value wins over the global default: in every state  *)
(* LoadGlobalConfig can leave the store in, when the namespace's entry of *)
(* the global policy sets a field at its root, no change of the policy's  *)
(* root value or root enforcement level changes what GetField returns for *)
(* that namespace (getEnforcedConfigLevel and getResourceFieldData,       *)
(* part_006:650-711, 753-776).                                            *)
THEOREM RootShadowedByNamespaceHolds == Spec => []RootShadowedByNamespace
<1>1. TypeOK => RootShadowedByNamespace
  BY ShadowedLookup DEF RootShadowedByNamespace
<1>. QED BY <1>1, InitTypeOK, NextTypeOK, PTL DEF Spec

-----------------------------------------------------------------------------
(* FieldsResolveIndependently.  The loops over selector lists stop at the *)
(* first selector with the name; these lemmas show that index exists and  *)
(* depends on the names alone.                                            *)

\* i is the index where `for _, spec := range specs` first matches name.
IsFirstIndex(specs, name, i) ==
    specs[i].name = name /\ \A j \in 1..(i - 1) : specs[j].name # name

\* The less-than relation on Nat, as a set of pairs.
NatLess == OpToRel(<, Nat)

(* A name that some selector carries has a first occurrence: the least    *)
(* element of the matching indices, by the well-foundedness of < on Nat.  *)
LEMMA FirstIndexExists ==
    ASSUME NEW specs, NEW name, Len(specs) \in Nat, HasSelector(specs, name)
    PROVE  \E i \in 1..Len(specs) : IsFirstIndex(specs, name, i)
<1> DEFINE T == {i \in 1..Len(specs) : specs[i].name = name}
<1>1. T \subseteq Nat /\ T # {}
  BY DEF HasSelector
<1>2. PICK x \in T : \A y \in T : ~(<<y, x>> \in NatLess)
  BY <1>1, NatLessThanWellFounded, WFMin DEF NatLess
<1>3. \A a, b \in Nat : a < b => <<a, b>> \in NatLess
  BY Zenon DEF NatLess, OpToRel
<1>4. ASSUME NEW j \in 1..(x - 1), specs[j].name = name PROVE FALSE
  <2>1. j \in T /\ x \in Nat /\ j \in Nat /\ j < x
    BY <1>4
  <2>2. <<j, x>> \in NatLess
    BY <2>1, <1>3
  <2>. QED BY <2>1, <2>2, <1>2
<1>. QED BY <1>4 DEF IsFirstIndex

\* FirstSelector returns the selector at the first matching index.
LEMMA FirstSelectorAt ==
    ASSUME NEW specs, NEW name, Len(specs) \in Nat, HasSelector(specs, name)
    PROVE  \E i \in 1..Len(specs) : IsFirstIndex(specs, name, i)
                                    /\ FirstSelector(specs, name) = specs[i]
BY FirstIndexExists DEF FirstSelector, IsFirstIndex

(* Two lists with the same names match a name at the same place.          *)
LEMMA SameFirstSelector ==
    ASSUME NEW s, NEW s2, NEW name, Len(s) \in Nat, Len(s2) = Len(s),
           \A i \in 1..Len(s) : s2[i].name = s[i].name
    PROVE  /\ HasSelector(s2, name) = HasSelector(s, name)
           /\ HasSelector(s, name) =>
                 \E i \in 1..Len(s) : /\ FirstSelector(s, name) = s[i]
                                      /\ FirstSelector(s2, name) = s2[i]
<1>1. HasSelector(s2, name) = HasSelector(s, name)
  BY DEF HasSelector
<1>2. ASSUME HasSelector(s, name)
      PROVE  \E i \in 1..Len(s) : /\ FirstSelector(s, name) = s[i]
                                  /\ FirstSelector(s2, name) = s2[i]
  <2>1. PICK i \in 1..Len(s) : IsFirstIndex(s, name, i) /\ FirstSelector(s, name) = s[i]
    BY <1>2, FirstSelectorAt
  <2>2. PICK i2 \in 1..Len(s) : IsFirstIndex(s2, name, i2) /\ FirstSelector(s2, name) = s2[i2]
    BY <1>1, <1>2, FirstSelectorAt
  <2>3. i = i2
    BY <2>1, <2>2 DEF IsFirstIndex
  <2>. QED BY <2>1, <2>2, <2>3
<1>. QED BY <1>1, <1>2

(* Clearing field g in a selector list keeps its length, every name and  *)
(* level, and every other field.                                          *)
LEMMA ClearSelectors ==
    ASSUME NEW l \in Seq(SelectorSpecs), NEW g \in Fields, NEW f \in Fields, f # g
    PROVE  LET l2 == [i \in 1..Len(l) |-> [l[i] EXCEPT !.fields[g] = Unset]]
           IN  /\ Len(l) \in Nat /\ Len(l2) = Len(l)
               /\ \A i \in 1..Len(l) :
                     /\ l2[i].name = l[i].name
                     /\ l2[i].enforcedConfigLevel = l[i].enforcedConfigLevel
                     /\ FieldOf(l2[i], f) = FieldOf(l[i], f)
<1>1. \A i \in 1..Len(l) : l[i] \in SelectorSpecs
  OBVIOUS
<1>. QED BY <1>1 DEF SelectorSpecs, FieldOf

\* A selector list with field g cleared in every entry, as WithoutField does.
Cleared(l, g) == [i \in 1..Len(l) |-> [l[i] EXCEPT !.fields[g] = Unset]]

\* Two selector lists agree on length, names, levels and field f.
ListKeeps(l, l2, f) ==
    /\ Len(l) \in Nat /\ Len(l2) = Len(l)
    /\ \A i \in 1..Len(l) : /\ l2[i].name = l[i].name
                            /\ l2[i].enforcedConfigLevel = l[i].enforcedConfigLevel
                            /\ FieldOf(l2[i], f) = FieldOf(l[i], f)

\* Two namespace specs agree on everything a lookup of field f reads.
SpecKeeps(sp, sp2, f) ==
    /\ sp2.enforcedConfigLevel = sp.enforcedConfigLevel
    /\ FieldOf(sp2, f) = FieldOf(sp, f)
    /\ \A rt : ListKeeps(SelectorsOf(sp, rt), SelectorsOf(sp2, rt), f)

\* Two documents agree on everything a lookup of field f reads in their
\* namespace entries.
DocsKeep(G, G2, f) ==
    /\ DOMAIN G2.namespaces = DOMAIN G.namespaces
    /\ \A n \in DOMAIN G.namespaces : SpecKeeps(G.namespaces[n], G2.namespaces[n], f)

(* Clearing field g of a document changes nothing a lookup of another     *)
(* field f reads, at the root, in a namespace or in a selector.           *)
LEMMA WithoutFieldKeeps ==
    ASSUME NEW G, IsDocument(G), NEW g \in Fields, NEW f \in Fields, f # g
    PROVE  LET G2 == WithoutField(G, g)
           IN  /\ G2.enforcedConfigLevel = G.enforcedConfigLevel
               /\ FieldOf(G2, f) = FieldOf(G, f)
               /\ DocsKeep(G, G2, f)
<1> DEFINE G2 == WithoutField(G, g)
<1>1. /\ G2.enforcedConfigLevel = G.enforcedConfigLevel
      /\ FieldOf(G2, f) = FieldOf(G, f)
      /\ DOMAIN G2.namespaces = DOMAIN G.namespaces
  BY DEF WithoutField, IsDocument, FieldOf
<1>2. ASSUME NEW ns \in DOMAIN G.namespaces
      PROVE  SpecKeeps(G.namespaces[ns], G2.namespaces[ns], f)
  <2> DEFINE sp == G.namespaces[ns]
  <2>1. sp \in NamespaceSpecs
    BY DEF IsDocument
  <2>2. G2.namespaces[ns] = [sp EXCEPT !.fields[g] = Unset,
                                       !.pipelineRuns = Cleared(sp.pipelineRuns, g),
                                       !.taskRuns = Cleared(sp.taskRuns, g)]
    BY DEF WithoutField, IsDocument, Cleared
  <2>3. /\ G2.namespaces[ns].enforcedConfigLevel = sp.enforcedConfigLevel
        /\ FieldOf(G2.namespaces[ns], f) = FieldOf(sp, f)
    BY <2>1, <2>2 DEF NamespaceSpecs, FieldOf
  <2>4. ASSUME NEW l \in Seq(SelectorSpecs) PROVE ListKeeps(l, Cleared(l, g), f)
    BY ClearSelectors DEF ListKeeps, Cleared
  <2>5. ASSUME NEW rt
        PROVE  SelectorsOf(G2.namespaces[ns], rt) = Cleared(SelectorsOf(sp, rt), g)
               /\ SelectorsOf(sp, rt) \in Seq(SelectorSpecs)
    <3>1. /\ G2.namespaces[ns].pipelineRuns = Cleared(sp.pipelineRuns, g)
          /\ G2.namespaces[ns].taskRuns = Cleared(sp.taskRuns, g)
      BY <2>1, <2>2 DEF NamespaceSpecs
    <3>2. sp.pipelineRuns \in Seq(SelectorSpecs) /\ sp.taskRuns \in Seq(SelectorSpecs)
      BY <2>1 DEF NamespaceSpecs
    <3>. QED BY <3>1, <3>2 DEF SelectorsOf
  <2>6. ASSUME NEW rt
        PROVE  ListKeeps(SelectorsOf(sp, rt), SelectorsOf(G2.namespaces[ns], rt), f)
    <3>1. /\ SelectorsOf(G2.namespaces[ns], rt) = Cleared(SelectorsOf(sp, rt), g)
          /\ SelectorsOf(sp, rt) \in Seq(SelectorSpecs)
      BY <2>5
    <3>2. ListKeeps(SelectorsOf(sp, rt), Cleared(SelectorsOf(sp, rt), g), f)
      BY <3>1, <2>4
    <3>. QED BY <3>1, <3>2
  <2>. QED BY <2>3, <2>6 DEF SpecKeeps
<1>. QED BY <1>1, <1>2 DEF DocsKeep

(* Lists that agree as ListKeeps says match a name alike, and their     *)
(* first matches agree on the level and on field f.                      *)
LEMMA SelectorLookupKeeps ==
    ASSUME NEW l, NEW l2, NEW f, NEW nm, ListKeeps(l, l2, f)
    PROVE  /\ HasSelector(l2, nm) = HasSelector(l, nm)
           /\ HasSelector(l, nm) =>
                 /\ FieldOf(FirstSelector(l2, nm), f) = FieldOf(FirstSelector(l, nm), f)
                 /\ FirstSelector(l2, nm).enforcedConfigLevel =
                    FirstSelector(l, nm).enforcedConfigLevel
<1>1. Len(l) \in Nat /\ Len(l2) = Len(l) /\ \A i \in 1..Len(l) : l2[i].name = l[i].name
  BY DEF ListKeeps
<1>2. HasSelector(l2, nm) = HasSelector(l, nm)
  BY <1>1 DEF HasSelector
<1>3. ASSUME HasSelector(l, nm)
      PROVE  /\ FieldOf(FirstSelector(l2, nm), f) = FieldOf(FirstSelector(l, nm), f)
             /\ FirstSelector(l2, nm).enforcedConfigLevel =
                FirstSelector(l, nm).enforcedConfigLevel
  <2>1. PICK i \in 1..Len(l) : FirstSelector(l, nm) = l[i] /\ FirstSelector(l2, nm) = l2[i]
    BY <1>1, <1>3, SameFirstSelector
  <2>. QED BY <2>1 DEF ListKeeps
<1>. QED BY <1>2, <1>3

(* Documents that agree as SpecKeeps says give the same selector lookup,  *)
(* namespace-root lookup and namespace enforcement level.                 *)
LEMMA LookupsKeep ==
    ASSUME NEW G, NEW G2, NEW f, NEW ns, NEW nm, NEW rt, NEW ps, NEW ps2, NEW m, NEW m2,
           DocsKeep(G, G2, f), ps.globalConfig = G, ps2.globalConfig = G2
    PROVE  /\ getFromPrunerConfigResourceLevel(G2.namespaces, ns, nm, rt, f) =
              getFromPrunerConfigResourceLevel(G.namespaces, ns, nm, rt, f)
           /\ NamespaceRoot(G2.namespaces, ns, f) = NamespaceRoot(G.namespaces, ns, f)
           /\ GetEnforcedConfigLevelFromNamespaceSpec(ps2, m2, ns, nm, rt) =
              GetEnforcedConfigLevelFromNamespaceSpec(ps, m, ns, nm, rt)
<1>1. CASE ns \in DOMAIN G.namespaces
  <2> DEFINE l  == SelectorsOf(G.namespaces[ns], rt)
             l2 == SelectorsOf(G2.namespaces[ns], rt)
  <2>1. SpecKeeps(G.namespaces[ns], G2.namespaces[ns], f)
    BY <1>1 DEF DocsKeep
  <2>2. ListKeeps(l, l2, f)
    BY <2>1 DEF SpecKeeps
  <2>3. /\ HasSelector(l2, nm) = HasSelector(l, nm)
        /\ HasSelector(l, nm) =>
              /\ FieldOf(FirstSelector(l2, nm), f) = FieldOf(FirstSelector(l, nm), f)
              /\ FirstSelector(l2, nm).enforcedConfigLevel =
                 FirstSelector(l, nm).enforcedConfigLevel
    BY <2>2, SelectorLookupKeeps
  <2>. QED BY <1>1, <2>1, <2>3
           DEF getFromPrunerConfigResourceLevel, NamespaceRoot,
               GetEnforcedConfigLevelFromNamespaceSpec, SpecKeeps, DocsKeep
<1>2. CASE ns \notin DOMAIN G.namespaces
  BY <1>2 DEF DocsKeep, getFromPrunerConfigResourceLevel, NamespaceRoot,
              GetEnforcedConfigLevelFromNamespaceSpec
<1>. QED BY <1>1, <1>2

\* A store record whose namespaced policy map is empty, as Store keeps it.
NoNamespaced(p) == p.namespacedConfig = << >>

(* A lookup of field f gives the same answer on a document and on the    *)
(* document with another field g cleared.                                 *)
LEMMA IndependentLookupDoc ==
    ASSUME NEW ps, NEW ps2, NEW g \in Fields, NEW f \in Fields, NEW ns, NEW nm, NEW rt,
           f # g, IsDocument(ps.globalConfig),
           ps2.globalConfig = WithoutField(ps.globalConfig, g),
           NoNamespaced(ps), NoNamespaced(ps2)
    PROVE  GetField(ps, ns, nm, rt, f) = GetField(ps2, ns, nm, rt, f)
<1> DEFINE G  == ps.globalConfig
           G2 == ps2.globalConfig
<1>1. /\ G2.enforcedConfigLevel = G.enforcedConfigLevel
      /\ FieldOf(G2, f) = FieldOf(G, f)
      /\ DocsKeep(G, G2, f)
  BY WithoutFieldKeeps
<1>2. /\ GetEnforcedConfigLevelFromNamespaceSpec(ps2, G2.namespaces, ns, nm, rt) =
         GetEnforcedConfigLevelFromNamespaceSpec(ps, G.namespaces, ns, nm, rt)
      /\ getFromPrunerConfigResourceLevel(G2.namespaces, ns, nm, rt, f) =
         getFromPrunerConfigResourceLevel(G.namespaces, ns, nm, rt, f)
      /\ NamespaceRoot(G2.namespaces, ns, f) = NamespaceRoot(G.namespaces, ns, f)
  <2>1. /\ getFromPrunerConfigResourceLevel(G2.namespaces, ns, nm, rt, f) =
           getFromPrunerConfigResourceLevel(G.namespaces, ns, nm, rt, f)
        /\ NamespaceRoot(G2.namespaces, ns, f) = NamespaceRoot(G.namespaces, ns, f)
        /\ GetEnforcedConfigLevelFromNamespaceSpec(ps2, G2.namespaces, ns, nm, rt) =
           GetEnforcedConfigLevelFromNamespaceSpec(ps, G.namespaces, ns, nm, rt)
    BY <1>1, LookupsKeep
  <2>. QED BY <2>1
<1>3. GlobalChain(G2, ns, nm, rt, f) = GlobalChain(G, ns, nm, rt, f)
  BY <1>1, <1>2 DEF GlobalChain
<1>4. getEnforcedConfigLevel(ps2, ns, nm, rt) = getEnforcedConfigLevel(ps, ns, nm, rt)
  BY <1>1, <1>2, EnforcedLevel
<1>5. /\ GetField(ps, ns, nm, rt, f) =
           IF getEnforcedConfigLevel(ps, ns, nm, rt) \in Levels
           THEN GlobalChain(G, ns, nm, rt, f) ELSE Unset
      /\ GetField(ps2, ns, nm, rt, f) =
           IF getEnforcedConfigLevel(ps2, ns, nm, rt) \in Levels
           THEN GlobalChain(G2, ns, nm, rt, f) ELSE Unset
  BY FieldDataAtLevel DEF GetField, NoNamespaced
<1>. QED BY <1>3, <1>4, <1>5

(* One lookup of FieldsResolveIndependently, in a state the store can be  *)
(* in.                                                                    *)
LEMMA IndependentLookup ==
    ASSUME TypeOK, NEW q \in Queries, NEW g \in Fields, g # q[4]
    PROVE  GetField(Store, q[1], q[2], q[3], q[4]) =
           GetField([Store EXCEPT !.globalConfig = WithoutField(globalConfig, g)],
                    q[1], q[2], q[3], q[4])
<1> DEFINE ps2 == [Store EXCEPT !.globalConfig = WithoutField(globalConfig, g)]
<1>1. IsDocument(globalConfig) /\ q[4] \in Fields /\ q[4] # g
  BY StoredIsDocument DEF Queries
<1>2. /\ IsDocument(Store.globalConfig)
      /\ ps2.globalConfig = WithoutField(Store.globalConfig, g)
      /\ NoNamespaced(Store)
      /\ NoNamespaced(ps2)
  BY <1>1 DEF Store, TypeOK, NoNamespaced
<1> HIDE DEF ps2
<1>3. PICK ns, nm, rt, f : q = << ns, nm, rt, f >>
  BY DEF Queries
<1>4. PICK p, p2 : p = Store /\ p2 = ps2
  OBVIOUS
<1>5. GetField(p, ns, nm, rt, f) = GetField(p2, ns, nm, rt, f)
  <2>1. /\ f \in Fields /\ f # g /\ IsDocument(p.globalConfig)
        /\ p2.globalConfig = WithoutField(p.globalConfig, g)
        /\ NoNamespaced(p) /\ NoNamespaced(p2)
    BY <1>1, <1>2, <1>3, <1>4
  <2>. QED BY <2>1, IndependentLookupDoc
<1>. QED BY <1>3, <1>4, <1>5 DEF ps2

(* The policy fields are independent: in every state LoadGlobalConfig and *)
(* DeleteNamespacedSpec can leave the store in, clearing one field in     *)
(* every layer of the global policy (root, namespace entries, selectors)  *)
(* changes no accessor's answer for any other field, whatever enforcement *)
(* levels and selector names the document holds (getResourceFieldData,    *)
(* getEnforcedConfigLevel and getFromPrunerConfigResourceLevel,           *)
(* part_006:614-776).                                                     *)
THEOREM FieldsResolveIndependentlyHolds == Spec => []FieldsResolveIndependently
<1>1. TypeOK => FieldsResolveIndependently
  BY IndependentLookup DEF FieldsResolveIndependently
<1>. QED BY <1>1, InitTypeOK, NextTypeOK, PTL DEF Spec
=============================================================================
