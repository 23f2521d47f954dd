--------------------------- MODULE MC_ConfigStore ---------------------------
(***************************************************************************)
(* A small universe of global-config documents: two fields, the values    *)
(* nil, 1 and 2, every enforcement level string, one namespace entry "ns1" *)
(* with at most one selector, named "p1" or "p2", in one of its lists,   *)
(* whose fields are nil or 1.                                             *)
(* Lookups ask for ns1 and for ns2, which no document mentions.           *)
(***************************************************************************)
EXTENDS ConfigStore

MCFields == {"successfulHistoryLimit", "failedHistoryLimit"}

MCFieldValues == {Unset, 1, 2}

MCPolicies == [MCFields -> MCFieldValues]

\* Selector names: the one looked up and another.
MCSelectorNames == {"p1", "p2"}

\* A selector sets a field to 1 or leaves it nil.
MCSelectors ==
    [name : MCSelectorNames, enforcedConfigLevel : LevelValues,
     fields : [MCFields -> {Unset, 1}]]

\* The selector lists of a namespace entry: none, or one in either list.
MCSelectorLists ==
    {[pipelineRuns |-> << >>, taskRuns |-> << >>]}
    \cup {[pipelineRuns |-> <<s>>, taskRuns |-> << >>] : s \in MCSelectors}
    \cup {[pipelineRuns |-> << >>, taskRuns |-> <<s>>] : s \in MCSelectors}

MCNamespaceSpecs ==
    {[enforcedConfigLevel |-> l, fields |-> f,
      pipelineRuns |-> sl.pipelineRuns, taskRuns |-> sl.taskRuns] :
        l \in LevelValues, f \in MCPolicies, sl \in MCSelectorLists}

MCNamespaceMaps == {<< >>} \cup {[ns \in {"ns1"} |-> spec] : spec \in MCNamespaceSpecs}

MCDocuments ==
    {[enforcedConfigLevel |-> l, fields |-> f, namespaces |-> m] :
        l \in LevelValues, f \in MCPolicies, m \in MCNamespaceMaps}

\* Reloads: a document that does not parse, an emptied key, and Example A
\* of the spec (2 globally, 1 in ns1, enforced at namespace level, read as
\* history limits) with two selectors named p1 in ns1, so that only the
\* first may count.  Documents above have one selector at most, so this
\* one is new to every run.
MCConfigMaps ==
    {Malformed, NoData,
     [enforcedConfigLevel |-> "namespace",
      fields |-> [f \in MCFields |-> 2],
      namespaces |-> [ns \in {"ns1"} |->
         [enforcedConfigLevel |-> "", fields |-> [f \in MCFields |-> 1],
          pipelineRuns |->
             <<[name |-> "p1", enforcedConfigLevel |-> "",
                fields |-> [f \in MCFields |-> Unset]],
               [name |-> "p1", enforcedConfigLevel |-> "resource",
                fields |-> [f \in MCFields |-> 2]]>>,
          taskRuns |-> << >>]]]}

=============================================================================
