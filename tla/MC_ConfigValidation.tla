------------------------- MODULE MC_ConfigValidation ------------------------
(***************************************************************************)
(* Documents with one numeric field (nil, 1 or -1), levels nil, a valid   *)
(* one or a misspelt one, one namespace entry with at most one resource   *)
(* spec in one of its lists.                                              *)
(***************************************************************************)
EXTENDS ConfigValidation

MCLevels == {NoLevel, "resource", "Namespace"}

MCPolicies == [{"failedHistoryLimit"} -> {Unset, 1, -1}]

MCResourceSpecs == [enforcedConfigLevel : MCLevels, fields : MCPolicies]

MCNamespaceSpecs ==
    {[enforcedConfigLevel |-> l, fields |-> f, pipelineRuns |-> p, taskRuns |-> t] :
        l \in MCLevels, f \in MCPolicies,
        <<p, t>> \in {<<<< >>, << >>>>}
                     \cup {<<<<r>>, << >>>> : r \in MCResourceSpecs}
                     \cup {<<<< >>, <<r>>>> : r \in MCResourceSpecs}}

MCContents ==
    {[enforcedConfigLevel |-> l, fields |-> f, namespaces |-> m] :
        l \in MCLevels, f \in MCPolicies,
        m \in {<< >>} \cup {[ns \in {"ns1"} |-> s] : s \in MCNamespaceSpecs}}

\* Writes of every content to the pruner's ConfigMap, and of an undecodable,
\* an unparsable and a negative one to some other ConfigMap.
MCRequests ==
    ({PrunerConfig} \X (MCContents \cup {NoData, Malformed, Undecodable}))
    \cup ({OtherConfig} \X {Malformed, Undecodable, [enforcedConfigLevel |-> NoLevel,
                                         fields |-> [f \in {"failedHistoryLimit"} |-> -1],
                                         namespaces |-> << >>]})

=============================================================================
