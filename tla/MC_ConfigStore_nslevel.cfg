CONSTANTS
    Fields <- MCFields
    FieldValues <- MCFieldValues
    Documents <- MCDocuments
    ConfigMaps <- MCConfigMaps
    Namespaces = {"ns1", "ns2"}
    Names = {"p1"}
    Unset = Unset
    Malformed = Malformed
    NoData = NoData
SPECIFICATION Spec
INVARIANTS
    NamespaceLevelIgnoresSelectors
