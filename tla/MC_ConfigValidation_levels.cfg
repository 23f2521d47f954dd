CONSTANTS
    Fields = {"failedHistoryLimit"}
    Contents <- MCContents
    Requests <- MCRequests
    NoLevel = NoLevel
    Unset = Unset
    NoData = NoData
    Malformed = Malformed
    Undecodable = Undecodable
    PrunerConfig = PrunerConfig
    OtherConfig = OtherConfig
    Absent = Absent
SPECIFICATION Spec
INVARIANT AdmittedLevelsValid
