CONSTANTS
    Names = {"x", "processed-x"}
    ResourceType = "pipelinerun"
    Namespace = "ci"
    Window = 2
    Retention = 3
    SweepPeriod = 2
    MaxCount = 2
    Absent = Absent
SPECIFICATION Spec
INVARIANT
    DeletionsCounted
