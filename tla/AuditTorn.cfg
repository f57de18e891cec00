SPECIFICATION Spec
CONSTANTS
    erasure = erasure
    served = served
    Bodies = {erasure, served}
    Subject = {erasure}
    Redacted <- MCRedacted
    Faults = {"failed", "torn"}
    MaxEntries = 2
    MaxEdits = 2
INVARIANTS
    AcknowledgedSurvives
