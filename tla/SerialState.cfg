SPECIFICATION Spec
CONSTANTS
    ConfiguresLate = FALSE
    MaxChanges = 3
    MaxOverruns = 2
    MaxConfigs = 1
INVARIANTS
    StateInv
    ReportedOnce
PROPERTIES
    OverrunsReported
    HostKnowsSignals
