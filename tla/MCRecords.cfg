SPECIFICATION RecordsSpec
CONSTANTS
    DesignJobs = {j1, j2}
    Asked = {j1}
    DesignWorkers = {w1, w2}
    None = none
    ImpactKeys = {auto, k1}
    AutoKey = auto
    ImpactInputs = {i1, i2}
    AutoInput = i1
    ImpactClients = {c3}
    ImpactQueueSize = 1
    ImpactRestarts = 1
    NoKey = none
    SimJobs = {s1, s2}
    SimInputs = {x1}
    SampleCount = 3
    SimWorkers = 2
    Implementations = {v1, v2}
    SimRestarts = 1
    NoSim = none
    RiskJobIds = {r1}
    RiskFacts = {f1, f2}
    RiskRestarts = 2
    MaxFactMoves = 2
    NoRisk = none
SYMMETRY RecordsSymmetry
INVARIANTS SealedIsWhole LineageIsChain CancelReachesCalls ImpactIsSealedWhole SealedRunIsCaptured RiskStoryHolds
PROPERTIES EvidenceIsImmutable
CHECK_DEADLOCK FALSE
