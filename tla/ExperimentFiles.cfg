SPECIFICATION Spec
CONSTANTS
    Procs = {p1, p2}
    Contents <- MCContents
    Original <- MCOriginal
    Studies <- MCStudies
    SplitConfigs <- MCSplitConfigs
    SweepConfigs <- MCSweepConfigs
    GroupBys = {"user", "request_id"}
    Bounds <- MCBounds
    Coverages = {60}
    Cutoff = 9
    FactorScores <- MCFactorScores
    DigestOrder <- MCDigestOrder
    Unit = 10
    MaxRecords = 6
    MaxCommands = 2
    MaxUpsets = 1
    Junk = Junk
    Error = Error
    None = None
    Absent = Absent
    Torn = Torn
INVARIANTS
    SplitAlwaysFits
    ManifestDescribes
    HeldOutIsUnseen
    ReportsAreOfTheirInputs
    SweepOraclesAreOptimal
    AuditOraclesAreOptimal
    SimilarityCountsAreExact
    ExclusionsOfOneSnapshot
SYMMETRY Symmetry
\* The commands come to an end.
CHECK_DEADLOCK FALSE
