SPECIFICATION Spec
CONSTANTS
    n1 = n1
    n2 = n2
    n3 = n3
    s1 = s1
    s2 = s2
    v1 = v1
    v2 = v2
    hA = hA
    hB = hB
    None = None
    Nodes = {n1, n2, n3}
    Scores = {s1, s2}
    OwnScores <- MCOwnScores
    AlgoVersion <- SkewedVersion
    SnapshotHash <- DriftedSnapshot
    Copiers = {n3}
    CommitDeadline = 1
    RevealDeadline = 2
    MinReveals = 2
    MaxTime = 2
    MaxCommitCalls = 1
INVARIANT CopiedScoresNeverCount
