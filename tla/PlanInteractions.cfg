SPECIFICATION FairSpec
CONSTANTS
    Process = {p1, p2}
    Kind = {ranking, timeline}
    Key = {k1, k2}
    Nobody = Nobody
    MaxArtifacts = 2
    MaxVersion = 2
INVARIANTS CardInv OneDecisionToAKey
PROPERTIES EveryRequestEnds
CHECK_DEADLOCK FALSE
