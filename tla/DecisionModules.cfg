CONSTANTS
    s1 = s1
    s2 = s2
    NoValue = NoValue
    Sources <- MCSources
    SourceConfigs <- MCSourceConfigs
    RandMax <- MCRandMax
    RandomValues <- MCRandomValues
    MaxTime = 6
    MaxVisits = 5
SPECIFICATION Spec
INVARIANT TypeOK
INVARIANT ExpiryLagsOneVisit
INVARIANT RandomOneInValue
SYMMETRY MCSymmetry
CHECK_DEADLOCK FALSE
