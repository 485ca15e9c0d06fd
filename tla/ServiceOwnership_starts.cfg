SPECIFICATION FairSpec
CONSTANTS
    s1 = s1  s2 = s2  other = other  n1 = n1  n2 = n2
    Services = {s1, s2}
    Strangers = {other}
    Exe <- OneBinary
    Pids = {n1, n2}
    NoPid = NoPid
    Nobody = Nobody
    MaxInodes = 3
    MaxCrashes = 1
    MaxHangs = 1
    MaxErrors = 1
CHECK_DEADLOCK FALSE
INVARIANTS SoleOwnerAtPath KillsOnlyItsLineage AdoptedIsGone
PROPERTIES AcquireEnds
