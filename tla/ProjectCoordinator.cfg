CONSTANTS
    Route <- MCRoute
    Resource <- MCResource
    Path <- MCPath
    Projects <- MCProjects
    MaxDuration = 2
    None = None
SPECIFICATION FairSpec
INVARIANTS TraceReplays EffectsFenced SelectionSound
PROPERTY RunEnds
CHECK_DEADLOCK FALSE
