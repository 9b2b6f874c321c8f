SPECIFICATION FairSpec
CONSTANTS
    Script <- MCScript
    MaxBoots = 2
    PipeMax = 2
    Options <- MCOptions
INVARIANTS
    TypeOK
    CommandsAreReal
    OwnBytesFirst
    NoOrphans
    FailureIsReported
PROPERTIES
    OnlyCutsLoseStep
    NeverStuck
    DeadChildEndsRun

