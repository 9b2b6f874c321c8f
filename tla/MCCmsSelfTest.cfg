SPECIFICATION Spec
CONSTANTS
    Builds <- MCBuilds
    Filling <- MCFilling
INVARIANTS
    CmsIsDer
    FailsForAReason
CHECK_DEADLOCK FALSE
