\* Two calls at a time, so that results come late. No symmetry.
CONSTANTS
    Calls = {c1, c2}
    FailureThreshold = 3
    SuccessThreshold = 2
    Recovery = 2
SPECIFICATION FairSpec
INVARIANTS
    ClosedBelowThreshold
PROPERTIES
    OpenShields
    ProbesClose
    FailuresTrip
    Recovers
