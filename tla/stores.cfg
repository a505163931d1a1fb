\* The stores beside the event log, one instance of each.
SPECIFICATION MCSpec
CONSTANTS
    a = a
    b = b
    Process = {a, b}
    None = None
SYMMETRY ProcessSymmetry
INVARIANTS
    
    ReadersAgree
    LiveHasBody
    
    RecordedIsStored
    LedgerIsTrue
    FrameIsTrue
    SearchIsHonest
    SessionsAreSound
    PassIsEarned
    AnswersAreTrue
    PactReleases
    NoneOutlivesTheLock
    GrantsAreAdmitted
    
    CardsAnswer
    ObservationsAreTrue
    DispatchIsBound
CHECK_DEADLOCK FALSE
