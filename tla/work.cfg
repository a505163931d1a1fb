\* Hierarchies of up to four projects, work items and conferences, with all options of a Story;
\* and two releases, a conference and a gate, with and without attestation.
SPECIFICATION MCSpec
CONSTANTS
    initiative = initiative
    epic = epic
    story = story
    incident = incident
    release1 = release1
    release2 = release2
    p1 = p1
    p2 = p2
    p3 = p3
    c1 = c1
    q1 = q1
    m1 = m1
    g1 = g1
    k1 = k1
    owner = owner
    agent = agent
    None = None
    KindOf <- MCKindOf
    Works = {initiative, epic, story, incident}
    Advised = {story}
    Projects = {p1, p2}
    Conferences = {c1}
    Positions = {q1}
    Minutes = {}
    Gates = {}
    Actors = {owner}
    Permitted = {owner}
    Captions = {k1}
    Scopes = {ownerScope}
    OwnerScopes = {ownerScope}
    CreateStatuses = {"planned", "active", "done"}
    MaxRecords = 4
SYMMETRY MCWorkSymmetry
INVARIANTS
    AdmittedReplays
    LiveWorkIsHeld
    DoneIsBacked
PROPERTIES
    GateHolds
    NoReturn
CHECK_DEADLOCK FALSE
