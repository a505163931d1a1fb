\* A transition to done that brings telemetry evidence to a Story.
SPECIFICATION MCSpec
CONSTANTS
    initiative = initiative
    epic = epic
    story = story
    incident = incident
    release1 = release1
    release2 = release2
    p1 = p1
    p2 = p2
    p3 = p3
    c1 = c1
    q1 = q1
    m1 = m1
    g1 = g1
    k1 = k1
    owner = owner
    agent = agent
    None = None
    KindOf <- MCKindOf
    Works = {initiative, epic, story, incident}
    Advised = {story}
    Projects = {p1, p2}
    Conferences = {}
    Positions = {}
    Minutes = {}
    Gates = {}
    Actors = {owner}
    Permitted = {owner}
    Captions = {k1}
    Scopes = {ownerScope}
    OwnerScopes = {ownerScope}
    CreateStatuses = {"planned", "active", "done"}
    MaxRecords = 4
INVARIANTS
    AlwaysReadable
CHECK_DEADLOCK FALSE
