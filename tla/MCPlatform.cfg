SPECIFICATION PlatformSpec
CONSTANTS
    cup = cup
    drill = drill
    red = red
    blue = blue
    cadets = cadets
    alpha = alpha
    bravo = bravo
    delta = delta
    ana = ana
    bo = bo
    cy = cy
    ida = ida
    field = field
    ditch = ditch
    capture = capture
    patrol = patrol
    raid = raid
    fox = fox
    owl = owl
    elk = elk
    ram = ram
    sword = sword
    shield = shield
    lance = lance
    basics = basics
    sequel = sequel
    crawl = crawl
    climb = climb
    gate = gate
    path = path
    tunnel = tunnel
    road = road
    Slots = {s1, s2}
    Idle = Idle
    Events = {cup, drill}
    Asked <- MCAsked
    Teams = {red, blue, cadets}
    EventOf <- MCEventOf
    Squads = {alpha, bravo, delta}
    TeamOf <- MCTeamOf
    Operators = {ana, bo, cy}
    NoOne = NoOne
    Keep = Keep
    Patches <- MCPatches
    Competitive = {cup}
    MaxRounds = 2
    MaxOut = 3
    RoundPatches <- MCRoundPatches
    CallsignOf <- MCCallsignOf
    Zones = {field, ditch}
    Tasks = {capture, patrol, raid}
    Spatial = {capture, raid}
    PlaceNames = {"one", "two"}
    Nowhere = Nowhere
    Points <- MCPoints
    MaxTime = 3
    PageSize = 2
    FixesOf = cup
    Tracked = {ana, bo}
    Units = {sword, shield, lance}
    UnitNames = {"one", "three"}
    Courses = {basics, sequel}
    Exercises = {crawl, climb}
    Instructors = {ida}
    Admin = Admin
    Drills = {drill}
    Hours = {1, 2}
    None = None
    Same = Same
    Staff = {ida}
    Guests = {}
    People = {ana, bo, cy, ida}
    Callsigns = {fox, owl, elk, ram}
    Posts = {p1}
    MaxRequests = 2
    MaxComments = 1
    NoName = NoName
    Workers = {w1, w2}
    Nobody = Nobody
    Attempts = 3
    MaxStalled = 1
    Fixes = {gate, path, tunnel, road}
    Captured <- MCCaptured
    Received <- MCReceived
    Place <- MCPlace
    Inaccurate = {gate, path, road}
    Claimed <- MCClaimed
    ManualEntries <- MCManual
    NoFix = NoFix
    MaxFailures = 1
    Scenes <- MCScenes
    Start <- MCStart
SYMMETRY Symmetric
INVARIANTS
    RowsHaveParents
    ViewsAgree
    OneActiveRoundUnlessContended
    ClassEndsAfterItStartsUnlessContended
    PagesMissOnlyTies
    HonestNeverPunishedUnlessClamped
    AuditAddsUpUnlessRetried
PROPERTIES
    ResultIsFinalUnlessContended
    GroundIsKeptUnlessContended
    TaughtByTheUnitUnlessContended
    GrantsFollowTheRosterUnlessContended
    FriendsUnlessCrossed
CHECK_DEADLOCK FALSE
