SPECIFICATION EngineSpec
CONSTANTS
    ana = ana
    hill = hill
    flag = flag
    final = final
    Events = {final}
    Operators = {ana}
    Packets = {1, 2, 3}
    EventOf <- MCEventOf
    OperatorOf <- MCOperatorOf
    CapturedAt <- MCCapturedAt
    ReceivedAt <- MCReceivedAt
    MaxDrift = 1
    None = None
    MaxFaults = 1
    Workers = {w1, w2}
    Nobody = Nobody
    Attempts = 3
    MaxStalled = 1
    Missions = {hill, flag}
    MissionEvent <- MCMissionEvent
    TypeOf <- MCTypeOf
    Inside <- MCInside
    TargetOf <- MCTargetOf
    WindowOf <- MCWindowOf
SYMMETRY Symmetric
INVARIANTS
    RecordedOnceUnlessExpired
    AcceptedIsTracked
    SecondsMatchPresence
    CompletionIsAnnounced
PROPERTIES
    CompletionIsFinalUnlessOverlapped
CHECK_DEADLOCK FALSE
