SPECIFICATION RosterSpec
CONSTANTS
    Events = {warfare}
    red = red
    Teams = {red}
    EventOf <- MCEventOf
    Squads = {alpha, bravo}
    TeamOf <- MCTeamOf
    ana = ana
    Operators = {ana}
    NoOne = NoOne
    Keep = Keep
    Patches <- MCPatches
    Asked = {"activate", "end", "patch", "remove", "createTeam", "removeTeam", "createSquad", "updateSquad", "removeSquad", "addMember", "removeMember"}
    Slots = {s1, s2}
    Idle = Idle
SYMMETRY Symmetric
INVARIANTS
    OneSquadPerEventUnlessContended
    LeaderIsMemberUnlessContended
PROPERTIES
    LifecycleUnlessContended
    WhatIsOverIsFrozenUnlessContended
