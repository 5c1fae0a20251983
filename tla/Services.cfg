SPECIFICATION ServicesSpec
CONSTANTS
    Deleters = {q1, q2}
    Evictions = {e1}
    MaxBoots = 1
    Turns = {t1, t2, t3}
    Agents = {a1, a2}
    Sessions = {s1, s2}
    Ephemeral = {t3}
    MaxTries = 2
    None = None
    Clients = {c1, c2}
    Remote = {c2}
    MaxShells = 2
    MaxChunks = 1
    MaxTroubles = 1
    Simulators = {i1}
    Phones = {p1}
    Watchers = {w1, w2}
    Requesters = {w1}
    MaxStarts = 2
    MaxMoves = 1
    MaxDrops = 1
INVARIANTS ServicesTypeOK UsableHasDirectory LeasesAreSound NoOutputLost DevicesAreSound
PROPERTIES TransitionsSettle AgentsAreDisposed RemoteYields EndIsTold DevicesCatchUp
CHECK_DEADLOCK FALSE
