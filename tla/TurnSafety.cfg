CONSTANTS
    t1 = t1
    t2 = t2
    t3 = t3
    m1 = m1
    m2 = m2
    m3 = m3
    dm = dm
    room = room
    alice = alice
    mallory = mallory
    Turns = {t1, t2, t3, m1, m2}
    Tasks = {t1, t2, t3}
    Messages = {m1, m2}
    Channels = {dm, room}
    Allowlist = {alice}
    Info <- MCInfo
    Chars <- MCChars
    MaxHistoryTurns = 2
    MaxHistoryChars = 4
SPECIFICATION Spec
INVARIANTS TypeOK SessionDiscipline HistorySeen CleanExit
PROPERTIES NoCloseUnderTurn FollowsLifecycle
CHECK_DEADLOCK FALSE
