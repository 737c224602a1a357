CONSTANTS
    t1 = t1
    t2 = t2
    t3 = t3
    m1 = m1
    m2 = m2
    m3 = m3
    dm = dm
    room = room
    alice = alice
    mallory = mallory
    Turns = {t1, m1, m2, m3}
    Tasks = {t1}
    Messages = {m1, m2, m3}
    Channels = {dm, room}
    Allowlist = {alice}
    Info <- MCInfo
    Chars <- MCChars
    MaxHistoryTurns = 2
    MaxHistoryChars = 4
SPECIFICATION Spec
PROPERTIES  TurnWaitEnds MessageSettled ExitReached ServesSerially
CHECK_DEADLOCK FALSE
