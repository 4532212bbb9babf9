SPECIFICATION ServiceSpec
CONSTANTS
    u1 = u1
    b1 = b1
    b2 = b2
    r1 = r1
    r2 = r2
    Users <- OneUser
    Bots <- OneBot
    Requests <- TwoRequests
    TickCycles = 1
    SlowBoot = FALSE
    MaxEdits = 3
    MaxCrashes = 0
PROPERTIES StatusSilences
