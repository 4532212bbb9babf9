SPECIFICATION Spec
CONSTANTS
    b1 = b1
    b2 = b2
    Bots <- MCBots
    TickCycles = 4
    SlowBoot = TRUE
    MaxEdits = 2
    MaxCrashes = 1
SYMMETRY BotSymmetry
INVARIANT EditsTakeEffect
