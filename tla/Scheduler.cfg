SPECIFICATION FairSpec
CONSTANTS
    b1 = b1
    b2 = b2
    Bots <- MCBots
    TickCycles = 2
    SlowBoot = TRUE
    MaxEdits = 3
    MaxCrashes = 1
PROPERTIES Converges StoppedBotsFallSilent ScheduledBotsTick
