SPECIFICATION FairSpec
CONSTANTS
    c1 = c1  c2 = c2
    Clients <- TwoClients
    WorkerReady = FALSE
    MaxTicks = 2
    MaxMessages = 3
    MaxConnects <- Connects
    MaxRestarts = 1

PROPERTY WorkerPublishes
\* messages, connections and restarts are bounded: the model stops there
CHECK_DEADLOCK FALSE
