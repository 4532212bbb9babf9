SPECIFICATION Spec
CONSTANTS
    c1 = c1  c2 = c2
    Clients <- TwoClients
    WorkerReady = TRUE
    MaxTicks = 2
    MaxMessages = 3
    MaxConnects <- Connects
    MaxRestarts = 1
INVARIANT NoTickTwice
\* messages, connections and restarts are bounded: the model stops there
CHECK_DEADLOCK FALSE
