------------------------------ MODULE LiveFeed ------------------------------
(***************************************************************************)
(* The live feed: publish_tick in the worker, the ConnectionManager        *)
(* (api/v1/ws_manager.py) and the websocket endpoint (routes_ws.py) of an  *)
(* API process, and the dashboard's useLiveFeed hook at the other end.     *)
(*                                                                         *)
(* Messages are numbered as Redis queues them for the API process; one     *)
(* that is published while nobody listens is dropped and has no step.  The *)
(* manager sends a message to one connection after the other, with an      *)
(* await at each, while connections join and leave its set.  A Python set  *)
(* raises RuntimeError when it is iterated on after its size has changed,  *)
(* which ends the listener task.  If its size is what it was although      *)
(* members changed, the loop goes on: the members it had are still         *)
(* visited, new ones may be or not.  (The set is taken not to be rehashed  *)
(* meanwhile.)                                                             *)
(***************************************************************************)
EXTENDS Integers, SequencesExt, FiniteSets

CONSTANTS
    Clients,      \* dashboards
    WorkerReady,  \* has the worker's own manager been started (startup())?
    MaxTicks,     \* MAX_TICKS: how many ticks the hook keeps
    MaxMessages,  \* bound: messages published
    MaxConnects,  \* bound: per dashboard, its connections
    MaxRestarts   \* bound: restarts of the API process

ASSUME FeedAssumption ==
    /\ IsFiniteSet(Clients)
    /\ WorkerReady \in BOOLEAN
    /\ MaxTicks \in Nat \ {0}
    /\ MaxMessages \in Nat
    /\ MaxConnects \in [Clients -> Nat]
    /\ MaxRestarts \in Nat

VARIABLES
    published,  \* messages published so far
    queue,      \* what Redis holds for the listener's subscription
    listener,   \* the listener task
    accepted,   \* connections whose handler has yet to add them to the set
    conns,      \* _connections
    link,       \* per dashboard, its current connection
    ticks,      \* per dashboard, the ticks its hook shows
    restarts

vars == <<published, queue, listener, accepted, conns, link, ticks, restarts>>

\* A connection is a dashboard and how many it has had.
Connection == Clients \X Nat

NoConnection == <<>>

Listener ==
    [pc     : {"starting", "waiting", "sending", "dead"},
     msg    : Nat,                                     \* the latest message taken
     at     : Connection \cup {NoConnection},          \* being sent to
     before : SUBSET Connection,                       \* the set when the loop began
     visited : SUBSET Connection,
     stale  : SUBSET Connection]

Link ==
    [open  : BOOLEAN,
     n     : Nat,            \* which connection it is
     inbox : Seq(Nat),       \* frames on their way
     got   : Seq(Nat),       \* history: frames sent on it so far
     since : Nat]            \* history: listener.msg when it joined the set

TypeOK ==
    /\ published \in Nat
    /\ queue \in Seq(Nat)
    /\ listener \in Listener
    /\ accepted \subseteq Connection
    /\ conns \subseteq Connection
    /\ link \in [Clients -> Link]
    /\ ticks \in [Clients -> Seq(Nat)]
    /\ restarts \in Nat

NewListener ==
    [pc |-> "starting", msg |-> 0, at |-> NoConnection,
     before |-> {}, visited |-> {}, stale |-> {}]

Closed(n) == [open |-> FALSE, n |-> n, inbox |-> <<>>, got |-> <<>>, since |-> 0]

Init ==
    /\ published = 0
    /\ queue = <<>>
    /\ listener = NewListener
    /\ accepted = {}
    /\ conns = {}
    /\ link = [c \in Clients |-> Closed(0)]
    /\ ticks = [c \in Clients |-> <<>>]
    /\ restarts = 0

----------------------------------------------------------------------------
\* Is this the connection its dashboard has open?
Live(ws) == link[ws[1]].open /\ link[ws[1]].n = ws[2]

\* publish_tick: without startup() there is no Redis client, and nothing is
\* published.
Publish ==
    /\ WorkerReady
    /\ listener.pc \in {"waiting", "sending"}
    /\ published < MaxMessages
    /\ published' = published + 1
    /\ queue' = Append(queue, published')
    /\ UNCHANGED <<listener, accepted, conns, link, ticks, restarts>>

\* _listen: the subscription is made.
Subscribe ==
    /\ listener.pc = "starting"
    /\ listener' = [listener EXCEPT !.pc = "waiting"]
    /\ UNCHANGED <<published, queue, accepted, conns, link, ticks, restarts>>

\* The next message arrives; _broadcast awaits the first send, or there is
\* nobody to send to.
Take ==
    /\ listener.pc = "waiting"
    /\ queue # <<>>
    /\ queue' = Tail(queue)
    /\ \/ /\ conns = {}
          /\ listener' = [listener EXCEPT !.msg = Head(queue)]
       \/ \E ws \in conns :
             listener' = [pc |-> "sending", msg |-> Head(queue), at |-> ws,
                          before |-> conns, visited |-> {ws}, stale |-> {}]
    /\ UNCHANGED <<published, accepted, conns, link, ticks, restarts>>

\* Wrong: a send that fails ends the loop.
LoopStopsAtFailure(failed) ==
    /\ listener' = IF failed = {} /\ conns \ listener.visited # {}
                   THEN LET ws == CHOOSE ws \in conns \ listener.visited : TRUE
                        IN  [listener EXCEPT !.at = ws, !.visited = @ \cup {ws}]
                   ELSE [NewListener EXCEPT !.pc = "waiting", !.msg = listener.msg]
    /\ UNCHANGED conns

\* The loop of _broadcast after a send: the set has changed its size, or the
\* next connection's turn comes, or the stale ones are dropped at the end.
Loop(failed) ==
    LET l == [listener EXCEPT !.stale = @ \cup failed] IN
    \/ /\ Cardinality(conns) # Cardinality(l.before)
       /\ listener' = [NewListener EXCEPT !.pc = "dead", !.msg = l.msg]
       /\ UNCHANGED conns
    \/ /\ Cardinality(conns) = Cardinality(l.before)
       /\ \/ /\ \E ws \in conns \ l.visited :
                   listener' = [l EXCEPT !.at = ws, !.visited = @ \cup {ws}]
             /\ UNCHANGED conns
          \/ /\ l.before \cap conns \subseteq l.visited
             /\ listener' = [NewListener EXCEPT !.pc = "waiting", !.msg = l.msg]
             /\ conns' = conns \ l.stale

\* send_text returns: the frame is on its way, or lost with its connection.
Sent ==
    LET c == listener.at[1] IN
    /\ listener.pc = "sending"
    /\ link' = IF Live(listener.at)
               THEN [link EXCEPT ![c].inbox = Append(@, listener.msg),
                                 ![c].got = Append(@, listener.msg)]
               ELSE link
    /\ Loop({})
    /\ UNCHANGED <<published, queue, accepted, ticks, restarts>>

\* send_text raises: the connection is closed.
SendFails ==
    /\ listener.pc = "sending"
    /\ ~Live(listener.at)
    /\ Loop({listener.at})
    /\ UNCHANGED <<published, queue, accepted, link, ticks, restarts>>

----------------------------------------------------------------------------
\* The hook opens a websocket, at first and after every close, and
\* live_feed accepts it.
Connect(c) ==
    /\ ~link[c].open
    /\ link[c].n < MaxConnects[c]
    /\ link' = [link EXCEPT ![c] = [Closed(@.n + 1) EXCEPT !.open = TRUE]]
    /\ accepted' = accepted \cup {<<c, link[c].n + 1>>}
    /\ UNCHANGED <<published, queue, listener, conns, ticks, restarts>>

\* connect() adds the connection after its await.
Join(ws) ==
    /\ ws \in accepted
    /\ accepted' = accepted \ {ws}
    /\ conns' = conns \cup {ws}
    /\ link' = IF Live(ws) THEN [link EXCEPT ![ws[1]].since = listener.msg] ELSE link
    /\ UNCHANGED <<published, queue, listener, ticks, restarts>>

\* The browser, or the network, closes the connection; frames under way are
\* lost.
Close(c) ==
    /\ link[c].open
    /\ link' = [link EXCEPT ![c] = Closed(@.n)]
    /\ UNCHANGED <<published, queue, listener, accepted, conns, ticks, restarts>>

\* receive_text raises WebSocketDisconnect, and disconnect() discards.
Disconnect(ws) ==
    /\ ws \in conns
    /\ ~Live(ws)
    /\ conns' = conns \ {ws}
    /\ UNCHANGED <<published, queue, listener, accepted, link, ticks, restarts>>

\* Wrong: the hook puts the latest tick first.
ReceivePrepends(c) ==
    /\ link[c].inbox # <<>>
    /\ ticks' = [ticks EXCEPT ![c] = SubSeq(<<Head(link[c].inbox)>> \o @, 1, Min({MaxTicks, Len(@) + 1}))]
    /\ link' = [link EXCEPT ![c].inbox = Tail(@)]
    /\ UNCHANGED <<published, queue, listener, accepted, conns, restarts>>

\* onmessage: the tick is appended to the last MAX_TICKS - 1.
Receive(c) ==
    /\ link[c].inbox # <<>>
    /\ ticks' = [ticks EXCEPT ![c] =
          Append(SubSeq(@, Max({1, Len(@) - MaxTicks + 2}), Len(@)), Head(link[c].inbox))]
    /\ link' = [link EXCEPT ![c].inbox = Tail(@)]
    /\ UNCHANGED <<published, queue, listener, accepted, conns, restarts>>

\* The API process restarts: lifespan starts a new listener.
Restart ==
    /\ restarts < MaxRestarts
    /\ restarts' = restarts + 1
    /\ queue' = <<>>
    /\ listener' = [NewListener EXCEPT !.msg = published]
    /\ accepted' = {}
    /\ conns' = {}
    /\ link' = [c \in Clients |-> Closed(link[c].n)]
    /\ UNCHANGED <<published, ticks>>

ListenerStep == Subscribe \/ Take \/ Sent \/ SendFails

Next ==
    \/ Publish
    \/ ListenerStep
    \/ \E ws \in accepted : Join(ws)
    \/ \E ws \in conns : Disconnect(ws)
    \/ \E c \in Clients : Connect(c) \/ Close(c) \/ Receive(c)
    \/ Restart

Spec == Init /\ [][Next]_vars

\* The event loop runs the listener, a send returns or raises, and browsers
\* read their sockets.
FairSpec ==
    /\ Spec
    /\ WF_vars(ListenerStep)
    /\ \A c \in Clients : WF_vars(Receive(c))

----------------------------------------------------------------------------
Joined(c) == link[c].open /\ <<c, link[c].n>> \in conns

\* Has the broadcast of message m ended, or never begun?
Behind(m) == m < listener.msg \/ (m = listener.msg /\ listener.pc = "waiting")

(***************************************************************************)
(* What a connection is sent has no gaps and no repetitions, and of the    *)
(* messages whose broadcasts are over, those from its joining the set on   *)
(* are all among it (ws_manager.py:45-52), whatever sends fail.  A         *)
(* broadcast that the listener does not survive is never over: the joining *)
(* or leaving that ends it (FeedStaysLive) loses the message in hand for   *)
(* the connections that had yet to be served, and all later messages for   *)
(* everyone.  Of those this property says nothing.                         *)
(***************************************************************************)
NoGapsWhileListening ==
    \A c \in Clients :
        LET got == link[c].got IN
        /\ \A i \in 1 .. Len(got) - 1 : got[i + 1] = got[i] + 1
        /\ Joined(c) => \A m \in link[c].since + 1 .. listener.msg :
                            Behind(m) => \E i \in DOMAIN got : got[i] = m

(***************************************************************************)
(* The dashboard keeps the latest MAX_TICKS in order, across reconnections *)
(* too (useLiveFeed.js:33).                                                *)
(***************************************************************************)
TicksInOrder ==
    \A c \in Clients :
        /\ Len(ticks[c]) <= MaxTicks
        /\ \A i, j \in DOMAIN ticks[c] : i < j => ticks[c][i] <= ticks[c][j]

(***************************************************************************)
(* ... and no tick twice.  A dashboard that reconnects during a broadcast  *)
(* may get the same message on both connections.                           *)
(***************************************************************************)
NoTickTwice ==
    \A c \in Clients : \A i, j \in DOMAIN ticks[c] : i # j => ticks[c][i] # ticks[c][j]

(***************************************************************************)
(* A message that was queued for the listener is shown by every dashboard  *)
(* that was connected, unless its connection or the listener ends first.   *)
(***************************************************************************)
TicksArrive ==
    \A c \in Clients, m \in 1 .. MaxMessages :
        Joined(c) /\ listener.pc = "waiting" /\ m \in Range(queue)
            ~> \/ \E i \in DOMAIN ticks[c] : ticks[c][i] >= m
               \/ ~Joined(c) \/ listener.pc = "dead"

(***************************************************************************)
(* "the dashboard stays live" (ws_manager.py:8): once subscribed, a        *)
(* listener keeps listening.  Connections that join or leave during a      *)
(* broadcast end it.                                                       *)
(***************************************************************************)
FeedStaysLive == listener.pc # "dead"

(***************************************************************************)
(* "Ticks are published to Redis [...] by whichever worker is running the  *)
(* strategy loop" (ws_manager.py:4-5).  The worker never calls startup().  *)
(***************************************************************************)
WorkerPublishes == <>(published > 0)
=============================================================================
