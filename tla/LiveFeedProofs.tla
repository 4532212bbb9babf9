--------------------------- MODULE LiveFeedProofs ---------------------------
(***************************************************************************)
(* Proofs about LiveFeed for any number of dashboards, messages,           *)
(* connections and restarts: no connection misses a message whose          *)
(* broadcast the listener survives, and every dashboard shows its ticks in *)
(* order.                                                                  *)
(*                                                                         *)
(* Reach(k) is the last message the connection k has been sent, or need    *)
(* not be sent.  Between two broadcasts it is the listener's latest        *)
(* message; during one, it is behind by at most that message, and only     *)
(* while the loop has yet to send it.                                      *)
(***************************************************************************)
EXTENDS LiveFeed, SequenceTheorems, TLAPS

\* The queue goes on where the listener is.
Numbered ==
    /\ published = listener.msg + Len(queue)
    /\ \A i \in DOMAIN queue : queue[i] = listener.msg + i

\* A connection that the manager or the listener holds is one its dashboard
\* has had: a new one is none of them.
Known ==
    \A ws \in accepted \cup conns \cup listener.visited : ws[2] <= link[ws[1]].n

\* Only connections that have ended leave the set, and only they count as
\* stale.
Held ==
    /\ \A ws \in listener.visited : Live(ws) => ws \in conns
    /\ \A ws \in listener.stale : ws \in listener.visited /\ ~Live(ws)
    /\ listener.pc = "sending" => listener.at \in listener.visited

\* Nothing is sent before a connection has joined.
Untouched == \A c \in Clients : Joined(c) \/ link[c].got = <<>>

Consecutive(s) == \A i \in DOMAIN s : s[i] = s[1] + i - 1

Reach(k) == IF k.got = <<>> THEN k.since ELSE k.got[Len(k.got)]

\* Has the loop of l sent its message to ws, or no need to?
Served(l, ws) == ws \in l.visited \ {l.at}

CaughtUp(k, ws, l) ==
    /\ k.got # <<>> => k.got[1] <= k.since + 1
    /\ Reach(k) \in {l.msg - 1, l.msg}
    /\ l.pc \in {"starting", "waiting"} => Reach(k) = l.msg
    /\ l.pc = "sending" =>
          /\ Served(l, ws) \/ ws \notin l.before => Reach(k) = l.msg
          /\ ~Served(l, ws) /\ k.got # <<>> => Reach(k) = l.msg - 1

Delivered ==
    \A c \in Clients :
        /\ Consecutive(link[c].got)
        /\ Joined(c) => CaughtUp(link[c], <<c, link[c].n>>, listener)

FeedInv == TypeOK /\ Numbered /\ Known /\ Held /\ Untouched /\ Delivered

Ordered(s) == \A i, j \in DOMAIN s : i < j => s[i] <= s[j]

UpTo(s, m) == \A i \in DOMAIN s : s[i] <= m

\* What a dashboard shows is no later than what is on its way to it, and
\* that no later than the latest message.
Shown(t, inbox, m) ==
    /\ Len(t) <= MaxTicks
    /\ Ordered(t) /\ UpTo(t, m)
    /\ Ordered(inbox) /\ UpTo(inbox, m)
    /\ \A i \in DOMAIN inbox : UpTo(t, inbox[i])

TicksInv == \A c \in Clients : Shown(ticks[c], link[c].inbox, listener.msg)

----------------------------------------------------------------------------
\* What a turn of the loop in _broadcast leaves.
LoopDone(failed) ==
    \/ /\ listener'.pc = "dead"
       /\ listener'.visited = {} /\ listener'.stale = {}
       /\ conns' = conns
    \/ /\ listener'.pc = "sending"
       /\ listener'.before = listener.before
       /\ listener'.stale = listener.stale \cup failed
       /\ listener'.at \in conns \ listener.visited
       /\ listener'.visited = listener.visited \cup {listener'.at}
       /\ conns' = conns
    \/ /\ listener'.pc = "waiting"
       /\ listener'.visited = {} /\ listener'.stale = {}
       /\ listener.before \cap conns \subseteq listener.visited
       /\ conns' = conns \ (listener.stale \cup failed)

LEMMA NewListenerType ==
    /\ NewListener \in Listener
    /\ NewListener.pc = "starting" /\ NewListener.msg = 0
    /\ NewListener.visited = {} /\ NewListener.stale = {}
  BY DEF NewListener, Listener

\* A listener with some of its fields assigned.
LEMMA ListenerWith ==
    ASSUME NEW l \in Listener
    PROVE  /\ \A m \in Nat : [l EXCEPT !.msg = m] =
                   [pc |-> l.pc, msg |-> m, at |-> l.at, before |-> l.before,
                    visited |-> l.visited, stale |-> l.stale]
           /\ \A pc : [l EXCEPT !.pc = pc] =
                   [pc |-> pc, msg |-> l.msg, at |-> l.at, before |-> l.before,
                    visited |-> l.visited, stale |-> l.stale]
           /\ \A stale : [l EXCEPT !.stale = stale] =
                   [pc |-> l.pc, msg |-> l.msg, at |-> l.at, before |-> l.before,
                    visited |-> l.visited, stale |-> stale]
           /\ \A ws, visited : [l EXCEPT !.at = ws, !.visited = visited] =
                   [pc |-> l.pc, msg |-> l.msg, at |-> ws, before |-> l.before,
                    visited |-> visited, stale |-> l.stale]
<1>1. \A m \in Nat : [l EXCEPT !.msg = m] =
         [pc |-> l.pc, msg |-> m, at |-> l.at, before |-> l.before,
          visited |-> l.visited, stale |-> l.stale]
  BY DEF Listener
<1>2. \A pc : [l EXCEPT !.pc = pc] =
         [pc |-> pc, msg |-> l.msg, at |-> l.at, before |-> l.before,
          visited |-> l.visited, stale |-> l.stale]
  BY DEF Listener
<1>3. \A stale : [l EXCEPT !.stale = stale] =
         [pc |-> l.pc, msg |-> l.msg, at |-> l.at, before |-> l.before,
          visited |-> l.visited, stale |-> stale]
  BY DEF Listener
<1>4. \A ws, visited : [l EXCEPT !.at = ws, !.visited = visited] =
         [pc |-> l.pc, msg |-> l.msg, at |-> ws, before |-> l.before,
          visited |-> visited, stale |-> l.stale]
  <2> TAKE ws, visited
  <2>1. PICK e : e = [l EXCEPT !.at = ws]
    OBVIOUS
  <2>2. e = [pc |-> l.pc, msg |-> l.msg, at |-> ws, before |-> l.before,
             visited |-> l.visited, stale |-> l.stale]
    BY <2>1 DEF Listener
  <2>3. [e EXCEPT !.visited = visited] =
          [pc |-> l.pc, msg |-> l.msg, at |-> ws, before |-> l.before,
           visited |-> visited, stale |-> l.stale]
    BY <2>2
  <2> QED BY <2>1, <2>3
<1> QED BY <1>1, <1>2, <1>3, <1>4

LEMMA LoopTurns ==
    ASSUME TypeOK, listener.pc = "sending", NEW failed \in SUBSET Connection, Loop(failed)
    PROVE  /\ listener' \in Listener /\ listener'.msg = listener.msg
           /\ conns' \in SUBSET Connection
           /\ LoopDone(failed)
<1>0. conns \in SUBSET Connection /\ listener \in Listener
  BY DEF TypeOK
<1> DEFINE stale == listener.stale \cup failed
<1>1. PICK l \in Listener :
        /\ l = [listener EXCEPT !.stale = @ \cup failed]
        /\ l = [pc |-> "sending", msg |-> listener.msg, at |-> listener.at,
                before |-> listener.before, visited |-> listener.visited,
                stale |-> listener.stale \cup failed]
  <2>1. [listener EXCEPT !.stale = stale] =
          [pc |-> listener.pc, msg |-> listener.msg, at |-> listener.at,
           before |-> listener.before, visited |-> listener.visited, stale |-> stale]
    BY ONLY <1>0, ListenerWith
  <2>2. [pc |-> "sending", msg |-> listener.msg, at |-> listener.at,
         before |-> listener.before, visited |-> listener.visited, stale |-> stale] \in Listener
    BY <1>0 DEF Listener
  <2> QED BY <2>1, <2>2
<1>2. CASE listener' = [NewListener EXCEPT !.pc = "dead", !.msg = l.msg] /\ conns' = conns
  <2>1. listener' = [pc |-> "dead", msg |-> listener.msg, at |-> NoConnection,
                     before |-> {}, visited |-> {}, stale |-> {}]
    BY <1>1, <1>2 DEF NewListener
  <2>2. listener' \in Listener
    BY <1>0, <2>1 DEF Listener
  <2>3. conns' = conns
    BY <1>2
  <2> QED BY <1>0, <2>1, <2>2, <2>3 DEF LoopDone
<1>3. ASSUME NEW ws \in conns \ l.visited,
             listener' = [l EXCEPT !.at = ws, !.visited = @ \cup {ws}], conns' = conns
      PROVE  /\ listener' \in Listener /\ listener'.msg = listener.msg
             /\ conns' \in SUBSET Connection /\ LoopDone(failed)
  <2>1. listener' = [pc |-> "sending", msg |-> listener.msg, at |-> ws,
                     before |-> listener.before, visited |-> listener.visited \cup {ws},
                     stale |-> listener.stale \cup failed]
    BY <1>1, <1>3
  <2>2. ws \in conns \ listener.visited
    BY <1>1
  <2>3. listener' \in Listener
    BY <1>0, <2>1, <2>2 DEF Listener
  <2>4. conns' = conns
    BY <1>3
  <2> QED BY <1>0, <2>1, <2>2, <2>3, <2>4 DEF LoopDone
<1>4. CASE /\ l.before \cap conns \subseteq l.visited
           /\ listener' = [NewListener EXCEPT !.pc = "waiting", !.msg = l.msg]
           /\ conns' = conns \ l.stale
  <2>1. listener' = [pc |-> "waiting", msg |-> listener.msg, at |-> NoConnection,
                     before |-> {}, visited |-> {}, stale |-> {}]
    BY <1>1, <1>4 DEF NewListener
  <2>2. /\ listener.before \cap conns \subseteq listener.visited
        /\ conns' = conns \ (listener.stale \cup failed)
    BY <1>1, <1>4
  <2> QED BY <1>0, <2>1, <2>2 DEF Listener, LoopDone
<1> QED BY <1>1, <1>2, <1>3, <1>4 DEF Loop

LEMMA TailNumbered ==
    ASSUME NEW q \in Seq(Nat), NEW m \in Nat, q # <<>>, \A i \in DOMAIN q : q[i] = m + i
    PROVE  /\ Head(q) = m + 1
           /\ Tail(q) \in Seq(Nat) /\ Len(q) = Len(Tail(q)) + 1
           /\ \A i \in DOMAIN Tail(q) : Tail(q)[i] = (m + 1) + i
<1>1. /\ Tail(q) \in Seq(Nat) /\ Len(Tail(q)) = Len(q) - 1 /\ Len(q) \in Nat \ {0}
      /\ \A i \in 1 .. Len(Tail(q)) : Tail(q)[i] = q[i + 1]
  OBVIOUS
<1> DEFINE r == Tail(q)
<1> HIDE DEF r
<1>2. Head(q) = m + 1
  BY <1>1
<1>3. ASSUME NEW i \in DOMAIN r PROVE r[i] = (m + 1) + i
  <2>1. i \in 1 .. Len(r) /\ i + 1 \in DOMAIN q
    BY <1>1 DEF r
  <2>2. q[i + 1] = m + (i + 1)
    BY <2>1
  <2>3. r[i] = q[i + 1] /\ i \in Nat
    BY <1>1, <2>1 DEF r
  <2> QED BY <2>2, <2>3
<1> QED BY <1>1, <1>2, <1>3 DEF r

\* What a message that arrives leaves.
LEMMA TakeTurns ==
    ASSUME TypeOK, Numbered, Take
    PROVE  /\ listener' \in Listener /\ listener'.msg = listener.msg + 1
           /\ published > listener.msg
           /\ queue' \in Seq(Nat) /\ Numbered'
           /\ \/ conns = {} /\ listener' = [listener EXCEPT !.msg = listener.msg + 1]
              \/ /\ listener'.pc = "sending" /\ listener'.before = conns
                 /\ listener'.at \in conns /\ listener'.visited = {listener'.at}
                 /\ listener'.stale = {}
<1>0. queue \in Seq(Nat) /\ queue # <<>> /\ queue' = Tail(queue) /\ listener \in Listener
      /\ published \in Nat /\ conns \in SUBSET Connection
  BY DEF TypeOK, Take
<1>1. Head(queue) = listener.msg + 1 /\ Len(queue) > 0
  BY <1>0 DEF Numbered
<1>2. listener.msg \in Nat /\ listener.pc = "waiting"
  BY <1>0 DEF Listener, Take
<1>3. /\ listener' \in Listener /\ listener'.msg = listener.msg + 1
      /\ \/ conns = {} /\ listener' = [listener EXCEPT !.msg = listener.msg + 1]
         \/ /\ listener'.pc = "sending" /\ listener'.before = conns
            /\ listener'.at \in conns /\ listener'.visited = {listener'.at}
            /\ listener'.stale = {}
  <2>1. CASE conns = {} /\ listener' = [listener EXCEPT !.msg = Head(queue)]
    <3>1. listener.msg + 1 \in Nat /\ listener' = [listener EXCEPT !.msg = listener.msg + 1]
      BY <1>1, <1>2, <2>1
    <3>2. listener' = [pc |-> listener.pc, msg |-> listener.msg + 1, at |-> listener.at,
                       before |-> listener.before, visited |-> listener.visited,
                       stale |-> listener.stale]
      BY <1>0, <3>1, ListenerWith
    <3>3. listener' \in Listener /\ listener'.msg = listener.msg + 1
      BY <1>0, <3>1, <3>2 DEF Listener
    <3> QED BY <2>1, <3>1, <3>3
  <2>2. ASSUME NEW ws \in conns,
               listener' = [pc |-> "sending", msg |-> Head(queue), at |-> ws,
                            before |-> conns, visited |-> {ws}, stale |-> {}]
        PROVE  <1>3!1
    BY <1>0, <1>1, <1>2, <2>2 DEF Listener
  <2> QED BY <2>1, <2>2 DEF Take
<1>4. queue' \in Seq(Nat) /\ Numbered' /\ published > listener.msg
  <2>1. \A i \in DOMAIN queue : queue[i] = listener.msg + i
    BY DEF Numbered
  <2>2. /\ queue' \in Seq(Nat) /\ Len(queue) = Len(queue') + 1
        /\ \A i \in DOMAIN queue' : queue'[i] = (listener.msg + 1) + i
    BY <1>0, <1>2, <2>1, TailNumbered
  <2>3. Len(queue') \in Nat /\ published' = published /\ published = listener.msg + Len(queue)
    BY <2>2 DEF Take, Numbered
  <2>4. published' = (listener.msg + 1) + Len(queue') /\ published > listener.msg
    BY <1>2, <2>2, <2>3
  <2> QED BY <1>3, <2>2, <2>4 DEF Numbered
<1> QED BY <1>3, <1>4

\* A connection with some of its fields assigned.
LEMMA LinkWith ==
    ASSUME NEW k \in Link
    PROVE  /\ \A s : [k EXCEPT !.since = s] =
                   [open |-> k.open, n |-> k.n, inbox |-> k.inbox, got |-> k.got, since |-> s]
           /\ \A i : [k EXCEPT !.inbox = i] =
                   [open |-> k.open, n |-> k.n, inbox |-> i, got |-> k.got, since |-> k.since]
           /\ \A g : [k EXCEPT !.got = g] =
                   [open |-> k.open, n |-> k.n, inbox |-> k.inbox, got |-> g, since |-> k.since]
           /\ \A o : [k EXCEPT !.open = o] =
                   [open |-> o, n |-> k.n, inbox |-> k.inbox, got |-> k.got, since |-> k.since]
<1>1. \A s : [k EXCEPT !.since = s] =
         [open |-> k.open, n |-> k.n, inbox |-> k.inbox, got |-> k.got, since |-> s]
  BY DEF Link
<1>2. \A i : [k EXCEPT !.inbox = i] =
         [open |-> k.open, n |-> k.n, inbox |-> i, got |-> k.got, since |-> k.since]
  BY DEF Link
<1>3. \A g : [k EXCEPT !.got = g] =
         [open |-> k.open, n |-> k.n, inbox |-> k.inbox, got |-> g, since |-> k.since]
  BY DEF Link
<1>4. \A o : [k EXCEPT !.open = o] =
         [open |-> o, n |-> k.n, inbox |-> k.inbox, got |-> k.got, since |-> k.since]
  BY DEF Link
<1> QED BY <1>1, <1>2, <1>3, <1>4

LEMMA ClosedType ==
    ASSUME NEW n \in Nat
    PROVE  /\ Closed(n) \in Link
           /\ Closed(n) = [open |-> FALSE, n |-> n, inbox |-> <<>>, got |-> <<>>, since |-> 0]
           /\ [Closed(n) EXCEPT !.open = TRUE] =
                [open |-> TRUE, n |-> n, inbox |-> <<>>, got |-> <<>>, since |-> 0]
           /\ [open |-> TRUE, n |-> n, inbox |-> <<>>, got |-> <<>>, since |-> 0] \in Link
<1> DEFINE k == [open |-> FALSE, n |-> n, inbox |-> <<>>, got |-> <<>>, since |-> 0]
<1>1. /\ [open |-> FALSE, n |-> n, inbox |-> <<>>, got |-> <<>>, since |-> 0] \in Link
      /\ [open |-> TRUE, n |-> n, inbox |-> <<>>, got |-> <<>>, since |-> 0] \in Link
  <2>1. <<>> \in Seq(Nat)
    OBVIOUS
  <2> QED BY <2>1 DEF Link
<1>2. Closed(n) = k
  BY DEF Closed
<1>3. PICK e \in Link : e = k
  BY <1>1
<1>4. [e EXCEPT !.open = TRUE] =
        [open |-> TRUE, n |-> e.n, inbox |-> e.inbox, got |-> e.got, since |-> e.since]
  BY ONLY <1>3, LinkWith
<1>5. e.n = n /\ e.inbox = <<>> /\ e.got = <<>> /\ e.since = 0
  BY <1>3
<1> QED BY <1>1, <1>2, <1>3, <1>4, <1>5

\* One frame more on its way to c.
WithFrame(k, m) ==
    [open |-> k.open, n |-> k.n, inbox |-> Append(k.inbox, m), got |-> Append(k.got, m),
     since |-> k.since]

LEMMA SentFrame ==
    ASSUME TypeOK, Sent, Live(listener.at), listener.at \in Connection
    PROVE  \E c \in Clients :
             /\ link[c].open /\ listener.at = <<c, link[c].n>>
             /\ WithFrame(link[c], listener.msg) \in Link
             /\ link' = [link EXCEPT ![c] = WithFrame(link[c], listener.msg)]
<1> PICK c \in Clients, n \in Nat : listener.at = <<c, n>>
  BY DEF Connection
<1>0. link \in [Clients -> Link] /\ listener.msg \in Nat
  BY DEF TypeOK, Listener
<1> PICK m \in Nat : m = listener.msg
  BY <1>0
<1> PICK k \in Link : k = link[c]
  BY <1>0
<1>1. link[c].open /\ link[c].n = n
  BY DEF Live
<1>2. link' = [link EXCEPT ![c].inbox = Append(@, m), ![c].got = Append(@, m)]
  BY DEF Sent
<1>3. PICK l : l = [link EXCEPT ![c].inbox = Append(@, m)]
  OBVIOUS
<1>4. l = [link EXCEPT ![c] = [k EXCEPT !.inbox = Append(k.inbox, m)]]
  BY <1>3
<1>5. PICK j : j = [k EXCEPT !.inbox = Append(k.inbox, m)]
  OBVIOUS
<1>6. /\ j = [open |-> k.open, n |-> k.n, inbox |-> Append(k.inbox, m), got |-> k.got,
              since |-> k.since]
      /\ k.inbox \in Seq(Nat) /\ k.got \in Seq(Nat)
  BY <1>5, LinkWith DEF Link
<1>7. j \in Link
  BY <1>6 DEF Link
<1>8. l[c] = j /\ link' = [l EXCEPT ![c] = [j EXCEPT !.got = Append(j.got, m)]]
  BY <1>0, <1>2, <1>3, <1>4, <1>5
<1>9. [j EXCEPT !.got = Append(j.got, m)] = WithFrame(k, m)
  <2>1. [j EXCEPT !.got = Append(j.got, m)] =
          [open |-> j.open, n |-> j.n, inbox |-> j.inbox, got |-> Append(j.got, m),
           since |-> j.since]
    BY ONLY <1>7, LinkWith
  <2>2. /\ j.open = k.open /\ j.n = k.n /\ j.inbox = Append(k.inbox, m) /\ j.got = k.got
        /\ j.since = k.since
    BY ONLY <1>6
  <2> QED BY ONLY <2>1, <2>2 DEF WithFrame
<1>10. link' = [link EXCEPT ![c] = WithFrame(k, m)]
  BY <1>0, <1>4, <1>5, <1>8, <1>9
<1>11. WithFrame(k, m) \in Link
  BY <1>6 DEF WithFrame, Link
<1> QED BY <1>1, <1>10, <1>11

\* What the hook keeps of the ticks t when another comes.
Kept(t) == SubSeq(t, Max({1, Len(t) - MaxTicks + 2}), Len(t))

LEMMA LatestTicks ==
    ASSUME NEW t \in Seq(Nat)
    PROVE  /\ Kept(t) \in Seq(Nat)
           /\ Len(t) <= MaxTicks => Len(Kept(t)) < MaxTicks
           /\ \E a \in Nat : \A i \in DOMAIN Kept(t) : i + a \in DOMAIN t /\ Kept(t)[i] = t[i + a]
<1> USE FeedAssumption
<1> DEFINE x == Len(t) - MaxTicks + 2
           first == Max({1, x})
<1>1. x \in Int /\ Len(t) \in Nat /\ x <= Len(t) + 1
  OBVIOUS
<1>2. first = (IF x > 1 THEN x ELSE 1)
  <2> HIDE DEF x
  <2>1. \E m \in {1, x} : \A y \in {1, x} : m >= y
    BY <1>1
  <2> QED BY <1>1, <2>1 DEF Max
<1>3. first \in Nat \ {0} /\ first <= Len(t) + 1 /\ first >= x
  <2> HIDE DEF x, first
  <2> QED BY <1>1, <1>2
<1> HIDE DEF first
<1>4. /\ SubSeq(t, first, Len(t)) \in Seq(Nat)
      /\ Len(SubSeq(t, first, Len(t))) = Len(t) - first + 1
      /\ \A i \in 1 .. Len(t) - first + 1 : SubSeq(t, first, Len(t))[i] = t[i + (first - 1)]
  BY <1>1, <1>3
<1>5. Kept(t) = SubSeq(t, first, Len(t))
  BY DEF Kept, first
<1> DEFINE s == Kept(t)
<1> HIDE DEF s
<1>6. first - 1 \in Nat
  BY <1>3
<1>7. s \in Seq(Nat) /\ Len(s) = Len(t) - first + 1
  BY <1>4, <1>5 DEF s
<1>8. ASSUME NEW i \in DOMAIN s PROVE i + (first - 1) \in DOMAIN t /\ s[i] = t[i + (first - 1)]
  <2>1. i \in 1 .. Len(t) - first + 1
    BY <1>7
  <2>2. i + (first - 1) \in 1 .. Len(t)
    BY <1>1, <1>3, <2>1
  <2> QED BY <1>4, <1>5, <2>1, <2>2 DEF s
<1>9. Len(t) <= MaxTicks => Len(s) < MaxTicks
  BY <1>1, <1>3, <1>7
<1> QED BY <1>6, <1>7, <1>8, <1>9 DEF s

\* The state stays well typed.
LEMMA FeedTypeStep ==
    ASSUME TypeOK, Numbered, Held, [Next]_vars PROVE TypeOK'
<1>0. /\ published \in Nat /\ queue \in Seq(Nat) /\ listener \in Listener
      /\ accepted \in SUBSET Connection /\ conns \in SUBSET Connection
      /\ link \in [Clients -> Link] /\ ticks \in [Clients -> Seq(Nat)] /\ restarts \in Nat
  BY DEF TypeOK
<1>1. CASE Publish
  <2>1. published + 1 \in Nat /\ Append(queue, published + 1) \in Seq(Nat)
    BY <1>0
  <2> QED BY <1>0, <1>1, <2>1 DEF Publish, TypeOK
<1>2. CASE Subscribe
  <2>1. listener' \in Listener
    BY <1>0, <1>2, ListenerWith DEF Subscribe, Listener
  <2> QED BY <1>0, <1>2, <2>1 DEF Subscribe, TypeOK
<1>3. CASE Take
  BY <1>0, <1>3, TakeTurns DEF Take, TypeOK
<1>4. CASE Sent
  <2>1. listener' \in Listener /\ conns' \in SUBSET Connection
    <3>1. {} \in SUBSET Connection /\ listener.pc = "sending" /\ Loop({})
      BY <1>4 DEF Sent
    <3> QED BY <3>1, LoopTurns
  <2>2. link' \in [Clients -> Link]
    <3>1. listener.at \in Connection
      BY <1>0, <1>4 DEF Sent, Held, Listener
    <3>2. CASE Live(listener.at)
      BY <1>0, <1>4, <3>1, <3>2, SentFrame
    <3>3. CASE ~Live(listener.at)
      BY <1>0, <1>4, <3>3 DEF Sent
    <3> QED BY <3>2, <3>3
  <2> QED BY <1>0, <1>4, <2>1, <2>2 DEF Sent, TypeOK
<1>5. CASE SendFails
  <2>1. listener.at \in Connection /\ listener.pc = "sending" /\ Loop({listener.at})
    BY <1>0, <1>5 DEF SendFails, Held, Listener
  <2>2. listener' \in Listener /\ conns' \in SUBSET Connection
    BY <2>1, LoopTurns
  <2> QED BY <1>0, <1>5, <2>2 DEF SendFails, TypeOK
<1>6. ASSUME NEW c \in Clients, Connect(c) PROVE TypeOK'
  <2>1. PICK n \in Nat : n = link[c].n
    BY <1>0 DEF Link
  <2>2. [Closed(n + 1) EXCEPT !.open = TRUE] \in Link /\ <<c, n + 1>> \in Connection
    <3>1. n + 1 \in Nat
      BY <2>1
    <3> QED BY <3>1, ClosedType DEF Connection
  <2>3. link' = [link EXCEPT ![c] = [Closed(n + 1) EXCEPT !.open = TRUE]]
    BY <1>6, <2>1 DEF Connect
  <2>4. accepted' = accepted \cup {<<c, n + 1>>}
    BY <1>6, <2>1 DEF Connect
  <2>5. link' \in [Clients -> Link] /\ accepted' \in SUBSET Connection
    BY <1>0, <2>2, <2>3, <2>4
  <2> QED BY <1>0, <1>6, <2>5 DEF Connect, TypeOK
<1>7. ASSUME NEW ws \in accepted, Join(ws) PROVE TypeOK'
  <2>1. ws[1] \in Clients /\ listener.msg \in Nat
    BY <1>0 DEF Connection, Listener
  <2>2. PICK k \in Link : k = [link[ws[1]] EXCEPT !.since = listener.msg]
    <3>1. link[ws[1]] \in Link
      BY <1>0, <2>1
    <3> QED BY <2>1, <3>1, LinkWith DEF Link
  <2>3. link' = link \/ link' = [link EXCEPT ![ws[1]] = k]
    BY <1>7, <2>2 DEF Join
  <2>4. link' \in [Clients -> Link]
    BY <1>0, <2>3
  <2>5. accepted' \in SUBSET Connection /\ conns' \in SUBSET Connection
    BY <1>0, <1>7 DEF Join
  <2> QED BY <1>0, <1>7, <2>4, <2>5 DEF Join, TypeOK
<1>8. ASSUME NEW c \in Clients, Close(c) PROVE TypeOK'
  <2>1. Closed(link[c].n) \in Link
    BY <1>0, ClosedType DEF Link
  <2>2. link' \in [Clients -> Link]
    BY <1>0, <1>8, <2>1 DEF Close
  <2> QED BY <1>0, <1>8, <2>2 DEF Close, TypeOK
<1>9. ASSUME NEW ws \in conns, Disconnect(ws) PROVE TypeOK'
  BY <1>0, <1>9 DEF Disconnect, TypeOK
<1>10. ASSUME NEW c \in Clients, Receive(c) PROVE TypeOK'
  <2>1. PICK i \in Seq(Nat), t \in Seq(Nat) : i = link[c].inbox /\ t = ticks[c]
    BY <1>0 DEF Link
  <2>2. i # <<>> /\ Head(i) \in Nat /\ Tail(i) \in Seq(Nat)
    <3>1. link[c].inbox # <<>>
      BY <1>10 DEF Receive
    <3> QED BY <2>1, <3>1
  <2>3. [link[c] EXCEPT !.inbox = Tail(@)] \in Link
    <3>1. PICK k \in Link : k = link[c]
      BY <1>0
    <3>2. [k EXCEPT !.inbox = Tail(i)] =
            [open |-> k.open, n |-> k.n, inbox |-> Tail(i), got |-> k.got, since |-> k.since]
      BY ONLY <3>1, LinkWith
    <3>3. [k EXCEPT !.inbox = Tail(i)] \in Link
      BY ONLY <2>2, <3>1, <3>2 DEF Link
    <3> QED BY <2>1, <3>1, <3>3
  <2>4. link' \in [Clients -> Link]
    BY <1>0, <1>10, <2>3 DEF Receive
  <2>5. Append(Kept(t), Head(i)) \in Seq(Nat)
    BY <2>1, <2>2, LatestTicks
  <2>6. ticks' \in [Clients -> Seq(Nat)]
    BY <1>0, <1>10, <2>1, <2>5 DEF Receive, Kept
  <2> QED BY <1>0, <1>10, <2>4, <2>6 DEF Receive, TypeOK
<1>11. CASE Restart
  <2>1. listener' \in Listener
    BY <1>0, <1>11 DEF Restart, NewListener, Listener
  <2>2. \A c \in Clients : Closed(link[c].n) \in Link
    BY <1>0, ClosedType DEF Link
  <2>3. link' \in [Clients -> Link]
    BY <1>11, <2>2 DEF Restart
  <2> QED BY <1>0, <1>11, <2>1, <2>3 DEF Restart, TypeOK
<1>12. CASE UNCHANGED vars
  BY <1>0, <1>12 DEF vars, TypeOK
<1> QED BY <1>1, <1>2, <1>3, <1>4, <1>5, <1>6, <1>7, <1>8, <1>9, <1>10, <1>11, <1>12
        DEF Next, ListenerStep

\* The parts of the invariant besides the types.
Rest == Numbered /\ Known /\ Held /\ Untouched /\ Delivered

LEMMA PublishStep == ASSUME FeedInv, Publish PROVE Rest'
<1>0. queue \in Seq(Nat) /\ published \in Nat /\ listener.msg \in Nat
      /\ queue' = Append(queue, published + 1) /\ published' = published + 1
  BY DEF FeedInv, TypeOK, Listener, Publish
<1>1. listener' = listener /\ accepted' = accepted /\ conns' = conns /\ link' = link
  BY DEF Publish
<1>2. Numbered'
  <2>1. Len(queue') = Len(queue) + 1 /\ queue' \in Seq(Nat)
    BY <1>0
  <2>2. published = listener.msg + Len(queue) /\ \A i \in DOMAIN queue : queue[i] = listener.msg + i
    BY DEF FeedInv, Numbered
  <2>3. ASSUME NEW i \in DOMAIN queue' PROVE queue'[i] = listener.msg + i
    <3>1. CASE i \in DOMAIN queue
      BY <1>0, <2>2, <3>1
    <3>2. CASE i = Len(queue) + 1
      <4>1. queue'[i] = published + 1
        BY <1>0, <3>2
      <4>2. Len(queue) \in Nat /\ published = listener.msg + Len(queue)
        BY <1>0, <2>2
      <4>3. PICK m \in Nat, k \in Nat : m = listener.msg /\ k = Len(queue)
        BY <1>0, <4>2
      <4>4. queue'[i] = (m + k) + 1 /\ i = k + 1
        BY <3>2, <4>1, <4>2, <4>3
      <4>5. (m + k) + 1 = m + (k + 1)
        BY <4>3
      <4> QED BY <4>3, <4>4, <4>5
    <3> QED BY <1>0, <2>1, <3>1, <3>2
  <2> QED BY <1>0, <1>1, <2>1, <2>2, <2>3 DEF Numbered
<1>3. Known' /\ Held'
  BY <1>1 DEF FeedInv, Known, Held, Live
<1>4. Untouched' /\ Delivered'
  BY <1>1 DEF FeedInv, Untouched, Delivered, Joined, CaughtUp, Reach, Served, Consecutive
<1> QED BY <1>2, <1>3, <1>4 DEF Rest

LEMMA SubscribeStep == ASSUME FeedInv, Subscribe PROVE Rest'
<1>0. listener \in Listener /\ listener.pc = "starting"
  BY DEF FeedInv, TypeOK, Subscribe
<1>1. listener' = [pc |-> "waiting", msg |-> listener.msg, at |-> listener.at,
                   before |-> listener.before, visited |-> listener.visited,
                   stale |-> listener.stale]
  BY <1>0, ListenerWith DEF Subscribe
<1>2. queue' = queue /\ published' = published /\ accepted' = accepted /\ conns' = conns
      /\ link' = link
  BY DEF Subscribe
<1>3. Numbered' /\ Known' /\ Held'
  BY <1>0, <1>1, <1>2 DEF FeedInv, Numbered, Known, Held, Live
<1>4. Untouched' /\ Delivered'
  BY <1>0, <1>1, <1>2 DEF FeedInv, Untouched, Delivered, Joined, CaughtUp, Reach
<1> QED BY <1>3, <1>4 DEF Rest

LEMMA TakeStep == ASSUME FeedInv, Take PROVE Rest'
<1>0. /\ listener \in Listener /\ listener.msg \in Nat /\ listener.pc = "waiting"
      /\ conns \in SUBSET Connection
      /\ accepted' = accepted /\ conns' = conns /\ link' = link
  BY DEF FeedInv, TypeOK, Listener, Take
<1>1. /\ Numbered' /\ listener'.msg = listener.msg + 1
      /\ \/ conns = {} /\ listener' = [listener EXCEPT !.msg = listener.msg + 1]
         \/ /\ listener'.pc = "sending" /\ listener'.before = conns
            /\ listener'.at \in conns /\ listener'.visited = {listener'.at}
            /\ listener'.stale = {}
  BY TakeTurns DEF FeedInv
<1>2. CASE conns = {} /\ listener' = [listener EXCEPT !.msg = listener.msg + 1]
  <2>1. listener' = [pc |-> listener.pc, msg |-> listener.msg + 1, at |-> listener.at,
                     before |-> listener.before, visited |-> listener.visited,
                     stale |-> listener.stale]
    <3>1. listener.msg + 1 \in Nat
      BY <1>0
    <3> QED BY <1>0, <1>2, <3>1, ListenerWith
  <2>2. Known' /\ Held'
    BY <1>0, <2>1 DEF FeedInv, Known, Held, Live
  <2>3. Untouched' /\ Delivered'
    BY <1>0, <1>2, <2>1 DEF FeedInv, Untouched, Delivered, Joined
  <2> QED BY <1>1, <2>2, <2>3 DEF Rest
<1>3. CASE /\ listener'.pc = "sending" /\ listener'.before = conns
           /\ listener'.at \in conns /\ listener'.visited = {listener'.at}
           /\ listener'.stale = {}
  <2>1. Known' /\ Held'
    BY <1>0, <1>3 DEF FeedInv, Known, Held, Live
  <2>2. Untouched'
    BY <1>0 DEF FeedInv, Untouched, Joined
  <2>3. ASSUME NEW c \in Clients
        PROVE  /\ Consecutive(link'[c].got)
               /\ link'[c].open /\ <<c, link'[c].n>> \in conns' =>
                    CaughtUp(link'[c], <<c, link'[c].n>>, listener')
    <3>1. Consecutive(link[c].got) /\ (Joined(c) => CaughtUp(link[c], <<c, link[c].n>>, listener))
      BY DEF FeedInv, Delivered
    <3>2. ASSUME Joined(c) PROVE CaughtUp(link[c], <<c, link[c].n>>, listener')
      <4>1. /\ Reach(link[c]) = listener.msg
            /\ link[c].got # <<>> => link[c].got[1] <= link[c].since + 1
        BY <1>0, <3>1, <3>2 DEF CaughtUp
      <4>2. ~Served(listener', <<c, link[c].n>>) /\ <<c, link[c].n>> \in listener'.before
        BY <1>3, <3>2 DEF Served, Joined
      <4>3. Reach(link[c]) = listener'.msg - 1
        BY <1>0, <1>1, <4>1
      <4> QED BY <1>3, <4>1, <4>2, <4>3 DEF CaughtUp
    <3> QED BY <1>0, <3>1, <3>2 DEF Joined
  <2>4. Delivered'
    BY <2>3 DEF Delivered, Joined
  <2> QED BY <1>1, <2>1, <2>2, <2>4 DEF Rest
<1> QED BY <1>1, <1>2, <1>3

LEMMA ConnectStep == ASSUME FeedInv, TypeOK', NEW c \in Clients, Connect(c) PROVE Rest'
<1>0. /\ link \in [Clients -> Link] /\ link' \in [Clients -> Link]
      /\ accepted \in SUBSET Connection /\ conns \in SUBSET Connection
      /\ listener.visited \in SUBSET Connection
  BY DEF FeedInv, TypeOK, Listener
<1>1. PICK n \in Nat : n = link[c].n
  BY <1>0 DEF Link
<1>2. /\ queue' = queue /\ published' = published /\ listener' = listener /\ conns' = conns
      /\ accepted' = accepted \cup {<<c, n + 1>>}
      /\ ~link[c].open
  BY <1>1 DEF Connect
<1>3. link' = [link EXCEPT ![c] =
                 [open |-> TRUE, n |-> n + 1, inbox |-> <<>>, got |-> <<>>, since |-> 0]]
  <2>1. n + 1 \in Nat
    BY <1>1
  <2>2. link' = [link EXCEPT ![c] = [Closed(n + 1) EXCEPT !.open = TRUE]]
    BY <1>1 DEF Connect
  <2> QED BY <2>1, <2>2, ClosedType
<1>4. /\ link'[c].n = n + 1 /\ link'[c].open /\ link'[c].got = <<>>
      /\ \A d \in Clients \ {c} : link'[d] = link[d]
  BY <1>0, <1>3
<1>5. <<c, n + 1>> \notin conns /\ <<c, n + 1>> \notin listener.visited
  BY <1>1 DEF FeedInv, Known
<1>6. \A ws \in Connection : ws[1] \in Clients /\ ws[2] \in Nat /\ ws = <<ws[1], ws[2]>>
  BY DEF Connection
<1>7. Numbered'
  BY <1>2 DEF FeedInv, Numbered
<1>8. Known'
  BY <1>0, <1>1, <1>2, <1>4, <1>6 DEF FeedInv, Known
<1>9. Held'
  <2>1. ASSUME NEW ws \in listener.visited PROVE ~(link'[ws[1]].open /\ link'[ws[1]].n = ws[2])
                                                  \/ Live(ws)
    BY <1>0, <1>4, <1>5, <1>6 DEF Live
  <2> QED BY <1>0, <1>2, <2>1 DEF FeedInv, Held, Live
<1>10. Untouched'
  BY <1>0, <1>2, <1>4 DEF FeedInv, Untouched, Joined
<1>11. Delivered'
  <2>1. Consecutive(link'[c].got)
    BY <1>4 DEF Consecutive
  <2>2. ~(<<c, link'[c].n>> \in conns')
    BY <1>2, <1>4, <1>5
  <2> QED BY <1>2, <1>4, <2>1, <2>2 DEF FeedInv, Delivered, Joined
<1> QED BY <1>7, <1>8, <1>9, <1>10, <1>11 DEF Rest

LEMMA JoinStep == ASSUME FeedInv, TypeOK', NEW ws \in accepted, Join(ws) PROVE Rest'
<1>0. /\ link \in [Clients -> Link] /\ link' \in [Clients -> Link]
      /\ accepted \in SUBSET Connection /\ conns \in SUBSET Connection
      /\ listener.visited \in SUBSET Connection /\ listener.msg \in Nat
  BY DEF FeedInv, TypeOK, Listener
<1>1. PICK c \in Clients, n \in Nat : ws = <<c, n>>
  BY <1>0 DEF Connection
<1>2. /\ queue' = queue /\ published' = published /\ listener' = listener
      /\ conns' = conns \cup {ws} /\ accepted' = accepted \ {ws}
  BY DEF Join
<1>3. /\ \A d \in Clients \ {c} : link'[d] = link[d]
      /\ link'[c].open = link[c].open /\ link'[c].n = link[c].n /\ link'[c].got = link[c].got
      /\ IF Live(ws) THEN link'[c].since = listener.msg ELSE link'[c] = link[c]
  <2>1. CASE Live(ws)
    <3>1. PICK k \in Link : k = link[c]
      BY <1>0
    <3>2. link' = [link EXCEPT ![c] = [k EXCEPT !.since = listener.msg]]
      BY <1>1, <2>1, <3>1 DEF Join
    <3>3. [k EXCEPT !.since = listener.msg] =
            [open |-> k.open, n |-> k.n, inbox |-> k.inbox, got |-> k.got,
             since |-> listener.msg]
      BY ONLY <3>1, LinkWith
    <3>4. link'[c] = [open |-> k.open, n |-> k.n, inbox |-> k.inbox, got |-> k.got,
                      since |-> listener.msg]
      BY <1>0, <3>2, <3>3
    <3> QED BY <1>0, <2>1, <3>1, <3>2, <3>4
  <2>2. CASE ~Live(ws)
    BY <2>2 DEF Join
  <2> QED BY <2>1, <2>2
<1>4. Numbered'
  BY <1>2 DEF FeedInv, Numbered
<1>5. \A d \in Clients : link'[d].n = link[d].n /\ link'[d].open = link[d].open
                        /\ link'[d].got = link[d].got
  BY <1>3
<1>6. \A vs \in Connection : vs[1] \in Clients
  BY DEF Connection
<1>7. Known'
  BY <1>0, <1>2, <1>5, <1>6 DEF FeedInv, Known
<1>8. Held'
  BY <1>0, <1>2, <1>5, <1>6 DEF FeedInv, Held, Live
<1>9. Untouched'
  BY <1>2, <1>5 DEF FeedInv, Untouched, Joined
<1>10. ASSUME NEW d \in Clients
       PROVE  /\ Consecutive(link'[d].got)
              /\ link'[d].open /\ <<d, link'[d].n>> \in conns' =>
                   CaughtUp(link'[d], <<d, link'[d].n>>, listener')
  <2>0. Consecutive(link[d].got) /\ (Joined(d) => CaughtUp(link[d], <<d, link[d].n>>, listener))
    BY DEF FeedInv, Delivered
  <2>1. CASE d = c /\ Live(ws)
    <3>1. PICK k \in Link : k = link'[c]
      BY <1>0
    <3>2. k.since = listener.msg /\ k.got = link[c].got /\ k.n = n /\ link[c].n = n
          /\ link[c].open
      BY <1>1, <1>3, <2>1, <3>1 DEF Live
    <3>3. CASE Joined(c)
      <4>1. CaughtUp(link[c], ws, listener)
        BY <1>1, <2>0, <2>1, <3>2, <3>3
      <4>2. CASE k.got = <<>>
        <5>1. Reach(k) = listener.msg
          BY <3>2, <4>2 DEF Reach
        <5> QED BY <1>0, <1>1, <1>2, <2>0, <2>1, <3>1, <3>2, <4>2, <5>1 DEF CaughtUp
      <4>3. CASE k.got # <<>>
        <5>1. Reach(k) = Reach(link[c])
          BY <3>2, <4>3 DEF Reach
        <5>2. k.got[1] <= k.since + 1
          <6>1. k.got \in Seq(Nat) /\ Len(k.got) \in Nat \ {0}
            BY <3>1, <4>3 DEF Link
          <6>2. PICK f \in Nat, l \in Nat : f = k.got[1] /\ l = k.got[Len(k.got)]
            BY <6>1
          <6>3. l = f + Len(k.got) - 1
            <7>1. Consecutive(k.got)
              BY <2>0, <2>1, <3>2
            <7>2. Len(k.got) \in DOMAIN k.got
              BY <6>1
            <7>3. k.got[Len(k.got)] = k.got[1] + Len(k.got) - 1
              BY <7>1, <7>2 DEF Consecutive
            <7> QED BY <6>2, <7>3
          <6>4. l <= listener.msg
            BY <1>0, <4>1, <4>3, <5>1, <6>2 DEF CaughtUp, Reach
          <6> QED BY <1>0, <3>2, <6>1, <6>2, <6>3, <6>4
        <5> QED BY <1>1, <1>2, <2>0, <2>1, <3>1, <3>2, <4>1, <5>1, <5>2 DEF CaughtUp
      <4> QED BY <4>2, <4>3
    <3>4. CASE ~Joined(c)
      <4>1. k.got = <<>> /\ Reach(k) = listener.msg
        BY <3>2, <3>4 DEF FeedInv, Untouched, Reach
      <4>2. ws \notin listener.visited
        BY <1>1, <2>1, <3>2, <3>4 DEF FeedInv, Held, Joined
      <4> QED BY <1>0, <1>1, <1>2, <2>0, <2>1, <3>1, <3>2, <4>1, <4>2 DEF CaughtUp, Served
    <3> QED BY <3>3, <3>4
  <2>2. CASE d # c \/ ~Live(ws)
    <3>1. link'[d] = link[d]
      BY <1>3, <2>2
    <3>2. link[d].open /\ <<d, link[d].n>> = ws => d = c /\ Live(ws)
      BY <1>1 DEF Live
    <3>3. link[d].open /\ <<d, link[d].n>> \in conns' => Joined(d)
      BY <1>2, <2>2, <3>2 DEF Joined
    <3> QED BY <1>2, <2>0, <3>1, <3>3
  <2> QED BY <2>1, <2>2
<1>11. Delivered'
  BY <1>10 DEF Delivered, Joined
<1> QED BY <1>4, <1>7, <1>8, <1>9, <1>11 DEF Rest

LEMMA CloseStep == ASSUME FeedInv, TypeOK', NEW c \in Clients, Close(c) PROVE Rest'
<1>0. /\ link \in [Clients -> Link] /\ link' \in [Clients -> Link]
      /\ accepted \in SUBSET Connection /\ conns \in SUBSET Connection
      /\ listener.visited \in SUBSET Connection
  BY DEF FeedInv, TypeOK, Listener
<1>1. /\ queue' = queue /\ published' = published /\ listener' = listener
      /\ conns' = conns /\ accepted' = accepted
  BY DEF Close
<1>2. /\ \A d \in Clients \ {c} : link'[d] = link[d]
      /\ ~link'[c].open /\ link'[c].n = link[c].n /\ link'[c].got = <<>>
  <2>1. PICK n \in Nat : n = link[c].n
    BY <1>0 DEF Link
  <2>2. link' = [link EXCEPT ![c] = Closed(n)]
    BY <2>1 DEF Close
  <2>3. link'[c] = [open |-> FALSE, n |-> n, inbox |-> <<>>, got |-> <<>>, since |-> 0]
    BY <1>0, <2>2 DEF Closed
  <2> QED BY <1>0, <2>1, <2>2, <2>3
<1>3. \A vs \in Connection : vs[1] \in Clients
  BY DEF Connection
<1>4. \A d \in Clients : link'[d].n = link[d].n /\ (link'[d].open => link[d].open)
  BY <1>2
<1>5. Numbered'
  BY <1>1 DEF FeedInv, Numbered
<1>6. Known'
  BY <1>0, <1>1, <1>3, <1>4 DEF FeedInv, Known
<1>7. Held'
  BY <1>0, <1>1, <1>3, <1>4 DEF FeedInv, Held, Live
<1>8. Untouched'
  BY <1>1, <1>2 DEF FeedInv, Untouched, Joined
<1>9. Consecutive(link'[c].got)
  BY <1>2 DEF Consecutive
<1>10. Delivered'
  BY <1>1, <1>2, <1>9 DEF FeedInv, Delivered, Joined
<1> QED BY <1>5, <1>6, <1>7, <1>8, <1>10 DEF Rest

LEMMA DisconnectStep == ASSUME FeedInv, NEW ws \in conns, Disconnect(ws) PROVE Rest'
<1>1. /\ queue' = queue /\ published' = published /\ listener' = listener /\ link' = link
      /\ conns' = conns \ {ws} /\ accepted' = accepted /\ ~Live(ws)
  BY DEF Disconnect
<1>2. Numbered' /\ Known' /\ Held'
  BY <1>1 DEF FeedInv, Numbered, Known, Held, Live
<1>3. \A c \in Clients : link[c].open => <<c, link[c].n>> # ws
  BY <1>1 DEF Live
<1>4. Untouched' /\ Delivered'
  BY <1>1, <1>3 DEF FeedInv, Untouched, Delivered, Joined
<1> QED BY <1>2, <1>4 DEF Rest

\* What onmessage leaves of the connection it reads.
LEMMA ReadFrame ==
    ASSUME TypeOK, NEW c \in Clients, Receive(c)
    PROVE  /\ \A d \in Clients \ {c} : link'[d] = link[d]
           /\ link[c].inbox # <<>>
           /\ link'[c] = [open |-> link[c].open, n |-> link[c].n, inbox |-> Tail(link[c].inbox),
                          got |-> link[c].got, since |-> link[c].since]
<1>0. link \in [Clients -> Link]
  BY DEF TypeOK
<1>1. PICK k \in Link : k = link[c]
  BY <1>0
<1>2. [k EXCEPT !.inbox = Tail(k.inbox)] =
        [open |-> k.open, n |-> k.n, inbox |-> Tail(k.inbox), got |-> k.got, since |-> k.since]
  BY ONLY <1>1, LinkWith
<1>3. link' = [link EXCEPT ![c] = [k EXCEPT !.inbox = Tail(k.inbox)]] /\ link[c].inbox # <<>>
  BY <1>1 DEF Receive
<1> QED BY <1>0, <1>1, <1>2, <1>3

LEMMA ReceiveStep == ASSUME FeedInv, NEW c \in Clients, Receive(c) PROVE Rest'
<1>0. accepted \in SUBSET Connection /\ conns \in SUBSET Connection
      /\ listener.visited \in SUBSET Connection
  BY DEF FeedInv, TypeOK, Listener
<1>1. /\ queue' = queue /\ published' = published /\ listener' = listener
      /\ conns' = conns /\ accepted' = accepted
  BY DEF Receive
<1>2. \A d \in Clients : /\ link'[d].n = link[d].n /\ link'[d].open = link[d].open
                        /\ link'[d].got = link[d].got /\ link'[d].since = link[d].since
  <2>1. /\ \A d \in Clients \ {c} : link'[d] = link[d]
        /\ link'[c] = [open |-> link[c].open, n |-> link[c].n, inbox |-> Tail(link[c].inbox),
                       got |-> link[c].got, since |-> link[c].since]
    BY ReadFrame DEF FeedInv
  <2> QED BY <2>1
<1>3. \A vs \in Connection : vs[1] \in Clients
  BY DEF Connection
<1>4. Numbered' /\ Known'
  BY <1>0, <1>1, <1>2, <1>3 DEF FeedInv, Numbered, Known
<1>5. Held'
  BY <1>0, <1>1, <1>2, <1>3 DEF FeedInv, Held, Live
<1>6. Untouched'
  BY <1>1, <1>2 DEF FeedInv, Untouched, Joined
<1>7. Delivered'
  BY <1>1, <1>2 DEF FeedInv, Delivered, Joined, CaughtUp, Reach
<1> QED BY <1>4, <1>5, <1>6, <1>7 DEF Rest

LEMMA RestartStep == ASSUME FeedInv, Restart PROVE Rest'
<1>0. published \in Nat /\ link \in [Clients -> Link]
  BY DEF FeedInv, TypeOK
<1>1. /\ listener'.msg = published /\ listener'.pc = "starting"
      /\ listener'.visited = {} /\ listener'.stale = {}
  <2>1. PICK l \in Listener : l = NewListener
    BY NewListenerType
  <2>2. listener' = [pc |-> l.pc, msg |-> published, at |-> l.at, before |-> l.before,
                     visited |-> l.visited, stale |-> l.stale]
    BY <1>0, <2>1, ListenerWith DEF Restart
  <2> QED BY <2>1, <2>2, NewListenerType
<1>2. /\ queue' = <<>> /\ published' = published /\ accepted' = {} /\ conns' = {}
      /\ \A c \in Clients : link'[c].got = <<>>
  BY DEF Restart, Closed
<1>3. Numbered' /\ Known' /\ Held'
  BY <1>0, <1>1, <1>2 DEF Numbered, Known, Held
<1>4. Untouched' /\ Delivered'
  BY <1>2 DEF Untouched, Delivered, Joined, Consecutive
<1> QED BY <1>3, <1>4 DEF Rest

\* A frame that is sent keeps the order on its connection.
LEMMA FrameInOrder ==
    ASSUME NEW s \in Seq(Nat), NEW m \in Nat, Consecutive(s),
           s # <<>> => s[Len(s)] = m - 1
    PROVE  /\ Append(s, m) # <<>> /\ Append(s, m)[Len(Append(s, m))] = m
           /\ Consecutive(Append(s, m))
           /\ Append(s, m)[1] = IF s = <<>> THEN m ELSE s[1]
<1>1. CASE s = <<>>
  <2>1. Append(s, m) = <<m>>
    BY <1>1
  <2> QED BY <1>1, <2>1 DEF Consecutive
<1>2. CASE s # <<>>
  <2>1. PICK n \in Nat : n = Len(s) /\ n > 0
    BY <1>2
  <2>2. PICK r \in Seq(Nat) : r = Append(s, m)
    BY AppendProperties
  <2>3. Len(r) = n + 1 /\ r[n + 1] = m /\ \A i \in 1 .. n : r[i] = s[i]
    BY <2>1, <2>2
  <2>4. PICK f \in Nat : f = s[1]
    BY <2>1
  <2>5. \A i \in 1 .. n : s[i] = f + i - 1
    <3>1. \A i \in DOMAIN s : s[i] = s[1] + i - 1
      BY DEF Consecutive
    <3>2. DOMAIN s = 1 .. n
      BY <2>1
    <3> QED BY <2>4, <3>1, <3>2
  <2>6. m - 1 = f + n - 1
    BY <1>2, <2>1, <2>5
  <2>7. r[1] = f
    BY <2>1, <2>3, <2>4
  <2>8. ASSUME NEW i \in 1 .. n + 1 PROVE r[i] = f + i - 1
    <3>1. CASE i \in 1 .. n
      BY <2>3, <2>5, <3>1
    <3>2. CASE i = n + 1
      <4>1. m = f + (n + 1) - 1
        BY <2>1, <2>4, <2>6
      <4> QED BY <2>3, <3>2, <4>1
    <3> QED BY <2>1, <3>1, <3>2
  <2>9. Consecutive(r)
    BY <2>1, <2>2, <2>3, <2>7, <2>8 DEF Consecutive
  <2> QED BY <1>2, <2>1, <2>2, <2>3, <2>4, <2>7, <2>9
<1> QED BY <1>1, <1>2

\* What a send leaves of the connection to which the loop has come, or of
\* another.
FrameOrNot(c) ==
    /\ link'[c].open = link[c].open /\ link'[c].n = link[c].n
    /\ link'[c].since = link[c].since
    /\ \/ link'[c].got = link[c].got /\ (link[c].open => listener.at # <<c, link[c].n>>)
       \/ /\ link'[c].got = Append(link[c].got, listener.msg)
          /\ link[c].open /\ listener.at = <<c, link[c].n>>

\* A connection to which the loop has come is sent the message, and then
\* has had them all.
LEMMA ServedCatchesUp ==
    ASSUME FeedInv, listener.pc = "sending", NEW c \in Clients, Joined(c),
           link'[c] \in Link, FrameOrNot(c)
    PROVE  /\ Consecutive(link'[c].got)
           /\ link'[c].got # <<>> => link'[c].got[1] <= link'[c].since + 1
           /\ Reach(link'[c]) \in {listener.msg - 1, listener.msg}
           /\ <<c, link[c].n>> \in listener.visited \/ <<c, link[c].n>> \notin listener.before =>
                Reach(link'[c]) = listener.msg
           /\ <<c, link[c].n>> \notin listener.visited /\ link'[c].got # <<>> =>
                Reach(link'[c]) = listener.msg - 1
<1>0. /\ link \in [Clients -> Link] /\ listener.msg \in Nat
      /\ Consecutive(link[c].got) /\ CaughtUp(link[c], <<c, link[c].n>>, listener)
      /\ listener.at \in listener.visited
  BY DEF FeedInv, TypeOK, Listener, Delivered, Held
<1> PICK k \in Link, j \in Link : k = link[c] /\ j = link'[c]
  BY <1>0
<1> DEFINE ws == <<c, link[c].n>>
<1>1. CASE j.got = k.got /\ listener.at # ws
  <2>1. Reach(j) = Reach(k) /\ j.since = k.since
    BY <1>1 DEF Reach, FrameOrNot
  <2>2. Served(listener, ws) <=> ws \in listener.visited
    BY <1>1 DEF Served
  <2> QED BY <1>0, <1>1, <2>1, <2>2 DEF CaughtUp
<1>2. CASE j.got = Append(k.got, listener.msg) /\ listener.at = ws
  <2>1. PICK m \in Nat, s \in Seq(Nat), o \in Nat :
          m = listener.msg /\ s = k.got /\ o = k.since
    BY <1>0 DEF Link
  <2>2. ~Served(listener, ws) /\ ws \in listener.visited
    BY <1>0, <1>2 DEF Served
  <2>3. /\ s # <<>> => s[Len(s)] = m - 1 /\ s[1] <= o + 1
        /\ s = <<>> => o \in {m - 1, m}
    BY <1>0, <2>1, <2>2 DEF CaughtUp, Reach
  <2>4. /\ j.got # <<>> /\ j.got[Len(j.got)] = m /\ Consecutive(j.got)
        /\ j.got[1] = IF s = <<>> THEN m ELSE s[1]
    <3>1. Consecutive(s) /\ (s # <<>> => s[Len(s)] = m - 1) /\ j.got = Append(s, m)
      BY <1>0, <1>2, <2>1, <2>3
    <3> QED BY <2>1, <3>1, FrameInOrder
  <2>5. j.got[1] <= o + 1
    BY <2>1, <2>3, <2>4
  <2>6. Reach(j) = m /\ j.since = o
    BY <2>1, <2>4 DEF Reach, FrameOrNot
  <2> QED BY <2>1, <2>2, <2>4, <2>5, <2>6
<1> QED BY <1>1, <1>2 DEF FrameOrNot, Joined

LEMMA LoopStep ==
    ASSUME FeedInv, TypeOK', listener.pc = "sending", NEW failed \in SUBSET Connection,
           LoopDone(failed), listener'.msg = listener.msg,
           \A ws \in failed : ws = listener.at /\ ~Live(ws),
           UNCHANGED <<published, queue, accepted>>,
           \A c \in Clients : FrameOrNot(c)
    PROVE  Rest'
<1>0. /\ link \in [Clients -> Link] /\ link' \in [Clients -> Link]
      /\ accepted \in SUBSET Connection /\ conns \in SUBSET Connection
      /\ listener.visited \in SUBSET Connection /\ listener.msg \in Nat
      /\ listener.at \in listener.visited
  BY DEF FeedInv, TypeOK, Listener, Held
<1>1. \A d \in Clients : link'[d].n = link[d].n /\ link'[d].open = link[d].open
  BY DEF FrameOrNot
<1>2. \A vs \in Connection : vs[1] \in Clients
  BY DEF Connection
<1>3. Numbered'
  BY DEF FeedInv, Numbered
<1>4. /\ listener'.visited \subseteq listener.visited \cup conns
      /\ conns' \subseteq conns
  BY DEF LoopDone
<1>5. Known'
  BY <1>0, <1>1, <1>2, <1>4 DEF FeedInv, Known
<1>6. Held'
  <2>1. CASE listener'.visited = {} /\ listener'.stale = {} /\ listener'.pc # "sending"
    BY <2>1 DEF Held
  <2>2. CASE /\ listener'.stale = listener.stale \cup failed
             /\ listener'.at \in conns \ listener.visited
             /\ listener'.visited = listener.visited \cup {listener'.at}
             /\ conns' = conns
    BY <1>0, <1>1, <1>2, <2>2 DEF FeedInv, Held, Live
  <2> QED BY <2>1, <2>2 DEF LoopDone
<1>7. \A ws \in conns \ conns' : ~Live(ws)
  BY DEF LoopDone, FeedInv, Held
<1>8. ASSUME NEW c \in Clients, Joined(c) PROVE link'[c].open /\ <<c, link'[c].n>> \in conns'
  <2>1. Live(<<c, link[c].n>>)
    BY <1>8 DEF Joined, Live
  <2> QED BY <1>1, <1>7, <1>8, <2>1 DEF Joined
<1>9. ASSUME NEW c \in Clients, ~Joined(c)
      PROVE  link'[c].got = <<>> /\ ~(link'[c].open /\ <<c, link'[c].n>> \in conns')
  <2>1. link[c].got = <<>>
    BY <1>9 DEF FeedInv, Untouched
  <2>2. ~(link[c].open /\ listener.at = <<c, link[c].n>>)
    BY <1>0, <1>9 DEF FeedInv, Held, Live, Joined
  <2>3. link'[c].got = link[c].got
    BY <2>2 DEF FrameOrNot
  <2> QED BY <1>1, <1>4, <1>9, <2>1, <2>3 DEF Joined
<1>10. Untouched'
  BY <1>8, <1>9 DEF Untouched, Joined
<1>11. ASSUME NEW c \in Clients
       PROVE  /\ Consecutive(link'[c].got)
              /\ link'[c].open /\ <<c, link'[c].n>> \in conns' =>
                   CaughtUp(link'[c], <<c, link'[c].n>>, listener')
  <2>1. CASE ~Joined(c)
    BY <1>9, <2>1 DEF Consecutive
  <2>2. CASE Joined(c)
    <3> PICK ws : ws = <<c, link[c].n>>
      OBVIOUS
    <3>1. link'[c] \in Link /\ FrameOrNot(c) /\ ws = <<c, link'[c].n>> /\ ws \in conns
      BY <1>0, <1>1, <2>2 DEF Joined
    <3>2. /\ Consecutive(link'[c].got)
          /\ link'[c].got # <<>> => link'[c].got[1] <= link'[c].since + 1
          /\ Reach(link'[c]) \in {listener.msg - 1, listener.msg}
          /\ ws \in listener.visited \/ ws \notin listener.before =>
               Reach(link'[c]) = listener.msg
          /\ ws \notin listener.visited /\ link'[c].got # <<>> =>
               Reach(link'[c]) = listener.msg - 1
      BY <2>2, <3>1, ServedCatchesUp
    <3>3. CASE listener'.pc = "dead"
      BY <3>2, <3>3 DEF CaughtUp
    <3>4. CASE /\ listener'.pc = "sending" /\ listener'.before = listener.before
               /\ listener'.at \in conns \ listener.visited
               /\ listener'.visited = listener.visited \cup {listener'.at}
      <4>1. Served(listener', ws) <=> ws \in listener.visited
        BY <3>4 DEF Served
      <4> QED BY <3>1, <3>2, <3>4, <4>1 DEF CaughtUp
    <3>5. CASE /\ listener'.pc = "waiting"
               /\ listener.before \cap conns \subseteq listener.visited
      BY <3>1, <3>2, <3>5 DEF CaughtUp
    <3> QED BY <3>1, <3>2, <3>3, <3>4, <3>5 DEF LoopDone
  <2> QED BY <2>1, <2>2
<1>12. Delivered'
  BY <1>11 DEF Delivered, Joined
<1> QED BY <1>3, <1>5, <1>6, <1>10, <1>12 DEF Rest

LEMMA SentStep == ASSUME FeedInv, TypeOK', Sent PROVE Rest'
<1>0. /\ listener.pc = "sending" /\ Loop({}) /\ {} \in SUBSET Connection /\ TypeOK
      /\ UNCHANGED <<published, queue, accepted>>
      /\ link \in [Clients -> Link]
      /\ listener.at \in Connection
  BY DEF Sent, FeedInv, TypeOK, Held, Listener
<1>1. listener'.msg = listener.msg /\ LoopDone({})
  BY <1>0, LoopTurns
<1>2. \A c \in Clients : FrameOrNot(c)
  <2>1. CASE Live(listener.at)
    <3>1. PICK c \in Clients :
            /\ link[c].open /\ listener.at = <<c, link[c].n>>
            /\ link' = [link EXCEPT ![c] = WithFrame(link[c], listener.msg)]
      BY <1>0, <2>1, SentFrame
    <3>2. ASSUME NEW d \in Clients PROVE FrameOrNot(d)
      <4>1. CASE d = c
        <5>1. link'[d] = WithFrame(link[d], listener.msg)
          BY <1>0, <3>1, <4>1
        <5>2. /\ link'[d].open = link[d].open /\ link'[d].n = link[d].n
              /\ link'[d].since = link[d].since
              /\ link'[d].got = Append(link[d].got, listener.msg)
          BY ONLY <5>1 DEF WithFrame
        <5>3. link[d].open /\ listener.at = <<d, link[d].n>>
          BY <3>1, <4>1
        <5> QED BY ONLY <5>2, <5>3 DEF FrameOrNot
      <4>2. CASE d # c
        <5>1. link'[d] = link[d] /\ listener.at # <<d, link[d].n>>
          BY <1>0, <3>1, <4>2
        <5> QED BY <5>1 DEF FrameOrNot
      <4> QED BY <4>1, <4>2
    <3> QED BY <3>2
  <2>2. CASE ~Live(listener.at)
    <3>1. link' = link
      BY <2>2 DEF Sent
    <3> QED BY <2>2, <3>1 DEF FrameOrNot, Live
  <2> QED BY <2>1, <2>2
<1> QED BY <1>0, <1>1, <1>2, LoopStep

LEMMA SendFailsStep == ASSUME FeedInv, TypeOK', SendFails PROVE Rest'
<1>0. /\ listener.pc = "sending" /\ Loop({listener.at}) /\ TypeOK
      /\ UNCHANGED <<published, queue, accepted>>
      /\ link' = link /\ ~Live(listener.at)
      /\ {listener.at} \in SUBSET Connection
  BY DEF SendFails, FeedInv, TypeOK, Held, Listener
<1>1. listener'.msg = listener.msg /\ LoopDone({listener.at})
  BY <1>0, LoopTurns
<1>2. \A c \in Clients : FrameOrNot(c)
  BY <1>0 DEF FrameOrNot, Live
<1>3. \A ws \in {listener.at} : ws = listener.at /\ ~Live(ws)
  BY <1>0
<1> QED BY <1>0, <1>1, <1>2, <1>3, LoopStep

LEMMA FeedInitial == Init => FeedInv
<1> SUFFICES ASSUME Init PROVE FeedInv
  OBVIOUS
<1>1. /\ listener \in Listener /\ listener.msg = 0 /\ listener.visited = {}
      /\ listener.stale = {} /\ listener.pc = "starting"
  BY NewListenerType DEF Init
<1>2. /\ published = 0 /\ queue = <<>> /\ accepted = {} /\ conns = {} /\ restarts = 0
      /\ link = [c \in Clients |-> Closed(0)] /\ ticks = [c \in Clients |-> <<>>]
  BY DEF Init
<1>3. link \in [Clients -> Link] /\ \A c \in Clients : link[c].got = <<>>
  <2>1. Closed(0) \in Link /\ Closed(0).got = <<>>
    BY ClosedType DEF Closed
  <2> QED BY <1>2, <2>1
<1>4. TypeOK
  BY <1>1, <1>2, <1>3 DEF TypeOK
<1>5. Numbered /\ Known /\ Held
  BY <1>1, <1>2 DEF Numbered, Known, Held
<1>6. Untouched /\ Delivered
  BY <1>2, <1>3 DEF Untouched, Delivered, Joined, Consecutive
<1> QED BY <1>4, <1>5, <1>6 DEF FeedInv

LEMMA FeedStep == FeedInv /\ [Next]_vars => FeedInv'
<1> SUFFICES ASSUME FeedInv, [Next]_vars PROVE FeedInv'
  OBVIOUS
<1>1. TypeOK'
  BY FeedTypeStep DEF FeedInv
<1>2. CASE ListenerStep
  BY <1>1, <1>2, SubscribeStep, TakeStep, SentStep, SendFailsStep DEF ListenerStep, FeedInv, Rest
<1>3. ASSUME NEW ws \in accepted, Join(ws) PROVE FeedInv'
  BY <1>1, <1>3, JoinStep DEF FeedInv, Rest
<1>4. ASSUME NEW ws \in conns, Disconnect(ws) PROVE FeedInv'
  BY <1>1, <1>4, DisconnectStep DEF FeedInv, Rest
<1>5. ASSUME NEW c \in Clients, Connect(c) \/ Close(c) \/ Receive(c) PROVE FeedInv'
  BY <1>1, <1>5, ConnectStep, CloseStep, ReceiveStep DEF FeedInv, Rest
<1>6. CASE Publish \/ Restart
  BY <1>1, <1>6, PublishStep, RestartStep DEF FeedInv, Rest
<1>7. CASE UNCHANGED vars
  <2>1. Numbered' /\ Known' /\ Held'
    BY <1>7 DEF vars, FeedInv, Numbered, Known, Held, Live
  <2>2. Untouched' /\ Delivered'
    BY <1>7 DEF vars, FeedInv, Untouched, Delivered, Joined, CaughtUp, Reach, Served, Consecutive
  <2> QED BY <1>1, <2>1, <2>2 DEF FeedInv
<1> QED BY <1>2, <1>3, <1>4, <1>5, <1>6, <1>7 DEF Next

LEMMA FeedInvariance == Spec => []FeedInv
  BY FeedInitial, FeedStep, PTL DEF Spec

(***************************************************************************)
(* The feed's state is well typed, however often dashboards reconnect and  *)
(* the API restarts.                                                       *)
(***************************************************************************)
THEOREM TypeCorrect == Spec => []TypeOK
<1>1. FeedInv => TypeOK
  BY DEF FeedInv
<1> QED BY <1>1, FeedInvariance, PTL

LEMMA CaughtUpHasAll ==
    ASSUME NEW s \in Seq(Nat), NEW since \in Nat, NEW m \in Nat, Consecutive(s),
           s # <<>> => s[1] <= since + 1 /\ m <= s[Len(s)],
           s = <<>> => m <= since, since < m
    PROVE  \E i \in DOMAIN s : s[i] = m
<1>1. s # <<>>
  OBVIOUS
<1>2. PICK n \in Nat, f \in Nat : n = Len(s) /\ n > 0 /\ f = s[1]
  BY <1>1
<1>3. \A i \in 1 .. n : s[i] = f + i - 1
  <2>1. \A i \in DOMAIN s : s[i] = s[1] + i - 1
    BY DEF Consecutive
  <2>2. DOMAIN s = 1 .. n
    BY <1>2
  <2> QED BY <1>2, <2>1, <2>2
<1>4. f <= since + 1 /\ m <= f + n - 1
  BY <1>1, <1>2, <1>3
<1>5. m - f + 1 \in 1 .. n
  BY <1>2, <1>4
<1>6. s[m - f + 1] = m
  BY <1>2, <1>3, <1>5
<1> QED BY <1>2, <1>5, <1>6

(***************************************************************************)
(* A connection is sent consecutive messages, and from its joining the set *)
(* on all those whose broadcasts are over, whatever sends fail             *)
(* (ws_manager.py:45-52).  A broadcast that ends the listener is not over: *)
(* what it leaves unsent, and all that comes later, is lost.               *)
(***************************************************************************)
THEOREM FinishedBroadcastsReachAll == Spec => []NoGapsWhileListening
<1>1. FeedInv => NoGapsWhileListening
  <2> SUFFICES ASSUME FeedInv, NEW c \in Clients
               PROVE  /\ \A i \in 1 .. Len(link[c].got) - 1 :
                            link[c].got[i + 1] = link[c].got[i] + 1
                      /\ Joined(c) => \A m \in link[c].since + 1 .. listener.msg :
                            Behind(m) => \E i \in DOMAIN link[c].got : link[c].got[i] = m
    BY DEF NoGapsWhileListening
  <2>0. link \in [Clients -> Link] /\ listener \in Listener
    BY DEF FeedInv, TypeOK
  <2>1. PICK s \in Seq(Nat), since \in Nat, msg \in Nat :
          s = link[c].got /\ since = link[c].since /\ msg = listener.msg
    BY <2>0 DEF Link, Listener
  <2>2. Consecutive(s) /\ (Joined(c) => CaughtUp(link[c], <<c, link[c].n>>, listener))
    BY <2>1 DEF FeedInv, Delivered
  <2>3. ASSUME NEW i \in 1 .. Len(s) - 1 PROVE s[i + 1] = s[i] + 1
    <3>1. PICK f \in Nat : f = s[1]
      BY <2>1, <2>3
    <3>2. i \in DOMAIN s /\ i + 1 \in DOMAIN s
      BY <2>1, <2>3
    <3>3. s[i] = f + i - 1 /\ s[i + 1] = f + (i + 1) - 1
      BY <2>2, <3>1, <3>2 DEF Consecutive
    <3> QED BY <2>3, <3>1, <3>3
  <2>4. ASSUME Joined(c), NEW m \in since + 1 .. msg, Behind(m)
        PROVE  \E i \in DOMAIN s : s[i] = m
    <3>1. /\ s # <<>> => s[1] <= since + 1
          /\ Reach(link[c]) \in {msg - 1, msg}
          /\ listener.pc = "waiting" => Reach(link[c]) = msg
      BY <2>1, <2>2, <2>4 DEF CaughtUp
    <3>2. m \in Nat /\ since < m /\ (m < msg \/ (m = msg /\ listener.pc = "waiting"))
      BY <2>1, <2>4 DEF Behind
    <3>3. Reach(link[c]) \in Int /\ m <= Reach(link[c])
      BY <2>1, <3>1, <3>2
    <3>4. Reach(link[c]) = IF s = <<>> THEN since ELSE s[Len(s)]
      BY <2>1 DEF Reach
    <3> QED BY <2>1, <2>2, <3>1, <3>2, <3>3, <3>4, CaughtUpHasAll
  <2> QED BY <2>1, <2>3, <2>4
<1> QED BY <1>1, FeedInvariance, PTL

----------------------------------------------------------------------------
\* The listener never goes back.
LEMMA MessagesAdvance ==
    ASSUME FeedInv, [Next]_vars
    PROVE  /\ listener.msg \in Nat /\ listener'.msg \in Nat
           /\ listener.msg <= listener'.msg
<1>0. /\ listener \in Listener /\ listener' \in Listener /\ listener.msg \in Nat
      /\ listener'.msg \in Nat /\ published \in Nat /\ TypeOK
  BY FeedTypeStep DEF FeedInv, TypeOK, Listener
<1>1. CASE Subscribe
  <2>1. listener' = [pc |-> "waiting", msg |-> listener.msg, at |-> listener.at,
                     before |-> listener.before, visited |-> listener.visited,
                     stale |-> listener.stale]
    BY <1>0, <1>1, ListenerWith DEF Subscribe
  <2> QED BY <1>0, <2>1
<1>2. CASE Take
  BY <1>0, <1>2, TakeTurns DEF FeedInv
<1>3. CASE Sent \/ SendFails
  <2>1. PICK failed \in SUBSET Connection : Loop(failed) /\ listener.pc = "sending"
    <3>1. listener.pc = "sending" /\ {} \in SUBSET Connection
      BY <1>3 DEF Sent, SendFails
    <3>2. {listener.at} \in SUBSET Connection
      BY <1>0, <3>1 DEF FeedInv, Held, Listener
    <3> QED BY <1>3, <3>1, <3>2 DEF Sent, SendFails
  <2>2. listener'.msg = listener.msg
    BY <1>0, <2>1, LoopTurns
  <2> QED BY <1>0, <2>2
<1>4. CASE Restart
  <2>1. listener'.msg = published
    <3>1. PICK l \in Listener : l = NewListener
      BY NewListenerType
    <3>2. listener' = [l EXCEPT !.msg = published]
      BY <1>4, <3>1 DEF Restart
    <3>3. listener' = [pc |-> l.pc, msg |-> published, at |-> l.at, before |-> l.before,
                       visited |-> l.visited, stale |-> l.stale]
      BY <1>0, <3>1, <3>2, ListenerWith
    <3> QED BY <3>3
  <2>2. Len(queue) \in Nat /\ published = listener.msg + Len(queue)
    BY <1>0 DEF TypeOK, FeedInv, Numbered
  <2> QED BY <1>0, <2>1, <2>2
<1>5. listener' = listener => listener.msg <= listener'.msg
  BY <1>0
<1> QED BY <1>0, <1>1, <1>2, <1>3, <1>4, <1>5
        DEF Next, ListenerStep, Publish, Join, Disconnect, Connect, Close, Receive, vars

\* A frame more on its way.
LEMMA ShownWithFrame ==
    ASSUME NEW t \in Seq(Nat), NEW q \in Seq(Nat), NEW m \in Nat, Shown(t, q, m)
    PROVE  Shown(t, Append(q, m), m)
<1>1. PICK r \in Seq(Nat) : r = Append(q, m)
  BY AppendProperties
<1> PICK n \in Nat : n = Len(q)
  OBVIOUS
<1>2. /\ DOMAIN q = 1 .. n /\ DOMAIN r = 1 .. n + 1
      /\ r[n + 1] = m /\ \A i \in 1 .. n : r[i] = q[i] /\ q[i] \in Nat
  BY <1>1
<1>3. Ordered(q) /\ UpTo(q, m) /\ UpTo(t, m) /\ \A i \in DOMAIN q : UpTo(t, q[i])
  BY DEF Shown
<1>4. ASSUME NEW i \in DOMAIN r PROVE (i \in 1 .. n /\ r[i] = q[i]) \/ (i = n + 1 /\ r[i] = m)
  BY <1>1, <1>2
<1>5. UpTo(r, m)
  <2> SUFFICES ASSUME NEW i \in DOMAIN r PROVE r[i] <= m
    BY DEF UpTo
  <2>1. CASE i \in 1 .. n
    BY <1>2, <1>3, <2>1 DEF UpTo
  <2>2. CASE i = n + 1
    BY <1>2, <2>2
  <2> QED BY <1>4, <2>1, <2>2
<1>6. Ordered(r)
  BY <1>1, <1>2, <1>3, <1>4 DEF Ordered, UpTo
<1>7. \A i \in DOMAIN r : UpTo(t, r[i])
  BY <1>2, <1>3, <1>4
<1> QED BY <1>1, <1>3, <1>5, <1>6, <1>7 DEF Shown

\* A frame read: the ticks kept, and it.
LEMMA ShownWithTick ==
    ASSUME NEW t \in Seq(Nat), NEW q \in Seq(Nat), NEW m \in Nat, Shown(t, q, m), q # <<>>
    PROVE  Shown(Append(Kept(t), Head(q)), Tail(q), m)
<1>0. /\ Ordered(t) /\ UpTo(t, m) /\ Ordered(q) /\ UpTo(q, m) /\ Len(t) <= MaxTicks
      /\ \A i \in DOMAIN q : UpTo(t, q[i])
  BY DEF Shown
<1>1. PICK k \in Seq(Nat) : k = Kept(t)
  BY LatestTicks
<1>2. PICK a \in Nat : \A i \in DOMAIN k : i + a \in DOMAIN t /\ k[i] = t[i + a]
  BY <1>1, LatestTicks
<1>3. Len(k) < MaxTicks
  BY <1>0, <1>1, LatestTicks
<1>4. PICK r \in Seq(Nat) : r = Tail(q)
  <2>1. Tail(q) \in Seq(Nat)
    BY q # <<>>
  <2> QED BY <2>1
<1> PICK h \in Nat : h = Head(q)
  OBVIOUS
<1>5. /\ 1 \in DOMAIN q /\ q[1] = h
      /\ \A i \in DOMAIN r : i + 1 \in DOMAIN q /\ r[i] = q[i + 1] /\ 1 < i + 1
  BY <1>4
<1>6. PICK s \in Seq(Nat) : s = Append(k, h)
  BY <1>1, AppendProperties
<1> PICK n \in Nat : n = Len(k)
  BY <1>1
<1>7. /\ DOMAIN k = 1 .. n /\ DOMAIN s = 1 .. n + 1 /\ Len(s) = n + 1
      /\ s[n + 1] = h /\ \A i \in 1 .. n : s[i] = k[i]
  BY <1>1, <1>4, <1>6
<1>8. UpTo(k, h)
  BY <1>0, <1>2, <1>5 DEF UpTo
<1>9. Ordered(k)
  <2> SUFFICES ASSUME NEW i \in DOMAIN k, NEW j \in DOMAIN k, i < j PROVE k[i] <= k[j]
    BY DEF Ordered
  <2>1. i + a \in DOMAIN t /\ j + a \in DOMAIN t /\ i + a < j + a
    BY <1>2, <1>7
  <2> QED BY <1>0, <1>2, <2>1 DEF Ordered
<1>10. ASSUME NEW i \in DOMAIN s PROVE (i \in DOMAIN k /\ s[i] = k[i]) \/ (i = n + 1 /\ s[i] = h)
  <2>1. i \in 1 .. n \/ i = n + 1
    BY <1>7
  <2> QED BY <1>7, <2>1
<1>11. Ordered(s)
  BY <1>6, <1>7, <1>8, <1>9, <1>10 DEF Ordered, UpTo
<1>12. ASSUME NEW b \in Nat, h <= b PROVE UpTo(s, b)
  <2> SUFFICES ASSUME NEW i \in DOMAIN s PROVE s[i] <= b
    BY DEF UpTo
  <2>1. s[i] \in Nat /\ s[i] <= h
    BY <1>4, <1>6, <1>8, <1>10 DEF UpTo
  <2> QED BY <1>4, <1>12, <2>1
<1>13. h <= m /\ UpTo(r, m)
  BY <1>0, <1>5 DEF UpTo
<1>14. Ordered(r)
  <2> SUFFICES ASSUME NEW i \in DOMAIN r, NEW j \in DOMAIN r, i < j PROVE r[i] <= r[j]
    BY DEF Ordered
  <2>1. i + 1 \in DOMAIN q /\ j + 1 \in DOMAIN q /\ i + 1 < j + 1
    BY <1>4, <1>5
  <2> QED BY <1>0, <1>5, <2>1 DEF Ordered
<1>15. ASSUME NEW i \in DOMAIN r PROVE UpTo(s, r[i])
  <2>1. r[i] \in Nat /\ h <= r[i]
    BY <1>0, <1>4, <1>5 DEF Ordered
  <2> QED BY <1>12, <2>1
<1>16. UpTo(s, m) /\ Len(s) <= MaxTicks
  BY <1>3, <1>6, <1>7, <1>12, <1>13, FeedAssumption
<1> QED BY <1>1, <1>4, <1>6, <1>11, <1>13, <1>14, <1>15, <1>16 DEF Shown

LEMMA ShownLater ==
    ASSUME NEW t \in Seq(Nat), NEW q \in Seq(Nat), NEW m \in Nat, NEW k \in Nat,
           Shown(t, q, m), m <= k
    PROVE  Shown(t, q, k) /\ Shown(t, <<>>, k)
<1>1. ASSUME NEW s \in Seq(Nat), UpTo(s, m) PROVE UpTo(s, k)
  <2> SUFFICES ASSUME NEW i \in DOMAIN s PROVE s[i] <= k
    BY DEF UpTo
  <2>1. s[i] \in Nat /\ s[i] <= m
    BY <1>1 DEF UpTo
  <2> QED BY <2>1
<1>2. UpTo(t, k) /\ UpTo(q, k)
  BY <1>1 DEF Shown
<1>3. Ordered(<<>>) /\ UpTo(<<>>, k) /\ \A i \in DOMAIN <<>> : UpTo(t, <<>>[i])
  BY DEF Ordered, UpTo
<1> QED BY <1>2, <1>3 DEF Shown

LEMMA TicksStep == FeedInv /\ TicksInv /\ [Next]_vars => TicksInv'
<1> SUFFICES ASSUME FeedInv, TicksInv, [Next]_vars, NEW d \in Clients
             PROVE  Shown(ticks'[d], link'[d].inbox, listener'.msg)
  BY DEF TicksInv
<1>0. /\ TypeOK /\ link \in [Clients -> Link] /\ ticks \in [Clients -> Seq(Nat)]
  BY DEF FeedInv, TypeOK
<1>1. PICK t \in Seq(Nat), q \in Seq(Nat) : t = ticks[d] /\ q = link[d].inbox
  BY <1>0 DEF Link
<1>2. PICK m \in Nat, k \in Nat : m = listener.msg /\ k = listener'.msg /\ m <= k
  BY MessagesAdvance
<1>3. Shown(t, q, m) /\ Shown(t, q, k) /\ Shown(t, <<>>, k)
  <2>1. Shown(t, q, m)
    BY <1>1, <1>2 DEF TicksInv
  <2> QED BY <1>1, <1>2, <2>1, ShownLater
<1>4. CASE Sent
  <2>1. ticks' = ticks /\ listener.pc = "sending" /\ Loop({}) /\ {} \in SUBSET Connection
        /\ listener.at \in Connection
    BY <1>0, <1>4 DEF Sent, FeedInv, TypeOK, Held, Listener
  <2>2. k = m
    BY <1>0, <1>2, <2>1, LoopTurns
  <2>3. link'[d].inbox \in {q, Append(q, m)}
    <3>1. CASE Live(listener.at)
      <4>1. PICK c \in Clients : link' = [link EXCEPT ![c] = WithFrame(link[c], listener.msg)]
        BY <1>0, <1>4, <2>1, <3>1, SentFrame
      <4>2. CASE d = c
        <5>1. link'[d] = WithFrame(link[d], listener.msg)
          BY <1>0, <4>1, <4>2
        <5> QED BY <1>1, <1>2, <5>1 DEF WithFrame
      <4>3. CASE d # c
        BY <1>0, <1>1, <4>1, <4>3
      <4> QED BY <4>2, <4>3
    <3>2. CASE ~Live(listener.at)
      BY <1>1, <1>4, <3>2 DEF Sent
    <3> QED BY <3>1, <3>2
  <2>4. Shown(t, Append(q, m), m)
    BY <1>1, <1>2, <1>3, ShownWithFrame
  <2> QED BY <1>1, <1>2, <1>3, <2>1, <2>2, <2>3, <2>4
<1>5. ASSUME NEW c \in Clients, Receive(c) PROVE Shown(ticks'[d], link'[d].inbox, k)
  <2>1. /\ \A e \in Clients \ {c} : link'[e] = link[e]
        /\ link[c].inbox # <<>>
        /\ link'[c].inbox = Tail(link[c].inbox)
    <3>1. /\ \A e \in Clients \ {c} : link'[e] = link[e]
          /\ link[c].inbox # <<>>
          /\ link'[c] = [open |-> link[c].open, n |-> link[c].n, inbox |-> Tail(link[c].inbox),
                         got |-> link[c].got, since |-> link[c].since]
      BY <1>0, <1>5, ReadFrame
    <3>2. link'[c].inbox = Tail(link[c].inbox)
      BY ONLY <3>1
    <3> QED BY <3>1, <3>2
  <2>2. CASE d = c
    <3>1. ticks'[d] = Append(Kept(t), Head(q)) /\ link'[d].inbox = Tail(q) /\ q # <<>>
      BY <1>0, <1>1, <1>5, <2>1, <2>2 DEF Receive, Kept
    <3>2. Shown(Append(Kept(t), Head(q)), Tail(q), k)
      BY <1>1, <1>2, <1>3, <3>1, ShownWithTick
    <3> QED BY <3>1, <3>2
  <2>3. CASE d # c
    <3>1. ticks'[d] = ticks[d] /\ link'[d] = link[d]
      BY <1>0, <1>5, <2>1, <2>3 DEF Receive
    <3> QED BY <1>1, <1>3, <3>1
  <2> QED BY <2>2, <2>3
<1>6. ASSUME ticks' = ticks, link'[d].inbox \in {q, <<>>}
      PROVE  Shown(ticks'[d], link'[d].inbox, k)
  BY <1>1, <1>3, <1>6
<1>7. ASSUME NEW c \in Clients, Connect(c) \/ Close(c)
      PROVE  ticks' = ticks /\ link'[d].inbox \in {q, <<>>}
  <2>1. PICK n \in Nat : n = link[c].n /\ n + 1 \in Nat
    BY <1>0 DEF Link
  <2>2. /\ [Closed(n + 1) EXCEPT !.open = TRUE].inbox = <<>>
        /\ Closed(n).inbox = <<>>
    BY <2>1, ClosedType
  <2>3. \E e : e.inbox = <<>> /\ link' = [link EXCEPT ![c] = e]
    BY <1>7, <2>1, <2>2 DEF Connect, Close
  <2>4. link'[d] = link[d] \/ link'[d].inbox = <<>>
    BY <1>0, <2>3
  <2> QED BY <1>1, <1>7, <2>4 DEF Connect, Close
<1>8. ASSUME NEW ws \in accepted, Join(ws)
      PROVE  ticks' = ticks /\ link'[d].inbox = q
  <2>1. ws[1] \in Clients
    BY <1>0 DEF TypeOK, Connection
  <2>2. PICK e \in Link : e = link[ws[1]]
    BY <1>0, <2>1
  <2>3. [e EXCEPT !.since = listener.msg].inbox = e.inbox
    <3>1. [e EXCEPT !.since = listener.msg] =
            [open |-> e.open, n |-> e.n, inbox |-> e.inbox, got |-> e.got, since |-> listener.msg]
      BY ONLY <2>2, LinkWith
    <3> QED BY <3>1
  <2>4. link' = link \/ link' = [link EXCEPT ![ws[1]] = [e EXCEPT !.since = listener.msg]]
    BY <1>8, <2>2 DEF Join
  <2>5. link'[d].inbox = link[d].inbox
    BY <1>0, <2>2, <2>3, <2>4
  <2> QED BY <1>1, <1>8, <2>5 DEF Join
<1>9. CASE Restart
  <2>1. ticks' = ticks /\ link'[d].inbox = <<>>
    BY <1>9 DEF Restart, Closed
  <2> QED BY <1>2, <1>6, <2>1
<1>10. link' = link => link'[d].inbox = q
  BY <1>1
<1> QED BY <1>2, <1>4, <1>5, <1>6, <1>7, <1>8, <1>9, <1>10
        DEF Next, ListenerStep, Publish, Subscribe, Take, SendFails, Disconnect, vars

(***************************************************************************)
(* Every dashboard keeps at most MAX_TICKS ticks, in the order of their    *)
(* publication, across its reconnections and restarts of the API.          *)
(***************************************************************************)
THEOREM TicksStayInOrder == Spec => []TicksInOrder
<1>1. Init => TicksInv
  <2> SUFFICES ASSUME Init, NEW c \in Clients
               PROVE  Shown(ticks[c], link[c].inbox, listener.msg)
    BY DEF TicksInv
  <2>1. ticks[c] = <<>> /\ link[c].inbox = <<>>
    BY DEF Init, Closed
  <2>2. Shown(<<>>, <<>>, listener.msg)
    BY FeedAssumption DEF Shown, Ordered, UpTo
  <2> QED BY <2>1, <2>2
<1>2. TicksInv => TicksInOrder
  BY DEF TicksInv, TicksInOrder, Shown, Ordered
<1> QED BY <1>1, <1>2, TicksStep, FeedInvariance, PTL DEF Spec
=============================================================================
