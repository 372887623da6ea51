---------------------------- MODULE EventSocket ----------------------------
(***************************************************************************)
(* The connection over which the dashboard hears of events:                *)
(* useWebSocketConnection (apps/web/src/hooks) and the sockets that        *)
(* apps/api/src/server.ts broadcasts to.  An effect opens a socket; every  *)
(* socket that closes, for whatever reason, sets a timer that opens the    *)
(* next.  Development builds run the effect twice (React.StrictMode, hot   *)
(* reloading): the clean-up in between closes a socket and clears a timer. *)
(*                                                                         *)
(* A definition placed before the one it varies, and used by nothing, is a *)
(* plausible fault that a property must notice (README, "Faults").         *)
(***************************************************************************)
EXTENDS Naturals, Sequences, FiniteSets

CONSTANTS
    Socket,        \* identities of sockets, used again
    NoSocket,
    MaxMounts,     \* how often the effect runs: 1 in a production build
    MaxOutages     \* bound on the times the server cannot be reached

ASSUME SocketAssumption ==
    /\ NoSocket \notin Socket
    /\ MaxMounts \in Nat \ {0} /\ MaxOutages \in Nat

VARIABLES
    socket,        \* socket[s]: none, connecting, open or closing
    channel,       \* channel[s]: the events sent to s and not received
    wsRef,         \* wsRef.current
    timer,         \* the timer in reconnectTimeoutRef.current is pending
    orphans,       \* pending timers that the reference has lost
    wsConnected,   \* in the store
    mounts,
    reachable,     \* sockets can connect and stay open
    outages

socketVars == <<socket, channel, wsRef, timer, orphans, wsConnected, mounts, reachable,
                outages>>

Live == {s \in Socket : socket[s] # "none"}
Timers == orphans + (IF timer THEN 1 ELSE 0)

SocketTypeOK ==
    /\ socket \in [Socket -> {"none", "connecting", "open", "closing"}]
    /\ wsRef \in Live \cup {NoSocket}
    /\ timer \in BOOLEAN /\ orphans \in 0..MaxMounts
    /\ wsConnected \in BOOLEAN
    /\ mounts \in 1..MaxMounts
    /\ reachable \in BOOLEAN /\ outages \in 0..MaxOutages

SocketInit ==
    \E s \in Socket :
        /\ socket = [o \in Socket |-> IF o = s THEN "connecting" ELSE "none"]
        /\ channel = [o \in Socket |-> << >>]
        /\ wsRef = s
        /\ timer = FALSE /\ orphans = 0
        /\ wsConnected = FALSE
        /\ mounts = 1
        /\ reachable = TRUE /\ outages = 0

-----------------------------------------------------------------------------
\* connect: close what wsRef refers to, open another socket.
Connect ==
    \E s \in Socket \ Live :
        /\ socket' = [o \in Socket |->
                         IF o = s THEN "connecting"
                         ELSE IF o = wsRef THEN "closing" ELSE socket[o]]
        /\ channel' = [o \in Socket |-> IF o = wsRef THEN << >> ELSE channel[o]]
        /\ wsRef' = s

\* setTimeout(connect, delay); the reference forgets the timer it had.
SetTimer ==
    /\ timer' = TRUE
    /\ orphans' = IF timer THEN orphans + 1 ELSE orphans

SocketOpens(s) ==
    /\ socket[s] = "connecting"
    /\ reachable
    /\ socket' = [socket EXCEPT ![s] = "open"]
    /\ wsConnected' = TRUE
    /\ UNCHANGED <<channel, wsRef, timer, orphans, mounts, reachable, outages>>

\* onclose, after close() or after an error (onerror only clears wsConnected).  It
\* forgets wsRef, also when that refers to another socket by now.
ClosesForGood == timer' = timer /\ orphans' = orphans
ClosesAfterError == timer' = TRUE /\ orphans' = orphans + 1
Closes == SetTimer

SocketCloses(s) ==
    /\ \/ socket[s] = "closing"
       \/ socket[s] \in {"connecting", "open"} /\ ~ reachable
    /\ socket' = [socket EXCEPT ![s] = "none"]
    /\ channel' = [channel EXCEPT ![s] = << >>]
    /\ wsConnected' = FALSE
    /\ wsRef' = NoSocket
    /\ Closes
    /\ UNCHANGED <<mounts, reachable, outages>>

TimerFires ==
    /\ \/ timer /\ timer' = FALSE /\ UNCHANGED orphans
       \/ orphans > 0 /\ orphans' = orphans - 1 /\ UNCHANGED timer
    /\ Connect
    /\ UNCHANGED <<wsConnected, mounts, reachable, outages>>

\* The clean-up of the effect and the effect again.
Remount ==
    /\ mounts < MaxMounts
    /\ mounts' = mounts + 1
    /\ timer' = FALSE
    /\ Connect
    /\ UNCHANGED <<orphans, wsConnected, reachable, outages>>

Outage ==
    /\ reachable /\ outages < MaxOutages
    /\ reachable' = FALSE
    /\ outages' = outages + 1
    /\ UNCHANGED <<socket, channel, wsRef, timer, orphans, wsConnected, mounts>>

Restored ==
    /\ ~ reachable
    /\ reachable' = TRUE
    /\ UNCHANGED <<socket, channel, wsRef, timer, orphans, wsConnected, mounts, outages>>

\* broadcastEvent: what is sent reaches every open socket in its order, if it stays open.
Broadcast(event) ==
    channel' = [s \in Socket |->
                   IF socket[s] = "open" THEN Append(channel[s], event) ELSE channel[s]]

Receives(s, event) ==
    /\ socket[s] = "open"
    /\ channel[s] # << >>
    /\ event = Head(channel[s])
    /\ channel' = [channel EXCEPT ![s] = Tail(@)]

SocketStep ==
    \/ \E s \in Socket : SocketOpens(s) \/ SocketCloses(s)
    \/ TimerFires

SocketNext == SocketStep \/ Remount \/ Outage \/ Restored

-----------------------------------------------------------------------------
\* Connections do not multiply: however often sockets break, close late or overlap,
\* each run of the effect accounts for at most one socket or timer.
ConnectionsBounded == Cardinality(Live) + Timers <= mounts

\* "Auto-reconnects on disconnect": once the server stays reachable, the dashboard is
\* connected and stays so.
Reconnects == <>[]reachable => <>[](wsConnected /\ \E s \in Socket : socket[s] = "open")

=============================================================================
