-------------------------- MODULE DashboardGateway --------------------------
(***************************************************************************)
(* DashboardGateway: the heartbeat timer over connects and disconnects.    *)
(* socket.io changes the set of sockets and calls the handler in one turn  *)
(* of the event loop.                                                      *)
(***************************************************************************)
EXTENDS Naturals

CONSTANT Clients

VARIABLES
  sockets,    \* clients in the namespace
  heartbeat,  \* whether this.heartbeat is set
  timers,     \* intervals that tick
  shown       \* what the last metrics:tick told the clients

dashboardVars == <<sockets, heartbeat, timers, shown>>

DashboardInit(nothing) ==
  /\ sockets = {} /\ heartbeat = FALSE /\ timers = 0 /\ shown = nothing

\* Faulty variant of HandleConnection: each client starts a timer.
HandleConnectionUnguarded(c) ==
  /\ c \notin sockets /\ sockets' = sockets \cup {c}
  /\ heartbeat' = TRUE /\ timers' = timers + 1
  /\ UNCHANGED shown

\* handleConnection: the heartbeat is started unless there is one.
HandleConnection(c) ==
  /\ c \notin sockets /\ sockets' = sockets \cup {c}
  /\ heartbeat' = TRUE
  /\ timers' = IF heartbeat THEN timers ELSE timers + 1
  /\ UNCHANGED shown

\* Faulty variant of HandleDisconnect: this.heartbeat stays set.
HandleDisconnectKeepingHandle(c) ==
  /\ c \in sockets /\ sockets' = sockets \ {c}
  /\ timers' = IF sockets' = {} /\ heartbeat THEN timers - 1 ELSE timers
  /\ UNCHANGED <<heartbeat, shown>>

\* handleDisconnect: the last client to leave stops it.
HandleDisconnect(c) ==
  /\ c \in sockets /\ sockets' = sockets \ {c}
  /\ \/ /\ sockets' = {} /\ heartbeat
        /\ heartbeat' = FALSE /\ timers' = timers - 1
     \/ /\ sockets' # {} \/ ~heartbeat
        /\ UNCHANGED <<heartbeat, timers>>
  /\ UNCHANGED shown

\* A timer ticks: what is collected last is read in the turn that emits it.
Tick(payload) ==
  /\ timers > 0
  /\ shown' = payload
  /\ UNCHANGED <<sockets, heartbeat, timers>>
=============================================================================
