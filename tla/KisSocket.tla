----------------------------- MODULE KisSocket -----------------------------
(***************************************************************************)
(* KisWebsocketService: the one connection to the broker's quote server.   *)
(* A connect() in flight, a waiting reconnect timer and a socket that is   *)
(* not yet closed are the three forms of one chain: each turns into the    *)
(* next, and nothing but the flag isConnected keeps a second chain from    *)
(* starting.  The close event of a socket is a step of its own, after the  *)
(* socket went down.  The approval key is cached whenever ws is set, so    *)
(* subscribe and unsubscribe run to their send without a pause.            *)
(***************************************************************************)
EXTENDS Integers

CONSTANTS
  Sock, NoSocket,          \* sockets that may exist at the same time; null
  Key,                     \* subscription keys
  MAX_RECONNECT_ATTEMPTS,
  Commands                 \* bound: connect and disconnect commands of an operator

ASSUME SocketAssumption ==
  /\ NoSocket \notin Sock
  /\ MAX_RECONNECT_ATTEMPTS \in Nat
  /\ Commands \in Nat

VARIABLES
  sock,           \* socket -> none, opening, open or closing (down, event pending)
  registered,     \* socket -> keys the broker sends on it
  ws,             \* the socket the service sends on
  isConnected, attempts,
  calls,          \* connect() calls waiting for credentials and key, by caller
  timers,         \* reconnect timers waiting
  handle, leaked, \* a heartbeat interval runs; one that can no longer be stopped
  subscriptions,
  commands,       \* operator commands left
  crossed,        \* history: connect() was called while a chain was under way
  refused         \* history: a connect() that no timer made has failed

linkVars == <<sock, registered, ws, isConnected, attempts, calls, timers, handle,
              leaked, subscriptions, commands, crossed, refused>>

LinkFlags ==
  /\ isConnected \in BOOLEAN /\ handle \in BOOLEAN /\ leaked \in BOOLEAN
  /\ crossed \in BOOLEAN /\ refused \in BOOLEAN

LinkTypeOK ==
  /\ sock \in [Sock -> {"none", "opening", "open", "closing"}]
  /\ registered \in [Sock -> SUBSET Key]
  /\ ws \in Sock \cup {NoSocket}
  /\ LinkFlags
  /\ attempts \in 0..MAX_RECONNECT_ATTEMPTS
  /\ calls \in [{"timer", "caller"} -> Nat]
  /\ timers \in Nat
  /\ subscriptions \subseteq Key
  /\ commands \in 0..Commands

\* afterInit of the gateway has called connect().
LinkInit ==
  /\ sock = [s \in Sock |-> "none"]
  /\ registered = [s \in Sock |-> {}]
  /\ ws = NoSocket
  /\ isConnected = FALSE /\ attempts = 0
  /\ calls = [f \in {"timer", "caller"} |-> IF f = "caller" THEN 1 ELSE 0]
  /\ timers = 0
  /\ handle = FALSE /\ leaked = FALSE
  /\ subscriptions = {}
  /\ commands = Commands
  /\ crossed = FALSE /\ refused = FALSE

-----------------------------------------------------------------------------
\* No call, no timer, no socket that is about to open or to report its end.
AtRest == calls["timer"] + calls["caller"] + timers = 0 /\ \A s \in Sock : sock[s] \in {"none", "open"}
Idle   == AtRest /\ \A s \in Sock : sock[s] = "none"

\* subscribe and unsubscribe get as far as their send; a socket that is still
\* opening throws, one that is down swallows the message.
CanSend == isConnected /\ ws # NoSocket /\ sock[ws] # "opening"

Subscribed(k) ==
  /\ subscriptions' = subscriptions \cup {k}
  /\ registered' = IF sock[ws] = "open" THEN [registered EXCEPT ![ws] = @ \cup {k}] ELSE registered

Unsubscribed(k) ==
  /\ subscriptions' = subscriptions \ {k}
  /\ registered' = IF sock[ws] = "open" THEN [registered EXCEPT ![ws] = @ \ {k}] ELSE registered

\* startHeartbeat does not stop the interval it replaces.
StartHeartbeat == handle' = TRUE /\ leaked' = (leaked \/ handle)
StopHeartbeat  == handle' = FALSE

\* Mutated form: a second connect() is not turned away.
BeginConnectAlways(from) == calls' = [calls EXCEPT ![from] = @ + 1]

\* connect(): nothing happens when connected; otherwise it asks for credentials.
BeginConnect(from) ==
  calls' = IF isConnected THEN calls ELSE [calls EXCEPT ![from] = @ + 1]

\* The key has come: a new socket takes the place of whatever ws was.
CreateSocket(from) ==
  /\ calls[from] > 0
  /\ \E s \in Sock :
       /\ sock[s] = "none"
       /\ sock' = [sock EXCEPT ![s] = "opening"]
       /\ ws' = s
  /\ calls' = [calls EXCEPT ![from] = @ - 1]
  /\ UNCHANGED <<registered, isConnected, attempts, timers, handle, leaked, subscriptions,
                 commands, crossed, refused>>

\* The approval request of a connect() fails; its caller reports the error.
\* (A timer has no caller: see Crash.)
ConnectRefused ==
  /\ calls["caller"] > 0
  /\ calls' = [calls EXCEPT !["caller"] = @ - 1]
  /\ refused' = TRUE
  /\ UNCHANGED <<sock, registered, ws, isConnected, attempts, timers, handle, leaked,
                 subscriptions, commands, crossed>>

\* Mutated form: a reconnect does not restore the subscriptions.
RestoreNothing(s) == UNCHANGED registered

\* The open event.  What was subscribed is sent again, on ws whatever socket
\* has opened.
RestoreSubscriptions(s) ==
  registered' = IF ws # NoSocket /\ (ws = s \/ sock[ws] = "open")
                THEN [registered EXCEPT ![ws] = @ \cup subscriptions] ELSE registered

Open(s) ==
  /\ sock[s] = "opening"
  /\ sock' = [sock EXCEPT ![s] = "open"]
  /\ isConnected' = TRUE /\ attempts' = 0
  /\ StartHeartbeat
  /\ RestoreSubscriptions(s)
  /\ UNCHANGED <<ws, calls, timers, subscriptions, commands, crossed, refused>>

\* An attempt fails, or the connection is lost.
GoesDown(s) ==
  /\ sock[s] \in {"opening", "open"}
  /\ sock' = [sock EXCEPT ![s] = "closing"]
  /\ registered' = [registered EXCEPT ![s] = {}]
  /\ UNCHANGED <<ws, isConnected, attempts, calls, timers, handle, leaked, subscriptions,
                 commands, crossed, refused>>

\* Mutated form: no attempt is made at all.
AttemptReconnectNever == UNCHANGED <<attempts, timers>>

\* Mutated form: at the limit the counter stays and the attempts go on.
AttemptReconnectEndless ==
  /\ attempts' = IF attempts >= MAX_RECONNECT_ATTEMPTS THEN attempts ELSE attempts + 1
  /\ timers' = timers + 1

AttemptReconnect ==
  IF attempts >= MAX_RECONNECT_ATTEMPTS THEN UNCHANGED <<attempts, timers>>
  ELSE attempts' = attempts + 1 /\ timers' = timers + 1

\* The close event, of whatever socket.
CloseEvent(s) ==
  /\ sock[s] = "closing"
  /\ sock' = [sock EXCEPT ![s] = "none"]
  /\ isConnected' = FALSE
  /\ StopHeartbeat
  /\ AttemptReconnect
  /\ UNCHANGED <<leaked, registered, ws, calls, subscriptions, commands, crossed, refused>>

ReconnectTimer ==
  /\ timers > 0
  /\ timers' = timers - 1
  /\ BeginConnect("timer")
  /\ UNCHANGED <<sock, registered, ws, isConnected, attempts, handle, leaked, subscriptions,
                 commands, crossed, refused>>

\* POST websocket/connect of the administration.
OperatorConnect ==
  /\ commands > 0 /\ commands' = commands - 1
  /\ BeginConnect("caller")
  /\ crossed' = (crossed \/ ~(isConnected \/ Idle))
  /\ UNCHANGED <<sock, registered, ws, isConnected, attempts, timers, handle, leaked,
                 subscriptions, refused>>

\* POST websocket/disconnect: disconnect().
OperatorDisconnect ==
  /\ commands > 0 /\ commands' = commands - 1
  /\ StopHeartbeat
  /\ IF ws # NoSocket /\ sock[ws] \in {"opening", "open"}
     THEN /\ sock' = [sock EXCEPT ![ws] = "closing"]
          /\ registered' = [registered EXCEPT ![ws] = {}]
     ELSE UNCHANGED <<sock, registered>>
  /\ ws' = NoSocket
  /\ isConnected' = FALSE
  /\ subscriptions' = {}
  /\ UNCHANGED <<attempts, calls, timers, leaked, crossed, refused>>

\* Nobody catches what a timer throws, and the process ends: a reconnect's
\* approval request fails, or the heartbeat pings a socket that is opening.
CanCrash ==
  \/ calls["timer"] > 0
  \/ (handle \/ leaked) /\ isConnected /\ ws # NoSocket /\ sock[ws] = "opening"

\* The process starts again.
Crash ==
  /\ CanCrash
  /\ sock' = [s \in Sock |-> "none"]
  /\ registered' = [s \in Sock |-> {}]
  /\ ws' = NoSocket
  /\ isConnected' = FALSE /\ attempts' = 0
  /\ calls' = [f \in {"timer", "caller"} |-> IF f = "caller" THEN 1 ELSE 0]
  /\ timers' = 0
  /\ handle' = FALSE /\ leaked' = FALSE
  /\ subscriptions' = {}
  /\ crossed' = FALSE /\ refused' = FALSE
  /\ UNCHANGED commands

-----------------------------------------------------------------------------
\* "실시간 시세" comes over one connection: with a second one every price would
\* be counted twice, and the older one could no longer be closed.  Reconnects,
\* lost connections and disconnect() alone never open a second one, nor leave
\* a heartbeat running that cannot be stopped; only connect() called while a
\* chain is under way does.
SingleFeed ==
  ~crossed => /\ \A s, t \in Sock : sock[s] # "none" /\ sock[t] # "none" => s = t
              /\ ~leaked

\* However many sockets there are and in whatever order they open and close:
\* what is in the map of subscriptions is registered on the socket in use.
SubscriptionsRestored ==
  isConnected /\ ws # NoSocket /\ sock[ws] = "open" => subscriptions \subseteq registered[ws]

\* The service is never left without a connection, an attempt or a timer,
\* except when the attempts are used up or a first connect() failed.
GivesUpOnlyAtLimit == Idle => attempts = MAX_RECONNECT_ATTEMPTS \/ refused

-----------------------------------------------------------------------------
\* The strengthening that the proof uses: calls, timers and sockets together
\* are one chain, and a heartbeat runs only beside a socket that has opened.
OneChain ==
  /\ calls["timer"] + calls["caller"] + timers <= 1
  /\ calls["timer"] + calls["caller"] + timers = 1 => \A s \in Sock : sock[s] = "none"
  /\ \A s, t \in Sock : sock[s] # "none" /\ sock[t] # "none" => s = t
  /\ handle => \E s \in Sock : sock[s] \in {"open", "closing"}

LinkInv == LinkTypeOK /\ (~crossed => OneChain /\ ~leaked)
=============================================================================
