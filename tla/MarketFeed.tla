----------------------------- MODULE MarketFeed -----------------------------
(***************************************************************************)
(* The two gateways to the clients over the broker's one connection:       *)
(* WebsocketGateway keeps rooms, RealTimeGateway a set of subscribers per  *)
(* symbol (and rooms of the same clients).  Both subscribe and unsubscribe *)
(* the same keys at the broker.  A handler runs to its end without a       *)
(* pause, as subscribe does.                                               *)
(***************************************************************************)
EXTENDS KisSocket

CONSTANTS
  Client, Trader           \* clients of WebsocketGateway, of RealTimeGateway

VARIABLES
  room,                    \* key -> clients in the room stock-<key>
  entries, subscribers,    \* symbolSubscribers: its keys, and key -> traders
  forgotten                \* history: key -> why its subscription may be missing

feedVars == <<room, entries, subscribers, forgotten>>
vars == <<linkVars, feedVars>>

TypeOK ==
  /\ LinkTypeOK
  /\ room \in [Key -> SUBSET Client]
  /\ entries \subseteq Key
  /\ subscribers \in [Key -> SUBSET Trader]
  /\ forgotten \in [Key -> SUBSET {"not connected", "other gateway", "disconnect()"}]

Init ==
  /\ LinkInit
  /\ room = [k \in Key |-> {}]
  /\ entries = {}
  /\ subscribers = [k \in Key |-> {}]
  /\ forgotten = [k \in Key |-> {}]

-----------------------------------------------------------------------------
LinkRest == <<sock, ws, isConnected, attempts, calls, timers, handle, leaked, commands, crossed, refused>>

\* Why a key that is listened to may be missing from the map.
Because(k, why) == forgotten' = [forgotten EXCEPT ![k] = @ \cup {why}]
Remembered(k)   == forgotten' = [forgotten EXCEPT ![k] = {}]
NotConnected(k) == IF k \in subscriptions THEN UNCHANGED forgotten ELSE Because(k, "not connected")

\* handleSubscribeStock: the client joins the room, connected or not; the key
\* is subscribed again for one that is already there.
SubscribeStock(c, k) ==
  /\ room' = [room EXCEPT ![k] = @ \cup {c}]
  /\ IF CanSend THEN Subscribed(k) /\ Remembered(k)
     ELSE NotConnected(k) /\ UNCHANGED <<subscriptions, registered>>
  /\ UNCHANGED <<LinkRest, entries, subscribers>>

\* Mutated form: any client that leaves unsubscribes the symbol.
UnsubscribeStockAlways(c, k) ==
  /\ room' = [room EXCEPT ![k] = @ \ {c}]
  /\ IF CanSend
     THEN /\ Unsubscribed(k)
          /\ IF k \notin entries THEN UNCHANGED forgotten ELSE Because(k, "other gateway")
     ELSE UNCHANGED <<subscriptions, registered, forgotten>>
  /\ UNCHANGED <<LinkRest, entries, subscribers>>

\* handleUnsubscribeStock: any client may send it, also one that was never in
\* the room; a room that is empty then is unsubscribed at the broker, whoever
\* else listens through the other gateway.
UnsubscribeStock(c, k) ==
  /\ room' = [room EXCEPT ![k] = @ \ {c}]
  /\ IF room'[k] = {} /\ CanSend
     THEN /\ Unsubscribed(k)
          /\ IF k \notin entries THEN UNCHANGED forgotten ELSE Because(k, "other gateway")
     ELSE UNCHANGED <<subscriptions, registered, forgotten>>
  /\ UNCHANGED <<LinkRest, entries, subscribers>>

\* A client of WebsocketGateway goes away: nothing but its rooms knows.
LeaveStock(c) ==
  /\ \E k \in Key : c \in room[k]
  /\ room' = [k \in Key |-> room[k] \ {c}]
  /\ UNCHANGED <<linkVars, entries, subscribers, forgotten>>

\* handleSubscribePrice: the first of a symbol makes its entry and subscribes;
\* when that throws, the entry stays, empty, and the client is not added.
SubscribePrice(c, k) ==
  /\ entries' = entries \cup {k}
  /\ IF k \notin entries /\ ~CanSend
     THEN NotConnected(k) /\ UNCHANGED <<subscribers, subscriptions, registered>>
     ELSE /\ subscribers' = [subscribers EXCEPT ![k] = @ \cup {c}]
          /\ IF k \notin entries THEN Subscribed(k) /\ Remembered(k)
             ELSE UNCHANGED <<forgotten, subscriptions, registered>>
  /\ UNCHANGED <<LinkRest, room>>

\* handleUnsubscribePrice: an entry that is empty then is removed and the key
\* unsubscribed; the client need not have been in it, as an entry is also empty
\* after a subscription that threw.
UnsubscribePrice(c, k) ==
  /\ k \in entries
  /\ subscribers' = [subscribers EXCEPT ![k] = @ \ {c}]
  /\ IF subscribers'[k] = {}
     THEN /\ entries' = entries \ {k}
          /\ IF CanSend
             THEN /\ Unsubscribed(k)
                  /\ IF room[k] = {} THEN UNCHANGED forgotten ELSE Because(k, "other gateway")
             ELSE UNCHANGED <<subscriptions, registered, forgotten>>
     ELSE UNCHANGED <<entries, subscriptions, registered, forgotten>>
  /\ UNCHANGED <<LinkRest, room>>

\* handleDisconnect: entries that are left empty go, the broker's keys stay.
LeavePrice(c) ==
  /\ subscribers' = [k \in Key |-> subscribers[k] \ {c}]
  /\ entries' = {k \in entries : subscribers'[k] # {}}
  /\ UNCHANGED <<linkVars, room, forgotten>>

Connecting ==
  \/ \E from \in {"timer", "caller"} : CreateSocket(from)
  \/ ConnectRefused \/ ReconnectTimer
  \/ \E s \in Sock : Open(s) \/ CloseEvent(s)

Link ==
  /\ Connecting \/ OperatorConnect \/ \E s \in Sock : GoesDown(s)
  /\ UNCHANGED feedVars

Disconnect ==
  /\ OperatorDisconnect
  /\ forgotten' = [k \in Key |-> forgotten[k] \cup {"disconnect()"}]
  /\ UNCHANGED <<room, entries, subscribers>>

Restart ==
  /\ Crash
  /\ room' = [k \in Key |-> {}]
  /\ entries' = {}
  /\ subscribers' = [k \in Key |-> {}]
  /\ forgotten' = [k \in Key |-> {}]

Clients ==
  \/ \E c \in Client : LeaveStock(c) \/ \E k \in Key : SubscribeStock(c, k) \/ UnsubscribeStock(c, k)
  \/ \E c \in Trader : LeavePrice(c) \/ \E k \in Key : SubscribePrice(c, k) \/ UnsubscribePrice(c, k)

Next == Link \/ Disconnect \/ Restart \/ Clients

Spec == Init /\ [][Next]_vars

\* Answers arrive, timers fire, a socket opens or goes down, and its close
\* event is delivered.
FairSpec == Spec /\ WF_vars((Connecting \/ \E s \in Sock : sock[s] = "opening" /\ GoesDown(s)) /\ UNCHANGED feedVars)

-----------------------------------------------------------------------------

Listening(k) == room[k] \cup subscribers[k]

\* A client that was told "subscribed" gets the prices of its symbol.  Of all
\* the orders in which clients of both gateways come, go and send requests for
\* keys they do not listen to, around lost connections, only three lose a
\* listener its subscription: the key was asked for without a connection;
\* it was unsubscribed at the other gateway when that had no listener (left) for
\* it, by its last client or by one that never listened; or disconnect() cleared the map.
ListenersAreSubscribed ==
  \A k \in Key : Listening(k) # {} /\ forgotten[k] = {} => k \in subscriptions

\* However often connections are refused or lost, the service does not stay
\* between two attempts, nor try for ever without a result: unless it crashes
\* again and again it is in the end connected once more, or has given up.
ComesBack == <>[][~Crash]_vars => []<>(isConnected \/ AtRest)
=============================================================================
