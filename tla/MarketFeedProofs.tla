-------------------------- MODULE MarketFeedProofs --------------------------
(***************************************************************************)
(* One chain of connections, restored subscriptions and subscribed         *)
(* listeners, for any number of sockets, keys, clients, attempts and       *)
(* operator commands.                                                      *)
(***************************************************************************)
EXTENDS MarketFeed, TLAPS

\* The strengthening of ListenersAreSubscribed: an entry of symbolSubscribers
\* counts as a listener, because the next client relies on it.
ListenInv ==
  \A k \in Key :
    /\ subscribers[k] # {} => k \in entries
    /\ (room[k] # {} \/ k \in entries) /\ forgotten[k] = {} => k \in subscriptions

FeedInv == TypeOK /\ LinkInv /\ SubscriptionsRestored /\ ListenInv

LEMMA InitFeedInv == Init => FeedInv
<1> SUFFICES ASSUME Init PROVE FeedInv
  OBVIOUS
<1>1. LinkTypeOK
  <2>1. LinkFlags
    BY DEF Init, LinkInit, LinkFlags
  <2>2. 0 \in 0..MAX_RECONNECT_ATTEMPTS /\ Commands \in 0..Commands
    BY SocketAssumption
  <2> QED BY <2>1, <2>2 DEF Init, LinkInit, LinkTypeOK
<1>2. TypeOK
  BY <1>1 DEF Init, TypeOK
<1>3. LinkInv
  BY <1>1 DEF Init, LinkInit, LinkInv, OneChain
<1> QED BY <1>2, <1>3 DEF Init, LinkInit, FeedInv, SubscriptionsRestored, ListenInv

-----------------------------------------------------------------------------
\* The steps of the connection.
LEMMA CreateStep ==
  ASSUME LinkInv, SubscriptionsRestored, NEW from \in {"timer", "caller"}, CreateSocket(from)
  PROVE  LinkInv' /\ SubscriptionsRestored'
<1>1. PICK s \in Sock : sock[s] = "none" /\ sock' = [sock EXCEPT ![s] = "opening"] /\ ws' = s
  BY DEF CreateSocket
<1>2. calls' = [calls EXCEPT ![from] = @ - 1] /\ calls[from] > 0 /\ calls'[from] = calls[from] - 1
      /\ calls' \in [{"timer", "caller"} -> Nat]
  BY DEF CreateSocket, LinkInv, LinkTypeOK, LinkFlags
<1>3. LinkTypeOK'
  BY <1>1, <1>2 DEF CreateSocket, LinkInv, LinkTypeOK, LinkFlags
<1>4. ASSUME ~crossed' PROVE OneChain' /\ ~leaked'
  <2>1. OneChain /\ ~leaked /\ calls["timer"] \in Nat /\ calls["caller"] \in Nat /\ timers \in Nat
    BY <1>4 DEF CreateSocket, LinkInv, LinkTypeOK
  <2>2. calls["timer"] + calls["caller"] + timers = 1
    BY <1>2, <2>1 DEF OneChain
  <2>3. calls'["timer"] + calls'["caller"] + timers' = 0
    BY <1>2, <2>1, <2>2 DEF CreateSocket, LinkInv, LinkTypeOK
  <2>4. \A t \in Sock : sock[t] = "none" /\ (sock'[t] # "none" => t = s)
    BY <1>1, <2>1, <2>2 DEF OneChain, LinkInv, LinkTypeOK
  <2> QED BY <2>1, <2>3, <2>4 DEF CreateSocket, OneChain
<1>5. SubscriptionsRestored'
  BY <1>1 DEF SubscriptionsRestored, LinkInv, LinkTypeOK
<1> QED BY <1>3, <1>4, <1>5 DEF LinkInv

LEMMA RefusedStep ==
  ASSUME LinkInv, SubscriptionsRestored, ConnectRefused
  PROVE  LinkInv' /\ SubscriptionsRestored'
<1>1. calls' = [calls EXCEPT !["caller"] = @ - 1] /\ calls'["caller"] = calls["caller"] - 1
      /\ calls' \in [{"timer", "caller"} -> Nat] /\ calls'["timer"] = calls["timer"]
      /\ calls["caller"] \in Nat /\ calls["timer"] \in Nat /\ calls["caller"] > 0
  BY DEF ConnectRefused, LinkInv, LinkTypeOK
<1>2. LinkTypeOK'
  BY <1>1 DEF ConnectRefused, LinkInv, LinkTypeOK, LinkFlags
<1>3. ASSUME ~crossed' PROVE OneChain' /\ ~leaked'
  BY <1>1, <1>3 DEF ConnectRefused, LinkInv, LinkTypeOK, OneChain
<1> QED BY <1>2, <1>3 DEF ConnectRefused, LinkInv, SubscriptionsRestored

LEMMA TimerStep ==
  ASSUME LinkInv, SubscriptionsRestored, ReconnectTimer
  PROVE  LinkInv' /\ SubscriptionsRestored'
<1>1. /\ timers' = timers - 1 /\ timers' \in Nat /\ timers \in Nat /\ timers > 0
      /\ calls["caller"] \in Nat /\ calls["timer"] \in Nat
      /\ calls'["caller"] = calls["caller"]
      /\ calls'["timer"] = calls["timer"] \/ calls'["timer"] = calls["timer"] + 1
      /\ calls' \in [{"timer", "caller"} -> Nat]
  BY DEF ReconnectTimer, BeginConnect, LinkInv, LinkTypeOK
<1>2. LinkTypeOK'
  BY <1>1 DEF ReconnectTimer, LinkInv, LinkTypeOK, LinkFlags
<1>3. ASSUME ~crossed' PROVE OneChain' /\ ~leaked'
  BY <1>1, <1>3 DEF ReconnectTimer, LinkInv, LinkTypeOK, OneChain
<1> QED BY <1>2, <1>3 DEF ReconnectTimer, LinkInv, SubscriptionsRestored

LEMMA OpenStep ==
  ASSUME LinkInv, SubscriptionsRestored, NEW s \in Sock, Open(s)
  PROVE  LinkInv' /\ SubscriptionsRestored'
<1>1. /\ sock[s] = "opening" /\ sock' = [sock EXCEPT ![s] = "open"]
      /\ sock' \in [Sock -> {"none", "opening", "open", "closing"}]
  BY DEF Open, LinkInv, LinkTypeOK
<1>2. registered' \in [Sock -> SUBSET Key]
  BY DEF Open, RestoreSubscriptions, LinkInv, LinkTypeOK
<1>3. LinkTypeOK'
  <2>1. LinkFlags'
    BY DEF Open, StartHeartbeat, LinkInv, LinkTypeOK, LinkFlags
  <2>2. 0 \in 0..MAX_RECONNECT_ATTEMPTS
    BY SocketAssumption
  <2> QED BY <1>1, <1>2, <2>1, <2>2 DEF Open, LinkInv, LinkTypeOK
<1>4. ASSUME ~crossed' PROVE OneChain' /\ ~leaked'
  <2>1. OneChain /\ ~leaked
    BY <1>4 DEF Open, LinkInv
  <2>2. ~handle
    BY <1>1, <2>1 DEF OneChain
  <2>3. sock'[s] = "open" /\ \A t \in Sock \ {s} : sock'[t] = sock[t]
    BY <1>1 DEF LinkInv, LinkTypeOK
  <2> QED BY <1>1, <2>1, <2>2, <2>3 DEF Open, StartHeartbeat, OneChain, LinkInv, LinkTypeOK
<1>5. SubscriptionsRestored'
  BY <1>1 DEF Open, RestoreSubscriptions, SubscriptionsRestored, LinkInv, LinkTypeOK
<1> QED BY <1>3, <1>4, <1>5 DEF LinkInv

LEMMA DownStep ==
  ASSUME LinkInv, SubscriptionsRestored, NEW s \in Sock, GoesDown(s)
  PROVE  LinkInv' /\ SubscriptionsRestored'
<1>1. /\ sock[s] \in {"opening", "open"} /\ sock' = [sock EXCEPT ![s] = "closing"]
      /\ sock'[s] = "closing" /\ \A t \in Sock \ {s} : sock'[t] = sock[t]
      /\ sock' \in [Sock -> {"none", "opening", "open", "closing"}]
  BY DEF GoesDown, LinkInv, LinkTypeOK
<1>2. LinkTypeOK'
  BY <1>1 DEF GoesDown, LinkInv, LinkTypeOK, LinkFlags
<1>3. ASSUME ~crossed' PROVE OneChain' /\ ~leaked'
  BY <1>1, <1>3 DEF GoesDown, LinkInv, LinkTypeOK, OneChain
<1>4. SubscriptionsRestored'
  BY <1>1 DEF GoesDown, SubscriptionsRestored, LinkInv, LinkTypeOK
<1> QED BY <1>2, <1>3, <1>4 DEF LinkInv

LEMMA CloseStep ==
  ASSUME LinkInv, SubscriptionsRestored, NEW s \in Sock, CloseEvent(s)
  PROVE  LinkInv' /\ SubscriptionsRestored'
<1>1. /\ sock[s] = "closing" /\ sock' = [sock EXCEPT ![s] = "none"]
      /\ sock'[s] = "none" /\ \A t \in Sock \ {s} : sock'[t] = sock[t]
      /\ sock' \in [Sock -> {"none", "opening", "open", "closing"}]
  BY DEF CloseEvent, LinkInv, LinkTypeOK
<1>2. timers \in Nat /\ timers' \in {timers, timers + 1} /\ attempts' \in 0..MAX_RECONNECT_ATTEMPTS
  BY SocketAssumption DEF CloseEvent, AttemptReconnect, LinkInv, LinkTypeOK
<1>3. LinkTypeOK'
  <2>1. LinkFlags'
    BY DEF CloseEvent, StopHeartbeat, LinkInv, LinkTypeOK, LinkFlags
  <2>2. timers' \in Nat
    BY <1>2
  <2> QED BY <1>1, <1>2, <2>1, <2>2 DEF CloseEvent, LinkInv, LinkTypeOK
<1>4. ASSUME ~crossed' PROVE OneChain' /\ ~leaked'
  <2>1. OneChain /\ ~leaked /\ calls["timer"] \in Nat /\ calls["caller"] \in Nat
    BY <1>4 DEF CloseEvent, LinkInv, LinkTypeOK
  <2>2. \A t \in Sock : sock'[t] = "none"
    BY <1>1, <2>1 DEF OneChain
  <2>3. calls["timer"] + calls["caller"] + timers = 0
    BY <1>1, <1>2, <2>1, calls["timer"] + calls["caller"] + timers \in Nat DEF OneChain
  <2> QED BY <1>2, <2>1, <2>2, <2>3 DEF CloseEvent, StopHeartbeat, OneChain
<1>5. SubscriptionsRestored'
  BY <1>1 DEF CloseEvent, SubscriptionsRestored
<1> QED BY <1>3, <1>4, <1>5 DEF LinkInv

LEMMA OperatorConnectStep ==
  ASSUME LinkInv, SubscriptionsRestored, OperatorConnect
  PROVE  LinkInv' /\ SubscriptionsRestored'
<1>1. /\ calls["timer"] \in Nat /\ calls["caller"] \in Nat
      /\ calls' \in [{"timer", "caller"} -> Nat] /\ calls'["timer"] = calls["timer"]
      /\ calls'["caller"] = IF isConnected THEN calls["caller"] ELSE calls["caller"] + 1
  BY DEF OperatorConnect, BeginConnect, LinkInv, LinkTypeOK
<1>2. LinkTypeOK'
  <2>1. LinkFlags'
    BY DEF OperatorConnect, LinkInv, LinkTypeOK, LinkFlags
  <2>2. commands' \in 0..Commands
    BY SocketAssumption DEF OperatorConnect, LinkInv, LinkTypeOK
  <2> QED BY <1>1, <2>1, <2>2 DEF OperatorConnect, LinkInv, LinkTypeOK
<1>3. ASSUME ~crossed' PROVE OneChain' /\ ~leaked'
  <2>1. OneChain /\ ~leaked /\ (isConnected \/ Idle)
    BY <1>3 DEF OperatorConnect, LinkInv
  <2>2. CASE isConnected
    BY <1>1, <2>1, <2>2 DEF OperatorConnect, OneChain
  <2>3. CASE Idle /\ ~isConnected
    BY <1>1, <2>1, <2>3 DEF OperatorConnect, OneChain, Idle, AtRest, LinkInv, LinkTypeOK
  <2> QED BY <2>1, <2>2, <2>3
<1> QED BY <1>2, <1>3 DEF OperatorConnect, LinkInv, SubscriptionsRestored

LEMMA OperatorDisconnectStep ==
  ASSUME LinkInv, SubscriptionsRestored, OperatorDisconnect
  PROVE  LinkInv' /\ SubscriptionsRestored'
<1>1. /\ sock' \in [Sock -> {"none", "opening", "open", "closing"}]
      /\ registered' \in [Sock -> SUBSET Key]
      /\ \A t \in Sock : sock'[t] = "none" <=> sock[t] = "none"
  BY DEF OperatorDisconnect, LinkInv, LinkTypeOK
<1>2. LinkTypeOK'
  <2>1. LinkFlags'
    BY DEF OperatorDisconnect, StopHeartbeat, LinkInv, LinkTypeOK, LinkFlags
  <2>2. commands' \in 0..Commands
    BY SocketAssumption DEF OperatorDisconnect, LinkInv, LinkTypeOK
  <2> QED BY <1>1, <2>1, <2>2 DEF OperatorDisconnect, LinkInv, LinkTypeOK
<1>3. ASSUME ~crossed' PROVE OneChain' /\ ~leaked'
  BY <1>1, <1>3 DEF OperatorDisconnect, StopHeartbeat, LinkInv, OneChain
<1> QED BY <1>2, <1>3 DEF OperatorDisconnect, LinkInv, SubscriptionsRestored

LEMMA CrashStep ==
  ASSUME LinkInv, Crash
  PROVE  LinkInv' /\ SubscriptionsRestored'
<1>1. LinkTypeOK'
  <2>1. LinkFlags'
    BY DEF Crash, LinkFlags
  <2>2. 0 \in 0..MAX_RECONNECT_ATTEMPTS
    BY SocketAssumption
  <2> QED BY <2>1, <2>2 DEF Crash, LinkInv, LinkTypeOK
<1>2. OneChain' /\ ~leaked'
  BY DEF Crash, OneChain
<1> QED BY <1>1, <1>2 DEF Crash, LinkInv, SubscriptionsRestored

-----------------------------------------------------------------------------
\* The steps of the clients leave the connection alone.
LEMMA SendStep ==
  ASSUME LinkInv, SubscriptionsRestored, NEW k \in Key, CanSend,
         Subscribed(k) \/ Unsubscribed(k), UNCHANGED LinkRest
  PROVE  LinkInv' /\ SubscriptionsRestored'
<1>1. registered' \in [Sock -> SUBSET Key] /\ subscriptions' \subseteq Key
  BY DEF Subscribed, Unsubscribed, LinkInv, LinkTypeOK
<1>2. LinkTypeOK'
  BY <1>1 DEF LinkRest, LinkInv, LinkTypeOK, LinkFlags
<1>3. ~crossed' => OneChain' /\ ~leaked'
  BY DEF LinkRest, LinkInv, OneChain
<1>4. SubscriptionsRestored'
  BY DEF LinkRest, CanSend, Subscribed, Unsubscribed, SubscriptionsRestored, LinkInv, LinkTypeOK
<1> QED BY <1>2, <1>3, <1>4 DEF LinkInv

LEMMA NoLinkStep ==
  ASSUME LinkInv, SubscriptionsRestored, UNCHANGED linkVars
  PROVE  LinkInv' /\ SubscriptionsRestored'
BY DEF linkVars, LinkInv, LinkTypeOK, LinkFlags, OneChain, SubscriptionsRestored

\* What a client's request does to the rows of its key.
Quiet == UNCHANGED linkVars
Sent(k) == CanSend /\ (Subscribed(k) \/ Unsubscribed(k)) /\ UNCHANGED LinkRest

LEMMA RequestStep ==
  ASSUME FeedInv, NEW k \in Key, Quiet \/ Sent(k),
         room' \in [Key -> SUBSET Client], subscribers' \in [Key -> SUBSET Trader],
         entries' \subseteq Key,
         forgotten' \in [Key -> SUBSET {"not connected", "other gateway", "disconnect()"}],
         \A j \in Key \ {k} : /\ room'[j] = room[j] /\ subscribers'[j] = subscribers[j]
                             /\ (j \in entries' <=> j \in entries) /\ forgotten'[j] = forgotten[j],
         subscribers'[k] # {} => k \in entries',
         (room'[k] # {} \/ k \in entries') /\ forgotten'[k] = {} => k \in subscriptions'
  PROVE  FeedInv'
<1>1. LinkInv' /\ SubscriptionsRestored'
  BY SendStep, NoLinkStep DEF FeedInv, Quiet, Sent
<1>2. TypeOK'
  BY <1>1 DEF TypeOK, LinkInv
<1>3. \A j \in Key \ {k} : j \in subscriptions' <=> j \in subscriptions
  BY DEF Quiet, Sent, linkVars, Subscribed, Unsubscribed
<1>4. ListenInv'
  BY <1>3 DEF FeedInv, ListenInv
<1> QED BY <1>1, <1>2, <1>4 DEF FeedInv

LEMMA SubscribeStockStep ==
  ASSUME FeedInv, NEW c \in Client, NEW k \in Key, SubscribeStock(c, k)
  PROVE  FeedInv'
<1> USE DEF SubscribeStock, Because, Remembered, NotConnected, FeedInv, TypeOK, ListenInv
<1>1. /\ room' \in [Key -> SUBSET Client] /\ subscribers' \in [Key -> SUBSET Trader]
      /\ entries' \subseteq Key
      /\ forgotten' \in [Key -> SUBSET {"not connected", "other gateway", "disconnect()"}]
  OBVIOUS
<1>2. \A j \in Key \ {k} : /\ room'[j] = room[j] /\ subscribers'[j] = subscribers[j]
                          /\ (j \in entries' <=> j \in entries) /\ forgotten'[j] = forgotten[j]
  OBVIOUS
<1>3. Quiet \/ Sent(k)
  BY DEF Quiet, Sent, linkVars, LinkRest
<1>4. /\ subscribers'[k] # {} => k \in entries'
      /\ (room'[k] # {} \/ k \in entries') /\ forgotten'[k] = {} => k \in subscriptions'
  BY DEF Subscribed, Unsubscribed
<1> QED BY <1>1, <1>2, <1>3, <1>4, RequestStep

LEMMA UnsubscribeStockStep ==
  ASSUME FeedInv, NEW c \in Client, NEW k \in Key, UnsubscribeStock(c, k)
  PROVE  FeedInv'
<1> USE DEF UnsubscribeStock, Because, Remembered, FeedInv, TypeOK, ListenInv
<1>1. /\ room' \in [Key -> SUBSET Client] /\ subscribers' \in [Key -> SUBSET Trader]
      /\ entries' \subseteq Key
      /\ forgotten' \in [Key -> SUBSET {"not connected", "other gateway", "disconnect()"}]
  OBVIOUS
<1>2. \A j \in Key \ {k} : /\ room'[j] = room[j] /\ subscribers'[j] = subscribers[j]
                          /\ (j \in entries' <=> j \in entries) /\ forgotten'[j] = forgotten[j]
  OBVIOUS
<1>3. Quiet \/ Sent(k)
  BY DEF Quiet, Sent, linkVars, LinkRest
<1>4. /\ subscribers'[k] # {} => k \in entries'
      /\ (room'[k] # {} \/ k \in entries') /\ forgotten'[k] = {} => k \in subscriptions'
  BY DEF Subscribed, Unsubscribed
<1> QED BY <1>1, <1>2, <1>3, <1>4, RequestStep

LEMMA SubscribePriceStep ==
  ASSUME FeedInv, NEW c \in Trader, NEW k \in Key, SubscribePrice(c, k)
  PROVE  FeedInv'
<1> USE DEF SubscribePrice, Because, Remembered, NotConnected, FeedInv, TypeOK, ListenInv
<1>1. /\ room' \in [Key -> SUBSET Client] /\ subscribers' \in [Key -> SUBSET Trader]
      /\ entries' \subseteq Key
      /\ forgotten' \in [Key -> SUBSET {"not connected", "other gateway", "disconnect()"}]
  <2>1. forgotten' \in {forgotten, [forgotten EXCEPT ![k] = {}],
                         [forgotten EXCEPT ![k] = @ \cup {"not connected"}]}
    BY Zenon
  <2>2. forgotten' \in [Key -> SUBSET {"not connected", "other gateway", "disconnect()"}]
    BY <2>1
  <2>3. subscribers' \in {subscribers, [subscribers EXCEPT ![k] = @ \cup {c}]}
    BY Zenon
  <2>4. subscribers' \in [Key -> SUBSET Trader]
    BY <2>3
  <2>5. room' = room /\ entries' = entries \cup {k}
    OBVIOUS
  <2> QED BY <2>2, <2>4, <2>5
<1>2. \A j \in Key \ {k} : /\ room'[j] = room[j] /\ subscribers'[j] = subscribers[j]
                          /\ (j \in entries' <=> j \in entries) /\ forgotten'[j] = forgotten[j]
  OBVIOUS
<1>3. Quiet \/ Sent(k)
  BY DEF Quiet, Sent, linkVars, LinkRest
<1>4. /\ subscribers'[k] # {} => k \in entries'
      /\ (room'[k] # {} \/ k \in entries') /\ forgotten'[k] = {} => k \in subscriptions'
  BY DEF Subscribed, Unsubscribed
<1> QED BY <1>1, <1>2, <1>3, <1>4, RequestStep

LEMMA UnsubscribePriceStep ==
  ASSUME FeedInv, NEW c \in Trader, NEW k \in Key, UnsubscribePrice(c, k)
  PROVE  FeedInv'
<1> USE DEF UnsubscribePrice, Because, Remembered, FeedInv, TypeOK, ListenInv
<1>1. /\ room' \in [Key -> SUBSET Client] /\ subscribers' \in [Key -> SUBSET Trader]
      /\ entries' \subseteq Key
      /\ forgotten' \in [Key -> SUBSET {"not connected", "other gateway", "disconnect()"}]
  OBVIOUS
<1>2. \A j \in Key \ {k} : /\ room'[j] = room[j] /\ subscribers'[j] = subscribers[j]
                          /\ (j \in entries' <=> j \in entries) /\ forgotten'[j] = forgotten[j]
  OBVIOUS
<1>3. Quiet \/ Sent(k)
  BY DEF Quiet, Sent, linkVars, LinkRest
<1>4. /\ subscribers'[k] # {} => k \in entries'
      /\ (room'[k] # {} \/ k \in entries') /\ forgotten'[k] = {} => k \in subscriptions'
  BY DEF Subscribed, Unsubscribed
<1> QED BY <1>1, <1>2, <1>3, <1>4, RequestStep

LEMMA LeaveStep ==
  ASSUME FeedInv, NEW c, LeaveStock(c) \/ LeavePrice(c)
  PROVE  FeedInv'
<1>1. LinkInv' /\ SubscriptionsRestored'
  BY NoLinkStep DEF FeedInv, LeaveStock, LeavePrice
<1>2. room' \in [Key -> SUBSET Client] /\ subscribers' \in [Key -> SUBSET Trader] /\ entries' \subseteq Key
  BY DEF FeedInv, TypeOK, LeaveStock, LeavePrice
<1>3. TypeOK'
  BY <1>1, <1>2 DEF FeedInv, TypeOK, LinkInv, LeaveStock, LeavePrice
<1>4. ListenInv'
  BY <1>2 DEF FeedInv, TypeOK, ListenInv, LeaveStock, LeavePrice, linkVars
<1> QED BY <1>1, <1>3, <1>4 DEF FeedInv

\* A step of the connection keeps the map of subscriptions; disconnect() and a
\* restart clear it.
LEMMA LinkStep ==
  ASSUME FeedInv, Link \/ Disconnect \/ Restart
  PROVE  FeedInv'
<1>1. LinkInv' /\ SubscriptionsRestored'
  <2>1. CASE Connecting
    BY <2>1, CreateStep, RefusedStep, TimerStep, OpenStep, CloseStep DEF Connecting, FeedInv
  <2>2. CASE OperatorConnect \/ Disconnect \/ Restart
    BY <2>2, OperatorConnectStep, OperatorDisconnectStep, CrashStep DEF Disconnect, Restart, FeedInv
  <2>3. CASE \E s \in Sock : GoesDown(s)
    BY <2>3, DownStep DEF FeedInv
  <2> QED BY <2>1, <2>2, <2>3 DEF Link
<1>2. CASE Link
  <2>1. subscriptions' = subscriptions
    BY <1>2 DEF Link, Connecting, CreateSocket, ConnectRefused, ReconnectTimer, Open, CloseEvent,
                OperatorConnect, GoesDown
  <2> QED BY <1>1, <1>2, <2>1 DEF Link, feedVars, FeedInv, TypeOK, ListenInv, LinkInv
<1>3. CASE Disconnect
  <2>1. forgotten' \in [Key -> SUBSET {"not connected", "other gateway", "disconnect()"}]
        /\ \A k \in Key : forgotten'[k] # {}
    BY <1>3 DEF Disconnect, FeedInv, TypeOK
  <2> QED BY <1>1, <1>3, <2>1 DEF Disconnect, FeedInv, TypeOK, ListenInv, LinkInv
<1>4. CASE Restart
  BY <1>1, <1>4 DEF Restart, FeedInv, TypeOK, ListenInv, LinkInv
<1> QED BY <1>2, <1>3, <1>4

LEMMA NextFeedInv == FeedInv /\ [Next]_vars => FeedInv'
<1> SUFFICES ASSUME FeedInv, [Next]_vars PROVE FeedInv'
  OBVIOUS
<1>1. CASE Link \/ Disconnect \/ Restart
  BY <1>1, LinkStep
<1>2. CASE Clients
  BY <1>2, SubscribeStockStep, UnsubscribeStockStep, SubscribePriceStep, UnsubscribePriceStep,
     LeaveStep DEF Clients
<1>3. CASE UNCHANGED vars
  BY <1>3, NoLinkStep DEF vars, feedVars, linkVars, FeedInv, TypeOK, LinkTypeOK, LinkFlags, ListenInv
<1> QED BY <1>1, <1>2, <1>3 DEF Next

\* The type invariant of the connection and of both gateways.
THEOREM FeedTypeOK == Spec => []TypeOK
<1>1. FeedInv => TypeOK
  BY DEF FeedInv
<1> QED BY InitFeedInv, NextFeedInv, <1>1, PTL DEF Spec

\* One feed and no lost heartbeat, unless connect() crosses a chain.
THEOREM FeedIsSingle == Spec => []SingleFeed
<1>1. FeedInv => SingleFeed
  BY DEF FeedInv, LinkInv, OneChain, SingleFeed
<1> QED BY InitFeedInv, NextFeedInv, <1>1, PTL DEF Spec

\* The socket in use carries every subscription.
THEOREM FeedIsRestored == Spec => []SubscriptionsRestored
<1>1. FeedInv => SubscriptionsRestored
  BY DEF FeedInv
<1> QED BY InitFeedInv, NextFeedInv, <1>1, PTL DEF Spec

\* A listener's subscription is lost in one of three ways only, whoever sends
\* which request: no connection, an unsubscription at the other gateway,
\* disconnect().
THEOREM ListenersKeepSubscription == Spec => []ListenersAreSubscribed
<1>1. FeedInv => ListenersAreSubscribed
  BY DEF FeedInv, ListenInv, ListenersAreSubscribed, Listening
<1> QED BY InitFeedInv, NextFeedInv, <1>1, PTL DEF Spec

-----------------------------------------------------------------------------
\* The service is at rest only after its attempts are used up or a first call
\* failed.  A timer that finds the service connected does nothing, so there has
\* to be a socket whose close event is still to come.
RestInv == (isConnected => \E s \in Sock : sock[s] \in {"open", "closing"}) /\ GivesUpOnlyAtLimit

\* A step that leaves something under way.
LEMMA BusyStep ==
  ASSUME LinkInv',
         \/ calls'["timer"] + calls'["caller"] + timers' > 0
         \/ \E s \in Sock : sock'[s] # "none",
         isConnected' => \E s \in Sock : sock'[s] \in {"open", "closing"}
  PROVE  RestInv'
BY DEF RestInv, GivesUpOnlyAtLimit, Idle, AtRest

LEMMA LinkRestInv ==
  ASSUME FeedInv, RestInv, LinkInv', Link \/ Disconnect \/ Restart
  PROVE  RestInv'
<1>0. /\ sock \in [Sock -> {"none", "opening", "open", "closing"}]
      /\ calls \in [{"timer", "caller"} -> Nat] /\ timers \in Nat
      /\ calls["timer"] \in Nat /\ calls["caller"] \in Nat
      /\ attempts \in 0..MAX_RECONNECT_ATTEMPTS
      /\ calls'["timer"] \in Nat /\ calls'["caller"] \in Nat /\ timers' \in Nat
  BY DEF FeedInv, LinkInv, LinkTypeOK
<1>1. ASSUME NEW from \in {"timer", "caller"}, CreateSocket(from) PROVE RestInv'
  <2>1. PICK s \in Sock : sock[s] = "none" /\ sock' = [sock EXCEPT ![s] = "opening"]
    BY <1>1 DEF CreateSocket
  <2>2. sock'[s] = "opening" /\ \A t \in Sock : sock[t] # "none" => sock'[t] = sock[t]
    BY <1>0, <2>1
  <2> QED BY <1>1, <2>2, BusyStep DEF CreateSocket, RestInv
<1>2. CASE ConnectRefused
  BY <1>2 DEF ConnectRefused, RestInv, GivesUpOnlyAtLimit
<1>3. CASE ReconnectTimer
  <2>1. isConnected' = isConnected /\ sock' = sock
    BY <1>3 DEF ReconnectTimer
  <2>2. CASE isConnected
    BY <2>1, <2>2, BusyStep DEF RestInv
  <2>3. CASE ~isConnected
    <3>1. calls'["timer"] > 0
      BY <1>0, <1>3, <2>3 DEF ReconnectTimer, BeginConnect
    <3> QED BY <1>0, <2>1, <2>3, <3>1, BusyStep
  <2> QED BY <2>2, <2>3
<1>4. ASSUME NEW s \in Sock, Open(s) \/ GoesDown(s) PROVE RestInv'
  <2>1. sock'[s] \in {"open", "closing"}
    BY <1>0, <1>4 DEF Open, GoesDown
  <2> QED BY <2>1, BusyStep
<1>5. ASSUME NEW s \in Sock, CloseEvent(s) PROVE RestInv'
  <2>1. ~isConnected'
    BY <1>5 DEF CloseEvent
  <2>2. CASE attempts >= MAX_RECONNECT_ATTEMPTS
    BY <1>0, <1>5, <2>1, <2>2, SocketAssumption
    DEF CloseEvent, AttemptReconnect, RestInv, GivesUpOnlyAtLimit
  <2>3. CASE ~(attempts >= MAX_RECONNECT_ATTEMPTS)
    <3>1. timers' > 0
      BY <1>0, <1>5, <2>3 DEF CloseEvent, AttemptReconnect
    <3> QED BY <1>0, <2>1, <3>1, BusyStep
  <2> QED BY <2>2, <2>3
<1>6. CASE OperatorConnect
  <2>1. isConnected' = isConnected /\ sock' = sock
    BY <1>6 DEF OperatorConnect
  <2>2. CASE isConnected
    BY <2>1, <2>2, BusyStep DEF RestInv
  <2>3. CASE ~isConnected
    <3>1. calls'["caller"] > 0
      BY <1>0, <1>6, <2>3 DEF OperatorConnect, BeginConnect
    <3> QED BY <1>0, <2>1, <2>3, <3>1, BusyStep
  <2> QED BY <2>2, <2>3
<1>7. CASE OperatorDisconnect
  <2>1. ~isConnected' /\ UNCHANGED <<attempts, calls, timers, refused>>
    BY <1>7 DEF OperatorDisconnect
  <2>2. \A s \in Sock : sock'[s] = "none" <=> sock[s] = "none"
    BY <1>0, <1>7 DEF OperatorDisconnect
  <2> QED BY <2>1, <2>2 DEF RestInv, GivesUpOnlyAtLimit, Idle, AtRest
<1>8. CASE Crash
  <2>1. calls'["caller"] > 0 /\ ~isConnected'
    BY <1>8 DEF Crash
  <2> QED BY <1>0, <2>1, BusyStep
<1> QED
  BY <1>1, <1>2, <1>3, <1>4, <1>5, <1>6, <1>7, <1>8 DEF Link, Connecting, Disconnect, Restart

LEMMA NextRestInv == FeedInv /\ RestInv /\ [Next]_vars => RestInv'
<1> SUFFICES ASSUME FeedInv, RestInv, [Next]_vars PROVE RestInv'
  OBVIOUS
<1>1. CASE Link \/ Disconnect \/ Restart
  BY <1>1, LinkStep, LinkRestInv DEF FeedInv
<1>2. CASE Clients \/ UNCHANGED vars
  <2>1. UNCHANGED <<sock, isConnected, attempts, calls, timers, refused>>
    BY <1>2 DEF Clients, vars, linkVars, LinkRest, LeaveStock, LeavePrice, SubscribeStock,
                UnsubscribeStock, SubscribePrice, UnsubscribePrice
  <2> QED BY <2>1 DEF RestInv, GivesUpOnlyAtLimit, Idle, AtRest
<1> QED BY <1>1, <1>2 DEF Next

\* No reconnect is forgotten: without a connection there is an attempt or a
\* timer, unless the attempts are used up or a first connect() failed.
THEOREM FeedGivesUpLate == Spec => []GivesUpOnlyAtLimit
<1>1. Init => RestInv
  BY DEF Init, LinkInit, RestInv, GivesUpOnlyAtLimit, Idle, AtRest
<1>2. RestInv => GivesUpOnlyAtLimit
  BY DEF RestInv
<1> QED BY InitFeedInv, NextFeedInv, NextRestInv, <1>1, <1>2, PTL DEF Spec
=============================================================================
