----------------------------- MODULE MCMarketFeed -----------------------------
(* Two clients of WebsocketGateway, one of RealtimeGateway, one symbol.    *)
EXTENDS MarketFeed
=============================================================================
