---------------------------- MODULE MCSmartOrder ----------------------------
(* One request at a time of each kind: requests of different milliseconds   *)
(* share nothing.  The other run lets two icebergs share a millisecond.     *)
EXTENDS SmartOrder
=============================================================================
