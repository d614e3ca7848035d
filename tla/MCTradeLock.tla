---------------------------- MODULE MCTradeLock ----------------------------
(* Two requests, which may have started in the same millisecond; the key    *)
(* lives as long as the three steps of a request may take.  The variables   *)
(* have names of their own, so that TradeProofs can speak of the lock and   *)
(* of the life of a trade together.                                         *)
CONSTANTS
  Request, Token, LOCK_TTL, MAX_LOCK_RETRIES, DUPLICATE_WINDOW

VARIABLES
  lock, lockStage, lockValue, attempts, held, age, committed, near, overstayed

Lock == INSTANCE TradeLock WITH stage <- lockStage, retries <- attempts

ASSUME LockAssumption == Lock!Limits

LockSpec == Lock!FairSpec

-----------------------------------------------------------------------------
\* The properties of TradeLock.
MutualExclusion  == Lock!MutualExclusion
NoDuplicateTrade == Lock!NoDuplicateTrade
LockIsFreed      == Lock!LockIsFreed
=============================================================================
