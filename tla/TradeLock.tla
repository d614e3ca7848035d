----------------------------- MODULE TradeLock -----------------------------
(***************************************************************************)
(* TradeTransactionService.executeTrade: requests for the same trade (same *)
(* user, stock, account, side and quantity) that exclude one another by a  *)
(* lock in Redis and look for a row of the last seconds before they create *)
(* their own.  A request is interrupted at every await and may die there.  *)
(*                                                                         *)
(* Time is kept as what is left of the lock, how long a request has been   *)
(* inside, and the age of a row; each stops counting where the code stops  *)
(* telling values apart.  The time between two attempts is any.            *)
(***************************************************************************)
EXTENDS Integers

CONSTANTS
  Request,
  Token,               \* values of Date.now(): requests may share one
  LOCK_TTL,
  MAX_LOCK_RETRIES,
  DUPLICATE_WINDOW     \* how far back the duplicate check looks

Limits ==
  /\ LOCK_TTL \in Nat \ {0}
  /\ MAX_LOCK_RETRIES \in Nat
  /\ DUPLICATE_WINDOW \in Nat

VARIABLES
  lock,         \* the key in Redis: time to live (0: no key), value, setter
  stage,        \* request -> where it is
  lockValue,    \* request -> its token
  retries,      \* request -> failed attempts to lock
  held,         \* request -> time since it locked, up to LOCK_TTL
  age,          \* request -> age of its row, or NoTrade
  committed,    \* requests whose row is committed
  near,         \* history: <<r, s>>, r's row was created while s's was recent
  overstayed    \* history: a request was inside for LOCK_TTL

vars == <<lock, stage, lockValue, retries, held, age, committed, near, overstayed>>

NoTrade == -1

Inside == {"checking", "creating", "committing", "releasing"}
Stage  == {"idle", "acquiring", "done"} \cup Inside

TypeOK ==
  /\ lock \in [ttl : 0..LOCK_TTL, value : Token, setter : Request]
  /\ stage \in [Request -> Stage]
  /\ lockValue \in [Request -> Token]
  /\ retries \in [Request -> 0..MAX_LOCK_RETRIES]
  /\ held \in [Request -> 0..LOCK_TTL]
  /\ age \in [Request -> {NoTrade} \cup 0..(DUPLICATE_WINDOW + 1)]
  /\ committed \subseteq Request
  /\ near \subseteq Request \X Request
  /\ overstayed \in BOOLEAN

Init ==
  /\ lock \in [ttl : {0}, value : Token, setter : Request]
  /\ stage = [r \in Request |-> "idle"]
  /\ lockValue \in [Request -> Token]
  /\ retries = [r \in Request |-> 0]
  /\ held = [r \in Request |-> 0]
  /\ age = [r \in Request |-> NoTrade]
  /\ committed = {}
  /\ near = {}
  /\ overstayed = FALSE

-----------------------------------------------------------------------------
Locked  == lock.ttl > 0
GoTo(r, s) == stage' = [stage EXCEPT ![r] = s]

SetLock(r) == lock' = [ttl |-> LOCK_TTL, value |-> lockValue[r], setter |-> r]

Start(r) ==
  /\ stage[r] = "idle"
  /\ GoTo(r, "acquiring")
  /\ UNCHANGED <<lock, lockValue, retries, held, age, committed, near, overstayed>>

\* Mutated form: SET without NX.
AcquireLockAlways(r) ==
  /\ stage[r] = "acquiring"
  /\ SetLock(r)
  /\ GoTo(r, "checking")
  /\ held' = [held EXCEPT ![r] = 0]
  /\ UNCHANGED <<lockValue, retries, age, committed, near, overstayed>>

\* SET key value PX LOCK_TTL NX
AcquireLock(r) ==
  /\ stage[r] = "acquiring"
  /\ ~Locked
  /\ SetLock(r)
  /\ GoTo(r, "checking")
  /\ held' = [held EXCEPT ![r] = 0]
  /\ UNCHANGED <<lockValue, retries, age, committed, near, overstayed>>

LockRefused(r) ==
  /\ stage[r] = "acquiring"
  /\ Locked
  /\ IF retries[r] < MAX_LOCK_RETRIES
     THEN retries' = [retries EXCEPT ![r] = @ + 1] /\ UNCHANGED stage
     ELSE GoTo(r, "done") /\ UNCHANGED retries
  /\ UNCHANGED <<lock, lockValue, held, age, committed, near, overstayed>>

\* Redis does not answer: the request fails, with the lock set or not.
AcquireFails(r) ==
  /\ stage[r] = "acquiring"
  /\ GoTo(r, "done")
  /\ UNCHANGED lock \/ (~Locked /\ SetLock(r))
  /\ UNCHANGED <<lockValue, retries, held, age, committed, near, overstayed>>

IsRecent(s) == age[s] \in 0..DUPLICATE_WINDOW

\* Mutated form: the limit of the window itself is left out.
CheckDuplicateShort(r) ==
  /\ stage[r] = "checking"
  /\ GoTo(r, IF \E s \in committed : age[s] \in 0..(DUPLICATE_WINDOW - 1)
             THEN "releasing" ELSE "creating")
  /\ UNCHANGED <<lock, lockValue, retries, held, age, committed, near, overstayed>>

\* A committed row of the last seconds rejects the request.
CheckDuplicate(r) ==
  /\ stage[r] = "checking"
  /\ GoTo(r, IF \E s \in committed : IsRecent(s) THEN "releasing" ELSE "creating")
  /\ UNCHANGED <<lock, lockValue, retries, held, age, committed, near, overstayed>>

\* The transaction creates the row, then checks the cash balance.
CreateTrade(r) ==
  /\ stage[r] = "creating"
  /\ age' = [age EXCEPT ![r] = 0]
  /\ near' = near \cup {<<r, s>> : s \in {x \in Request \ {r} : IsRecent(x)}}
  /\ GoTo(r, "committing")
  /\ UNCHANGED <<lock, lockValue, retries, held, committed, overstayed>>

Commit(r) ==
  /\ stage[r] = "committing"
  /\ committed' = committed \cup {r}
  /\ GoTo(r, "releasing")
  /\ UNCHANGED <<lock, lockValue, retries, held, age, near, overstayed>>

\* A query throws, or there is not enough cash.
Throw(r) ==
  /\ stage[r] \in {"checking", "creating", "committing"}
  /\ GoTo(r, "releasing")
  /\ UNCHANGED <<lock, lockValue, retries, held, age, committed, near, overstayed>>

\* The Lua script: compare the value and delete.  It may get lost.
ReleaseLock(r) ==
  /\ stage[r] = "releasing"
  /\ GoTo(r, "done")
  /\ \/ Locked /\ lock.value = lockValue[r] /\ lock' = [lock EXCEPT !.ttl = 0]
     \/ UNCHANGED lock
  /\ UNCHANGED <<lockValue, retries, held, age, committed, near, overstayed>>

\* The process dies; a transaction under way is committed or not.
Die(r) ==
  /\ stage[r] \in Inside \cup {"acquiring"}
  /\ GoTo(r, "done")
  /\ \/ UNCHANGED committed
     \/ stage[r] = "committing" /\ committed' = committed \cup {r}
  /\ UNCHANGED <<lock, lockValue, retries, held, age, near, overstayed>>

\* Mutated form: the key was set without PX and does not expire.
TickNoExpiry ==
  /\ held' = [r \in Request |-> IF held[r] < LOCK_TTL THEN held[r] + 1 ELSE held[r]]
  /\ age' = [r \in Request |-> IF IsRecent(r) THEN age[r] + 1 ELSE age[r]]
  /\ overstayed' = (overstayed \/ \E r \in Request : stage[r] \in Inside /\ held'[r] = LOCK_TTL)
  /\ UNCHANGED <<lock, stage, lockValue, retries, committed, near>>

\* Time goes by: the PX LOCK_TTL of acquireLock's SET makes Redis expire the key.
Tick ==
  /\ lock' = [lock EXCEPT !.ttl = IF @ > 0 THEN @ - 1 ELSE 0]
  /\ held' = [r \in Request |-> IF held[r] < LOCK_TTL THEN held[r] + 1 ELSE held[r]]
  /\ age' = [r \in Request |-> IF IsRecent(r) THEN age[r] + 1 ELSE age[r]]
  /\ overstayed' = (overstayed \/ \E r \in Request : stage[r] \in Inside /\ held'[r] = LOCK_TTL)
  /\ UNCHANGED <<stage, lockValue, retries, committed, near>>

Step(r) ==
  \/ AcquireLock(r) \/ LockRefused(r) \/ AcquireFails(r) \/ CheckDuplicate(r)
  \/ CreateTrade(r) \/ Commit(r) \/ Throw(r) \/ ReleaseLock(r) \/ Die(r)

Next == (\E r \in Request : Start(r) \/ Step(r)) \/ Tick

Spec == Init /\ [][Next]_vars

\* An await ends, with an answer or an error, and time goes by.
FairSpec == Spec /\ WF_vars(Tick) /\ \A r \in Request : WF_vars(Step(r))

-----------------------------------------------------------------------------
\* Two requests are inside together only after one has stayed for LOCK_TTL:
\* nothing in the service bounds the time inside, the key expires all the
\* same.  Lost answers, deaths and equal tokens alone do not break it.
MutualExclusion ==
  ~overstayed => \A r, s \in Request :
                   stage[r] \in Inside /\ stage[s] \in Inside => r = s

\* Nor are two rows committed of which one was created while the other was
\* recent: the check sees what the request before has committed.
NoDuplicateTrade ==
  ~overstayed => \A r, s \in committed : <<r, s>> \notin near

\* The key does not outlive its setter for ever, also when the release is
\* lost or the process died.
LockIsFreed == <>[](~Locked)

\* "Handles duplicate trade prevention using distributed locks"
\* (trade-transaction.service.ts:8), however slow the requests are.
DuplicatesPrevented == \A r, s \in committed : <<r, s>> \notin near

-----------------------------------------------------------------------------
\* The strengthening that the proofs use: who is inside holds the lock for
\* the rest of its time, what it found is still true, and a row created near
\* another one's is that of a request that can no longer commit it.
HoldsLock(r) == Locked /\ lock.setter = r /\ lock.ttl + held[r] = LOCK_TTL

LockInv ==
  /\ TypeOK
  /\ ~overstayed =>
       /\ \A r \in Request : stage[r] \in Inside => HoldsLock(r)
       /\ \A r \in Request : stage[r] = "creating" => \A s \in committed : ~IsRecent(s)
       /\ \A r \in Request : stage[r] \in {"idle", "acquiring", "checking", "creating"}
                               => age[r] = NoTrade
       /\ \A r, s \in Request : <<r, s>> \in near => s \notin committed /\ stage[s] = "done"
=============================================================================
