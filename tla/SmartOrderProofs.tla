-------------------------- MODULE SmartOrderProofs --------------------------
(***************************************************************************)
(* An order that has its id for itself is never exceeded and is COMPLETED  *)
(* only when it has been placed, for any number of orders of any kind, any *)
(* number of slices and any troubles.                                      *)
(*                                                                         *)
(* The properties speak of numbers of shares.  What is inductive is, kind  *)
(* by kind, how these follow from the stages of the workers (KindInv), and *)
(* that a worker works for another request only if both have one id        *)
(* (LinkInv).                                                              *)
(***************************************************************************)
EXTENDS SmartOrder, FiniteSetTheorems, TLAPS

\* The slices of an order, and the requests that have come in.
Slots == 1..Slices
Known == {x \in Request : id[x] # 0}

\* Requests that have come in have an id; a worker's target has the id of the
\* worker's request; an aggressive order is in nobody's reach until it ends.
LinkInv ==
  /\ \A r \in Request : id[r] = 0 <=> status[r] = "new"
  /\ \A w \in Worker : stage[w] # "none" => id[RequestOf(w)] # 0
  /\ \A w \in Worker : \/ target[w].of = RequestOf(w)
                       \/ id[RequestOf(w)] # 0 /\ id[target[w].of] = id[RequestOf(w)]
  /\ \A w \in Worker : RequestOf(w) \in Sliced \cup Icebergs => target[w].index \in Slots
  /\ active \subseteq Known
  /\ \A r \in Request : cancel[r].stage # "none" => id[r] # 0
  /\ \A r \in Aggressives :
       /\ target[Lead(r)].of = r
       /\ stage[Lead(r)] # "ended" =>
            r \notin active /\ \A w \in Worker : target[w].of = r => RequestOf(w) = r
  /\ now <= Cardinality(Known)

\* No other request has its id, or none can find it: an aggressive order is
\* registered only at its end.
Own(r) == id[r] = 0 \/ Alone(r) \/ (r \in Aggressives /\ stage[Lead(r)] # "ended")

\* Slices accepted whose answer is out, and slices that will not be asked for again.
Out(r)     == {k \in Slots : stage[<<r, k>>] = "placed"}
Settled(r) == {k \in Slots : stage[<<r, k>>] \in {"placed", "closing", "ended", "skipped"}}

\* A sliced order: each slice has its worker, which asks for it once.
SlicedInv(r) ==
  /\ \A k \in Slots :
       /\ stage[<<r, k>>] \in {"none", "timer", "asking", "placed", "closing", "ended", "skipped"}
       /\ stage[<<r, k>>] \in {"asking", "placed"} =>
            target[<<r, k>>].index = k /\ target[<<r, k>>].quantity = 1
       /\ k \in executed[r] => stage[<<r, k>>] \in {"closing", "ended"}
  /\ reported[r] = Cardinality(executed[r])
  /\ reported[r] + Cardinality(Out(r)) <= accepted[r]
  /\ accepted[r] <= Cardinality(Settled(r))
  /\ status[r] = "COMPLETED" => executed[r] = Slots

\* An iceberg: its worker asks for a slice that is not executed, and stops
\* when one is not answered.
IcebergInv(r) ==
  LET s == stage[Lead(r)]
      k == target[Lead(r)].index
  IN  /\ s \in {"none", "timer", "asking", "placed", "ended"}
      /\ k \in Slots
      /\ s = "none" => executed[r] = {}
      /\ s \in {"asking", "placed"} => k \notin executed[r] /\ target[Lead(r)].quantity = 1
      /\ reported[r] = Cardinality(executed[r])
      /\ s = "placed" => reported[r] < accepted[r]
      /\ reported[r] <= accepted[r]
      /\ accepted[r] <= IF s \in {"placed", "ended"} THEN Cardinality(executed[r] \cup {k})
                        ELSE Cardinality(executed[r])
      /\ status[r] = "COMPLETED" => executed[r] = Slots

\* A best-limit order: it is watched only after it was accepted in full.
BestLimitInv(r) ==
  LET s == stage[Lead(r)] IN
  /\ s \in {"none", "asking", "placed", "watching", "checking", "ended"}
  /\ s = "asking" => target[Lead(r)].quantity = Slices
  /\ s \in {"none", "asking"} => accepted[r] = 0
  /\ s \in {"placed", "watching", "checking"} \/ status[r] = "COMPLETED" => accepted[r] = Slices
  /\ accepted[r] <= Slices
  /\ reported[r] = 0
  /\ s \in {"asking", "placed"} => status[r] # "COMPLETED"

\* An aggressive order: what it asks for is what has not been accepted.
AggressiveInv(r) ==
  LET s == stage[Lead(r)]
      q == target[Lead(r)].quantity
  IN  /\ s \in {"none", "asking", "placed", "ended"}
      /\ s = "none" => accepted[r] = 0 /\ reported[r] = 0
      /\ s \in {"asking", "placed"} => q \in 1..(Slices - reported[r])
      /\ s = "asking" => accepted[r] = reported[r]
      /\ s = "placed" => accepted[r] = reported[r] + q
      /\ reported[r] <= accepted[r] /\ accepted[r] <= Slices
      /\ status[r] = "COMPLETED" => s = "ended" /\ accepted[r] = Slices

KindInv(r) ==
  /\ r \in Sliced => SlicedInv(r)
  /\ r \in Icebergs => IcebergInv(r)
  /\ r \in BestLimits => BestLimitInv(r)
  /\ r \in Aggressives => AggressiveInv(r)

SmartInv == TypeOK /\ LinkInv /\ \A r \in Request : Own(r) => KindInv(r)

-----------------------------------------------------------------------------
Stages == {"none", "timer", "asking", "placed", "closing", "watching", "checking", "skipped", "ended"}

\* A worker belongs to a request: to one of its slices if it is sliced.
LEMMA Workers ==
  ASSUME NEW w \in Worker
  PROVE  /\ RequestOf(w) \in Request
         /\ RequestOf(w) \in Sliced => w[2] \in Slots /\ w = <<RequestOf(w), w[2]>>
         /\ RequestOf(w) \notin Sliced => w = Lead(RequestOf(w))
BY DEF Worker, RequestOf, Lead, Request, Slots

\* And the other way round.
LEMMA WorkersOf ==
  ASSUME NEW r \in Request
  PROVE  /\ r \in Sliced => \A k \in Slots : <<r, k>> \in Worker /\ RequestOf(<<r, k>>) = r
         /\ r \notin Sliced => Lead(r) \in Worker /\ RequestOf(Lead(r)) = r
BY DEF Worker, RequestOf, Lead, Request, Slots

\* The kinds of requests are apart.
LEMMA Kinds ==
  ASSUME NEW r \in Request
  PROVE  /\ r \in Sliced => r \notin Icebergs /\ r \notin BestLimits /\ r \notin Aggressives
         /\ r \in Icebergs => r \notin BestLimits /\ r \notin Aggressives
         /\ r \in BestLimits => r \notin Aggressives
         /\ r \in Sliced \/ r \in Icebergs \/ r \in BestLimits \/ r \in Aggressives
BY SmartAssumption DEF Request

\* What a worker of a request that has its id for itself works on is that request.
LEMMA Mine ==
  ASSUME SmartInv, NEW r \in Request, Own(r), NEW w \in Worker, stage[w] # "none",
         target[w].of = r \/ r \in Found(id[RequestOf(w)])
  PROVE  RequestOf(w) = r
<1>1. RequestOf(w) \in Request /\ id[RequestOf(w)] # 0
  BY Workers DEF SmartInv, LinkInv
<1>2. RequestOf(w) = r \/ id[r] = id[RequestOf(w)]
  BY DEF SmartInv, LinkInv, Found
<1>3. CASE id[r] = 0
  BY <1>1, <1>2, <1>3
<1>4. CASE Alone(r)
  BY <1>1, <1>2, <1>4 DEF Alone
<1>5. CASE r \in Aggressives /\ stage[Lead(r)] # "ended"
  <2>1. r \notin active /\ (target[w].of = r => RequestOf(w) = r)
    BY <1>5 DEF SmartInv, LinkInv
  <2>. QED BY <2>1 DEF Found
<1>. QED BY <1>3, <1>4, <1>5 DEF Own

\* What every step of a worker does to the maps that link requests and workers.
GoesOn(w) ==
  /\ stage[w] \notin {"none", "ended"}
  /\ UNCHANGED <<now, id, cancel>>
  /\ \E s \in Stages \ {"none"} : GoTo(w, s)
  /\ \/ UNCHANGED target
     \/ \E t \in Target :
          /\ t.of \in {RequestOf(w)} \cup Found(id[RequestOf(w)])
          /\ RequestOf(w) \in Sliced \cup Icebergs => t.index \in Slots
          /\ RequestOf(w) \in Aggressives => t.of = RequestOf(w)
          /\ target' = [target EXCEPT ![w] = t]
  /\ active' \subseteq active \cup {RequestOf(w)}
  /\ RequestOf(w) \in Aggressives /\ RequestOf(w) \in active' => RequestOf(w) \in active \/ stage'[w] = "ended"
  /\ \A x \in Request : status'[x] = "new" <=> status[x] = "new"

\* Such a step keeps the links, and makes no request the owner of its id.
LEMMA LinkStep ==
  ASSUME SmartInv, NEW w \in Worker, GoesOn(w)
  PROVE  LinkInv' /\ \A r \in Request : Own(r)' => Own(r)
<1>. DEFINE r0 == RequestOf(w)
<1>1. /\ r0 \in Request /\ id[r0] # 0 /\ id' = id /\ now' = now
      /\ stage \in [Worker -> Stages] /\ target \in [Worker -> Target] /\ LinkInv
  BY Workers DEF SmartInv, LinkInv, TypeOK, GoesOn, Stages
<1>2. PICK s \in Stages \ {"none"} : stage' = [stage EXCEPT ![w] = s]
  BY DEF GoesOn, GoTo
<1>3. \A v \in Worker : target'[v].of = target[v].of \/ (v = w /\ (target'[v].of = r0 \/ target'[v].of \in Found(id[r0])))
  BY <1>1 DEF GoesOn
<1>4. \A r \in Request : id'[r] = 0 <=> status'[r] = "new"
  BY <1>1 DEF GoesOn, LinkInv
<1>5. \A v \in Worker : stage'[v] # "none" => id'[RequestOf(v)] # 0
  BY <1>1, <1>2 DEF LinkInv
<1>6. \A v \in Worker : target'[v].of = RequestOf(v) \/ (id'[RequestOf(v)] # 0 /\ id'[target'[v].of] = id'[RequestOf(v)])
  BY <1>1, <1>3 DEF LinkInv, Found
<1>7. active' \subseteq Known' /\ now' <= Cardinality(Known')
  <2>1. Known' = Known
    BY <1>1 DEF Known
  <2>2. r0 \in Known
    BY <1>1 DEF Known
  <2>. QED BY <1>1, <2>1, <2>2 DEF LinkInv, GoesOn
<1>8. ASSUME NEW r \in Aggressives, stage'[Lead(r)] # "ended"
      PROVE  stage[Lead(r)] # "ended" /\ r \notin active' /\ \A v \in Worker : target'[v].of = r => RequestOf(v) = r
  <2>1. r \in Request /\ Lead(r) \in Worker /\ RequestOf(Lead(r)) = r
    BY WorkersOf, Kinds DEF Request
  <2>2. stage[Lead(r)] # "ended"
    BY <1>1, <1>2, <1>8, <2>1 DEF GoesOn
  <2>3. r \notin active /\ \A v \in Worker : target[v].of = r => RequestOf(v) = r
    BY <1>1, <2>2 DEF LinkInv
  <2>4. r = r0 => w = Lead(r)
    BY Workers, Kinds, <2>1
  <2>5. r \notin active'
    BY <1>8, <2>3, <2>4 DEF GoesOn
  <2>. QED BY <1>3, <2>2, <2>3, <2>5 DEF Found
<1>11. \A v \in Worker : RequestOf(v) \in Sliced \cup Icebergs => target'[v].index \in Slots
  BY <1>1 DEF GoesOn, LinkInv
<1>12. ASSUME NEW r \in Aggressives PROVE target'[Lead(r)].of = r
  <2>1. Lead(r) \in Worker /\ RequestOf(Lead(r)) = r
    BY WorkersOf, Kinds DEF Request
  <2>2. target[Lead(r)].of = r
    BY <1>1 DEF LinkInv
  <2>. QED BY <1>1, <2>1, <2>2 DEF GoesOn
<1>13. \A r \in Request : cancel'[r].stage # "none" => id'[r] # 0
  BY <1>1 DEF LinkInv, GoesOn
<1>9. LinkInv'
  BY <1>4, <1>5, <1>6, <1>7, <1>8, <1>11, <1>12, <1>13 DEF LinkInv, RequestOf, Lead, Slots
<1>10. ASSUME NEW r \in Request, Own(r)' PROVE Own(r)
  BY <1>1, <1>8, <1>10 DEF Own, Alone, Lead
<1>. QED BY <1>9, <1>10

\* What a worker changes of requests that are neither its own nor its target:
\* at most their status, if they are registered under its id.
Spares(w) ==
  /\ \A x \in Request \ {RequestOf(w), target[w].of} :
       executed'[x] = executed[x] /\ reported'[x] = reported[x] /\ accepted'[x] = accepted[x]
  /\ \A x \in Request : status'[x] = "COMPLETED" /\ status[x] # "COMPLETED" =>
       x \in {RequestOf(w), target[w].of} \cup Found(id[RequestOf(w)])

\* A request whose workers rest and whose numbers stay is as sound as before.
LEMMA KindFrame ==
  ASSUME SmartInv, NEW r \in Request, KindInv(r),
         \A w \in Worker : RequestOf(w) = r => stage'[w] = stage[w] /\ target'[w] = target[w],
         executed'[r] = executed[r], reported'[r] = reported[r], accepted'[r] = accepted[r],
         status'[r] = "COMPLETED" => status[r] = "COMPLETED"
  PROVE  KindInv(r)'
<1>1. CASE r \in Sliced
  <2>1. \A k \in Slots : stage'[<<r, k>>] = stage[<<r, k>>] /\ target'[<<r, k>>] = target[<<r, k>>]
    BY <1>1, WorkersOf
  <2>2. Out(r)' = Out(r) /\ Settled(r)' = Settled(r)
    BY <2>1 DEF Out, Settled, Slots
  <2>3. SlicedInv(r)'
    BY <1>1, <2>1, <2>2 DEF KindInv, SlicedInv, Slots
  <2>. QED BY <1>1, <2>3, Kinds DEF KindInv
<1>2. CASE r \notin Sliced
  <2>1. stage'[Lead(r)] = stage[Lead(r)] /\ target'[Lead(r)] = target[Lead(r)]
    BY <1>2, WorkersOf
  <2>2. r \in Icebergs => IcebergInv(r)'
    BY <2>1 DEF KindInv, IcebergInv, Lead, Slots
  <2>3. r \in BestLimits => BestLimitInv(r)'
    BY <2>1 DEF KindInv, BestLimitInv, Lead
  <2>4. r \in Aggressives => AggressiveInv(r)'
    BY <2>1 DEF KindInv, AggressiveInv, Lead
  <2>. QED BY <1>2, <2>2, <2>3, <2>4 DEF KindInv
<1>. QED BY <1>1, <1>2

\* Of the requests that have their ids for themselves a worker disturbs only its own.
LEMMA OthersKeep ==
  ASSUME SmartInv, NEW w \in Worker, GoesOn(w), Spares(w),
         NEW r \in Request \ {RequestOf(w)}, Own(r)
  PROVE  KindInv(r)'
<1>1. stage[w] # "none" /\ KindInv(r) /\ stage \in [Worker -> Stages] /\ target \in [Worker -> Target]
  BY DEF GoesOn, SmartInv, TypeOK, Stages
<1>2. r # target[w].of /\ r \notin Found(id[RequestOf(w)])
  BY <1>1, Mine
<1>3. \A v \in Worker : RequestOf(v) = r => stage'[v] = stage[v] /\ target'[v] = target[v]
  BY <1>1 DEF GoesOn, GoTo
<1>4. /\ executed'[r] = executed[r] /\ reported'[r] = reported[r] /\ accepted'[r] = accepted[r]
      /\ status'[r] = "COMPLETED" => status[r] = "COMPLETED"
  BY <1>2 DEF Spares
<1>. QED BY <1>1, <1>3, <1>4, KindFrame

\* A step of a worker is sound if it is for the worker's own request.
LEMMA WorkerStep ==
  ASSUME SmartInv, NEW w \in Worker, GoesOn(w), Spares(w), TypeOK',
         Own(RequestOf(w)) => KindInv(RequestOf(w))'
  PROVE  SmartInv'
<1>1. LinkInv' /\ \A r \in Request : Own(r)' => Own(r)
  BY LinkStep
<1>2. ASSUME NEW r \in Request, Own(r)' PROVE KindInv(r)'
  <2>1. CASE r = RequestOf(w)
    BY <1>1, <1>2, <2>1 DEF RequestOf
  <2>2. CASE r # RequestOf(w)
    BY <1>1, <1>2, <2>2, OthersKeep
  <2>. QED BY <2>1, <2>2
<1>. QED BY <1>1, <1>2 DEF SmartInv

-----------------------------------------------------------------------------
\* Before the first request nothing is placed.
LEMMA InitSmart == Init => SmartInv
<1>. SUFFICES ASSUME Init PROVE SmartInv
  OBVIOUS
<1>1. Slices \in Nat \ {0} /\ MaxTroubles \in Nat /\ 1 \in Index /\ 0 \in 0..Slices /\ 1 \in Slots
  BY SmartAssumption DEF Index, Slots
<1>2. \A w \in Worker : RequestOf(w) = w[1] /\ w[1] \in Request
  BY Workers DEF RequestOf
<1>3. TypeOK
  BY <1>1, <1>2 DEF Init, TypeOK, Target
<1>4. Known = {} /\ Cardinality(Known) = 0
  BY FS_EmptySet DEF Init, Known
<1>5. \A w \in Worker : stage[w] = "none" /\ target[w].of = RequestOf(w) /\ target[w].index = 1
  BY <1>2 DEF Init
<1>6. LinkInv
  <2>1. \A r \in Aggressives : Lead(r) \in Worker /\ RequestOf(Lead(r)) = r
    BY WorkersOf, Kinds DEF Request
  <2>. QED BY <1>1, <1>2, <1>4, <1>5, <2>1 DEF Init, LinkInv
<1>7. ASSUME NEW r \in Request PROVE KindInv(r)
  <2>1. executed[r] = {} /\ reported[r] = 0 /\ accepted[r] = 0 /\ status[r] = "new" /\ Cardinality({}) = 0
    BY FS_EmptySet DEF Init
  <2>2. CASE r \in Sliced
    <3>1. \A k \in Slots : stage[<<r, k>>] = "none"
      BY <1>5, <2>2, WorkersOf
    <3>2. Out(r) = {} /\ Settled(r) = {}
      BY <3>1 DEF Out, Settled
    <3>. QED BY <2>1, <2>2, <3>1, <3>2, Kinds DEF KindInv, SlicedInv
  <2>3. CASE r \notin Sliced
    <3>1. stage[Lead(r)] = "none" /\ target[Lead(r)].index = 1
      BY <1>5, <2>3, WorkersOf
    <3>2. r \in Icebergs => IcebergInv(r)
      BY <1>1, <2>1, <3>1 DEF IcebergInv
    <3>3. r \in BestLimits => BestLimitInv(r)
      BY <1>1, <2>1, <3>1 DEF BestLimitInv
    <3>4. r \in Aggressives => AggressiveInv(r)
      BY <1>1, <2>1, <3>1 DEF AggressiveInv
    <3>. QED BY <2>3, <3>2, <3>3, <3>4 DEF KindInv
  <2>. QED BY <2>2, <2>3
<1>. QED BY <1>3, <1>6, <1>7 DEF SmartInv

-----------------------------------------------------------------------------
\* The requests that have come in are finitely many.
LEMMA KnownGrows ==
  ASSUME NEW r \in Request, id[r] = 0, NEW i \in Nat \ {0}, id \in [Request -> Nat],
         id' = [id EXCEPT ![r] = i]
  PROVE  /\ Cardinality(Known) \in Nat /\ Cardinality(Known') = Cardinality(Known) + 1
         /\ Cardinality(Known') <= Cardinality(Request) /\ Cardinality(Request) \in Nat
<1>1. Known' = Known \cup {r} /\ r \notin Known /\ Known \subseteq Request /\ Known' \subseteq Request
  BY DEF Known
<1>2. IsFiniteSet(Known) /\ IsFiniteSet(Request)
  BY <1>1, SmartAssumption, FS_Subset
<1>3. Cardinality(Known') = Cardinality(Known) + 1
  BY <1>1, <1>2, FS_AddElement
<1>4. Cardinality(Known') <= Cardinality(Request)
  BY <1>1, <1>2, FS_Subset
<1>. QED BY <1>2, <1>3, <1>4, FS_CardinalityType

\* The request that comes in is numbered; the others rest.
LEMMA IdentifyStep ==
  ASSUME SmartInv, NEW r \in Request, Identify(r),
         \A w \in Worker : RequestOf(w) # r => stage'[w] = stage[w] /\ target'[w] = target[w],
         \A w \in Worker : RequestOf(w) = r =>
           target'[w].of = r /\ (r \in Sliced \cup Icebergs => target'[w].index \in Slots),
         active' \subseteq active \cup {r}, r \in Aggressives => active' = active,
         TypeOK', KindInv(r)'
  PROVE  SmartInv'
<1>0. TypeOK /\ LinkInv /\ id \in [Request -> Nat] /\ now \in Nat /\ status \in [Request -> {"new", "ACTIVE", "COMPLETED", "CANCELLED", "FAILED"}]
  BY DEF SmartInv, TypeOK, Instant
<1>1. /\ status[r] = "new" /\ status' = [status EXCEPT ![r] = "ACTIVE"]
      /\ id[r] = 0 /\ now' \in Nat \ {0} /\ now' <= now + 1 /\ id' = [id EXCEPT ![r] = now']
  BY <1>0 DEF Identify, SetStatus, LinkInv
<1>2. \A w \in Worker : RequestOf(w) \in Request /\ (RequestOf(w) = r => stage[w] = "none")
  BY <1>0, <1>1, Workers DEF LinkInv
<1>3. \A w \in Worker : target[w].of = r => RequestOf(w) = r
  BY <1>0, <1>1 DEF LinkInv
<1>4. \A x \in Request : id'[x] = IF x = r THEN now' ELSE id[x]
  BY <1>0, <1>1
<1>5. LinkInv'
  <2>1. \A x \in Request : id'[x] = 0 <=> status'[x] = "new"
    BY <1>0, <1>1, <1>4 DEF LinkInv
  <2>2. \A w \in Worker : stage'[w] # "none" => id'[RequestOf(w)] # 0
    BY <1>0, <1>1, <1>2, <1>4 DEF LinkInv
  <2>3. ASSUME NEW w \in Worker
        PROVE  \/ target'[w].of = RequestOf(w)
               \/ id'[RequestOf(w)] # 0 /\ id'[target'[w].of] = id'[RequestOf(w)]
    <3>1. CASE RequestOf(w) = r
      BY <3>1
    <3>2. CASE RequestOf(w) # r
      <4>1. target'[w].of # r /\ target'[w].of = target[w].of /\ target[w].of \in Request
        BY <1>0, <1>3, <3>2 DEF TypeOK, Target
      <4>. QED BY <1>0, <1>2, <1>4, <3>2, <4>1 DEF LinkInv
    <3>. QED BY <3>1, <3>2
  <2>4. active' \subseteq Known'
    BY <1>0, <1>1, <1>4 DEF LinkInv, Known
  <2>5. now' <= Cardinality(Known')
    <3>1. now <= Cardinality(Known)
      BY <1>0 DEF LinkInv
    <3>2. Cardinality(Known) \in Nat /\ Cardinality(Known') = Cardinality(Known) + 1
      BY <1>0, <1>1, KnownGrows
    <3>. QED BY <1>0, <1>1, <3>1, <3>2
  <2>6. ASSUME NEW a \in Aggressives, stage'[Lead(a)] # "ended"
        PROVE  a \notin active' /\ \A w \in Worker : target'[w].of = a => RequestOf(w) = a
    <3>1. a \in Request /\ Lead(a) \in Worker /\ RequestOf(Lead(a)) = a
      BY WorkersOf, Kinds DEF Request
    <3>2. CASE a = r
      <4>1. r \notin active'
        BY <1>0, <1>1, <2>6, <3>2 DEF LinkInv, Known
      <4>. QED BY <1>2, <1>3, <3>2, <4>1
    <3>3. CASE a # r
      <4>1. stage[Lead(a)] # "ended"
        BY <2>6, <3>1, <3>3
      <4>2. a \notin active /\ \A w \in Worker : target[w].of = a => RequestOf(w) = a
        BY <1>0, <4>1 DEF LinkInv
      <4>. QED BY <3>3, <4>2
    <3>. QED BY <3>2, <3>3
  <2>7. \A w \in Worker : RequestOf(w) \in Sliced \cup Icebergs => target'[w].index \in Slots
    BY <1>0 DEF LinkInv
  <2>8. ASSUME NEW a \in Aggressives PROVE target'[Lead(a)].of = a
    <3>1. a \in Request /\ Lead(a) \in Worker /\ RequestOf(Lead(a)) = a
      BY WorkersOf, Kinds DEF Request
    <3>2. target[Lead(a)].of = a
      BY <1>0 DEF LinkInv
    <3>. QED BY <3>1, <3>2
  <2>9. \A x \in Request : cancel'[x].stage # "none" => id'[x] # 0
    BY <1>0, <1>1, <1>4 DEF LinkInv, Identify
  <2>. QED BY <2>1, <2>2, <2>3, <2>4, <2>5, <2>6, <2>7, <2>8, <2>9 DEF LinkInv, RequestOf, Lead, Slots
<1>6. ASSUME NEW x \in Request \ {r}, Own(x)' PROVE KindInv(x)'
  <2>1. x \in Aggressives => stage'[Lead(x)] = stage[Lead(x)]
    BY <1>6, WorkersOf, Kinds
  <2>2. Own(x)
    <3>1. CASE id'[x] = 0
      BY <1>4, <3>1 DEF Own
    <3>2. CASE Alone(x)'
      BY <1>1, <1>4, <3>2 DEF Own, Alone
    <3>3. CASE x \in Aggressives /\ stage'[Lead(x)] # "ended"
      BY <2>1, <3>3 DEF Own
    <3>. QED BY <1>6, <3>1, <3>2, <3>3 DEF Own, Lead
  <2>3. \A w \in Worker : RequestOf(w) = x => stage'[w] = stage[w] /\ target'[w] = target[w]
    OBVIOUS
  <2>4. status'[x] = status[x]
    BY <1>0, <1>1
  <2>5. executed' = executed /\ reported' = reported /\ accepted' = accepted
    BY DEF Identify, result, broker
  <2>. QED BY <2>2, <2>3, <2>4, <2>5, KindFrame DEF SmartInv
<1>. QED BY <1>5, <1>6 DEF SmartInv

\* A request that comes in takes a millisecond that exists, and the place of
\* an older one with the same id.
LEMMA StartTypes ==
  ASSUME SmartInv, NEW r \in Request, Identify(r), active' = active \/ Register(r, now'),
         stage' \in [Worker -> Stages], target' \in [Worker -> Target]
  PROVE  TypeOK' /\ active' \subseteq active \cup {r}
<1>0. TypeOK /\ LinkInv /\ id \in [Request -> Nat] /\ now \in Nat
  BY DEF SmartInv, TypeOK, Instant
<1>1. /\ id[r] = 0 /\ now' \in Nat \ {0} /\ now' <= now + 1 /\ id' = [id EXCEPT ![r] = now']
  BY <1>0 DEF Identify, SetStatus, LinkInv
<1>2. now' \in Instant
  <2>1. now <= Cardinality(Known)
    BY <1>0 DEF LinkInv
  <2>2. /\ Cardinality(Known) \in Nat /\ Cardinality(Known') = Cardinality(Known) + 1
        /\ Cardinality(Known') <= Cardinality(Request) /\ Cardinality(Request) \in Nat
    BY <1>0, <1>1, KnownGrows
  <2>. QED BY <1>0, <1>1, <2>1, <2>2 DEF Instant
<1>3. id' \in [Request -> {0} \cup Instant] /\ now' \in {0} \cup Instant
  BY <1>0, <1>1, <1>2 DEF TypeOK
<1>4. r \notin active /\ active \subseteq Request
  BY <1>0, <1>1 DEF LinkInv, Known, TypeOK
<1>5. \A x, y \in active' : id'[x] = id'[y] => x = y
  <2>1. CASE active' = active
    BY <1>0, <1>1, <1>4, <2>1 DEF TypeOK
  <2>2. CASE active' = (active \ Found(now')) \cup {r}
    <3>1. \A x \in active' \ {r} : x \in active /\ id'[x] = id[x] /\ id[x] # now'
      BY <1>0, <1>1, <1>4, <2>2 DEF Found
    <3>2. id'[r] = now'
      BY <1>0, <1>1
    <3>. QED BY <1>0, <3>1, <3>2 DEF TypeOK
  <2>. QED BY <2>1, <2>2 DEF Register
<1>6. active' \subseteq active \cup {r}
  BY DEF Register
<1>. QED BY <1>0, <1>3, <1>4, <1>5, <1>6 DEF TypeOK, Stages, Identify, SetStatus, result, broker, history

\* executeVWAP and executeTWAP set timers and place nothing.
LEMMA StartSlicedStep ==
  ASSUME SmartInv, NEW r \in Sliced, StartSliced(r)
  PROVE  SmartInv'
<1>0. r \in Request /\ TypeOK /\ LinkInv /\ Identify(r)
  BY DEF Request, SmartInv, StartSliced
<1>1. \A w \in Worker : stage'[w] = IF RequestOf(w) = r THEN "timer" ELSE stage[w]
  BY DEF StartSliced
<1>2. TypeOK' /\ active' \subseteq active \cup {r}
  <2>1. stage' \in [Worker -> Stages] /\ target' \in [Worker -> Target]
    BY <1>0 DEF TypeOK, StartSliced, Stages
  <2>. QED BY <1>0, <2>1, StartTypes DEF StartSliced
<1>3. id[r] = 0 /\ status[r] = "new" /\ status'[r] = "ACTIVE"
  BY <1>0 DEF Identify, SetStatus, LinkInv, TypeOK
<1>4. \A w \in Worker : RequestOf(w) = r => stage[w] = "none" /\ target'[w].of = r /\ target'[w].index \in Slots
  BY <1>0, <1>3 DEF LinkInv, StartSliced
<1>5. SlicedInv(r)
  BY <1>0, <1>3 DEF SmartInv, Own, KindInv
<1>6. \A k \in Slots : stage[<<r, k>>] = "none" /\ stage'[<<r, k>>] = "timer"
  BY <1>0, <1>1, <1>4, WorkersOf
<1>7. Out(r)' = Out(r) /\ Settled(r)' = Settled(r)
  BY <1>6 DEF Out, Settled, Slots
<1>8. executed[r] = {}
  BY <1>0, <1>5, <1>6 DEF SlicedInv, TypeOK, Slots
<1>9. executed' = executed /\ reported' = reported /\ accepted' = accepted
  BY <1>0 DEF Identify, result, broker
<1>10. KindInv(r)'
  <2>1. SlicedInv(r)'
    BY <1>3, <1>5, <1>6, <1>7, <1>8, <1>9 DEF SlicedInv, Slots
  <2>. QED BY <1>0, <2>1, Kinds DEF KindInv
<1>11. r \notin Aggressives
  BY <1>0, Kinds
<1>. QED BY <1>0, <1>1, <1>2, <1>4, <1>10, <1>11, IdentifyStep DEF StartSliced

\* The other kinds start with an order their one worker places.
LEMMA StartLead ==
  ASSUME SmartInv, NEW r \in Request \ Sliced, Identify(r),
         active' = active \/ Register(r, now'), r \in Aggressives => active' = active,
         NEW i \in Index, NEW q \in 0..Slices, Place(Lead(r), r, i, q),
         r \in Icebergs => i = 1 /\ q = 1, r \in BestLimits => q = Slices,
         r \in Aggressives => q \in 1..Slices
  PROVE  SmartInv'
<1>0. r \in Request /\ TypeOK /\ LinkInv /\ Lead(r) \in Worker /\ RequestOf(Lead(r)) = r
  BY WorkersOf DEF SmartInv
<1>1. /\ stage' = [stage EXCEPT ![Lead(r)] = "asking"]
      /\ target' = [target EXCEPT ![Lead(r)] = [of |-> r, index |-> i, quantity |-> q]]
      /\ stage \in [Worker -> Stages] /\ target \in [Worker -> Target]
  BY <1>0 DEF Place, GoTo, TypeOK, Stages
<1>2. stage' \in [Worker -> Stages] /\ target' \in [Worker -> Target]
  BY <1>0, <1>1 DEF Stages, Target
<1>3. TypeOK' /\ active' \subseteq active \cup {r}
  BY <1>2, StartTypes
<1>4. id[r] = 0 /\ status[r] = "new" /\ status'[r] = "ACTIVE"
  BY <1>0 DEF Identify, SetStatus, LinkInv, TypeOK
<1>5. stage[Lead(r)] = "none" /\ stage'[Lead(r)] = "asking" /\ target'[Lead(r)] = [of |-> r, index |-> i, quantity |-> q]
  BY <1>0, <1>1, <1>4 DEF LinkInv
<1>6. KindInv(r)
  BY <1>4 DEF SmartInv, Own
<1>7. executed' = executed /\ reported' = reported /\ accepted' = accepted
  BY DEF Identify, result, broker
<1>8. Slices \in Nat \ {0} /\ accepted[r] \in Nat /\ reported[r] \in Nat /\ 1 \in Slots
  BY <1>0, SmartAssumption DEF TypeOK, Slots
<1>9. KindInv(r)'
  <2>1. ASSUME r \in Icebergs PROVE IcebergInv(r)'
    <3>1. executed[r] = {} /\ reported[r] = 0 /\ accepted[r] = 0 /\ Cardinality({}) = 0
      BY <1>5, <1>6, <1>8, <2>1, FS_EmptySet DEF KindInv, IcebergInv
    <3>. QED BY <1>4, <1>5, <1>7, <1>8, <2>1, <3>1 DEF IcebergInv, Lead
  <2>2. ASSUME r \in BestLimits PROVE BestLimitInv(r)'
    BY <1>4, <1>5, <1>6, <1>7, <1>8, <2>2 DEF KindInv, BestLimitInv, Lead
  <2>3. ASSUME r \in Aggressives PROVE AggressiveInv(r)'
    BY <1>4, <1>5, <1>6, <1>7, <1>8, <2>3 DEF KindInv, AggressiveInv, Lead
  <2>. QED BY <2>1, <2>2, <2>3 DEF KindInv
<1>10. \A w \in Worker : RequestOf(w) # r => stage'[w] = stage[w] /\ target'[w] = target[w]
  BY <1>0, <1>1
<1>11. \A w \in Worker : RequestOf(w) = r =>
          target'[w].of = r /\ (r \in Sliced \cup Icebergs => target'[w].index \in Slots)
  BY <1>5, <1>8, Workers
<1>. QED BY <1>3, <1>9, <1>10, <1>11, IdentifyStep

\* Every kind of order starts soundly.
LEMMA StartStep ==
  ASSUME SmartInv, NEW r \in Request, Start(r)
  PROVE  SmartInv'
<1>1. Slices \in Nat \ {0} /\ 1 \in Index /\ Slices \in 0..Slices /\ 1 \in 0..Slices
  BY SmartAssumption DEF Index
<1>2. CASE r \in Sliced /\ StartSliced(r)
  BY <1>2, StartSlicedStep
<1>3. CASE r \in Icebergs /\ StartIceberg(r)
  BY <1>1, <1>3, Kinds, StartLead DEF StartIceberg
<1>4. CASE r \in BestLimits /\ StartBestLimit(r)
  BY <1>1, <1>4, Kinds, StartLead DEF StartBestLimit
<1>5. CASE r \in Aggressives /\ StartAggressive(r)
  <2>1. Identify(r) /\ active' = active /\ NextLevel(Lead(r), 1, Slices) /\ RequestOf(Lead(r)) = r
    BY <1>5 DEF StartAggressive, RequestOf, Lead
  <2>2. PICK i \in Index, q \in 1..Slices : Place(Lead(r), r, i, q)
    BY <1>1, <2>1 DEF NextLevel, Market, Index
  <2>. QED BY <1>1, <1>5, <2>1, <2>2, Kinds, StartLead
<1>. QED BY <1>2, <1>3, <1>4, <1>5 DEF Start

-----------------------------------------------------------------------------
\* Sets of slices are counted.
LEMMA Counted ==
  ASSUME NEW S \in SUBSET Slots
  PROVE  /\ Cardinality(S) \in Nat /\ Cardinality(S) <= Slices
         /\ S = Slots => Cardinality(S) = Slices
         /\ \A k \in Slots \ S : Cardinality(S \cup {k}) = Cardinality(S) + 1
         /\ \A k \in S : Cardinality(S \ {k}) = Cardinality(S) - 1
         /\ \A T \in SUBSET Slots : S \subseteq T => Cardinality(S) <= Cardinality(T)
<1>1. IsFiniteSet(Slots) /\ Cardinality(Slots) = Slices
  <2>1. Slices \in Nat /\ Slices \in Int /\ 1 \in Int
    BY SmartAssumption
  <2>2. IsFiniteSet(1..Slices) /\ Cardinality(1..Slices) = IF 1 > Slices THEN 0 ELSE Slices - 1 + 1
    BY <2>1, FS_Interval
  <2>. QED BY <2>1, <2>2 DEF Slots
<1>2. IsFiniteSet(S) /\ \A T \in SUBSET Slots : IsFiniteSet(T)
  BY <1>1, FS_Subset
<1>3. Cardinality(S) \in Nat
  BY <1>2, FS_CardinalityType
<1>4. \A T \in SUBSET Slots : S \subseteq T => Cardinality(S) <= Cardinality(T)
  BY <1>2, FS_Subset
<1>5. \A k \in Slots \ S : Cardinality(S \cup {k}) = Cardinality(S) + 1
  BY <1>2, FS_AddElement
<1>6. \A k \in S : Cardinality(S \ {k}) = Cardinality(S) - 1
  BY <1>2, FS_RemoveElement
<1>. QED BY <1>1, <1>3, <1>4, <1>5, <1>6

\* What a worker may do to activeOrders keeps an id for one request.
LEMMA WorkerTypes ==
  ASSUME SmartInv, NEW w \in Worker, GoesOn(w),
         \/ active' = active \/ Register(RequestOf(w), id[RequestOf(w)]) \/ Forget(id[RequestOf(w)]),
         status' \in [Request -> {"new", "ACTIVE", "COMPLETED", "CANCELLED", "FAILED"}],
         executed' \in [Request -> SUBSET (1..Slices)],
         children' \in [Request -> SUBSET Index],
         reported' \in [Request -> Nat],
         open' \in [Request -> [Index -> Nat]],
         accepted' \in [Request -> Nat],
         cancel' = cancel, UNCHANGED history \/ Trouble(RequestOf(w))
  PROVE  TypeOK'
<1>0. TypeOK /\ RequestOf(w) \in Request
  BY Workers DEF SmartInv
<1>1. stage' \in [Worker -> Stages] /\ target' \in [Worker -> Target]
  <2>1. stage \in [Worker -> Stages] /\ target \in [Worker -> Target]
    BY <1>0 DEF TypeOK, Stages
  <2>2. stage' \in [Worker -> Stages]
    BY <2>1 DEF GoesOn, GoTo
  <2>3. target' \in [Worker -> Target]
    BY <2>1 DEF GoesOn
  <2>. QED BY <2>2, <2>3
<1>2. active' \subseteq Request /\ \A x, y \in active' : id[x] = id[y] => x = y
  BY <1>0 DEF TypeOK, Register, Forget, Found
<1>3. troubles' \in 0..MaxTroubles /\ troubled' \subseteq Request
  BY <1>0, SmartAssumption DEF TypeOK, Trouble, history
<1>4. now' = now /\ id' = id
  BY DEF GoesOn
<1>. QED BY <1>0, <1>1, <1>2, <1>3, <1>4 DEF TypeOK, Stages

-----------------------------------------------------------------------------
\* A slice of a sliced order that goes from one stage to another.
LEMMA SliceMoves ==
  ASSUME TypeOK, NEW r \in Sliced, NEW k \in Slots,
         NEW s \in {"asking", "placed", "closing", "ended", "skipped"}, GoTo(<<r, k>>, s)
  PROVE  /\ \A l \in Slots \ {k} : stage'[<<r, l>>] = stage[<<r, l>>]
         /\ stage'[<<r, k>>] = s
         /\ Out(r) \in SUBSET Slots /\ Settled(r) \in SUBSET Slots
         /\ Out(r)' = IF s = "placed" THEN Out(r) \cup {k} ELSE Out(r) \ {k}
         /\ Settled(r)' = IF s = "asking" THEN Settled(r) \ {k} ELSE Settled(r) \cup {k}
<1>1. stage' = [stage EXCEPT ![<<r, k>>] = s] /\ \A l \in Slots : <<r, l>> \in Worker
  BY WorkersOf DEF GoTo, Request
<1>2. stage'[<<r, k>>] = s /\ \A l \in Slots \ {k} : stage'[<<r, l>>] = stage[<<r, l>>]
  BY <1>1 DEF TypeOK
<1>3. Out(r)' = {l \in Slots : stage'[<<r, l>>] = "placed"}
  BY DEF Out, Slots
<1>4. Settled(r)' = {l \in Slots : stage'[<<r, l>>] \in {"placed", "closing", "ended", "skipped"}}
  BY DEF Settled, Slots
<1>5. Out(r)' = IF s = "placed" THEN Out(r) \cup {k} ELSE Out(r) \ {k}
  BY <1>2, <1>3 DEF Out
<1>6. Settled(r)' = IF s = "asking" THEN Settled(r) \ {k} ELSE Settled(r) \cup {k}
  BY <1>2, <1>4 DEF Settled
<1>. QED BY <1>2, <1>5, <1>6 DEF Out, Settled

\* The timer of a slice asks for it, unless it is executed or the order gone.
LEMMA SliceTimerStep ==
  ASSUME SmartInv, NEW w \in Worker, SliceTimer(w)
  PROVE  SmartInv'
<1>. DEFINE r == RequestOf(w)
            k == w[2]
<1>1. /\ r \in Sliced /\ r \in Request /\ stage[w] = "timer" /\ TypeOK /\ LinkInv
      /\ k \in Slots /\ w = <<r, k>> /\ id[r] # 0
  BY Workers DEF SmartInv, SliceTimer, LinkInv
<1>2. /\ UNCHANGED <<now, id, active, status, executed, children, reported, cancel, open, accepted, troubles, troubled>>
      /\ \/ GoTo(w, "ended") /\ target' = target
         \/ GoTo(w, "asking") /\ target' = [target EXCEPT ![w] = [of |-> r, index |-> k, quantity |-> 1]] /\ k \notin executed[r]
  BY <1>1 DEF SliceTimer, memory, result, broker, history, Place
<1>3. GoesOn(w)
  <2>1. [of |-> r, index |-> k, quantity |-> 1] \in Target
    BY <1>1, SmartAssumption DEF Target, Slots, Index
  <2>. QED BY <1>1, <1>2, <2>1 DEF GoesOn, Stages
<1>4. TypeOK'
  BY <1>1, <1>2, <1>3, WorkerTypes DEF TypeOK, history
<1>5. Spares(w)
  BY <1>2 DEF Spares
<1>6. ASSUME Own(r) PROVE KindInv(r)'
  <2>1. SlicedInv(r)
    BY <1>1, <1>6 DEF SmartInv, KindInv
  <2>2. k \notin executed[r] /\ k \notin Out(r) /\ k \notin Settled(r)
    BY <1>1, <2>1 DEF SlicedInv, Out, Settled
  <2>3. /\ \A l \in Slots \ {k} : stage'[<<r, l>>] = stage[<<r, l>>] /\ target'[<<r, l>>] = target[<<r, l>>]
        /\ stage'[<<r, k>>] \in {"asking", "ended"} /\ Out(r)' = Out(r) /\ Settled(r) \subseteq Settled(r)'
        /\ Settled(r) \in SUBSET Slots /\ Settled(r)' \in SUBSET Slots
    <3>1. \A l \in Slots \ {k} : target'[<<r, l>>] = target[<<r, l>>]
      <4>1. \A l \in Slots \ {k} : <<r, l>> \in Worker /\ <<r, l>> # w
        BY <1>1, WorkersOf
      <4>. QED BY <1>1, <1>2, <4>1 DEF TypeOK
    <3>2. PICK s \in {"asking", "ended"} : GoTo(<<r, k>>, s)
      BY <1>1, <1>2
    <3>. QED BY <1>1, <2>2, <3>1, <3>2, SliceMoves
  <2>4. stage'[<<r, k>>] = "asking" => target'[<<r, k>>].index = k /\ target'[<<r, k>>].quantity = 1
    <3>1. GoTo(w, "ended") => stage'[w] = "ended"
      BY <1>1 DEF TypeOK, GoTo
    <3>2. target' = [target EXCEPT ![w] = [of |-> r, index |-> k, quantity |-> 1]]
          => target'[w].index = k /\ target'[w].quantity = 1
      BY <1>1 DEF TypeOK
    <3>. QED BY <1>1, <1>2, <3>1, <3>2
  <2>5. Cardinality(Settled(r)) <= Cardinality(Settled(r)')
    BY <2>3, Counted
  <2>6. accepted[r] \in Nat /\ Cardinality(Settled(r)) \in Nat /\ Cardinality(Settled(r)') \in Nat
    BY <1>1, <2>3, Counted DEF TypeOK
  <2>7. SlicedInv(r)'
    BY <1>2, <2>1, <2>2, <2>3, <2>4, <2>5, <2>6 DEF SlicedInv, Slots
  <2>. QED BY <1>1, <2>7, Kinds DEF KindInv
<1>. QED BY <1>3, <1>4, <1>5, <1>6, WorkerStep

\* A slice skipped in a price spike is settled without being executed.
LEMMA SpikeStep ==
  ASSUME SmartInv, NEW w \in Worker, Spike(w)
  PROVE  SmartInv'
<1>. DEFINE r == RequestOf(w)
            k == w[2]
<1>1. /\ r \in Sliced /\ r \in Request /\ stage[w] = "asking" /\ TypeOK /\ LinkInv
      /\ k \in Slots /\ w = <<r, k>>
  BY Workers DEF SmartInv, Spike
<1>2. /\ UNCHANGED <<now, id, active, status, executed, children, reported, target, cancel, open, accepted>>
      /\ GoTo(w, "skipped") /\ Trouble(r)
  BY DEF Spike, memory, result, broker
<1>3. GoesOn(w)
  BY <1>1, <1>2 DEF GoesOn, Stages
<1>4. TypeOK'
  BY <1>1, <1>2, <1>3, WorkerTypes DEF TypeOK
<1>5. Spares(w)
  BY <1>2 DEF Spares
<1>6. ASSUME Own(r) PROVE KindInv(r)'
  <2>1. SlicedInv(r)
    BY <1>1, <1>6 DEF SmartInv, KindInv
  <2>2. k \notin executed[r] /\ k \notin Out(r)
    BY <1>1, <2>1 DEF SlicedInv, Out
  <2>3. /\ \A l \in Slots \ {k} : stage'[<<r, l>>] = stage[<<r, l>>]
        /\ stage'[<<r, k>>] = "skipped" /\ Out(r)' = Out(r) /\ Settled(r)' = Settled(r) \cup {k}
        /\ Settled(r) \in SUBSET Slots
    BY <1>1, <1>2, <2>2, SliceMoves
  <2>4. /\ Cardinality(Settled(r)) <= Cardinality(Settled(r)') /\ accepted[r] \in Nat
        /\ Cardinality(Settled(r)) \in Nat /\ Cardinality(Settled(r)') \in Nat
    <3>1. Settled(r)' \in SUBSET Slots
      BY <1>1, <2>3
    <3>2. Settled(r) \subseteq Settled(r)'
      BY <2>3
    <3>. QED BY <1>1, <2>3, <3>1, <3>2, Counted DEF TypeOK
  <2>5. SlicedInv(r)'
    BY <1>2, <2>1, <2>2, <2>3, <2>4 DEF SlicedInv, Slots
  <2>. QED BY <1>1, <2>5, Kinds DEF KindInv
<1>. QED BY <1>3, <1>4, <1>5, <1>6, WorkerStep

\* An answer moves a slice from those out to those executed.
LEMMA AnswerSliceStep ==
  ASSUME SmartInv, NEW w \in Worker, AnswerSlice(w)
  PROVE  SmartInv'
<1>. DEFINE r == RequestOf(w)
            k == w[2]
            t == target[w]
<1>1. /\ r \in Sliced /\ r \in Request /\ stage[w] = "placed" /\ TypeOK /\ LinkInv
      /\ k \in Slots /\ w = <<r, k>> /\ id[r] # 0
      /\ t.of \in Request /\ t.index \in Slots /\ t.index \in Index
  BY Workers DEF SmartInv, AnswerSlice, EnterSlice, Enter, LinkInv, TypeOK, Target
<1>2. /\ UNCHANGED <<now, id, active, target, cancel, open, accepted, troubles, troubled>>
      /\ children' = [children EXCEPT ![t.of] = @ \cup {t.index}]
      /\ executed' = [executed EXCEPT ![t.of] = @ \cup {t.index}]
      /\ reported' = [reported EXCEPT ![t.of] = @ + 1]
  BY DEF AnswerSlice, EnterSlice, Enter, broker, history
<1>3. \/ Unexecuted(r)' = {} /\ GoTo(w, "closing") /\ status' = [status EXCEPT ![r] = "COMPLETED"]
      \/ GoTo(w, "ended") /\ status' = status
  BY DEF AnswerSlice, SetStatus
<1>4. GoesOn(w)
  BY <1>1, <1>2, <1>3 DEF GoesOn, Stages, LinkInv, TypeOK
<1>5. TypeOK'
  <2>1. /\ executed' \in [Request -> SUBSET (1..Slices)] /\ children' \in [Request -> SUBSET Index]
        /\ reported' \in [Request -> Nat]
    BY <1>1, <1>2 DEF TypeOK, Slots
  <2>2. status' \in [Request -> {"new", "ACTIVE", "COMPLETED", "CANCELLED", "FAILED"}]
    BY <1>1, <1>3 DEF TypeOK
  <2>. QED BY <1>1, <1>2, <1>4, <2>1, <2>2, WorkerTypes DEF TypeOK, history
<1>6. Spares(w)
  BY <1>1, <1>2, <1>3 DEF Spares, TypeOK
<1>7. ASSUME Own(r) PROVE KindInv(r)'
  <2>1. SlicedInv(r)
    BY <1>1, <1>7 DEF SmartInv, KindInv
  <2>2. t.of = r /\ t.index = k
    <3>1. t.of = r
      <4>1. id[t.of] = id[r]
        BY <1>1 DEF LinkInv
      <4>2. Alone(r)
        BY <1>1, <1>7, Kinds DEF Own
      <4>. QED BY <1>1, <4>1, <4>2 DEF Alone
    <3>. QED BY <1>1, <2>1, <3>1 DEF SlicedInv
  <2>3. k \notin executed[r] /\ k \in Out(r) /\ k \in Settled(r)
    BY <1>1, <2>1 DEF SlicedInv, Out, Settled
  <2>4. /\ \A l \in Slots \ {k} : stage'[<<r, l>>] = stage[<<r, l>>]
        /\ stage'[<<r, k>>] \in {"closing", "ended"} /\ Out(r)' = Out(r) \ {k} /\ Settled(r)' = Settled(r)
        /\ Out(r) \in SUBSET Slots
    <3>1. PICK s \in {"closing", "ended"} : GoTo(<<r, k>>, s)
      BY <1>1, <1>3
    <3>2. Out(r)' = Out(r) \ {k} /\ Settled(r)' = Settled(r) \cup {k} /\ Out(r) \in SUBSET Slots
      BY <1>1, <3>1, SliceMoves
    <3>. QED BY <1>1, <2>3, <3>1, <3>2, SliceMoves
  <2>5. executed'[r] = executed[r] \cup {k} /\ reported'[r] = reported[r] + 1 /\ executed[r] \in SUBSET Slots
    BY <1>1, <1>2, <2>2 DEF TypeOK, Slots
  <2>6. /\ Cardinality(executed'[r]) = Cardinality(executed[r]) + 1
        /\ Cardinality(Out(r)') = Cardinality(Out(r)) - 1 /\ Cardinality(Out(r)) \in Nat
    BY <1>1, <2>3, <2>4, <2>5, Counted
  <2>7. accepted[r] \in Nat /\ reported[r] \in Nat
    BY <1>1 DEF TypeOK
  <2>8. status'[r] = "COMPLETED" => executed'[r] = Slots
    <3>1. CASE Unexecuted(r)' = {}
      BY <2>5, <3>1, <1>1 DEF Unexecuted, Slots
    <3>2. CASE status' = status
      BY <2>1, <2>3, <1>1, <3>2 DEF SlicedInv
    <3>. QED BY <1>3, <3>1, <3>2
  <2>9. SlicedInv(r)'
    <3>1. \A l \in Slots : /\ stage'[<<r, l>>] \in {"none", "timer", "asking", "placed", "closing", "ended", "skipped"}
                           /\ stage'[<<r, l>>] \in {"asking", "placed"} =>
                                target'[<<r, l>>].index = l /\ target'[<<r, l>>].quantity = 1
                           /\ l \in executed'[r] => stage'[<<r, l>>] \in {"closing", "ended"}
      BY <1>2, <2>1, <2>4, <2>5 DEF SlicedInv
    <3>2. reported'[r] = Cardinality(executed'[r])
      BY <2>1, <2>5, <2>6 DEF SlicedInv
    <3>3. reported'[r] + Cardinality(Out(r)') <= accepted'[r]
      BY <1>2, <2>1, <2>5, <2>6, <2>7 DEF SlicedInv
    <3>4. accepted'[r] <= Cardinality(Settled(r)')
      BY <1>2, <2>1, <2>4 DEF SlicedInv
    <3>. QED BY <2>8, <3>1, <3>2, <3>3, <3>4 DEF SlicedInv, Slots
  <2>. QED BY <1>1, <2>9, Kinds DEF KindInv
<1>. QED BY <1>4, <1>5, <1>6, <1>7, WorkerStep

\* The deletion from activeOrders moves no share.
LEMMA CloseStep ==
  ASSUME SmartInv, NEW w \in Worker, Close(w)
  PROVE  SmartInv'
<1>. DEFINE r == RequestOf(w)
            k == w[2]
<1>1. r \in Request /\ stage[w] = "closing" /\ TypeOK /\ GoTo(w, "ended") /\ Forget(id[r])
  BY Workers DEF SmartInv, Close
<1>2. UNCHANGED <<now, id, status, executed, children, reported, target, cancel, open, accepted, troubles, troubled>>
  BY DEF Close, result, broker, history
<1>3. GoesOn(w)
  BY <1>1, <1>2 DEF GoesOn, Stages, Forget
<1>4. TypeOK'
  BY <1>1, <1>2, <1>3, WorkerTypes DEF TypeOK, history
<1>5. Spares(w)
  BY <1>2 DEF Spares
<1>6. ASSUME Own(r) PROVE KindInv(r)'
  <2>0. KindInv(r)
    BY <1>1, <1>6 DEF SmartInv
  <2>1. r \in Sliced
    <3>. SUFFICES ASSUME r \notin Sliced PROVE FALSE
      OBVIOUS
    <3>1. stage[Lead(r)] = "closing"
      BY <1>1, Workers
    <3>. QED BY <1>1, <2>0, <3>1, Kinds DEF KindInv, IcebergInv, BestLimitInv, AggressiveInv
  <2>2. SlicedInv(r) /\ k \in Slots /\ w = <<r, k>>
    BY <2>0, <2>1, Workers DEF KindInv
  <2>3. k \notin Out(r) /\ k \in Settled(r)
    BY <1>1, <2>2 DEF Out, Settled
  <2>4. /\ \A l \in Slots \ {k} : stage'[<<r, l>>] = stage[<<r, l>>]
        /\ stage'[<<r, k>>] = "ended" /\ Out(r)' = Out(r) /\ Settled(r)' = Settled(r)
    <3>1. Out(r)' = Out(r) \ {k} /\ Settled(r)' = Settled(r) \cup {k}
      BY <1>1, <2>1, <2>2, SliceMoves
    <3>. QED BY <1>1, <2>1, <2>2, <2>3, <3>1, SliceMoves
  <2>5. SlicedInv(r)'
    BY <1>2, <2>2, <2>4 DEF SlicedInv, Slots
  <2>. QED BY <1>1, <2>1, <2>5, Kinds DEF KindInv
<1>. QED BY <1>3, <1>4, <1>5, <1>6, WorkerStep

-----------------------------------------------------------------------------
\* A worker whose request is not sliced is the lead of that request.
LEMMA Leads ==
  ASSUME TypeOK, NEW w \in Worker, RequestOf(w) \notin Sliced
  PROVE  /\ w = Lead(RequestOf(w)) /\ RequestOf(w) \in Request
         /\ \A s : GoTo(w, s) => stage'[w] = s
         /\ \A t : target' = [target EXCEPT ![w] = t] => target'[w] = t
BY Workers DEF TypeOK, GoTo

\* An iceberg or a best-limit order that has its id for itself works on nothing else.
LEMMA OwnTarget ==
  ASSUME SmartInv, NEW w \in Worker, stage[w] # "none", Own(RequestOf(w))
  PROVE  /\ target[w].of = RequestOf(w)
         /\ RequestOf(w) \notin Aggressives => Found(id[RequestOf(w)]) \subseteq {RequestOf(w)}
<1>1. RequestOf(w) \in Request /\ id[RequestOf(w)] # 0 /\ target[w].of \in Request /\ active \subseteq Request
  BY Workers DEF SmartInv, LinkInv, TypeOK, Target
<1>2. target[w].of = RequestOf(w) \/ id[target[w].of] = id[RequestOf(w)]
  BY DEF SmartInv, LinkInv
<1>3. CASE Alone(RequestOf(w))
  BY <1>1, <1>2, <1>3 DEF Alone, Found
<1>4. CASE RequestOf(w) \in Aggressives /\ stage[Lead(RequestOf(w))] # "ended"
  <2>1. w = Lead(RequestOf(w))
    BY <1>1, <1>4, Kinds, Workers
  <2>. QED BY <1>4, <2>1 DEF SmartInv, LinkInv
<1>. QED BY <1>1, <1>3, <1>4 DEF Own

\* The slice of an iceberg that is answered is executed.
LEMMA AnswerIcebergStep ==
  ASSUME SmartInv, NEW w \in Worker, AnswerIceberg(w)
  PROVE  SmartInv'
<1>. DEFINE r == RequestOf(w)
            t == target[w]
<1>1. /\ r \in Icebergs /\ r \in Request /\ r \notin Sliced /\ stage[w] = "placed" /\ TypeOK
      /\ w = Lead(r) /\ stage'[w] = "timer" /\ t.of \in Request /\ t.index \in Slots /\ t.index \in Index
  BY Workers, Kinds, Leads DEF SmartInv, AnswerIceberg, EnterSlice, Enter, LinkInv, TypeOK, Target
<1>2. /\ UNCHANGED <<now, id, active, status, target, cancel, open, accepted, troubles, troubled>>
      /\ GoTo(w, "timer")
      /\ children' = [children EXCEPT ![t.of] = @ \cup {t.index}]
      /\ executed' = [executed EXCEPT ![t.of] = @ \cup {t.index}]
      /\ reported' = [reported EXCEPT ![t.of] = @ + 1]
  BY DEF AnswerIceberg, EnterSlice, Enter, broker, history, memory
<1>3. GoesOn(w)
  BY <1>1, <1>2 DEF GoesOn, Stages
<1>4. TypeOK'
  <2>1. /\ executed' \in [Request -> SUBSET (1..Slices)] /\ children' \in [Request -> SUBSET Index]
        /\ reported' \in [Request -> Nat]
    BY <1>1, <1>2 DEF TypeOK, Slots
  <2>. QED BY <1>1, <1>2, <1>3, <2>1, WorkerTypes DEF TypeOK, history
<1>5. Spares(w)
  BY <1>1, <1>2 DEF Spares, TypeOK
<1>6. ASSUME Own(r) PROVE KindInv(r)'
  <2>1. IcebergInv(r) /\ t.of = r
    BY <1>1, <1>6, OwnTarget DEF SmartInv, KindInv
  <2>2. /\ executed'[r] = executed[r] \cup {t.index} /\ reported'[r] = reported[r] + 1
        /\ executed[r] \in SUBSET Slots /\ reported[r] \in Nat /\ accepted[r] \in Nat
    BY <1>1, <1>2, <2>1 DEF TypeOK, Slots
  <2>3. t.index \notin executed[r] /\ reported[r] = Cardinality(executed[r]) /\ reported[r] < accepted[r]
        /\ accepted[r] <= Cardinality(executed[r] \cup {t.index}) /\ (status[r] = "COMPLETED" => executed[r] = Slots)
    BY <1>1, <2>1 DEF IcebergInv
  <2>4. Cardinality(executed'[r]) = Cardinality(executed[r]) + 1
    BY <1>1, <2>2, <2>3, Counted
  <2>5. /\ stage'[<<r, 0>>] = "timer" /\ target'[<<r, 0>>].index \in Slots
        /\ accepted'[r] = accepted[r] /\ status'[r] = status[r]
    BY <1>1, <1>2 DEF Lead
  <2>6. accepted'[r] <= Cardinality(executed'[r]) /\ (status'[r] = "COMPLETED" => executed'[r] = Slots)
    BY <1>1, <2>2, <2>3, <2>5
  <2>7. reported'[r] = Cardinality(executed'[r]) /\ reported'[r] <= accepted'[r]
    BY <2>2, <2>3, <2>4, <2>5
  <2>8. IcebergInv(r)'
    BY <2>5, <2>6, <2>7 DEF IcebergInv, Slots, Lead
  <2>. QED BY <1>1, <2>8, Kinds DEF KindInv
<1>. QED BY <1>3, <1>4, <1>5, <1>6, WorkerStep

\* The next slice of an iceberg, its completion, or the end of a worker whose order is gone.
LEMMA IcebergTimerStep ==
  ASSUME SmartInv, NEW w \in Worker, IcebergTimer(w)
  PROVE  SmartInv'
<1>. DEFINE r == RequestOf(w)
            i == id[r]
<1>1. /\ r \in Icebergs /\ r \in Request /\ r \notin Sliced /\ r \notin Aggressives /\ stage[w] = "timer" /\ TypeOK
      /\ w = Lead(r) /\ Found(i) \subseteq active /\ active \subseteq Request /\ LinkInv
  BY Workers, Kinds DEF SmartInv, IcebergTimer, TypeOK, Found
<1>2. /\ UNCHANGED <<now, id, executed, children, reported, cancel, open, accepted, troubles, troubled>>
      /\ IcebergNext(w, i)
  BY DEF IcebergTimer, result, broker, history
<1>3. \/ GoTo(w, "ended") /\ UNCHANGED <<target, status, active>>
      \/ \E x \in Found(i) : /\ Unexecuted(x) = {} /\ SetStatus(x, "COMPLETED") /\ Forget(i)
                             /\ GoTo(w, "ended") /\ UNCHANGED target
      \/ \E x \in Found(i) : \E k \in Unexecuted(x) : Place(w, x, k, 1) /\ UNCHANGED <<status, active>>
  BY <1>2 DEF IcebergNext
<1>4. CASE GoTo(w, "ended") /\ UNCHANGED <<target, status, active>>
  <2>1. GoesOn(w)
    BY <1>1, <1>2, <1>4 DEF GoesOn, Stages
  <2>2. TypeOK'
    BY <1>1, <1>2, <1>4, <2>1, WorkerTypes DEF TypeOK, history
  <2>3. Spares(w)
    BY <1>2, <1>4 DEF Spares
  <2>4. ASSUME Own(r) PROVE KindInv(r)'
    <3>1. IcebergInv(r) /\ stage'[w] = "ended"
      BY <1>1, <1>4, <2>4, Leads DEF SmartInv, KindInv
    <3>2. target[w].index \in Slots /\ executed[r] \in SUBSET Slots /\ accepted[r] \in Nat
      BY <1>1, <3>1 DEF IcebergInv, TypeOK, Slots
    <3>3. /\ Cardinality(executed[r]) \in Nat /\ Cardinality(executed[r] \cup {target[w].index}) \in Nat
          /\ Cardinality(executed[r]) <= Cardinality(executed[r] \cup {target[w].index})
      <4>1. executed[r] \cup {target[w].index} \in SUBSET Slots
        BY <3>2
      <4>. QED BY <3>2, <4>1, Counted
    <3>4. accepted[r] <= Cardinality(executed[r]) /\ reported[r] = Cardinality(executed[r])
          /\ reported[r] <= accepted[r] /\ (status[r] = "COMPLETED" => executed[r] = Slots)
      BY <1>1, <3>1 DEF IcebergInv
    <3>5. accepted[r] <= Cardinality(executed[r] \cup {target[w].index})
      BY <3>2, <3>3, <3>4
    <3>6. IcebergInv(r)'
      BY <1>1, <1>2, <1>4, <3>1, <3>2, <3>4, <3>5 DEF IcebergInv, Slots, Lead
    <3>. QED BY <1>1, <3>6, Kinds DEF KindInv
  <2>. QED BY <2>1, <2>2, <2>3, <2>4, WorkerStep
<1>5. ASSUME NEW x \in Found(i), Unexecuted(x) = {}, SetStatus(x, "COMPLETED"), Forget(i),
             GoTo(w, "ended"), UNCHANGED target
      PROVE  SmartInv'
  <2>0. x \in Request /\ status[x] # "new" /\ status' = [status EXCEPT ![x] = "COMPLETED"]
    BY <1>1, <1>5 DEF LinkInv, Known, SetStatus
  <2>1. GoesOn(w)
    BY <1>1, <1>2, <1>5, <2>0 DEF GoesOn, Stages, Forget, TypeOK
  <2>2. TypeOK'
    BY <1>1, <1>2, <1>5, <2>0, <2>1, WorkerTypes DEF TypeOK, history
  <2>3. Spares(w)
    BY <1>1, <1>2, <1>5, <2>0 DEF Spares, TypeOK
  <2>4. ASSUME Own(r) PROVE KindInv(r)'
    <3>1. IcebergInv(r) /\ stage'[w] = "ended" /\ x = r
      BY <1>1, <1>5, <2>4, Leads, OwnTarget DEF SmartInv, KindInv
    <3>2. /\ target[w].index \in Slots /\ executed[r] \in SUBSET Slots /\ accepted[r] \in Nat
          /\ executed[r] = Slots
      BY <1>1, <1>5, <3>1 DEF IcebergInv, TypeOK, Slots, Unexecuted
    <3>3. executed[r] \cup {target[w].index} = executed[r]
      BY <3>2
    <3>4. IcebergInv(r)'
      BY <1>1, <1>2, <1>5, <3>1, <3>2, <3>3 DEF IcebergInv, Slots, Lead
    <3>. QED BY <1>1, <3>4, Kinds DEF KindInv
  <2>. QED BY <2>1, <2>2, <2>3, <2>4, WorkerStep
<1>6. ASSUME NEW x \in Found(i), NEW k \in Unexecuted(x), Place(w, x, k, 1), UNCHANGED <<status, active>>
      PROVE  SmartInv'
  <2>0. /\ x \in Request /\ k \in Slots /\ k \notin executed[x] /\ [of |-> x, index |-> k, quantity |-> 1] \in Target
        /\ GoTo(w, "asking") /\ target' = [target EXCEPT ![w] = [of |-> x, index |-> k, quantity |-> 1]]
    BY <1>1, <1>6, SmartAssumption DEF Unexecuted, Slots, Target, Index, Place
  <2>1. GoesOn(w)
    BY <1>1, <1>2, <1>6, <2>0 DEF GoesOn, Stages
  <2>2. TypeOK'
    BY <1>1, <1>2, <1>6, <2>1, WorkerTypes DEF TypeOK, history
  <2>3. Spares(w)
    BY <1>2, <1>6 DEF Spares
  <2>4. ASSUME Own(r) PROVE KindInv(r)'
    <3>1. /\ IcebergInv(r) /\ stage'[w] = "asking" /\ x = r
          /\ target'[w] = [of |-> x, index |-> k, quantity |-> 1]
      <4>1. IcebergInv(r) /\ x = r
        BY <1>1, <1>6, <2>4, OwnTarget DEF SmartInv, KindInv
      <4>. QED BY <1>1, <2>0, <4>1 DEF TypeOK, GoTo
    <3>2. IcebergInv(r)'
      BY <1>1, <1>2, <1>6, <2>0, <3>1 DEF IcebergInv, Slots, Lead
    <3>. QED BY <1>1, <3>2, Kinds DEF KindInv
  <2>. QED BY <2>1, <2>2, <2>3, <2>4, WorkerStep
<1>. QED BY <1>3, <1>4, <1>5, <1>6

-----------------------------------------------------------------------------
\* A best-limit order is registered and watched after its answer.
LEMMA AnswerBestLimitStep ==
  ASSUME SmartInv, NEW w \in Worker, AnswerBestLimit(w)
  PROVE  SmartInv'
<1>. DEFINE r == RequestOf(w)
            t == target[w]
<1>1. /\ r \in BestLimits /\ r \in Request /\ r \notin Sliced /\ r \notin Aggressives /\ stage[w] = "placed" /\ TypeOK
      /\ w = Lead(r) /\ stage'[w] = "watching" /\ t.of \in Request /\ t.index \in Index
  BY Workers, Kinds, Leads DEF SmartInv, AnswerBestLimit, Enter, TypeOK, Target
<1>2. /\ UNCHANGED <<now, id, status, executed, reported, target, cancel, open, accepted, troubles, troubled>>
      /\ GoTo(w, "watching") /\ Register(r, id[r])
      /\ children' = [children EXCEPT ![t.of] = @ \cup {t.index}]
  BY DEF AnswerBestLimit, Enter, broker, history
<1>3. GoesOn(w)
  BY <1>1, <1>2 DEF GoesOn, Stages, Register
<1>4. TypeOK'
  <2>1. children' \in [Request -> SUBSET Index]
    BY <1>1, <1>2 DEF TypeOK
  <2>. QED BY <1>1, <1>2, <1>3, <2>1, WorkerTypes DEF TypeOK, history
<1>5. Spares(w)
  BY <1>2 DEF Spares
<1>6. ASSUME Own(r) PROVE KindInv(r)'
  <2>1. BestLimitInv(r)
    BY <1>1, <1>6 DEF SmartInv, KindInv
  <2>2. BestLimitInv(r)'
    BY <1>1, <1>2, <2>1 DEF BestLimitInv, Lead
  <2>. QED BY <1>1, <2>2, Kinds DEF KindInv
<1>. QED BY <1>3, <1>4, <1>5, <1>6, WorkerStep

\* Who watches is a best-limit order, if its id is its own.
LEMMA Watchers ==
  ASSUME SmartInv, NEW w \in Worker, stage[w] \in {"watching", "checking"}
  PROVE  /\ RequestOf(w) \notin Aggressives
         /\ Own(RequestOf(w)) => RequestOf(w) \in BestLimits /\ w = Lead(RequestOf(w)) /\ BestLimitInv(RequestOf(w))
<1>. DEFINE r == RequestOf(w)
<1>1. r \in Request /\ (r \notin Sliced => w = Lead(r)) /\ (r \in Sliced => w = <<r, w[2]>> /\ w[2] \in Slots)
  BY Workers
<1>2. r \notin Aggressives
  <2>. SUFFICES ASSUME r \in Aggressives PROVE FALSE
    OBVIOUS
  <2>1. Own(r) /\ r \notin Sliced
    BY <1>1, Kinds DEF Own
  <2>. QED BY <1>1, <2>1 DEF SmartInv, KindInv, AggressiveInv
<1>3. ASSUME Own(r) PROVE r \in BestLimits /\ w = Lead(r) /\ BestLimitInv(r)
  <2>1. KindInv(r)
    BY <1>1, <1>3 DEF SmartInv
  <2>2. r \notin Sliced
    BY <1>1, <2>1 DEF KindInv, SlicedInv
  <2>3. r \notin Icebergs
    BY <1>1, <2>1, <2>2 DEF KindInv, IcebergInv
  <2>. QED BY <1>1, <1>2, <2>1, <2>2, <2>3, Kinds DEF KindInv
<1>. QED BY <1>2, <1>3

\* A tick that finds an order to look at, or none.
LEMMA WatchStep ==
  ASSUME SmartInv, NEW w \in Worker, Watch(w)
  PROVE  SmartInv'
<1>. DEFINE r == RequestOf(w)
<1>1. r \in Request /\ stage[w] = "watching" /\ TypeOK /\ LinkInv /\ target[w] \in Target /\ r \notin Aggressives
  BY Workers, Watchers DEF SmartInv, Watch, TypeOK
<1>2. /\ UNCHANGED <<now, id, active, status, executed, children, reported, cancel, open, accepted, troubles, troubled>>
      /\ \E s \in {"ended", "checking"} : GoTo(w, s)
      /\ \/ target' = target
         \/ \E x \in Found(id[r]) : target' = [target EXCEPT ![w].of = x]
  BY DEF Watch, memory, result, broker, history
<1>3. GoesOn(w)
  <2>1. ASSUME NEW x \in Found(id[r]), target' = [target EXCEPT ![w].of = x]
        PROVE  \E t \in Target : /\ t.of \in {r} \cup Found(id[r])
                                 /\ r \in Sliced \cup Icebergs => t.index \in Slots
                                 /\ r \in Aggressives => t.of = r
                                 /\ target' = [target EXCEPT ![w] = t]
    <3>1. PICK t : t = [target[w] EXCEPT !.of = x]
      OBVIOUS
    <3>2. t \in Target /\ t.of = x /\ t.index = target[w].index
      BY <1>1, <3>1 DEF Target, Found, TypeOK
    <3>3. target' = [target EXCEPT ![w] = t]
      BY <2>1, <3>1
    <3>. QED BY <1>1, <3>2, <3>3 DEF LinkInv
  <2>. QED BY <1>1, <1>2, <2>1 DEF GoesOn, Stages
<1>4. TypeOK'
  BY <1>1, <1>2, <1>3, WorkerTypes DEF TypeOK, history
<1>5. Spares(w)
  BY <1>2 DEF Spares
<1>6. ASSUME Own(r) PROVE KindInv(r)'
  <2>1. r \in BestLimits /\ w = Lead(r) /\ BestLimitInv(r)
    BY <1>1, <1>6, Watchers
  <2>2. stage'[w] \in {"ended", "checking"}
    BY <1>1, <1>2 DEF GoTo, TypeOK
  <2>3. BestLimitInv(r)'
    BY <1>1, <1>2, <2>1, <2>2 DEF BestLimitInv, Lead
  <2>. QED BY <1>1, <2>1, <2>3, Kinds DEF KindInv
<1>. QED BY <1>3, <1>4, <1>5, <1>6, WorkerStep

\* A tick that calls the order filled, which was accepted in full.
LEMMA CheckStep ==
  ASSUME SmartInv, NEW w \in Worker, Check(w)
  PROVE  SmartInv'
<1>. DEFINE r == RequestOf(w)
            x == target[w].of
<1>1. r \in Request /\ stage[w] = "checking" /\ TypeOK /\ LinkInv /\ x \in Request /\ r \notin Aggressives
  BY Workers, Watchers DEF SmartInv, Check, TypeOK, Target
<1>2. /\ UNCHANGED <<now, id, executed, children, reported, target, cancel, open, accepted, troubles, troubled>>
      /\ \/ GoTo(w, "watching") /\ UNCHANGED <<status, active>>
         \/ GoTo(w, "ended") /\ status' = [status EXCEPT ![x] = "COMPLETED"] /\ Forget(id[r])
  BY DEF Check, result, broker, history, SetStatus
<1>3. status[x] # "new"
  <2>1. id[r] # 0
    BY <1>1 DEF LinkInv
  <2>2. id[x] # 0
    BY <1>1, <2>1 DEF LinkInv
  <2>. QED BY <1>1, <2>2 DEF LinkInv
<1>4. GoesOn(w)
  BY <1>1, <1>2, <1>3 DEF GoesOn, Stages, Forget, TypeOK
<1>5. TypeOK'
  <2>1. status' \in [Request -> {"new", "ACTIVE", "COMPLETED", "CANCELLED", "FAILED"}]
    BY <1>1, <1>2 DEF TypeOK
  <2>. QED BY <1>1, <1>2, <1>4, <2>1, WorkerTypes DEF TypeOK, history
<1>6. Spares(w)
  BY <1>1, <1>2 DEF Spares, TypeOK
<1>7. ASSUME Own(r) PROVE KindInv(r)'
  <2>1. r \in BestLimits /\ w = Lead(r) /\ BestLimitInv(r)
    BY <1>1, <1>7, Watchers
  <2>2. stage'[w] \in {"watching", "ended"}
    BY <1>1, <1>2 DEF GoTo, TypeOK
  <2>3. BestLimitInv(r)'
    BY <1>1, <1>2, <2>1, <2>2 DEF BestLimitInv, Lead
  <2>. QED BY <1>1, <2>1, <2>3, Kinds DEF KindInv
<1>. QED BY <1>4, <1>5, <1>6, <1>7, WorkerStep

-----------------------------------------------------------------------------
\* What the broker accepts is what was asked for and not accepted before.
LEMMA AcceptStep ==
  ASSUME SmartInv, NEW w \in Worker, Accept(w)
  PROVE  SmartInv'
<1>. DEFINE r == RequestOf(w)
            t == target[w]
<1>1. /\ r \in Request /\ stage[w] = "asking" /\ TypeOK /\ GoTo(w, "placed")
      /\ t.of \in Request /\ t.index \in Index /\ t.quantity \in 0..Slices /\ Slices \in Nat \ {0}
  BY Workers, SmartAssumption DEF SmartInv, Accept, TypeOK, Target
<1>2. /\ UNCHANGED <<now, id, active, status, executed, children, reported, target, cancel, troubles, troubled>>
      /\ open' = [open EXCEPT ![t.of][t.index] = @ + t.quantity]
      /\ accepted' = [accepted EXCEPT ![t.of] = @ + t.quantity]
  BY DEF Accept, memory, result, history
<1>3. GoesOn(w)
  BY <1>1, <1>2 DEF GoesOn, Stages
<1>4. TypeOK'
  <2>1. accepted' \in [Request -> Nat]
    BY <1>1, <1>2 DEF TypeOK
  <2>2. open' \in [Request -> [Index -> Nat]]
    BY <1>1, <1>2 DEF TypeOK
  <2>. QED BY <1>1, <1>2, <1>3, <2>1, <2>2, WorkerTypes DEF TypeOK, history
<1>5. Spares(w)
  BY <1>1, <1>2 DEF Spares, TypeOK
<1>6. ASSUME Own(r) PROVE KindInv(r)'
  <2>0. KindInv(r) /\ t.of = r
    BY <1>1, <1>6, OwnTarget DEF SmartInv
  <2>1. accepted'[r] = accepted[r] + t.quantity /\ accepted[r] \in Nat /\ reported[r] \in Nat /\ executed[r] \in SUBSET Slots
    BY <1>1, <1>2, <2>0 DEF TypeOK, Slots
  <2>2. CASE r \in Sliced
    <3>. DEFINE k == w[2]
    <3>1. SlicedInv(r) /\ k \in Slots /\ w = <<r, k>> /\ t.quantity = 1 /\ k \notin executed[r]
      BY <1>1, <2>0, <2>2, Workers DEF KindInv, SlicedInv
    <3>2. k \notin Out(r) /\ k \notin Settled(r) /\ Out(r) \in SUBSET Slots /\ Settled(r) \in SUBSET Slots
      BY <1>1, <3>1 DEF Out, Settled
    <3>3. /\ \A l \in Slots \ {k} : stage'[<<r, l>>] = stage[<<r, l>>]
          /\ stage'[<<r, k>>] = "placed" /\ Out(r)' = Out(r) \cup {k} /\ Settled(r)' = Settled(r) \cup {k}
      BY <1>1, <2>2, <3>1, SliceMoves
    <3>4. /\ Cardinality(Out(r)') = Cardinality(Out(r)) + 1 /\ Cardinality(Out(r)) \in Nat
          /\ Cardinality(Settled(r)') = Cardinality(Settled(r)) + 1 /\ Cardinality(Settled(r)) \in Nat
      BY <3>1, <3>2, <3>3, Counted
    <3>5. \A l \in Slots : /\ stage'[<<r, l>>] \in {"none", "timer", "asking", "placed", "closing", "ended", "skipped"}
                           /\ stage'[<<r, l>>] \in {"asking", "placed"} =>
                                target'[<<r, l>>].index = l /\ target'[<<r, l>>].quantity = 1
                           /\ l \in executed'[r] => stage'[<<r, l>>] \in {"closing", "ended"}
      BY <1>1, <1>2, <3>1, <3>3 DEF SlicedInv
    <3>6. /\ reported'[r] + Cardinality(Out(r)') <= accepted'[r]
          /\ accepted'[r] <= Cardinality(Settled(r)')
      BY <1>2, <2>1, <3>1, <3>4 DEF SlicedInv
    <3>7. SlicedInv(r)'
      BY <1>2, <3>1, <3>5, <3>6 DEF SlicedInv, Slots
    <3>. QED BY <1>1, <2>2, <3>7, Kinds DEF KindInv
  <2>3. CASE r \notin Sliced
    <3>1. w = Lead(r) /\ stage'[w] = "placed"
      BY <1>1, <2>3, Leads
    <3>2. ASSUME r \in Icebergs PROVE IcebergInv(r)'
      <4>1. /\ t.index \in Slots /\ t.index \notin executed[r] /\ t.quantity = 1
            /\ reported[r] = Cardinality(executed[r]) /\ reported[r] <= accepted[r]
            /\ accepted[r] <= Cardinality(executed[r]) /\ (status[r] = "COMPLETED" => executed[r] = Slots)
        BY <1>1, <2>0, <3>1, <3>2 DEF KindInv, IcebergInv
      <4>2. Cardinality(executed[r] \cup {t.index}) = Cardinality(executed[r]) + 1
        BY <2>1, <4>1, Counted
      <4>3. accepted'[r] <= Cardinality(executed[r] \cup {t.index}) /\ reported[r] < accepted'[r]
        BY <2>1, <4>1, <4>2
      <4>4. target'[Lead(r)] = t /\ executed'[r] = executed[r] /\ reported'[r] = reported[r] /\ status'[r] = status[r]
        BY <1>2, <3>1
      <4>5. reported'[r] <= accepted'[r]
        BY <2>1, <4>1, <4>3, <4>4
      <4>. QED BY <3>1, <4>1, <4>3, <4>4, <4>5 DEF IcebergInv, Slots, Lead
    <3>3. ASSUME r \in BestLimits PROVE BestLimitInv(r)'
      BY <1>1, <1>2, <2>0, <2>1, <3>1, <3>3 DEF KindInv, BestLimitInv, Lead
    <3>4. ASSUME r \in Aggressives PROVE AggressiveInv(r)'
      <4>1. /\ t.quantity \in 1..(Slices - reported[r]) /\ accepted[r] = reported[r]
            /\ status[r] # "COMPLETED" /\ accepted[r] <= Slices
        BY <1>1, <2>0, <3>1, <3>4 DEF KindInv, AggressiveInv
      <4>2. accepted'[r] = reported[r] + t.quantity /\ accepted'[r] <= Slices /\ reported[r] <= accepted'[r]
        BY <1>1, <2>1, <4>1
      <4>. QED BY <1>2, <3>1, <4>1, <4>2 DEF AggressiveInv, Lead
    <3>. QED BY <2>3, <3>2, <3>3, <3>4 DEF KindInv
  <2>. QED BY <2>2, <2>3
<1>. QED BY <1>3, <1>4, <1>5, <1>6, WorkerStep

-----------------------------------------------------------------------------
\* The loop of an aggressive order, from a state in which all that was accepted
\* of it has been reported, or in which it has just been placed at market.
LEMMA AggressiveStep ==
  ASSUME SmartInv, NEW w \in Worker, RequestOf(w) \in Aggressives, stage[w] \in {"asking", "placed"},
         NEW i \in Index, NEW done \in Nat,
         reported[RequestOf(w)] <= done, done <= accepted[RequestOf(w)],
         i # Market => done = accepted[RequestOf(w)],
         done = Slices => i # Market,
         AggressiveGoesOn(w, i, Slices - done),
         reported' = [reported EXCEPT ![RequestOf(w)] = done],
         UNCHANGED <<now, id, executed, cancel, open, accepted>>,
         UNCHANGED history \/ Trouble(RequestOf(w)),
         children' \in [Request -> SUBSET Index]
  PROVE  SmartInv'
<1>. DEFINE r == RequestOf(w)
<1>1. /\ r \in Request /\ r \notin Sliced /\ r \notin Icebergs /\ r \notin BestLimits /\ w = Lead(r) /\ TypeOK /\ LinkInv /\ id[r] # 0
      /\ status[r] # "new" /\ Slices \in Nat \ {0} /\ accepted[r] \in Nat /\ reported[r] \in Nat
  BY Workers, Kinds, SmartAssumption DEF SmartInv, LinkInv, TypeOK
<1>2. Own(r) /\ AggressiveInv(r)
  BY <1>1 DEF Own, SmartInv, KindInv
<1>3. accepted[r] <= Slices /\ done <= Slices /\ status[r] # "COMPLETED"
  BY <1>1, <1>2 DEF AggressiveInv
<1>4. accepted'[r] = accepted[r] /\ reported'[r] = done /\ reported' \in [Request -> Nat]
  BY <1>1 DEF TypeOK
<1>5. ASSUME NEW s \in {"COMPLETED", "ACTIVE"}, s = "COMPLETED" => accepted[r] = Slices, AggressiveEnds(w, s)
      PROVE  SmartInv'
  <2>1. GoTo(w, "ended") /\ status' = [status EXCEPT ![r] = s] /\ Register(r, id[r]) /\ UNCHANGED target /\ stage'[w] = "ended"
    BY <1>1, <1>5, Leads DEF AggressiveEnds, SetStatus
  <2>2. GoesOn(w)
    BY <1>1, <2>1 DEF GoesOn, Stages, Register, TypeOK
  <2>3. TypeOK'
    BY <1>1, <1>4, <2>1, <2>2, WorkerTypes DEF TypeOK
  <2>4. Spares(w)
    BY <1>1, <2>1 DEF Spares, TypeOK
  <2>5. AggressiveInv(r)'
    BY <1>1, <1>3, <1>4, <1>5, <2>1 DEF AggressiveInv, Lead
  <2>. QED BY <1>1, <2>2, <2>3, <2>4, <2>5, WorkerStep DEF KindInv
<1>6. ASSUME NEW j \in Index, NEW q \in 1..(Slices - done), Place(w, r, j, q), UNCHANGED <<status, active>>,
             done = accepted[r]
      PROVE  SmartInv'
  <2>1. /\ GoTo(w, "asking") /\ stage'[w] = "asking" /\ [of |-> r, index |-> j, quantity |-> q] \in Target
        /\ target' = [target EXCEPT ![w] = [of |-> r, index |-> j, quantity |-> q]]
        /\ target'[w] = [of |-> r, index |-> j, quantity |-> q]
    <3>1. q \in 0..Slices
      BY <1>1, <1>3
    <3>2. [of |-> r, index |-> j, quantity |-> q] \in Target
      BY <1>1, <3>1 DEF Target
    <3>. QED BY <1>1, <1>6, <3>2, Leads DEF Place
  <2>2. GoesOn(w)
    BY <1>1, <1>6, <2>1 DEF GoesOn, Stages
  <2>3. TypeOK'
    BY <1>1, <1>4, <1>6, <2>2, WorkerTypes DEF TypeOK
  <2>4. Spares(w)
    BY <1>1, <1>6 DEF Spares, TypeOK
  <2>5. AggressiveInv(r)'
    BY <1>1, <1>3, <1>4, <1>6, <2>1 DEF AggressiveInv, Lead
  <2>. QED BY <1>1, <2>2, <2>3, <2>4, <2>5, WorkerStep DEF KindInv
<1>7. CASE Slices - done = 0
  <2>1. done = Slices /\ accepted[r] = Slices
    BY <1>1, <1>3, <1>7
  <2>2. AggressiveEnds(w, "COMPLETED")
    BY <1>7 DEF AggressiveGoesOn
  <2>. QED BY <1>5, <2>1, <2>2
<1>8. CASE Slices - done # 0
  <2>1. Slices - done > 0 /\ Slices - done \in Nat
    BY <1>1, <1>3, <1>8
  <2>2. CASE i = Market
    <3>1. AggressiveEnds(w, "ACTIVE")
      BY <1>8, <2>1, <2>2 DEF AggressiveGoesOn
    <3>. QED BY <1>5, <3>1
  <2>3. CASE i # Market
    <3>1. NextLevel(w, i + 1, Slices - done) /\ UNCHANGED <<status, active>>
      BY <1>8, <2>1, <2>3 DEF AggressiveGoesOn
    <3>2. PICK j \in Index, q \in 1..(Slices - done) : Place(w, r, j, q)
      BY <1>1, <2>1, <3>1 DEF NextLevel, Market, Index
    <3>. QED BY <1>6, <2>3, <3>1, <3>2
  <2>. QED BY <2>2, <2>3
<1>. QED BY <1>7, <1>8

\* The answer to a level or to the rest at market.
LEMMA AnswerLevelStep ==
  ASSUME SmartInv, NEW w \in Worker, AnswerLevel(w)
  PROVE  SmartInv'
<1>. DEFINE r == RequestOf(w)
            t == target[w]
            done == IF t.index = Market THEN reported[r] ELSE reported[r] + t.quantity
<1>1. /\ r \in Aggressives /\ r \in Request /\ stage[w] = "placed" /\ TypeOK /\ w = Lead(r) /\ r \notin Sliced
      /\ t.of \in Request /\ t.index \in Index /\ accepted[r] \in Nat /\ reported[r] \in Nat /\ Slices \in Nat
  BY Workers, Kinds, SmartAssumption DEF SmartInv, AnswerLevel, Enter, TypeOK, Target
<1>2. /\ UNCHANGED <<now, id, executed, cancel, open, accepted, troubles, troubled>>
      /\ children' = [children EXCEPT ![t.of] = @ \cup {t.index}]
      /\ reported' = [reported EXCEPT ![r] = done]
      /\ AggressiveGoesOn(w, t.index, Slices - done)
  BY DEF AnswerLevel, Enter, broker, history
<1>3. AggressiveInv(r)
  BY <1>1 DEF Own, SmartInv, KindInv
<1>4. t.quantity \in 1..(Slices - reported[r]) /\ accepted[r] = reported[r] + t.quantity
  BY <1>1, <1>3 DEF AggressiveInv
<1>5. /\ done \in Nat /\ reported[r] <= done /\ done <= accepted[r]
      /\ t.index # Market => done = accepted[r]
      /\ done = Slices => t.index # Market
  BY <1>1, <1>4
<1>6. children' \in [Request -> SUBSET Index]
  BY <1>1, <1>2 DEF TypeOK
<1>. HIDE DEF done
<1>. QED BY <1>1, <1>2, <1>5, <1>6, AggressiveStep DEF history

-----------------------------------------------------------------------------
\* A worker whose order is refused, or whose call throws, ends and reports nothing.
LEMMA GivesUp ==
  ASSUME SmartInv, NEW w \in Worker, NEW r \in Request, r = RequestOf(w), Own(r),
         stage[w] \in {"asking", "placed"}, GoTo(w, "ended"), UNCHANGED target,
         executed'[r] = executed[r], reported'[r] = reported[r], accepted'[r] = accepted[r],
         status'[r] # "COMPLETED" \/ status'[r] = status[r]
  PROVE  KindInv(r)'
<1>0. TypeOK /\ KindInv(r)
  BY DEF SmartInv
<1>1. accepted[r] \in Nat /\ reported[r] \in Nat /\ executed[r] \in SUBSET Slots
  BY <1>0 DEF TypeOK, Slots
<1>2. CASE r \in Sliced
  <2>. DEFINE k == w[2]
  <2>1. SlicedInv(r) /\ k \in Slots /\ w = <<r, k>> /\ k \notin executed[r]
    BY <1>0, <1>2, Workers DEF KindInv, SlicedInv
  <2>2. Out(r) \in SUBSET Slots /\ Settled(r) \in SUBSET Slots
    BY DEF Out, Settled
  <2>3. /\ \A l \in Slots \ {k} : stage'[<<r, l>>] = stage[<<r, l>>]
        /\ stage'[<<r, k>>] = "ended" /\ Out(r)' = Out(r) \ {k} /\ Settled(r)' = Settled(r) \cup {k}
    BY <1>0, <1>2, <2>1, SliceMoves
  <2>4. Out(r)' \in SUBSET Slots /\ Settled(r)' \in SUBSET Slots
    BY <2>1, <2>2, <2>3
  <2>5. /\ Cardinality(Out(r)') <= Cardinality(Out(r)) /\ Cardinality(Settled(r)) <= Cardinality(Settled(r)')
        /\ Cardinality(Out(r)) \in Nat /\ Cardinality(Out(r)') \in Nat
        /\ Cardinality(Settled(r)) \in Nat /\ Cardinality(Settled(r)') \in Nat
    BY <2>2, <2>3, <2>4, Counted
  <2>6. /\ reported'[r] + Cardinality(Out(r)') <= accepted'[r]
        /\ accepted'[r] <= Cardinality(Settled(r)')
    BY <1>1, <2>1, <2>5 DEF SlicedInv
  <2>7. status'[r] = "COMPLETED" => executed'[r] = Slots
    BY <2>1 DEF SlicedInv
  <2>8. \A l \in Slots : /\ stage'[<<r, l>>] \in {"none", "timer", "asking", "placed", "closing", "ended", "skipped"}
                         /\ stage'[<<r, l>>] \in {"asking", "placed"} =>
                              target'[<<r, l>>].index = l /\ target'[<<r, l>>].quantity = 1
                         /\ l \in executed'[r] => stage'[<<r, l>>] \in {"closing", "ended"}
    BY <2>1, <2>3 DEF SlicedInv
  <2>9. SlicedInv(r)'
    BY <2>1, <2>6, <2>7, <2>8 DEF SlicedInv, Slots
  <2>. QED BY <1>2, <2>9, Kinds DEF KindInv
<1>3. CASE r \notin Sliced
  <2>1. w = Lead(r) /\ stage'[w] = "ended" /\ target' = target
    BY <1>0, <1>3, Leads
  <2>2. ASSUME r \in Icebergs PROVE IcebergInv(r)'
    <3>. DEFINE k == target[w].index
    <3>1. /\ k \in Slots /\ reported[r] = Cardinality(executed[r]) /\ reported[r] <= accepted[r]
          /\ k \notin executed[r]
          /\ stage[w] = "asking" => accepted[r] <= Cardinality(executed[r])
          /\ stage[w] = "placed" => accepted[r] <= Cardinality(executed[r] \cup {k})
          /\ status[r] = "COMPLETED" => executed[r] = Slots
      BY <1>0, <2>1, <2>2 DEF KindInv, IcebergInv
    <3>2. Cardinality(executed[r] \cup {k}) = Cardinality(executed[r]) + 1 /\ Cardinality(executed[r]) \in Nat
      BY <1>1, <3>1, Counted
    <3>3. accepted[r] <= Cardinality(executed[r] \cup {k})
      BY <1>1, <3>1, <3>2
    <3>. QED BY <2>1, <3>1, <3>3 DEF IcebergInv, Slots, Lead
  <2>3. ASSUME r \in BestLimits PROVE BestLimitInv(r)'
    BY <1>0, <1>1, <2>1, <2>3, SmartAssumption DEF KindInv, BestLimitInv, Lead
  <2>4. ASSUME r \in Aggressives PROVE AggressiveInv(r)'
    BY <1>0, <1>1, <2>1, <2>4 DEF KindInv, AggressiveInv, Lead
  <2>. QED BY <1>3, <2>2, <2>3, <2>4 DEF KindInv
<1>. QED BY <1>2, <1>3

\* A refusal ends the worker, or sends an aggressive order to its next level.
LEMMA RefuseStep ==
  ASSUME SmartInv, NEW w \in Worker, Refuse(w)
  PROVE  SmartInv'
<1>. DEFINE r == RequestOf(w)
<1>1. /\ r \in Request /\ stage[w] = "asking" /\ TypeOK /\ LinkInv /\ Trouble(r)
  BY Workers DEF SmartInv, Refuse
<1>2. /\ UNCHANGED <<now, id, executed, children, reported, cancel, open, accepted>>
      /\ \/ r \in Sliced \cup Icebergs /\ GoTo(w, "ended") /\ UNCHANGED <<target, status, active>>
         \/ r \in BestLimits /\ GoTo(w, "ended") /\ Register(r, id[r]) /\ UNCHANGED <<target, status>>
         \/ r \in Aggressives /\ AggressiveGoesOn(w, target[w].index, Slices - reported[r])
  BY DEF Refuse, result, broker
<1>3. CASE GoTo(w, "ended") /\ UNCHANGED <<target, status>> /\ r \notin Aggressives /\ (active' = active \/ Register(r, id[r]))
  <2>1. GoesOn(w)
    BY <1>1, <1>2, <1>3 DEF GoesOn, Stages, Register
  <2>2. TypeOK'
    BY <1>1, <1>2, <1>3, <2>1, WorkerTypes DEF TypeOK
  <2>3. Spares(w)
    BY <1>2, <1>3 DEF Spares
  <2>. QED BY <1>1, <1>2, <1>3, <2>1, <2>2, <2>3, GivesUp, WorkerStep
<1>4. CASE r \in Aggressives /\ AggressiveGoesOn(w, target[w].index, Slices - reported[r])
  <2>1. w = Lead(r) /\ r \notin Sliced /\ accepted[r] \in Nat /\ reported[r] \in Nat /\ Slices \in Nat /\ target[w].index \in Index
    BY <1>1, <1>4, Workers, Kinds, SmartAssumption DEF TypeOK, Target
  <2>2. AggressiveInv(r)
    BY <1>1, <1>4, <2>1 DEF Own, SmartInv, KindInv
  <2>3. accepted[r] = reported[r] /\ reported[r] # Slices
    BY <1>1, <2>1, <2>2 DEF AggressiveInv
  <2>4. reported' = [reported EXCEPT ![r] = reported[r]] /\ children' \in [Request -> SUBSET Index]
    BY <1>1, <1>2 DEF TypeOK
  <2>. DEFINE done == reported[r]
  <2>5. /\ done \in Nat /\ reported[r] <= done /\ done <= accepted[r]
        /\ target[w].index # Market => done = accepted[r]
        /\ done = Slices => target[w].index # Market
    BY <2>1, <2>3
  <2>6. AggressiveGoesOn(w, target[w].index, Slices - done) /\ reported' = [reported EXCEPT ![r] = done]
    BY <1>4, <2>4
  <2>7. stage[w] \in {"asking", "placed"} /\ Trouble(r) /\ UNCHANGED <<now, id, executed, cancel, open, accepted>>
    BY <1>1, <1>2
  <2>. HIDE DEF done
  <2>. QED BY <1>4, <2>1, <2>4, <2>5, <2>6, <2>7, AggressiveStep
<1>. QED BY <1>1, <1>2, <1>3, <1>4, Kinds

\* A call that throws, before or after its order was accepted.
LEMMA ThrowStep ==
  ASSUME SmartInv, NEW w \in Worker, Throw(w)
  PROVE  SmartInv'
<1>. DEFINE r == RequestOf(w)
<1>1. /\ r \in Request /\ stage[w] \in {"asking", "placed", "checking"} /\ TypeOK /\ LinkInv /\ Trouble(r)
      /\ status[r] # "new"
  BY Workers DEF SmartInv, Throw, LinkInv
<1>2. /\ UNCHANGED <<now, id, active, executed, children, reported, target, cancel, open, accepted>>
      /\ stage[w] = "checking" => GoTo(w, "watching")
      /\ stage[w] # "checking" => GoTo(w, "ended")
      /\ \/ status' = [status EXCEPT ![r] = "FAILED"] /\ stage[w] # "checking"
         \/ status' = status
  BY DEF Throw, result, broker, SetStatus
<1>3. GoesOn(w)
  BY <1>1, <1>2 DEF GoesOn, Stages, TypeOK
<1>4. TypeOK'
  <2>1. status' \in [Request -> {"new", "ACTIVE", "COMPLETED", "CANCELLED", "FAILED"}]
    BY <1>1, <1>2 DEF TypeOK
  <2>. QED BY <1>1, <1>2, <1>3, <2>1, WorkerTypes DEF TypeOK
<1>5. Spares(w)
  BY <1>1, <1>2 DEF Spares, TypeOK
<1>6. ASSUME Own(r) PROVE KindInv(r)'
  <2>1. CASE stage[w] = "checking"
    <3>1. r \in BestLimits /\ w = Lead(r) /\ BestLimitInv(r) /\ stage'[w] = "watching" /\ status' = status
      BY <1>1, <1>2, <1>6, <2>1, Watchers, Leads, Kinds
    <3>2. BestLimitInv(r)'
      BY <1>2, <2>1, <3>1 DEF BestLimitInv, Lead
    <3>. QED BY <1>1, <3>1, <3>2, Kinds DEF KindInv
  <2>2. CASE stage[w] # "checking"
    <3>1. status'[r] # "COMPLETED" \/ status'[r] = status[r]
      BY <1>1, <1>2 DEF TypeOK
    <3>. QED BY <1>1, <1>2, <1>6, <2>2, <3>1, GivesUp
  <2>. QED BY <2>1, <2>2
<1>. QED BY <1>3, <1>4, <1>5, <1>6, WorkerStep

-----------------------------------------------------------------------------
\* A step of the broker or of a cancellation moves no worker and places nothing.
LEMMA RestStep ==
  ASSUME SmartInv, TypeOK', UNCHANGED <<now, id, stage, target, executed, reported, accepted>>,
         active' \subseteq active,
         \A x \in Request : /\ cancel'[x].stage # "none" => id[x] # 0
                            /\ status'[x] = "new" <=> status[x] = "new"
                            /\ status'[x] = "COMPLETED" => status[x] = "COMPLETED"
  PROVE  SmartInv'
<1>1. LinkInv'
  <2>1. Known' = Known
    BY DEF Known
  <2>. QED BY <2>1 DEF SmartInv, LinkInv
<1>2. \A r \in Request : Own(r)' <=> Own(r)
  BY DEF Own, Alone
<1>3. \A r \in Request : Own(r)' => KindInv(r)'
  BY <1>2, KindFrame DEF SmartInv
<1>. QED BY <1>1, <1>3 DEF SmartInv

\* A cancellation takes nothing back from what was accepted.
LEMMA CancelStep ==
  ASSUME SmartInv, NEW r \in Request, Cancel(r)
  PROVE  SmartInv'
<1>0. TypeOK /\ LinkInv
  BY DEF SmartInv
<1>1. CASE BeginCancel(r)
  <2>1. UNCHANGED <<now, id, active, status, executed, children, reported, stage, target, open, accepted, troubles, troubled>>
    BY <1>1 DEF BeginCancel, memory, result, broker, history
  <2>2. cancel' \in [Request -> [stage : {"none", "running", "ended"}, tried : SUBSET Index]]
    BY <1>0, <1>1 DEF BeginCancel, TypeOK
  <2>3. TypeOK'
    BY <1>0, <2>1, <2>2 DEF TypeOK
  <2>4. \A x \in Request : cancel'[x].stage # "none" => id[x] # 0
    <3>1. id[r] # 0
      BY <1>0, <1>1 DEF BeginCancel, LinkInv, Known
    <3>. QED BY <1>0, <1>1, <3>1 DEF BeginCancel, LinkInv, TypeOK
  <2>. QED BY <2>1, <2>3, <2>4, RestStep
<1>2. CASE CancelChild(r)
  <2>1. UNCHANGED <<now, id, active, status, executed, children, reported, stage, target, accepted>>
    BY <1>2 DEF CancelChild, memory, result
  <2>2. cancel' \in [Request -> [stage : {"none", "running", "ended"}, tried : SUBSET Index]]
    BY <1>0, <1>2 DEF CancelChild, TypeOK
  <2>3. open' \in [Request -> [Index -> Nat]]
    <3>1. PICK i \in children[r] : open' = [open EXCEPT ![r][i] = 0] \/ open' = open
      BY <1>2 DEF CancelChild
    <3>2. i \in Index /\ open \in [Request -> [Index -> Nat]]
      BY <1>0, <3>1 DEF TypeOK
    <3>. QED BY <3>1, <3>2
  <2>5. troubles' \in 0..MaxTroubles /\ troubled' \subseteq Request
    BY <1>0, <1>2, SmartAssumption DEF CancelChild, TypeOK, Trouble, history
  <2>6. \A x \in Request : cancel'[x].stage # "none" => id[x] # 0
    BY <1>0, <1>2 DEF CancelChild, LinkInv, TypeOK
  <2>4. TypeOK'
    BY <1>0, <2>1, <2>2, <2>3, <2>5 DEF TypeOK
  <2>. QED BY <2>1, <2>4, <2>6, RestStep
<1>3. CASE EndCancel(r)
  <2>1. /\ UNCHANGED <<now, id, executed, children, reported, stage, target, open, accepted, troubles, troubled>>
        /\ status' = [status EXCEPT ![r] = "CANCELLED"] /\ active' \subseteq active
    BY <1>3 DEF EndCancel, result, broker, history, SetStatus, Forget
  <2>2. /\ cancel' \in [Request -> [stage : {"none", "running", "ended"}, tried : SUBSET Index]]
        /\ status' \in [Request -> {"new", "ACTIVE", "COMPLETED", "CANCELLED", "FAILED"}]
    BY <1>0, <1>3, <2>1 DEF EndCancel, TypeOK
  <2>3. TypeOK'
    BY <1>0, <2>1, <2>2 DEF TypeOK
  <2>4. status[r] # "new" /\ \A x \in Request : cancel'[x].stage # "none" => id[x] # 0
    BY <1>0, <1>3 DEF EndCancel, LinkInv, TypeOK
  <2>. QED BY <1>0, <2>1, <2>3, <2>4, RestStep DEF TypeOK
<1>. QED BY <1>1, <1>2, <1>3 DEF Cancel

\* Fills neither.
LEMMA FillStep ==
  ASSUME SmartInv, NEW r \in Request, NEW i \in Index, Fill(r, i)
  PROVE  SmartInv'
<1>1. /\ UNCHANGED <<now, id, active, status, executed, children, reported, stage, target, cancel, accepted, troubles, troubled>>
      /\ open' = [open EXCEPT ![r][i] = 0]
  BY DEF Fill, memory, result, history
<1>2. open' \in [Request -> [Index -> Nat]]
  BY <1>1 DEF SmartInv, TypeOK
<1>3. TypeOK'
  BY <1>1, <1>2 DEF SmartInv, TypeOK
<1>. QED BY <1>1, <1>3, RestStep DEF SmartInv, LinkInv

\* Every step keeps the invariant.
LEMMA SmartStep == SmartInv /\ [Next]_vars => SmartInv'
<1>. SUFFICES ASSUME SmartInv, [Next]_vars PROVE SmartInv'
  OBVIOUS
<1>1. ASSUME NEW r \in Request, Start(r) PROVE SmartInv'
  BY <1>1, StartStep
<1>2. ASSUME NEW r \in Request, Cancel(r) PROVE SmartInv'
  BY <1>2, CancelStep
<1>3. ASSUME NEW w \in Worker, Work(w) PROVE SmartInv'
  BY <1>3, SliceTimerStep, AcceptStep, AnswerSliceStep, CloseStep, AnswerIcebergStep, IcebergTimerStep,
     AnswerBestLimitStep, WatchStep, CheckStep, AnswerLevelStep DEF Work
<1>4. ASSUME NEW w \in Worker, Spike(w) \/ Refuse(w) \/ Throw(w) PROVE SmartInv'
  BY <1>4, SpikeStep, RefuseStep, ThrowStep
<1>5. ASSUME NEW r \in Request, NEW i \in Index, Fill(r, i) PROVE SmartInv'
  BY <1>5, FillStep
<1>6. CASE UNCHANGED vars
  <2>1. UNCHANGED <<now, id, active, status, executed, children, reported, stage, target, cancel, open, accepted, troubles, troubled>>
    BY <1>6 DEF vars, memory, result, broker, history
  <2>2. TypeOK'
    BY <2>1 DEF SmartInv, TypeOK
  <2>. QED BY <2>1, <2>2, RestStep DEF SmartInv, LinkInv
<1>. QED BY <1>1, <1>2, <1>3, <1>4, <1>5, <1>6 DEF Next

\* What the kinds keep bounds what is accepted, and what COMPLETED means.
LEMMA KindBounds ==
  ASSUME SmartInv, NEW r \in Request, Alone(r)
  PROVE  /\ accepted[r] <= Slices /\ reported[r] <= accepted[r]
         /\ status[r] = "COMPLETED" => accepted[r] = Slices
<1>1. /\ KindInv(r) /\ accepted[r] \in Nat /\ reported[r] \in Nat /\ executed[r] \in SUBSET Slots /\ Slices \in Nat
  BY SmartAssumption DEF SmartInv, Own, TypeOK, Slots
<1>2. CASE r \in Sliced
  <2>1. SlicedInv(r) /\ Out(r) \in SUBSET Slots /\ Settled(r) \in SUBSET Slots
    BY <1>1, <1>2 DEF KindInv, Out, Settled
  <2>2. /\ Cardinality(Out(r)) \in Nat /\ Cardinality(Settled(r)) \in Nat /\ Cardinality(Settled(r)) <= Slices
        /\ executed[r] = Slots => Cardinality(executed[r]) = Slices
    BY <1>1, <2>1, Counted
  <2>. QED BY <1>1, <2>1, <2>2 DEF SlicedInv
<1>3. CASE r \in Icebergs
  <2>. DEFINE k == target[Lead(r)].index
              S == executed[r] \cup {k}
  <2>1. /\ k \in Slots /\ reported[r] = Cardinality(executed[r]) /\ reported[r] <= accepted[r]
        /\ accepted[r] <= Cardinality(S) \/ accepted[r] <= Cardinality(executed[r])
        /\ status[r] = "COMPLETED" => executed[r] = Slots
    BY <1>1, <1>3 DEF KindInv, IcebergInv
  <2>2. S \in SUBSET Slots
    BY <1>1, <2>1
  <2>3. /\ Cardinality(S) \in Nat /\ Cardinality(S) <= Slices
        /\ Cardinality(executed[r]) \in Nat /\ Cardinality(executed[r]) <= Slices
        /\ executed[r] = Slots => Cardinality(executed[r]) = Slices
    BY <1>1, <2>2, Counted
  <2>. HIDE DEF S
  <2>. QED BY <1>1, <2>1, <2>3
<1>4. CASE r \in BestLimits
  BY <1>1, <1>4 DEF KindInv, BestLimitInv
<1>5. CASE r \in Aggressives
  BY <1>1, <1>5 DEF KindInv, AggressiveInv
<1>. QED BY <1>2, <1>3, <1>4, <1>5, Kinds

-----------------------------------------------------------------------------
\* In every run every variable keeps its type, and activeOrders, a map from
\* orderId, holds one request for each id.
THEOREM SmartTypes == Spec => []TypeOK
<1>1. SmartInv => TypeOK
  BY DEF SmartInv
<1>. QED BY <1>1, InitSmart, SmartStep, PTL DEF Spec

\* In every run an order whose id is its own has no more accepted at the
\* broker than was asked for and reports no more than was accepted, whichever
\* answers are lost, refused or late and whenever it is cancelled
\* (smart-order.service.ts, the four kinds of orders).
THEOREM NoOrderIsExceeded == Spec => []NeverOverOrders
<1>1. SmartInv => NeverOverOrders
  BY KindBounds DEF NeverOverOrders
<1>. QED BY <1>1, InitSmart, SmartStep, PTL DEF Spec

\* In every run an order whose id is its own and whose status is COMPLETED has
\* been placed in full.
THEOREM CompletedMeansPlaced == Spec => []CompletedIsPlaced
<1>1. SmartInv => CompletedIsPlaced
  BY KindBounds DEF CompletedIsPlaced
<1>. QED BY <1>1, InitSmart, SmartStep, PTL DEF Spec
=============================================================================
