------------------------- MODULE RateLimiterProofs -------------------------
(* Theorems about RateLimiter, for every value of its constants.           *)
EXTENDS RateLimiter, FiniteSetTheorems, TLAPS

---------------------------------------------------------------------------
(* Arithmetic of the refill.                                               *)

LEMMA MulMono ==
    ASSUME NEW a \in Int, NEW b \in Int, NEW c \in Nat, a <= b
    PROVE  c * a <= c * b /\ a * c <= b * c /\ c * a = a * c
OBVIOUS

LEMMA MinPair ==
    ASSUME NEW a \in Int, NEW b \in Int
    PROVE  Min({a, b}) = IF a <= b THEN a ELSE b
<1> DEFINE m == IF a <= b THEN a ELSE b
<1>1. m \in {a, b} /\ \A y \in {a, b} : m <= y
  OBVIOUS
<1>2. \A x \in {a, b} : (\A y \in {a, b} : x <= y) => x = m
  OBVIOUS
<1> HIDE DEF m
<1>3. (CHOOSE x \in {a, b} : \A y \in {a, b} : x <= y) = m
  BY <1>1, <1>2
<1> QED BY <1>3 DEF Min, m

LEMMA RefilledValue ==
    ASSUME NEW u \in Int, NEW e \in Int
    PROVE  Refilled(u, e) = IF Capacity <= u + e * Rate THEN Capacity ELSE u + e * Rate
<1>1. Capacity \in Int /\ u + e * Rate \in Int
  BY RateLimiterAssumption
<1> QED BY <1>1, MinPair DEF Refilled

(* A row is refilled up to the capacity; the refill never takes anything.  *)
LEMMA LevelBounds ==
    ASSUME NEW row \in Row, NEW t \in Nat, row = NoRow \/ row.lastRefill <= t
    PROVE  /\ Level(row, t) \in 0..Capacity
           /\ row = NoRow => Level(row, t) = Capacity
           /\ row # NoRow => /\ Level(row, t) <= row.units + (t - row.lastRefill) * Rate
                             /\ Level(row, t) = Capacity
                                \/ Level(row, t) = row.units + (t - row.lastRefill) * Rate
                             /\ t = row.lastRefill => Level(row, t) = row.units
<1>0. Capacity \in Nat /\ Rate \in Nat /\ MaxTime \in Nat
  BY RateLimiterAssumption
<1>1. CASE row = NoRow
  BY <1>0, <1>1 DEF Level
<1>2. CASE row # NoRow
  <2> DEFINE e == t - row.lastRefill
  <2>1. row.units \in 0..Capacity /\ e \in Nat /\ row.units \in Int
    BY <1>0, <1>2 DEF Row
  <2>2. Level(row, t) = Refilled(row.units, e)
    BY <1>2 DEF Level
  <2> HIDE DEF e
  <2>3. e * Rate \in Nat /\ (e = 0 => e * Rate = 0)
    BY <1>0, <2>1
  <2>6. Level(row, t) = IF Capacity <= row.units + e * Rate THEN Capacity ELSE row.units + e * Rate
    BY <2>1, <2>2, RefilledValue
  <2>4. /\ Level(row, t) \in 0..Capacity
        /\ Level(row, t) <= row.units + e * Rate
        /\ Level(row, t) = Capacity \/ Level(row, t) = row.units + e * Rate
        /\ e = 0 => Level(row, t) = row.units
    BY <1>0, <2>1, <2>3, <2>6
  <2>5. t = row.lastRefill => e = 0
    BY <1>0 DEF e, Row
  <2> QED BY <1>2, <2>4, <2>5 DEF e
<1> QED BY <1>1, <1>2

---------------------------------------------------------------------------
(* Type correctness, and a clock no row is ahead of.                       *)

Request == [pc : {"idle", "decide", "create", "update"}, row : Row, next : Row, seen : Nat]

NotAhead(row) == row = NoRow \/ row.lastRefill <= now
Clock == NotAhead(bucket) /\ \A r \in Requests : NotAhead(req[r].row)

(* What a request that was admitted will write: a token less than the row  *)
(* it read held when the verdict was computed.                             *)
Computed ==
    \A r \in Requests : req[r].pc \in {"create", "update"} =>
      /\ req[r].pc = "create" <=> req[r].row = NoRow
      /\ req[r].next.lastRefill <= now
      /\ req[r].row = NoRow => req[r].next.units + Cost <= Capacity
      /\ req[r].row # NoRow =>
           /\ req[r].row.lastRefill <= req[r].next.lastRefill
           /\ req[r].next.units + Cost
              <= req[r].row.units + (req[r].next.lastRefill - req[r].row.lastRefill) * Rate

RateInv == TypeOK /\ Clock /\ Computed

LEMMA RowFacts ==
    /\ NoRow \in Row /\ Idle \in Request
    /\ \A row \in Row : row.units \in 0..Capacity /\ row.lastRefill \in 0..(MaxTime + 1)
    /\ \A row \in Row : row.lastRefill <= MaxTime => row # NoRow
BY RateLimiterAssumption DEF NoRow, Row, Idle, Request

LEMMA ReadingType ==
    ASSUME TypeOK
    PROVE  Reading \in Request /\ Reading.pc = "decide" /\ Reading.row = bucket
           /\ Reading.seen = granted
BY RowFacts DEF Reading, Request, TypeOK

LEMMA ConsumedFacts ==
    ASSUME NEW row \in Row, now \in 0..MaxTime, NotAhead(row), Level(row, now) >= Cost
    PROVE  /\ Consumed(row) \in Row
           /\ Consumed(row).lastRefill = now
           /\ Consumed(row).units = Level(row, now) - Cost
           /\ row = NoRow => Consumed(row).units + Cost <= Capacity
           /\ row # NoRow => /\ row.lastRefill <= now
                             /\ Consumed(row).units + Cost
                                <= row.units + (now - row.lastRefill) * Rate
<1>0. Capacity \in Nat /\ Cost \in Nat /\ MaxTime \in Nat /\ now \in Nat
  BY RateLimiterAssumption
<1> DEFINE L == Level(row, now)
<1>1. /\ L \in 0..Capacity
      /\ row # NoRow => L <= row.units + (now - row.lastRefill) * Rate
  BY <1>0, LevelBounds DEF NotAhead
<1>2. L - Cost \in 0..Capacity /\ (L - Cost) + Cost = L
  BY <1>0, <1>1
<1>3. Consumed(row) = [units |-> L - Cost, lastRefill |-> now]
  BY DEF Consumed
<1> HIDE DEF L
<1>4. Consumed(row) \in Row
  BY <1>0, <1>2, <1>3 DEF Row
<1>5. Consumed(row).units = L - Cost /\ Consumed(row).lastRefill = now
  BY <1>3
<1> QED BY <1>0, <1>1, <1>2, <1>4, <1>5 DEF L, NotAhead

(* One request moves, the others stay where they are.                      *)
LEMMA AdmitEffect ==
    ASSUME RateInv, NEW r \in Requests, Admit(r)
    PROVE  /\ req' \in [Requests -> Request]
           /\ \A q \in Requests : q # r => req'[q] = req[q]
           /\ req'[r].row = req[r].row /\ req'[r].seen = req[r].seen
           /\ req'[r].pc = IF req[r].row = NoRow THEN "create" ELSE "update"
           /\ req'[r].next = Consumed(req[r].row)
           /\ UNCHANGED <<bucket, now, granted, promise, overlap, raced>>
<1>1. req \in [Requests -> Request] /\ req[r] \in Request /\ req[r].row \in Row
  BY DEF RateInv, TypeOK, Request
<1>2. Consumed(req[r].row) \in Row
  BY <1>1, ConsumedFacts DEF Admit, RateInv, TypeOK, Clock
<1> DEFINE pc == IF req[r].row = NoRow THEN "create" ELSE "update"
           x == [req[r] EXCEPT !.pc = pc, !.next = Consumed(req[r].row)]
<1>3. req' = [req EXCEPT ![r] = x]
  BY DEF Admit
<1>4. pc \in {"create", "update"}
  OBVIOUS
<1> HIDE DEF pc
<1>5. /\ x \in Request /\ x.row = req[r].row /\ x.seen = req[r].seen
      /\ x.pc = pc /\ x.next = Consumed(req[r].row)
  BY <1>1, <1>2, <1>4 DEF Request
<1> HIDE DEF x
<1> QED BY <1>1, <1>3, <1>5 DEF Admit, observed, pc

LEMMA ReqSet ==
    ASSUME req \in [Requests -> Request], NEW r \in Requests, NEW x \in Request,
           req' = [req EXCEPT ![r] = x]
    PROVE  /\ req' \in [Requests -> Request]
           /\ \A q \in Requests : req'[q] = IF q = r THEN x ELSE req[q]
OBVIOUS

(* A computed row never is NoRow.                                          *)
LEMMA ComputedRow ==
    ASSUME RateInv, NEW r \in Requests, req[r].pc \in {"create", "update"}
    PROVE  /\ req[r].next \in Row /\ req[r].next # NoRow
           /\ req[r].next.lastRefill \in 0..now
<1>1. req[r].next \in Row /\ req[r].next.lastRefill <= now /\ now \in 0..MaxTime
  BY DEF RateInv, Computed, TypeOK
<1> QED BY <1>1, RowFacts, RateLimiterAssumption

(* The header's division rounds up past the missing units.                 *)
LEMMA DivRounds ==
    ASSUME NEW m \in Nat, NEW d \in Nat \ {0}
    PROVE  /\ m \div d \in Nat
           /\ ((m \div d) + 1) * d > m
OBVIOUS

LEMMA RetryAfterFacts ==
    ASSUME NEW m \in Nat
    PROVE  RetryAfter(m) \in Nat \ {0} /\ RetryAfter(m) * Rate > m
BY DivRounds, RateLimiterAssumption DEF RetryAfter

(* A refusal knows how many units are missing.                             *)
LEMMA DenyFacts ==
    ASSUME RateInv, NEW r \in Requests, Deny(r)
    PROVE  /\ req[r].row \in Row /\ req[r].row # NoRow
           /\ Level(req[r].row, now) \in Nat
           /\ Cost - Level(req[r].row, now) \in Nat
           /\ promise' = [retryAt |-> now + RetryAfter(Cost - Level(req[r].row, now)),
                          granted |-> req[r].seen]
           /\ promise' \in [retryAt : Nat, granted : Nat]
<1>0. Capacity \in Nat /\ Cost \in Nat /\ Capacity >= Cost /\ now \in Nat
  BY RateLimiterAssumption DEF RateInv, TypeOK
<1>1. req[r].row \in Row /\ NotAhead(req[r].row) /\ req[r].seen \in Nat
  BY DEF RateInv, Clock, TypeOK
<1>2. /\ Level(req[r].row, now) \in 0..Capacity
      /\ req[r].row = NoRow => Level(req[r].row, now) = Capacity
  BY <1>0, <1>1, LevelBounds DEF NotAhead
<1>3. Level(req[r].row, now) < Cost
  BY DEF Deny
<1>4. Cost - Level(req[r].row, now) \in Nat
  BY <1>0, <1>2, <1>3
<1>5. RetryAfter(Cost - Level(req[r].row, now)) \in Nat
  BY <1>4, RetryAfterFacts
<1> QED BY <1>0, <1>1, <1>2, <1>3, <1>4, <1>5 DEF Deny

LEMMA InvSuffices ==
    ASSUME RateInv, req' \in [Requests -> Request], bucket' \in Row, now' \in 0..MaxTime,
           granted' \in Nat, promise' \in [retryAt : Nat, granted : Nat],
           overlap' \in BOOLEAN, raced' \in BOOLEAN, now <= now',
           NotAhead(bucket)',
           \A r \in Requests : \/ req'[r] = req[r]
                               \/ /\ NotAhead(req[r].row)'
                                  /\ req'[r].pc \notin {"create", "update"}
    PROVE  RateInv'
<1>1. TypeOK'
  BY DEF TypeOK, Request
<1>2. ASSUME NEW r \in Requests, req'[r] = req[r] PROVE NotAhead(req[r].row)'
  <2>1. NotAhead(req[r].row) /\ req[r].row \in Row /\ now \in Nat /\ now' \in Nat
    BY RateLimiterAssumption DEF RateInv, Clock, TypeOK
  <2>2. req[r].row.lastRefill \in Nat
    BY <2>1, RowFacts, RateLimiterAssumption
  <2> QED BY <1>2, <2>1, <2>2 DEF NotAhead
<1>3. Clock'
  BY <1>2 DEF Clock
<1>4. ASSUME NEW r \in Requests, req'[r] = req[r], req[r].pc \in {"create", "update"}
      PROVE  req'[r].next.lastRefill <= now'
  <2>1. req[r].next.lastRefill \in 0..now
    BY <1>4, ComputedRow
  <2> QED BY <1>4, <2>1, RateLimiterAssumption DEF RateInv, TypeOK
<1>5. Computed'
  BY <1>4 DEF Computed, RateInv
<1> QED BY <1>1, <1>3, <1>5 DEF RateInv

LEMMA StepRateInv ==
    ASSUME RateInv, [Next]_vars
    PROVE  RateInv'
<1> USE DEF observed
<1>0. /\ req \in [Requests -> Request] /\ bucket \in Row /\ now \in 0..MaxTime /\ now \in Nat
      /\ granted \in Nat /\ promise \in [retryAt : Nat, granted : Nat]
      /\ overlap \in BOOLEAN /\ raced \in BOOLEAN /\ MaxTime \in Nat
      /\ NotAhead(bucket)
  BY RateLimiterAssumption DEF RateInv, TypeOK, Clock, Request
<1>1. CASE UNCHANGED vars
  <2>1. NotAhead(bucket)'
    BY <1>0, <1>1 DEF vars, NotAhead
  <2> QED BY <1>0, <1>1, <2>1, InvSuffices DEF vars
<1>2. CASE Tick
  <2>1. bucket.lastRefill \in Nat
    BY <1>0, RowFacts
  <2>2. NotAhead(bucket)' /\ now' \in 0..MaxTime /\ now <= now'
    BY <1>0, <1>2, <2>1 DEF NotAhead, Tick
  <2> QED BY <1>0, <1>2, <2>2, InvSuffices DEF Tick
<1>3. ASSUME NEW r \in Requests, FindUnique(r) PROVE RateInv'
  <2>1. req' = [req EXCEPT ![r] = Reading] /\ UNCHANGED <<bucket, now, granted, promise, raced>>
    BY <1>3 DEF FindUnique
  <2>2. overlap' \in BOOLEAN
    BY <1>3 DEF FindUnique
  <2>3. NotAhead(bucket)'
    BY <1>0, <2>1 DEF NotAhead
  <2>4. Reading \in Request /\ Reading.row = bucket /\ Reading.pc = "decide"
    BY ReadingType DEF RateInv
  <2>5. /\ req' \in [Requests -> Request]
        /\ \A q \in Requests : req'[q] = IF q = r THEN Reading ELSE req[q]
    BY <1>0, <2>1, <2>4, ReqSet
  <2>6. NotAhead(req[r].row)' /\ req'[r].pc = "decide"
    BY <1>0, <2>1, <2>3, <2>4, <2>5 DEF NotAhead
  <2> QED BY <1>0, <2>1, <2>2, <2>3, <2>5, <2>6, InvSuffices
<1>4. ASSUME NEW r \in Requests, Admit(r) PROVE RateInv'
  <2>1. /\ req' \in [Requests -> Request]
        /\ \A q \in Requests : q # r => req'[q] = req[q]
        /\ req'[r].row = req[r].row
        /\ req'[r].pc = IF req[r].row = NoRow THEN "create" ELSE "update"
        /\ req'[r].next = Consumed(req[r].row)
        /\ UNCHANGED <<bucket, now, granted, promise, overlap, raced>>
    BY <1>4, AdmitEffect
  <2>2. TypeOK'
    BY <1>0, <2>1 DEF TypeOK, Request
  <2>3. Clock'
    BY <2>1 DEF RateInv, Clock, NotAhead
  <2>4. req[r].row \in Row /\ NotAhead(req[r].row) /\ Level(req[r].row, now) >= Cost
    BY <1>4 DEF RateInv, TypeOK, Clock, Admit
  <2>5. /\ Consumed(req[r].row).lastRefill = now
        /\ req[r].row = NoRow => Consumed(req[r].row).units + Cost <= Capacity
        /\ req[r].row # NoRow => /\ req[r].row.lastRefill <= now
                                 /\ Consumed(req[r].row).units + Cost
                                   <= req[r].row.units + (now - req[r].row.lastRefill) * Rate
    BY <1>0, <2>4, ConsumedFacts
  <2>6. Computed'
    BY <1>0, <2>1, <2>5 DEF RateInv, Computed
  <2> QED BY <2>2, <2>3, <2>6 DEF RateInv
<1>5. ASSUME NEW r \in Requests, req' = [req EXCEPT ![r] = Idle], now' = now,
             bucket' \in Row, NotAhead(bucket)', granted' \in Nat, raced' \in BOOLEAN,
             promise' \in [retryAt : Nat, granted : Nat], UNCHANGED overlap
      PROVE  RateInv'
  <2>1. /\ req' \in [Requests -> Request]
        /\ \A q \in Requests : req'[q] = IF q = r THEN Idle ELSE req[q]
    BY <1>0, <1>5, RowFacts, ReqSet
  <2>2. NotAhead(req[r].row)' /\ req'[r].pc = "idle"
    BY <2>1 DEF NotAhead, Idle
  <2> QED BY <1>0, <1>5, <2>1, <2>2, InvSuffices
<1>6. ASSUME NEW r \in Requests, Deny(r) PROVE RateInv'
  <2>1. promise' \in [retryAt : Nat, granted : Nat]
    BY <1>6, DenyFacts
  <2>2. NotAhead(bucket)'
    BY <1>0, <1>6 DEF Deny, NotAhead
  <2> QED BY <1>0, <1>5, <1>6, <2>1, <2>2 DEF Deny
<1>7. ASSUME NEW r \in Requests, CreateRow(r) \/ UpdateRow(r), bucket' = req[r].next,
             req' = [req EXCEPT ![r] = Idle]
      PROVE  RateInv'
  <2>1. req[r].next \in Row /\ req[r].next.lastRefill \in 0..now
    BY <1>7, ComputedRow DEF CreateRow, UpdateRow
  <2>2. NotAhead(bucket)' /\ UNCHANGED <<now, promise, overlap>>
    BY <1>0, <1>7, <2>1 DEF NotAhead, CreateRow, UpdateRow
  <2>3. granted' \in Nat
    BY <1>0, <1>7 DEF CreateRow, UpdateRow
  <2>4. raced' \in BOOLEAN
    BY <1>0, <1>7, Zenon DEF CreateRow, UpdateRow
  <2> QED BY <1>0, <1>5, <1>7, <2>1, <2>2, <2>3, <2>4
<1>8. ASSUME NEW r \in Requests, CreateRow(r) PROVE RateInv'
  <2>1. CASE bucket = NoRow
    BY <1>7, <1>8, <2>1 DEF CreateRow
  <2>2. CASE bucket # NoRow
    <3>1. req' = [req EXCEPT ![r] = Reading]
          /\ UNCHANGED <<bucket, now, granted, promise, overlap, raced>>
      BY <1>8, <2>2 DEF CreateRow
    <3>2. Reading \in Request /\ Reading.row = bucket /\ Reading.pc = "decide"
      BY ReadingType DEF RateInv
    <3>3. /\ req' \in [Requests -> Request]
          /\ \A q \in Requests : req'[q] = IF q = r THEN Reading ELSE req[q]
      BY <1>0, <3>1, <3>2, ReqSet
    <3>4. NotAhead(bucket)' /\ NotAhead(req[r].row)' /\ req'[r].pc = "decide"
      BY <1>0, <3>1, <3>2, <3>3 DEF NotAhead
    <3> QED BY <1>0, <3>1, <3>3, <3>4, InvSuffices
  <2> QED BY <2>1, <2>2
<1>9. ASSUME NEW r \in Requests, UpdateRow(r) PROVE RateInv'
  BY <1>7, <1>9 DEF UpdateRow
<1> QED BY <1>1, <1>2, <1>3, <1>4, <1>6, <1>8, <1>9 DEF Next

LEMMA InitRateInv == Init => RateInv
<1> SUFFICES ASSUME Init PROVE RateInv
  OBVIOUS
<1>1. \A r \in Requests : req[r] = Idle /\ Idle.pc = "idle" /\ Idle.row = NoRow
  BY DEF Init, Idle
<1>2. TypeOK
  <2>1. now \in 0..MaxTime /\ granted \in Nat /\ promise \in [retryAt : Nat, granted : Nat]
    BY RateLimiterAssumption DEF Init
  <2>2. bucket \in Row /\ req \in [Requests -> Request]
    BY RowFacts DEF Init
  <2>3. {overlap, raced} \subseteq BOOLEAN
    BY DEF Init
  <2> QED BY <2>1, <2>2, <2>3 DEF TypeOK, Request
<1>3. Clock /\ Computed
  BY <1>1 DEF Init, Clock, Computed, NotAhead
<1> QED BY <1>2, <1>3 DEF RateInv

\* The limiter's rows, requests and counters keep their types: in particular
\* no row ever holds less than nothing or more than its capacity.
THEOREM RateTypesCorrect == Spec => []TypeOK
<1>1. RateInv => TypeOK
  BY DEF RateInv
<1>2. RateInv /\ [Next]_vars => RateInv'
  BY StepRateInv
<1> QED BY <1>1, <1>2, InitRateInv, PTL DEF Spec

---------------------------------------------------------------------------
(* The rate.                                                               *)

(* Until an update replaces a row it had not read, the row accounts for    *)
(* every grant: what was given and what is left came from the first        *)
(* bucketful and the refills up to the row's own time.                     *)
Spent ==
    /\ bucket = NoRow => granted = 0
    /\ ~raced /\ bucket # NoRow
       => granted * Cost + bucket.units <= Capacity + Rate * bucket.lastRefill

LEMMA GrantFromRow ==
    ASSUME NEW g \in Nat, NEW u \in Nat, NEW lr \in Nat, NEW v \in Nat, NEW t \in Nat,
           g * Cost + u <= Capacity + Rate * lr, v + Cost <= u + (t - lr) * Rate
    PROVE  (g + 1) * Cost + v <= Capacity + Rate * t
<1>0. Cost \in Nat /\ Rate \in Nat /\ Capacity \in Nat
  BY RateLimiterAssumption
<1>1. (g + 1) * Cost = g * Cost + Cost /\ (t - lr) * Rate = Rate * t - Rate * lr
  BY <1>0
<1>2. g * Cost \in Int /\ Rate * t \in Int /\ Rate * lr \in Int /\ (g + 1) * Cost \in Int
  BY <1>0
<1> QED BY <1>0, <1>1, <1>2

LEMMA StepSpent ==
    ASSUME RateInv, Spent, [Next]_vars
    PROVE  Spent'
<1> USE DEF observed
<1>0. /\ Cost \in Nat /\ Rate \in Nat /\ Capacity \in Nat /\ granted \in Nat
      /\ bucket \in Row /\ MaxTime \in Nat /\ raced \in BOOLEAN
  BY RateLimiterAssumption DEF RateInv, TypeOK
<1>1. CASE UNCHANGED <<bucket, granted, raced>>
  BY <1>1 DEF Spent
<1>2. ASSUME NEW r \in Requests, CreateRow(r), bucket = NoRow PROVE Spent'
  <2> DEFINE n == req[r].next
  <2>1. /\ n \in Row /\ n # NoRow /\ n.units \in Nat /\ n.lastRefill \in Nat
    BY <1>0, <1>2, ComputedRow, RowFacts DEF CreateRow
  <2>2. bucket' = n /\ granted' = granted + 1 /\ granted = 0
    BY <1>2 DEF CreateRow, Spent
  <2>3. n.units + Cost <= Capacity
    BY <1>2 DEF CreateRow, RateInv, Computed
  <2>4. granted' = 1 /\ granted' * Cost = Cost
    BY <1>0, <2>2
  <2> HIDE DEF n
  <2>5. granted' * Cost + n.units <= Capacity + Rate * n.lastRefill
    BY <1>0, <2>1, <2>3, <2>4
  <2> QED BY <2>1, <2>2, <2>5 DEF Spent
<1>3. ASSUME NEW r \in Requests, UpdateRow(r) PROVE Spent'
  <2> DEFINE n == req[r].next
  <2>1. /\ n \in Row /\ n # NoRow /\ n.units \in Nat /\ n.lastRefill \in Nat
    BY <1>0, <1>3, ComputedRow, RowFacts DEF UpdateRow
  <2>2. bucket' = n /\ granted' = granted + 1
    BY <1>3 DEF UpdateRow
  <2>3. CASE ~raced'
    <3>1. ~raced /\ bucket = req[r].row
      BY <1>3, <2>3 DEF UpdateRow
    <3>2. bucket # NoRow /\ n.units + Cost <= bucket.units + (n.lastRefill - bucket.lastRefill) * Rate
      BY <1>3, <3>1 DEF UpdateRow, RateInv, Computed
    <3>3. granted * Cost + bucket.units <= Capacity + Rate * bucket.lastRefill
      BY <3>1, <3>2 DEF Spent
    <3>4. bucket.units \in Nat /\ bucket.lastRefill \in Nat
      BY <1>0, RowFacts
    <3> HIDE DEF n
    <3>5. (granted + 1) * Cost + n.units <= Capacity + Rate * n.lastRefill
      BY <1>0, <2>1, <3>2, <3>3, <3>4, GrantFromRow
    <3> QED BY <2>1, <2>2, <3>5 DEF Spent
  <2>4. CASE raced'
    BY <2>1, <2>2, <2>4 DEF Spent
  <2> QED BY <2>3, <2>4
<1>4. ASSUME NEW r \in Requests, CreateRow(r), bucket # NoRow PROVE Spent'
  BY <1>1, <1>4 DEF CreateRow
<1> QED BY <1>1, <1>2, <1>3, <1>4 DEF Next, Tick, FindUnique, Admit, Deny, vars

LEMMA InitSpent == Init => Spent
BY DEF Init, Spent

\* Within the rate: first requests that race to create the row, requests that
\* read at one time and write at another, and refusals that write nothing never
\* let through more than the bucket held and was refilled with, as long as no
\* update replaces a row it had not read.
THEOREM RateIsKept == Spec => []WithinRate
<1>1. RateInv /\ Spent => WithinRate
  <2> SUFFICES ASSUME RateInv, Spent, ~raced
               PROVE  granted * Cost <= Capacity + Rate * now
    BY DEF WithinRate
  <2>0. Cost \in Nat /\ Rate \in Nat /\ Capacity \in Nat /\ granted \in Nat /\ now \in Nat
    BY RateLimiterAssumption DEF RateInv, TypeOK
  <2>1. CASE bucket = NoRow
    <3>1. granted * Cost = 0 /\ Rate * now \in Nat
      BY <2>0, <2>1 DEF Spent
    <3> QED BY <2>0, <3>1
  <2>2. CASE bucket # NoRow
    <3>1. /\ granted * Cost + bucket.units <= Capacity + Rate * bucket.lastRefill
          /\ bucket.lastRefill <= now
      BY <2>2 DEF Spent, RateInv, Clock, NotAhead
    <3>2. bucket.units \in Nat /\ bucket.lastRefill \in Nat
      BY RowFacts, RateLimiterAssumption DEF RateInv, TypeOK
    <3>3. Rate * bucket.lastRefill <= Rate * now
      BY <2>0, <3>1, <3>2, MulMono
    <3>4. granted * Cost \in Int /\ Rate * bucket.lastRefill \in Int /\ Rate * now \in Int
      BY <2>0, <3>2
    <3> QED BY <2>0, <3>1, <3>2, <3>3, <3>4
  <2> QED BY <2>1, <2>2
<1>2. RateInv /\ [Next]_vars => RateInv'
  BY StepRateInv
<1>3. RateInv /\ Spent /\ [Next]_vars => Spent'
  BY StepSpent
<1> QED BY <1>1, <1>2, <1>3, InitRateInv, InitSpent, PTL DEF Spec

---------------------------------------------------------------------------
(* Retry-After.                                                            *)

(* Requests that know of the same grants have read the same row.           *)
Reads ==
    /\ \A r \in Requests : req[r].pc = "decide" =>
         req[r].seen <= granted /\ (req[r].seen = granted => req[r].row = bucket)
    /\ \A q, r \in Requests :
         req[q].pc = "decide" /\ req[r].pc = "decide" /\ req[q].seen = req[r].seen
         => req[q].row = req[r].row

RefilledBy(row, t) == \A u \in t..MaxTime : Level(row, u) >= Cost

(* The row behind the last refusal holds a token by the time it named.     *)
PromiseKept ==
    /\ promise.granted <= granted
    /\ promise.granted = granted => RefilledBy(bucket, promise.retryAt)
    /\ \A r \in Requests : req[r].pc = "decide" /\ req[r].seen = promise.granted
                           => RefilledBy(req[r].row, promise.retryAt)

LEMMA RefusalRefills ==
    ASSUME RateInv, NEW r \in Requests, Deny(r)
    PROVE  RefilledBy(req[r].row, promise'.retryAt)
<1> DEFINE row == req[r].row
           L == Level(row, now)
           k == RetryAfter(Cost - L)
<1>0. /\ Cost \in Nat /\ Rate \in Nat /\ Capacity \in Nat /\ now \in Nat /\ MaxTime \in Nat
      /\ Capacity >= Cost
  BY RateLimiterAssumption DEF RateInv, TypeOK
<1>1. /\ row \in Row /\ row # NoRow /\ L \in Nat /\ L < Cost /\ Cost - L \in Nat
      /\ promise'.retryAt = now + k
  BY DenyFacts DEF Deny
<1>2. k \in Nat /\ k * Rate > Cost - L
  BY <1>1, RetryAfterFacts
<1>3. row.lastRefill <= now /\ row.units \in Nat /\ row.lastRefill \in Nat
  BY <1>0, <1>1, RowFacts DEF RateInv, Clock, NotAhead
<1>4. L = row.units + (now - row.lastRefill) * Rate
  BY <1>0, <1>1, <1>3, LevelBounds
<1> HIDE DEF row, L, k
<1>5. ASSUME NEW u \in (now + k)..MaxTime
      PROVE  Level(row, u) >= Cost
  <2>1. u \in Nat /\ u - now \in Nat /\ k <= u - now /\ row.lastRefill <= u
    BY <1>0, <1>2, <1>3
  <2>2. k * Rate <= (u - now) * Rate
    BY <1>0, <1>2, <2>1, MulMono
  <2>3. (u - row.lastRefill) * Rate = (u - now) * Rate + (now - row.lastRefill) * Rate
    BY <1>0, <1>3, <2>1
  <2>4. /\ k * Rate \in Int /\ (u - now) * Rate \in Int
        /\ (now - row.lastRefill) * Rate \in Int /\ (u - row.lastRefill) * Rate \in Int
    BY <1>0, <1>2, <1>3, <2>1
  <2>5. row.units + (u - row.lastRefill) * Rate >= Cost
    BY <1>0, <1>1, <1>2, <1>3, <1>4, <2>2, <2>3, <2>4
  <2>6. Level(row, u) = Capacity \/ Level(row, u) = row.units + (u - row.lastRefill) * Rate
    BY <1>1, <2>1, LevelBounds
  <2> QED BY <1>0, <2>5, <2>6
<1> QED BY <1>1, <1>5 DEF RefilledBy, row

(* Every step reads the row, or grants, or leaves both row and grants.     *)
Looks(q) == req'[q].pc = "decide" /\ req'[q].row = bucket /\ req'[q].seen = granted
Moves(q) == req'[q] = req[q] \/ req'[q].pc # "decide"

LEMMA StepKinds ==
    ASSUME RateInv, [Next]_vars
    PROVE  \/ /\ UNCHANGED <<bucket, granted, promise>>
              /\ \A q \in Requests : Looks(q) \/ Moves(q)
           \/ /\ UNCHANGED <<bucket, granted>>
              /\ \E r \in Requests : Deny(r)
              /\ \A q \in Requests : Moves(q)
           \/ /\ granted' = granted + 1 /\ UNCHANGED promise
              /\ \A q \in Requests : Moves(q)
<1> USE DEF observed
<1>0. req \in [Requests -> Request]
  BY DEF RateInv, TypeOK, Request
<1>1. ASSUME NEW r \in Requests, req' = [req EXCEPT ![r] = Idle]
      PROVE  \A q \in Requests : Moves(q)
  BY <1>0, <1>1, RowFacts, ReqSet DEF Moves, Idle
<1>2. ASSUME NEW r \in Requests, req' = [req EXCEPT ![r] = Reading]
      PROVE  \A q \in Requests : Looks(q) \/ Moves(q)
  BY <1>0, <1>2, ReadingType, ReqSet DEF Moves, Looks, RateInv
<1>3. CASE UNCHANGED vars
  BY <1>3 DEF vars, Moves
<1>4. CASE Tick
  BY <1>4 DEF Tick, Moves
<1>5. ASSUME NEW r \in Requests, FindUnique(r)
      PROVE  /\ UNCHANGED <<bucket, granted, promise>>
             /\ \A q \in Requests : Looks(q) \/ Moves(q)
  BY <1>2, <1>5 DEF FindUnique
<1>6. ASSUME NEW r \in Requests, Admit(r)
      PROVE  /\ UNCHANGED <<bucket, granted, promise>>
             /\ \A q \in Requests : Moves(q)
  BY <1>6, AdmitEffect DEF Moves
<1>7. ASSUME NEW r \in Requests, Deny(r)
      PROVE  UNCHANGED <<bucket, granted>> /\ \A q \in Requests : Moves(q)
  BY <1>1, <1>7 DEF Deny
<1>8. ASSUME NEW r \in Requests, CreateRow(r), bucket = NoRow
      PROVE  granted' = granted + 1 /\ UNCHANGED promise /\ \A q \in Requests : Moves(q)
  BY <1>1, <1>8 DEF CreateRow
<1>9. ASSUME NEW r \in Requests, CreateRow(r), bucket # NoRow
      PROVE  /\ UNCHANGED <<bucket, granted, promise>>
             /\ \A q \in Requests : Looks(q) \/ Moves(q)
  BY <1>2, <1>9 DEF CreateRow
<1>10. ASSUME NEW r \in Requests, UpdateRow(r)
       PROVE  granted' = granted + 1 /\ UNCHANGED promise /\ \A q \in Requests : Moves(q)
  BY <1>1, <1>10 DEF UpdateRow
<1> QED BY <1>3, <1>4, <1>5, <1>6, <1>7, <1>8, <1>9, <1>10 DEF Next

LEMMA StepReads ==
    ASSUME RateInv, Reads, [Next]_vars
    PROVE  Reads'
<1>0. granted \in Nat /\ \A r \in Requests : req[r].seen \in Nat
  BY DEF RateInv, TypeOK
<1>1. CASE UNCHANGED <<bucket, granted>> /\ \A q \in Requests : Looks(q) \/ Moves(q)
  BY <1>0, <1>1 DEF Reads, Looks, Moves
<1>2. CASE granted' = granted + 1 /\ \A q \in Requests : Moves(q)
  BY <1>0, <1>2 DEF Reads, Moves
<1> QED BY <1>1, <1>2, StepKinds

LEMMA StepPromise ==
    ASSUME RateInv, Reads, PromiseKept, [Next]_vars
    PROVE  PromiseKept'
<1>0. /\ granted \in Nat /\ promise.granted \in Nat
      /\ \A r \in Requests : req[r].seen \in Nat
  BY DEF RateInv, TypeOK
<1>1. CASE UNCHANGED <<bucket, granted, promise>> /\ \A q \in Requests : Looks(q) \/ Moves(q)
  BY <1>0, <1>1 DEF PromiseKept, Looks, Moves, RefilledBy, Level
<1>2. CASE granted' = granted + 1 /\ UNCHANGED promise /\ \A q \in Requests : Moves(q)
  BY <1>0, <1>2 DEF PromiseKept, Moves, RefilledBy, Level
<1>3. ASSUME NEW r \in Requests, Deny(r), UNCHANGED <<bucket, granted>>,
             \A q \in Requests : Moves(q)
      PROVE  PromiseKept'
  <2>1. promise'.granted = req[r].seen /\ req[r].pc = "decide"
    BY <1>3, DenyFacts DEF Deny
  <2>2. RefilledBy(req[r].row, promise'.retryAt)
    BY <1>3, RefusalRefills
  <2>3. promise'.granted <= granted'
    BY <1>3, <2>1 DEF Reads
  <2>4. promise'.granted = granted' => RefilledBy(bucket, promise.retryAt)'
    BY <1>3, <2>1, <2>2 DEF Reads, RefilledBy, Level
  <2>5. ASSUME NEW q \in Requests, req'[q].pc = "decide", req'[q].seen = promise'.granted
        PROVE  RefilledBy(req[q].row, promise.retryAt)'
    <3>1. req'[q] = req[q] /\ req[q].row = req[r].row
      BY <1>3, <2>1, <2>5 DEF Moves, Reads
    <3> QED BY <2>2, <3>1 DEF RefilledBy, Level
  <2> QED BY <2>3, <2>4, <2>5 DEF PromiseKept
<1> QED BY <1>1, <1>2, <1>3, StepKinds

LEMMA InitPromise == Init => Reads /\ PromiseKept
<1> SUFFICES ASSUME Init PROVE Reads /\ PromiseKept
  OBVIOUS
<1>1. \A r \in Requests : req[r].pc = "idle"
  BY DEF Init, Idle
<1>2. promise.granted = 0 /\ granted = 0 /\ promise.retryAt = MaxTime + 1
  BY DEF Init
<1>3. RefilledBy(bucket, promise.retryAt)
  BY <1>2, RateLimiterAssumption DEF RefilledBy
<1> QED BY <1>1, <1>2, <1>3 DEF Reads, PromiseKept

\* Retry-After is enough, for every capacity, rate and number of overlapping
\* requests: the rounding of the header never sends a client back too early.
THEOREM RetryAfterSuffices == Spec => RetryAfterIsEnough
<1>1. RateInv /\ PromiseKept /\ [Next]_vars
      => [\A r \in Requests :
            Deny(r) /\ now >= promise.retryAt => req[r].seen # promise.granted]_vars
  <2> SUFFICES ASSUME RateInv, PromiseKept, NEW r \in Requests, Deny(r), now >= promise.retryAt,
                      req[r].seen = promise.granted
               PROVE  FALSE
    OBVIOUS
  <2>1. now \in promise.retryAt..MaxTime
    BY RateLimiterAssumption DEF RateInv, TypeOK
  <2>2. Level(req[r].row, now) >= Cost
    BY <2>1 DEF PromiseKept, RefilledBy, Deny
  <2>3. Level(req[r].row, now) \in Nat /\ Level(req[r].row, now) < Cost
    BY DenyFacts DEF Deny
  <2> QED BY <2>2, <2>3, RateLimiterAssumption
<1>2. RateInv /\ [Next]_vars => RateInv'
  BY StepRateInv
<1>3. RateInv /\ Reads /\ [Next]_vars => Reads'
  BY StepReads
<1>4. RateInv /\ Reads /\ PromiseKept /\ [Next]_vars => PromiseKept'
  BY StepPromise
<1> QED BY <1>1, <1>2, <1>3, <1>4, InitRateInv, InitPromise, PTL DEF Spec, RetryAfterIsEnough

---------------------------------------------------------------------------
(* The token bucket of rate_limit.py.                                      *)

(* Until two requests overlap, the one in progress is alone and the row is *)
(* still the one it read.                                                  *)
Alone ==
    ~overlap => \A r \in Requests : req[r].pc # "idle" =>
                  /\ req[r].row = bucket
                  /\ \A q \in Requests : q # r => req[q].pc = "idle"

(* Who moves, in a step that is no clock tick.                             *)
LEMMA StepAlone ==
    ASSUME RateInv, Alone, [Next]_vars
    PROVE  Alone' /\ (overlap => overlap')
<1> USE DEF observed
<1>0. req \in [Requests -> Request] /\ overlap \in BOOLEAN
  BY DEF RateInv, TypeOK, Request
<1>1. CASE UNCHANGED <<req, bucket, overlap>>
  BY <1>1 DEF Alone
<1>2. ASSUME NEW r \in Requests, req' = [req EXCEPT ![r] = Idle], UNCHANGED overlap,
             req[r].pc # "idle"
      PROVE  Alone'
  <2>1. \A q \in Requests : req'[q] = IF q = r THEN Idle ELSE req[q]
    BY <1>0, <1>2, RowFacts, ReqSet
  <2> QED BY <1>2, <2>1 DEF Alone, Idle
<1>3. ASSUME NEW r \in Requests, req' = [req EXCEPT ![r] = Reading], UNCHANGED bucket,
             ~overlap' => \A q \in Requests : q # r => req[q].pc = "idle"
      PROVE  Alone'
  <2>1. \A q \in Requests : req'[q] = IF q = r THEN Reading ELSE req[q]
    BY <1>0, <1>3, ReadingType, ReqSet DEF RateInv
  <2>2. Reading.row = bucket
    BY ReadingType DEF RateInv
  <2> QED BY <1>3, <2>1, <2>2 DEF Alone
<1>4. ASSUME NEW r \in Requests, FindUnique(r) PROVE Alone' /\ (overlap => overlap')
  BY <1>3, <1>4 DEF FindUnique
<1>5. ASSUME NEW r \in Requests, Admit(r) PROVE Alone' /\ (overlap => overlap')
  BY <1>5, AdmitEffect DEF Alone, Admit
<1>6. ASSUME NEW r \in Requests, Deny(r) PROVE Alone' /\ (overlap => overlap')
  BY <1>2, <1>6 DEF Deny
<1>7. ASSUME NEW r \in Requests, CreateRow(r) PROVE Alone' /\ (overlap => overlap')
  <2>1. ~overlap => \A q \in Requests : q # r => req[q].pc = "idle"
    BY <1>7 DEF Alone, CreateRow
  <2> QED BY <1>2, <1>3, <1>7, <2>1 DEF CreateRow
<1>8. ASSUME NEW r \in Requests, UpdateRow(r) PROVE Alone' /\ (overlap => overlap')
  BY <1>2, <1>8 DEF UpdateRow
<1> QED BY <1>1, <1>4, <1>5, <1>6, <1>7, <1>8 DEF Next, Tick, vars

(* The row the abstract bucket stands for, by who is deciding.             *)
LEMMA NobodyDecides ==
    ASSUME Deciding = {}
    PROVE  Latest = bucket /\ Cardinality(Deciding) = 0
BY FS_EmptySet DEF Latest

LEMMA OneDecides ==
    ASSUME NEW r, Deciding = {r}
    PROVE  Latest = req[r].next /\ Cardinality(Deciding) = 1
<1>1. (CHOOSE x \in Deciding : TRUE) = r /\ Deciding # {}
  OBVIOUS
<1> QED BY <1>1, FS_Singleton DEF Latest

LEMMA LatestIsARow ==
    ASSUME RateInv
    PROVE  Latest \in Row /\ NotAhead(Latest)
<1>1. CASE Deciding = {}
  BY <1>1, NobodyDecides DEF RateInv, TypeOK, Clock
<1>2. CASE Deciding # {}
  <2>1. PICK r \in Deciding : Latest = req[r].next
    BY <1>2 DEF Latest
  <2>2. r \in Requests /\ req[r].pc \in {"create", "update"}
    BY DEF Deciding
  <2>3. req[r].next \in Row /\ req[r].next.lastRefill \in 0..now
    BY <2>2, ComputedRow
  <2>4. now \in Nat
    BY RateLimiterAssumption DEF RateInv, TypeOK
  <2> QED BY <2>1, <2>3, <2>4 DEF NotAhead
<1> QED BY <1>1, <1>2

(* Refilling second by second or all at once comes to the same.            *)
LEMMA RefillsAddUp ==
    ASSUME NEW row \in Row, NEW t \in Nat, row = NoRow \/ row.lastRefill <= t
    PROVE  Level(row, t + 1) = Bucket!Refilled(Level(row, t), 1)
<1>0. Capacity \in Nat /\ Rate \in Nat /\ MaxTime \in Nat
  BY RateLimiterAssumption
<1>1. Level(row, t) \in 0..Capacity
  BY LevelBounds
<1>2. Bucket!Refilled(Level(row, t), 1)
      = IF Capacity <= Level(row, t) + Rate THEN Capacity ELSE Level(row, t) + Rate
  <2>1. Level(row, t) + 1 * Rate = Level(row, t) + Rate /\ Level(row, t) + Rate \in Int
    BY <1>0, <1>1
  <2>2. Bucket!Refilled(Level(row, t), 1) = Refilled(Level(row, t), 1)
    BY DEF Bucket!Refilled, Bucket!Min, Refilled, Min
  <2>3. Level(row, t) \in Int
    BY <1>0, <1>1
  <2> QED BY <2>1, <2>2, <2>3, RefilledValue
<1>3. CASE row = NoRow
  BY <1>0, <1>2, <1>3 DEF Level
<1>4. CASE row # NoRow
  <2> DEFINE e == t - row.lastRefill
  <2>1. row.units \in 0..Capacity /\ e \in Nat /\ row.units \in Int /\ row.lastRefill \in Nat
    BY <1>0, <1>4, RowFacts
  <2>2. Level(row, t) = Refilled(row.units, e)
    BY <1>4 DEF Level
  <2>3. Level(row, t + 1) = Refilled(row.units, e + 1)
    <3>1. (t + 1) - row.lastRefill = e + 1
      BY <2>1
    <3>2. Level(row, t + 1) = Refilled(row.units, (t + 1) - row.lastRefill)
      BY <1>4 DEF Level
    <3> HIDE DEF e
    <3> QED BY <3>1, <3>2
  <2> HIDE DEF e
  <2>4. (e + 1) * Rate = e * Rate + Rate /\ e * Rate \in Nat
    BY <1>0, <2>1
  <2>5. Level(row, t) = IF Capacity <= row.units + e * Rate THEN Capacity
                        ELSE row.units + e * Rate
    BY <2>1, <2>2, RefilledValue
  <2>6. Level(row, t + 1) = IF Capacity <= row.units + (e + 1) * Rate THEN Capacity
                            ELSE row.units + (e + 1) * Rate
    BY <2>1, <2>3, RefilledValue
  <2> QED BY <1>0, <1>2, <2>1, <2>4, <2>5, <2>6
<1> QED BY <1>3, <1>4

BucketStep == [overlap' \/ Bucket!Next]_(Bucket!bucketVars)

LEMMA TickRefines ==
    ASSUME RateInv, Tick
    PROVE  BucketStep
<1>1. UNCHANGED <<bucket, req, granted>> /\ now' = now + 1
  BY DEF Tick, observed
<1>2. Deciding' = Deciding /\ Latest' = Latest
  BY <1>1 DEF Deciding, Latest
<1>3. Level(Latest, now + 1) = Bucket!Refilled(Level(Latest, now), 1)
  BY LatestIsARow, RefillsAddUp, RateLimiterAssumption DEF RateInv, TypeOK, NotAhead
<1>4. Level(Latest, now)' = Level(Latest, now + 1)
  BY <1>1, <1>2 DEF Level
<1>5. (granted + Cardinality(Deciding))' = granted + Cardinality(Deciding)
  BY <1>1, <1>2
<1> QED BY <1>1, <1>3, <1>4, <1>5 DEF BucketStep, Bucket!Next, Bucket!Tick

LEMMA BucketStays ==
    ASSUME now' = now, Latest' = Latest,
           granted' + Cardinality(Deciding)' = granted + Cardinality(Deciding)
    PROVE  BucketStep
<1>1. Level(Latest, now)' = Level(Latest, now)
  BY DEF Level
<1> QED BY <1>1 DEF BucketStep, Bucket!bucketVars

LEMMA StepRefines ==
    ASSUME RateInv, Alone, [Next]_vars
    PROVE  BucketStep
<1> USE DEF observed
<1>0. /\ req \in [Requests -> Request] /\ granted \in Nat /\ now \in 0..MaxTime
      /\ MaxTime \in Nat /\ now \in Nat
  BY RateLimiterAssumption DEF RateInv, TypeOK, Request
<1>1. CASE overlap'
  BY <1>1 DEF BucketStep
<1>2. CASE UNCHANGED vars
  <2>1. Deciding' = Deciding /\ Latest' = Latest
    BY <1>2 DEF vars, Deciding, Latest
  <2> QED BY <1>2, <2>1, BucketStays DEF vars
<1>3. CASE Tick
  BY <1>3, TickRefines
<1>4. ASSUME NEW r \in Requests, FindUnique(r), ~overlap' PROVE BucketStep
  <2>1. \A q \in Requests : req[q].pc = "idle"
    BY <1>4 DEF FindUnique
  <2>2. \A q \in Requests : req'[q].pc \in {"idle", "decide"}
    BY <1>0, <1>4, <2>1, ReadingType, ReqSet DEF FindUnique, RateInv
  <2>3. Deciding = {} /\ Deciding' = {}
    BY <2>1, <2>2 DEF Deciding
  <2>4. Latest = bucket /\ Latest' = bucket' /\ Cardinality(Deciding) = 0 /\ Cardinality(Deciding)' = 0
    BY <2>3, FS_EmptySet DEF Latest
  <2> QED BY <1>4, <2>4, BucketStays DEF FindUnique
<1>5. ASSUME NEW r \in Requests, ~overlap, req[r].pc # "idle"
      PROVE  /\ req[r].row = bucket
             /\ \A q \in Requests : q # r => req[q].pc = "idle"
             /\ req[r].pc = "decide" => Deciding = {}
             /\ req[r].pc # "decide" => Deciding = {r}
  <2>1. \A q \in Requests : q # r => req[q].pc = "idle"
    BY <1>5 DEF Alone
  <2>2. req[r].pc \in {"decide", "create", "update"}
    BY <1>0, <1>5 DEF Request
  <2> QED BY <1>5, <2>1, <2>2 DEF Alone, Deciding
<1>6. ASSUME NEW r \in Requests, Admit(r), ~overlap' PROVE BucketStep
  <2>1. ~overlap /\ req[r].pc = "decide" /\ Level(req[r].row, now) >= Cost
    BY <1>6, AdmitEffect DEF Admit
  <2>2. Deciding = {} /\ req[r].row = bucket /\ \A q \in Requests : q # r => req[q].pc = "idle"
    BY <1>5, <2>1
  <2>3. Latest = bucket /\ Cardinality(Deciding) = 0
    BY <2>2, NobodyDecides
  <2>4. /\ \A q \in Requests : q # r => req'[q].pc = "idle"
        /\ req'[r].pc \in {"create", "update"} /\ req'[r].next = Consumed(bucket)
        /\ UNCHANGED <<bucket, now, granted>>
    BY <1>6, <2>2, AdmitEffect
  <2>5. Deciding' = {r}
    BY <2>4 DEF Deciding
  <2>6. Latest' = Consumed(bucket) /\ Cardinality(Deciding)' = 1
    <3>1. (CHOOSE x \in Deciding' : TRUE) = r /\ Deciding' # {}
      BY <2>5
    <3> QED BY <2>4, <2>5, <3>1, FS_Singleton DEF Latest
  <2>7. /\ Consumed(bucket) \in Row /\ Consumed(bucket).lastRefill = now
        /\ Consumed(bucket).units = Level(bucket, now) - Cost
    BY <1>0, <2>1, <2>2, ConsumedFacts DEF RateInv, TypeOK, Clock
  <2>8. Level(Consumed(bucket), now) = Level(bucket, now) - Cost
    BY <1>0, <2>7, RowFacts, LevelBounds
  <2>9. Level(Latest, now)' = Level(bucket, now) - Cost
    BY <2>4, <2>6, <2>8 DEF Level
  <2>10. (granted + Cardinality(Deciding))' = granted + Cardinality(Deciding) + 1
    BY <1>0, <2>3, <2>4, <2>6
  <2> QED BY <2>1, <2>2, <2>3, <2>4, <2>9, <2>10 DEF BucketStep, Bucket!Next, Bucket!TryConsume
<1>7. ASSUME NEW r \in Requests, ~overlap, req[r].pc # "idle", req' = [req EXCEPT ![r] = Idle]
      PROVE  Latest' = bucket' /\ Cardinality(Deciding)' = 0
  <2>1. \A q \in Requests : req'[q].pc = "idle"
    BY <1>0, <1>5, <1>7, RowFacts, ReqSet DEF Idle
  <2>2. Deciding' = {}
    BY <2>1 DEF Deciding
  <2> QED BY <2>2, FS_EmptySet DEF Latest
<1>8. ASSUME NEW r \in Requests, Deny(r), ~overlap' PROVE BucketStep
  <2>1. ~overlap /\ req[r].pc = "decide" /\ req' = [req EXCEPT ![r] = Idle]
        /\ UNCHANGED <<bucket, now, granted>>
    BY <1>8 DEF Deny
  <2>2. Latest = bucket /\ Cardinality(Deciding) = 0
    BY <1>5, <2>1, NobodyDecides
  <2>3. Latest' = bucket' /\ Cardinality(Deciding)' = 0
    BY <1>7, <2>1
  <2> QED BY <2>1, <2>2, <2>3, BucketStays
<1>9. ASSUME NEW r \in Requests, CreateRow(r) \/ UpdateRow(r), ~overlap' PROVE BucketStep
  <2>1. ~overlap /\ req[r].pc \in {"create", "update"} /\ UNCHANGED now
    BY <1>9 DEF CreateRow, UpdateRow
  <2>2. Deciding = {r} /\ req[r].row = bucket
    BY <1>5, <2>1
  <2>3. Latest = req[r].next /\ Cardinality(Deciding) = 1
    BY <2>2, OneDecides
  <2>4. req[r].pc = "create" => bucket = NoRow
    BY <2>1, <2>2 DEF RateInv, Computed
  <2>5. bucket' = req[r].next /\ req' = [req EXCEPT ![r] = Idle] /\ granted' = granted + 1
    BY <1>9, <2>4 DEF CreateRow, UpdateRow
  <2>6. Latest' = bucket' /\ Cardinality(Deciding)' = 0
    BY <1>7, <2>1, <2>5
  <2> QED BY <1>0, <2>1, <2>3, <2>5, <2>6, BucketStays
<1> QED BY <1>1, <1>2, <1>3, <1>4, <1>6, <1>8, <1>9 DEF Next

\* The refinement: as long as no two requests overlap, the three statements of
\* check() are one atomic try_consume of the token bucket, and a clock tick is
\* its refill, although the code refills only when it reads.
THEOREM LimiterImplementsBucket == Spec => ImplementsTokenBucket
<1>1. Init => Alone /\ Bucket!Init
  <2> SUFFICES ASSUME Init PROVE Alone /\ Bucket!Init
    OBVIOUS
  <2>1. \A r \in Requests : req[r].pc = "idle"
    BY DEF Init, Idle
  <2>2. Latest = NoRow /\ Cardinality(Deciding) = 0
    <3>1. Deciding = {}
      BY <2>1 DEF Deciding
    <3> QED BY <3>1, NobodyDecides DEF Init
  <2>3. Level(Latest, now) = Capacity /\ granted + Cardinality(Deciding) = 0 /\ now = 0
    BY <2>2 DEF Level, Init
  <2> QED BY <2>1, <2>3 DEF Alone, Bucket!Init
<1>2. RateInv /\ [Next]_vars => RateInv'
  BY StepRateInv
<1>3. RateInv /\ Alone /\ [Next]_vars => Alone'
  BY StepAlone
<1>4. RateInv /\ Alone /\ [Next]_vars => [overlap' \/ Bucket!Next]_(Bucket!bucketVars)
  BY StepRefines DEF BucketStep
<1> QED BY <1>1, <1>2, <1>3, <1>4, InitRateInv, PTL DEF Spec, ImplementsTokenBucket
===========================================================================
