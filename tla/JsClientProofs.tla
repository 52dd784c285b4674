---------------------------- MODULE JsClientProofs ----------------------------
(***************************************************************************)
(* What JsClient promises of writes, for any number of calls, any options  *)
(* and any gateway faults, and what JsBatch promises of upsertBatch, for   *)
(* any points, batch sizes, byte limits and concurrency.                   *)
(*                                                                         *)
(* Sums, Cuts and FlattenSeq are recursive functions.  Induction gives     *)
(* them their defining equations and shows how they grow with one element. *)
(***************************************************************************)
EXTENDS JsBatch, FiniteSetTheorems, WellFoundedInduction, TLAPS

----------------------------------------------------------------------------
(* Induction over the naturals, without an operator for a parameter.       *)

\* Every non-empty set of naturals has a least element.
LEMMA NatLeast ==
    ASSUME NEW T, T \subseteq Nat, T # {}
    PROVE  \E m \in T : \A k \in T : m <= k
<1> DEFINE R == {p \in Nat \X Nat : p[1] < p[2]}
<1>1. IsWellFoundedOn(R, Nat)
  BY NatLessThanWellFounded DEF OpToRel
<1>2. \A k, m \in Nat : k < m => <<k, m>> \in R
  OBVIOUS
<1> HIDE DEF R
<1>3. \E m \in T : \A k \in T : ~ (<<k, m>> \in R)
  BY <1>1, WFMin, Zenon
<1>4. PICK m \in T : \A k \in T : ~ (<<k, m>> \in R)
  BY <1>3
<1>5. ASSUME NEW k \in T PROVE m <= k
  <2>1. k \in Nat /\ m \in Nat /\ ~ (<<k, m>> \in R)
    BY <1>4
  <2>2. k < m => <<k, m>> \in R
    BY <1>2, <2>1, Zenon
  <2> QED BY <2>1, <2>2
<1> QED BY <1>5

\* A set with 0 and all successors has every natural.
LEMMA NatSteps ==
    ASSUME NEW S, 0 \in S, \A n \in Nat : n \in S => n + 1 \in S
    PROVE  Nat \subseteq S
<1>1. SUFFICES ASSUME Nat \ S # {} PROVE FALSE
  OBVIOUS
<1>2. PICK m \in Nat \ S : \A k \in Nat \ S : m <= k
  BY <1>1, NatLeast
<1>3. m # 0 /\ m - 1 \in Nat /\ m - 1 \in S
  BY <1>2
<1> QED BY <1>2, <1>3

\* The first N values that g gives from a, one after the other.
Iterates(f, N, T, a, g) ==
    f \in [0..N -> T] /\ f[0] = a /\ \A n \in 1..N : f[n] = g[n][f[n - 1]]

\* They exist: what a recursive function over 0..N needs to have its defining equation.
LEMMA IterationExists ==
    ASSUME NEW N \in Nat, NEW T, NEW a \in T, NEW g \in [1..N -> [T -> T]]
    PROVE  \E f : Iterates(f, N, T, a, g)
<1> DEFINE Good(n) == \E f : Iterates(f, n, T, a, g)
           S == {n \in Nat : n <= N => Good(n)}
<1>1. 0 \in S
  <2>1. [k \in 0..0 |-> a] \in [0..0 -> T]
    OBVIOUS
  <2>2. [k \in 0..0 |-> a][0] = a /\ 1..0 = {}
    OBVIOUS
  <2>3. Good(0)
    BY <2>1, <2>2, Zenon DEF Iterates
  <2> QED
    BY <2>3
<1>2. ASSUME NEW n \in Nat, n \in S PROVE n + 1 \in S
  <2>1. CASE n + 1 > N
    BY <2>1
  <2>2. CASE n + 1 <= N
    <3>1. PICK f : Iterates(f, n, T, a, g)
      BY <1>2, <2>2
    <3>0. f \in [0..n -> T] /\ f[0] = a /\ \A k \in 1..n : f[k] = g[k][f[k - 1]]
      BY <3>1 DEF Iterates
    <3> DEFINE h == [k \in 0..(n + 1) |-> IF k <= n THEN f[k] ELSE g[n + 1][f[n]]]
    <3>2. f[n] \in T /\ n + 1 \in 1..N
      BY <2>2, <3>0
    <3>3. g[n + 1][f[n]] \in T
      BY <3>2
    <3>4. h \in [0..(n + 1) -> T]
      BY <3>0, <3>3
    <3>5. h[0] = a
      BY <3>0
    <3>6. \A k \in 1..(n + 1) : h[k] = g[k][h[k - 1]]
      <4> SUFFICES ASSUME NEW k \in 1..(n + 1) PROVE h[k] = g[k][h[k - 1]]
        OBVIOUS
      <4>1. h[k - 1] = f[k - 1]
        OBVIOUS
      <4>2. CASE k <= n
        <5>1. h[k] = f[k] /\ k \in 1..n
          BY <4>2
        <5> QED
          BY <3>0, <4>1, <5>1, Zenon
      <4>3. CASE k = n + 1
        <5>1. h[k] = g[n + 1][f[n]] /\ k - 1 = n
          BY <4>3
        <5> QED
          BY <4>1, <4>3, <5>1, Zenon
      <4> QED
        BY <4>2, <4>3
    <3> HIDE DEF h
    <3>7. Good(n + 1)
      BY <3>4, <3>5, <3>6, Zenon DEF Iterates
    <3> QED
      BY <3>7
  <2> QED
    BY <2>1, <2>2
<1> HIDE DEF S
<1>3. N \in S
  BY <1>1, <1>2, NatSteps
<1> QED
  BY <1>3 DEF S

\* Two functions that agree on 0 and go on alike agree on 0..N.
LEMMA RecursionUnique ==
    ASSUME NEW N \in Nat, NEW f, NEW g, f[0] = g[0],
           \A n \in 1..N : f[n - 1] = g[n - 1] => f[n] = g[n]
    PROVE  \A n \in 0..N : f[n] = g[n]
<1> DEFINE S == {n \in Nat : n <= N => f[n] = g[n]}
<1>1. 0 \in S
  OBVIOUS
<1>2. ASSUME NEW n \in Nat, n \in S PROVE n + 1 \in S
  <2>1. n + 1 <= N => n + 1 \in 1..N /\ (n + 1) - 1 = n
    OBVIOUS
  <2> QED
    BY <1>2, <2>1
<1> HIDE DEF S
<1>3. Nat \subseteq S
  BY <1>1, <1>2, NatSteps
<1> QED
  BY <1>3 DEF S

----------------------------------------------------------------------------
(* The inductive invariant of the client.                                  *)

IsWrite(c) == call[c].op \in Writes

\* How far a call's attempts get: callWithRetry counts them, and only ShouldRetry
\* lets it go round again.
AttemptsBounded ==
    \A c \in Calls :
        /\ call[c].attempt <= 1 \/ call[c].attempt <= options.retryMaxAttempts
        /\ call[c].state = "idle" => call[c].attempt = 0 /\ call[c].error = "none"
        /\ call[c].state = "backoff" => call[c].attempt < options.retryMaxAttempts
        /\ IsWrite(c) /\ ~options.retryOnWrites => call[c].attempt <= 1 /\ call[c].state # "backoff"
        /\ call[c].hedge = "armed" => call[c].op \in Reads

\* An RPC belongs to an attempt that has begun, and a write's to its first run.
RPCsBelong ==
    \A i \in RPCs :
        rpc[i].client # "none" \/ rpc[i].gateway # "none" =>
            /\ i[2] <= call[i[1]].attempt
            /\ IsWrite(i[1]) => i[3] = 1

\* What was carried out was asked for.
EffectsBelong ==
    \A c \in Calls : effects[c] \subseteq IF IsWrite(c) THEN (1..call[c].attempt) \X {1} ELSE {}

OnceInv == ClientTypeOK /\ AttemptsBounded /\ RPCsBelong /\ EffectsBelong

\* What the gateway's answers say of what it has done.
AnswersTrue ==
    \A i \in RPCs :
        /\ rpc[i].code # "none" => rpc[i].gateway = "answered"
        /\ <<i[2], i[3]>> \in effects[i[1]] => rpc[i].gateway = "answered"
        /\ IsWrite(i[1]) =>
               /\ rpc[i].code = "OK" => effects[i[1]] # {}
               /\ rpc[i].code = "ALREADY_EXISTS" /\ ~options.retryOnWrites => effects[i[1]] = {}

\* No RPC of call c is still to be carried out.
Quiet(c) == \A i \in RPCs : i[1] = c => rpc[i].gateway # "pending"

\* A call that has returned leaves nothing behind at the gateway.
SettledQuiet ==
    \A c \in Calls :
        /\ call[c].error = "AlreadyExistsError" => call[c].state = "rejected"
        /\ IsWrite(c) =>
               /\ call[c].state = "resolved" /\ call[c].attempt > 0 => effects[c] # {}
               /\ call[c].state = "resolved" /\ ~options.retryOnWrites => Quiet(c)
               /\ call[c].error = "AlreadyExistsError" /\ ~options.retryOnWrites =>
                      effects[c] = {} /\ Quiet(c)

\* What the store remembers.
StoreFollows ==
    /\ store.collection = None => store.point = None
    /\ \A c \in Calls : store.collection = c \/ store.point = c => effects[c] # {}
    /\ \A c \in Calls : \A d \in call[c].after : call[d].state = "resolved"
    /\ \A c \in Calls : effects[c] # {} /\ ~options.retryOnWrites => store.point \notin call[c].after

StandInv == OnceInv /\ AnswersTrue /\ SettledQuiet /\ StoreFollows

\* What the client does, whatever its caller asks for.
AnyClientStep ==
    \/ \E c \in Calls : \E op \in Ops : BeginCall(c, op)
    \/ Close
    \/ ClientStep

LEMMA CallersAsk == ClientNext => AnyClientStep
BY ClientAssumption DEF ClientNext, AnyClientStep

----------------------------------------------------------------------------
(* What the pieces of an action make of a call and its RPCs.               *)

States == {"idle", "running", "backoff", "resolved", "rejected"}

CallRecord == [op : Ops, state : States, attempt : 0..MaxAttempts, hedge : {"off", "armed"},
               error : Errors \cup {"none"}, after : SUBSET Calls]

\* An answer with that code takes call[c].state to s and call[c].error to e.
Moves(c, code, s, e) ==
    /\ s \in States /\ e \in Errors \cup {"none"}
    /\ ~Running(c) => s = call[c].state /\ e = call[c].error
    /\ s = "resolved" /\ Running(c) => code = "OK" /\ e = call[c].error
    /\ e = "AlreadyExistsError" => e = call[c].error \/ (code = "ALREADY_EXISTS" /\ s = "rejected")
    /\ s = "idle" => call[c].state = "idle" /\ e = call[c].error
    /\ s = "backoff" /\ call[c].state # "backoff" =>
           /\ call[c].attempt < options.retryMaxAttempts
           /\ IsWrite(c) => options.retryOnWrites

\* An answer changes a call's state and error and nothing else, and puts it to
\* sleep only where shouldRetry lets it.
LEMMA AnswerMoves ==
    ASSUME ClientTypeOK, NEW c \in Calls, NEW code \in Codes \cup {"none", "OK", "NO_POINT"}
    PROVE  \E s, e : /\ Moves(c, code, s, e)
                     /\ Answer(c, code) = [call EXCEPT ![c] = [@ EXCEPT !.state = s, !.error = e]]
<1> USE DEF ClientTypeOK
<1>0. call[c] \in CallRecord
  BY DEF CallRecord, States
<1>1. CASE Answer(c, code) = call
  <2>1. Moves(c, code, call[c].state, call[c].error)
    BY <1>0 DEF Moves, CallRecord, Running, States
  <2>2. call = [call EXCEPT ![c] = [@ EXCEPT !.state = call[c].state, !.error = call[c].error]]
    BY <1>0 DEF CallRecord
  <2> QED
    BY <1>1, <2>1, <2>2
<1>2. CASE code = "OK" /\ Answer(c, code) = Resolve(c) /\ Running(c)
  <2>1. Moves(c, code, "resolved", call[c].error)
    BY <1>0, <1>2 DEF Moves, CallRecord, States, Running
  <2>2. Resolve(c) = [call EXCEPT ![c] = [@ EXCEPT !.state = "resolved", !.error = call[c].error]]
    BY <1>0 DEF CallRecord, Resolve
  <2> QED
    BY <1>2, <2>1, <2>2
<1>3. ASSUME NEW error \in Codes \cup {"none", "NotFoundError"},
             error = code \/ error = "NotFoundError",
             Answer(c, code) = Caught(c, error), Running(c)
      PROVE  \E s, e : /\ Moves(c, code, s, e)
                       /\ Answer(c, code) = [call EXCEPT ![c] = [@ EXCEPT !.state = s, !.error = e]]
  <2>1. CASE ShouldRetry(error, IsWrite(c), call[c].attempt)
    <3>1. Moves(c, code, "backoff", call[c].error)
      BY <1>0, <1>3, <2>1 DEF Moves, CallRecord, States, ShouldRetry, Running
    <3>2. Caught(c, error) = [call EXCEPT ![c] = [@ EXCEPT !.state = "backoff", !.error = call[c].error]]
      BY <1>0, <2>1 DEF CallRecord, Caught, IsWrite
    <3> QED
      BY <1>3, <3>1, <3>2
  <2>2. CASE ~ShouldRetry(error, IsWrite(c), call[c].attempt)
    <3> DEFINE e == IF error \in Codes THEN HandleError(error) ELSE error
    <3>1. e \in Errors \cup {"none"}
      BY DEF Errors, HandleError, Codes
    <3>2. e = "AlreadyExistsError" => code = "ALREADY_EXISTS"
      BY <1>3 DEF HandleError, Codes
    <3> HIDE DEF e
    <3>4. Moves(c, code, "rejected", e)
      BY <1>0, <1>3, <3>1, <3>2 DEF Moves, CallRecord, States, Running
    <3>3. Caught(c, error) = [call EXCEPT ![c] = [@ EXCEPT !.state = "rejected", !.error = e]]
      BY <1>0, <2>2 DEF CallRecord, Caught, IsWrite, Reject, e
    <3> QED
      BY <1>3, <3>4, <3>3
  <2> QED
    BY <2>1, <2>2
<1>4. CASE code = "OK"
  BY <1>1, <1>2, <1>4 DEF Answer, RunSucceeds
<1>5. CASE code = "NO_POINT"
  BY <1>1, <1>3, <1>5 DEF Answer, RunFails
<1>6. CASE code \notin {"OK", "NO_POINT"}
  <2>1. Answer(c, code) = RunFails(c, code) /\ code \in Codes \cup {"none", "NotFoundError"}
    BY <1>6 DEF Answer
  <2> QED
    BY <1>1, <1>3, <2>1 DEF RunFails
<1> QED
  BY <1>4, <1>5, <1>6

----------------------------------------------------------------------------
(* OnceInv is inductive.                                                   *)

Started(i) == rpc[i].client # "none" \/ rpc[i].gateway # "none"

\* The bounds of AttemptsBounded, for a call's record.
RecordBounded(r) ==
    /\ r.attempt <= 1 \/ r.attempt <= options.retryMaxAttempts
    /\ r.state = "idle" => r.attempt = 0 /\ r.error = "none"
    /\ r.state = "backoff" => r.attempt < options.retryMaxAttempts
    /\ r.op \in Writes /\ ~options.retryOnWrites => r.attempt <= 1 /\ r.state # "backoff"
    /\ r.hedge = "armed" => r.op \in Reads

\* Record r may follow call[c].
Continues(c, r) ==
    /\ r \in CallRecord /\ RecordBounded(r)
    /\ call[c].attempt <= r.attempt
    /\ r.op = call[c].op \/ call[c].attempt = 0

LEMMA OptionTypes ==
    ASSUME ClientTypeOK
    PROVE  /\ options \in Options /\ options.retryMaxAttempts \in 0..MaxAttempts
           /\ options.retryOnWrites \in BOOLEAN /\ MaxAttempts \in Nat \ {0}
BY ClientAssumption DEF ClientTypeOK, Options

LEMMA CallRecords ==
    ASSUME OnceInv, NEW c \in Calls
    PROVE  call[c] \in CallRecord /\ RecordBounded(call[c])
BY DEF OnceInv, ClientTypeOK, CallRecord, States, RecordBounded, AttemptsBounded, IsWrite

\* One call goes on, and the RPCs started for it are its own.
LEMMA CallGoesOn ==
    ASSUME OnceInv, NEW c \in Calls, NEW r, Continues(c, r),
           call' = [call EXCEPT ![c] = r],
           UNCHANGED <<options, closed, store, effects>>,
           rpc' \in [RPCs -> RPCState],
           \A i \in RPCs : Started(i)' =>
               \/ Started(i)
               \/ i[1] = c /\ i[2] <= r.attempt /\ (r.op \in Writes => i[3] = 1)
    PROVE  OnceInv'
<1> USE DEF OnceInv
<1>0. /\ \A d \in Calls : call[d] \in CallRecord /\ RecordBounded(call[d])
      /\ \A d \in Calls : call'[d] = IF d = c THEN r ELSE call[d]
      /\ DOMAIN call' = Calls
  <2>1. \A d \in Calls : call[d] \in CallRecord /\ RecordBounded(call[d])
    BY CallRecords
  <2> QED
    BY <2>1 DEF ClientTypeOK
<1>1. call' \in [Calls -> CallRecord]
  BY <1>0 DEF ClientTypeOK, Continues, CallRecord
<1>2. ClientTypeOK'
  BY <1>1 DEF ClientTypeOK, CallRecord, States
<1>3. AttemptsBounded'
  BY <1>0 DEF AttemptsBounded, Continues, RecordBounded, IsWrite
<1>4. RPCsBelong'
  <2> SUFFICES ASSUME NEW i \in RPCs, Started(i)'
               PROVE  i[2] <= call'[i[1]].attempt /\ (call'[i[1]].op \in Writes => i[3] = 1)
    BY DEF RPCsBelong, Started, IsWrite
  <2>1. i[1] \in Calls /\ i[2] \in 1..MaxAttempts
    BY DEF RPCs, Attempts
  <2>2. CASE i[1] = c /\ i[2] <= r.attempt /\ (r.op \in Writes => i[3] = 1)
    BY <1>0, <2>2
  <2>3. CASE Started(i)
    <3>1. i[2] <= call[i[1]].attempt /\ (call[i[1]].op \in Writes => i[3] = 1)
      BY <2>3 DEF RPCsBelong, Started, IsWrite
    <3>2. call[i[1]].attempt \in Nat /\ r.attempt \in Nat
      BY <1>0, <2>1 DEF Continues, CallRecord
    <3>3. i[1] = c => r.op = call[c].op /\ call[c].attempt <= r.attempt
      BY <2>1, <3>1, <3>2, ClientAssumption DEF Continues
    <3> QED
      BY <1>0, <2>1, <3>1, <3>2, <3>3, ClientAssumption
  <2> QED
    BY <2>2, <2>3
<1>5. EffectsBelong'
  <2> SUFFICES ASSUME NEW d \in Calls
               PROVE  effects[d] \subseteq IF call'[d].op \in Writes
                                           THEN (1..call'[d].attempt) \X {1} ELSE {}
    BY DEF EffectsBelong, IsWrite
  <2>1. effects[d] \subseteq IF call[d].op \in Writes THEN (1..call[d].attempt) \X {1} ELSE {}
    BY DEF EffectsBelong, IsWrite
  <2>2. CASE d # c
    BY <1>0, <2>1, <2>2
  <2>3. CASE d = c
    <3>1. call[c].attempt \in Nat /\ r.attempt \in Nat
      BY <1>0 DEF Continues, CallRecord
    <3>2. 1..call[c].attempt \subseteq 1..r.attempt
      BY <3>1 DEF Continues
    <3>3. CASE call[c].attempt = 0
      <4>1. effects[c] = {}
        BY <2>1, <2>3, <3>3
      <4> QED
        BY <4>1, <2>3
    <3>4. CASE r.op = call[c].op
      BY <1>0, <2>1, <2>3, <3>2, <3>4
    <3> QED
      BY <3>3, <3>4 DEF Continues
  <2> QED
    BY <2>2, <2>3
<1> QED
  BY <1>2, <1>3, <1>4, <1>5

\* An attempt begins, of a call made now or of one that has slept.
LEMMA AttemptKeeps ==
    ASSUME OnceInv, NEW c \in Calls, NEW r \in CallRecord, NEW n \in 1..MaxAttempts,
           RecordBounded(r), r.op = call[c].op \/ call[c].attempt = 0,
           call[c].attempt <= r.attempt, r.attempt <= n,
           n <= 1 \/ n <= options.retryMaxAttempts,
           r.op \in Writes /\ ~options.retryOnWrites => n <= 1,
           Attempt(c, r, n), UNCHANGED <<options, closed, store, effects>>
    PROVE  OnceInv'
<1>0. /\ MaxAttempts \in Nat /\ r.attempt \in 0..MaxAttempts /\ call[c].attempt \in 0..MaxAttempts
      /\ rpc \in [RPCs -> RPCState]
  BY CallRecords, ClientAssumption DEF CallRecord, OnceInv, ClientTypeOK
<1>1. CASE closed /\ ~Hedges(r.op)
  <2> DEFINE q == [r EXCEPT !.state = "rejected", !.error = "Error"]
  <2>1. q \in CallRecord
    BY DEF CallRecord, States, Errors
  <2>2. q.attempt = r.attempt /\ q.op = r.op /\ q.hedge = r.hedge /\ q.state = "rejected"
    BY DEF CallRecord
  <2>3. Continues(c, q)
    BY <1>0, <2>1, <2>2 DEF Continues, RecordBounded
  <2>4. call' = [call EXCEPT ![c] = q] /\ rpc' = rpc
    BY <1>1 DEF Attempt
  <2> HIDE DEF q
  <2> QED
    BY <1>0, <2>3, <2>4, CallGoesOn DEF Started
<1>2. CASE ~(closed /\ ~Hedges(r.op))
  <2> DEFINE h == IF Hedges(r.op) THEN "armed" ELSE "off"
             q == [r EXCEPT !.state = "running", !.attempt = n, !.hedge = h]
  <2>0. h \in {"off", "armed"} /\ (h = "armed" => r.op \in Reads)
    BY DEF Hedges
  <2> HIDE DEF h
  <2>1. q \in CallRecord
    <3>1. n \in 0..MaxAttempts /\ h \in {"off", "armed"} /\ "running" \in States
      BY <1>0, <2>0 DEF States
    <3> QED
      BY <3>1 DEF CallRecord
  <2>2. q.attempt = n /\ q.op = r.op /\ q.hedge = h /\ q.state = "running"
    BY DEF CallRecord
  <2>4. Continues(c, q)
    BY <1>0, <2>0, <2>1, <2>2 DEF Continues, RecordBounded
  <2>5. call' = [call EXCEPT ![c] = q]
    BY <1>2 DEF Attempt, h
  <2>6. /\ rpc' \in [RPCs -> RPCState]
        /\ \A i \in RPCs : Started(i)' =>
              \/ Started(i)
              \/ i[1] = c /\ i[2] <= q.attempt /\ (q.op \in Writes => i[3] = 1)
    <3>1. CASE rpc' = rpc
      BY <1>0, <3>1 DEF Started
    <3>2. CASE StartRPC(c, n, 1)
      <4>1. rpc' \in [RPCs -> RPCState]
        BY <1>0, <3>2 DEF StartRPC, RPCState
      <4>2. \A i \in RPCs : i # <<c, n, 1>> => rpc'[i] = rpc[i]
        BY <1>0, <3>2 DEF StartRPC
      <4>3. \A i \in RPCs : i = <<c, n, 1>> => i[1] = c /\ i[2] <= n /\ i[3] = 1
        OBVIOUS
      <4> QED
        BY <2>2, <4>1, <4>2, <4>3 DEF Started
    <3> QED
      BY <3>1, <3>2 DEF Attempt
  <2> HIDE DEF q
  <2> QED
    BY <2>4, <2>5, <2>6, CallGoesOn
<1> QED
  BY <1>1, <1>2

LEMMA IdleRecord == Idle \in CallRecord
BY ClientAssumption DEF Idle, CallRecord, States, Ops, Reads

\* The caller's steps keep OnceInv.
LEMMA CallerKeepsOnce ==
    ASSUME OnceInv, NEW c \in Calls, NEW op \in Ops, BeginCall(c, op)
    PROVE  OnceInv'
<1>0. op \in Ops /\ MaxAttempts \in Nat \ {0} /\ rpc \in [RPCs -> RPCState]
  BY ClientAssumption DEF OnceInv, ClientTypeOK
<1>1. call[c].state = "idle" /\ call[c].attempt = 0
  <2>1. call[c].state = "idle"
    BY DEF BeginCall, Begin, BeginInvalid, BeginEmpty
  <2> QED
    BY <2>1, CallRecords DEF RecordBounded
<1>2. CASE Begin(c, op)
  <2> DEFINE r == [Idle EXCEPT !.op = op, !.after = ResolvedCalls]
  <2>1. r \in CallRecord
    BY <1>0, IdleRecord DEF CallRecord, ResolvedCalls
  <2>4. r.attempt = 0 /\ r.hedge = "off" /\ r.state = "idle" /\ r.error = "none"
    BY DEF Idle
  <2>2. r \in CallRecord /\ RecordBounded(r)
    BY <2>1, <2>4 DEF RecordBounded
  <2>3. Attempt(c, r, 1) /\ UNCHANGED <<options, closed, store, effects>>
    BY <1>2 DEF Begin
  <2> HIDE DEF r
  <2> QED
    BY <1>0, <1>1, <2>2, <2>3, <2>4, AttemptKeeps
<1>3. CASE BeginInvalid(c, op)
  <2> DEFINE r == [Idle EXCEPT !.op = op, !.state = "rejected", !.error = "InvalidArgumentError"]
  <2>1. r \in CallRecord
    BY <1>0, IdleRecord DEF CallRecord, States, Errors
  <2>2. r.attempt = 0 /\ r.hedge = "off" /\ r.state = "rejected"
    BY DEF Idle
  <2>3. Continues(c, r)
    BY <1>1, <2>1, <2>2 DEF RecordBounded, Continues
  <2> HIDE DEF r
  <2> QED
    BY <1>0, <1>3, <2>3, CallGoesOn DEF BeginInvalid, r, Started
<1>4. CASE op = "upsert" /\ BeginEmpty(c)
  <2> DEFINE r == [Idle EXCEPT !.op = "upsert", !.state = "resolved"]
  <2>1. r \in CallRecord
    BY <1>0, <1>4, IdleRecord DEF CallRecord, States, Errors
  <2>2. r.attempt = 0 /\ r.hedge = "off" /\ r.state = "resolved"
    BY DEF Idle
  <2>3. Continues(c, r)
    BY <1>1, <2>1, <2>2 DEF RecordBounded, Continues
  <2> HIDE DEF r
  <2> QED
    BY <1>0, <1>4, <2>3, CallGoesOn DEF BeginEmpty, r, Started
<1> QED
  BY <1>2, <1>3, <1>4 DEF BeginCall

\* RPC i ends for the client, with that code.
LEMMA EndKeepsOnce ==
    ASSUME OnceInv, NEW i \in RPCs, NEW code \in Codes \cup {"none", "OK", "NO_POINT"},
           EndRPC(i, code)
    PROVE  OnceInv'
<1>0. /\ ClientTypeOK /\ i[1] \in Calls /\ rpc \in [RPCs -> RPCState]
      /\ call[i[1]] \in CallRecord /\ RecordBounded(call[i[1]])
  BY CallRecords DEF OnceInv, ClientTypeOK, RPCs
<1> DEFINE c == i[1]
<1>1. PICK s, e : /\ Moves(c, code, s, e)
                  /\ Answer(c, code) = [call EXCEPT ![c] = [@ EXCEPT !.state = s, !.error = e]]
  BY <1>0, AnswerMoves
<1> DEFINE r == [call[c] EXCEPT !.state = s, !.error = e]
<1>2. r \in CallRecord
  BY <1>0, <1>1 DEF CallRecord, Moves
<1>3. /\ r.attempt = call[c].attempt /\ r.op = call[c].op /\ r.hedge = call[c].hedge
      /\ r.state = s /\ r.error = e
  BY <1>0 DEF CallRecord
<1>4. call' = [call EXCEPT ![c] = r]
  BY <1>0, <1>1 DEF EndRPC, ClientTypeOK
<1>5. call[c].attempt \in Nat
  BY <1>0 DEF CallRecord
<1> HIDE DEF r, c
<1>6. Continues(c, r)
  BY <1>0, <1>1, <1>2, <1>3, <1>5 DEF Continues, RecordBounded, Moves, IsWrite, Running, c
<1>7. rpc' \in [RPCs -> RPCState] /\ \A j \in RPCs : Started(j)' => Started(j)
  <2>1. rpc'[i] \in RPCState
    BY <1>0 DEF EndRPC, RPCState
  <2>2. rpc' \in [RPCs -> RPCState] /\ \A j \in RPCs : j # i => rpc'[j] = rpc[j]
    BY <1>0, <2>1 DEF EndRPC
  <2> QED
    BY <2>2 DEF EndRPC, Started
<1>8. c \in Calls /\ UNCHANGED <<options, closed, store, effects>>
  BY <1>0 DEF EndRPC, c
<1> QED
  BY <1>4, <1>6, <1>7, <1>8, CallGoesOn

LEMMA TimersKeepOnce ==
    ASSUME OnceInv, NEW c \in Calls, HedgeTimer(c) \/ BackoffTimer(c)
    PROVE  OnceInv'
<1>0. /\ ClientTypeOK /\ rpc \in [RPCs -> RPCState] /\ call[c] \in CallRecord
      /\ RecordBounded(call[c]) /\ call[c].attempt \in Nat
  BY CallRecords DEF OnceInv, ClientTypeOK, CallRecord
<1>1. CASE HedgeTimer(c)
  <2> DEFINE r == [call[c] EXCEPT !.hedge = "off"]
  <2>1. r \in CallRecord
    BY <1>0 DEF CallRecord
  <2>2. /\ r.attempt = call[c].attempt /\ r.op = call[c].op /\ r.hedge = "off"
        /\ r.state = call[c].state /\ r.error = call[c].error
    BY <1>0 DEF CallRecord
  <2>3. call' = [call EXCEPT ![c] = r] /\ UNCHANGED <<options, closed, store, effects>>
    BY <1>0, <1>1 DEF HedgeTimer, ClientTypeOK
  <2> HIDE DEF r
  <2>4. Continues(c, r)
    BY <1>0, <2>1, <2>2 DEF Continues, RecordBounded
  <2>5. /\ rpc' \in [RPCs -> RPCState]
        /\ \A i \in RPCs : Started(i)' =>
              \/ Started(i)
              \/ i[1] = c /\ i[2] <= r.attempt /\ (r.op \in Writes => i[3] = 1)
    <3>1. CASE rpc' = rpc
      BY <1>0, <3>1 DEF Started
    <3>2. CASE StartRPC(c, call[c].attempt, 2)
      <4>1. rpc' \in [RPCs -> RPCState]
        BY <1>0, <3>2 DEF StartRPC, RPCState
      <4>2. \A i \in RPCs : i # <<c, call[c].attempt, 2>> => rpc'[i] = rpc[i]
        BY <1>0, <3>2 DEF StartRPC
      <4>3. \A i \in RPCs : i = <<c, call[c].attempt, 2>> => i[1] = c /\ i[2] <= call[c].attempt
        BY <1>0
      <4>4. r.op \notin Writes
        BY <1>0, <1>1, <2>2 DEF HedgeTimer, RecordBounded, Reads, Writes
      <4> QED
        BY <2>2, <4>1, <4>2, <4>3, <4>4 DEF Started
    <3> QED
      BY <1>1, <3>1, <3>2 DEF HedgeTimer
  <2> QED
    BY <2>3, <2>4, <2>5, CallGoesOn
<1>2. CASE BackoffTimer(c)
  <2> DEFINE n == call[c].attempt + 1
  <2>1. /\ call[c].state = "backoff" /\ call[c].attempt < options.retryMaxAttempts
        /\ call[c].op \in Writes => options.retryOnWrites
    BY <1>0, <1>2 DEF BackoffTimer, RecordBounded
  <2>2. options.retryMaxAttempts \in 0..MaxAttempts /\ MaxAttempts \in Nat
    BY <1>0, OptionTypes
  <2>3. n \in 1..MaxAttempts /\ n <= options.retryMaxAttempts /\ call[c].attempt <= n
    BY <1>0, <2>1, <2>2
  <2>4. Attempt(c, call[c], n) /\ UNCHANGED <<options, closed, store, effects>>
    BY <1>2 DEF BackoffTimer
  <2> HIDE DEF n
  <2> QED
    BY <1>0, <2>1, <2>3, <2>4, AttemptKeeps
<1> QED
  BY <1>1, <1>2

\* The gateway's steps keep OnceInv: it carries out an RPC that was made.
LEMMA GatewayKeepsOnce ==
    ASSUME OnceInv, NEW i \in RPCs, NEW code \in Codes \cup {"OK"},
           Execute(i, code) \/ Refuse(i, code)
    PROVE  OnceInv'
<1> DEFINE c == i[1]
<1>0. /\ ClientTypeOK /\ c \in Calls /\ i[2] \in Attempts /\ i[3] \in Runs
      /\ rpc \in [RPCs -> RPCState] /\ call[c] \in CallRecord
  BY CallRecords DEF OnceInv, ClientTypeOK, RPCs
<1>1. rpc[i].gateway = "pending" /\ UNCHANGED <<options, closed, call>>
  BY DEF Execute, Refuse
<1>2. rpc' \in [RPCs -> RPCState] /\ \A j \in RPCs : Started(j)' => Started(j)
  <2>1. PICK a \in Codes \cup {"OK", "NO_POINT"} : AnswerRPC(i, a)
    BY Zenon DEF Execute, Refuse
  <2>2. rpc'[i] \in RPCState
    BY <1>0, <2>1 DEF AnswerRPC, RPCState
  <2>3. rpc' \in [RPCs -> RPCState] /\ \A j \in RPCs : j # i => rpc'[j] = rpc[j]
    BY <1>0, <2>1, <2>2 DEF AnswerRPC
  <2> QED
    BY <1>1, <2>3 DEF Started
<1>3. RPCsBelong'
  BY <1>1, <1>2 DEF OnceInv, RPCsBelong, Started, IsWrite
<1>4. AttemptsBounded'
  BY <1>1 DEF OnceInv, AttemptsBounded, IsWrite
<1>5. CASE Refuse(i, code)
  <2>1. UNCHANGED <<store, effects>>
    BY <1>5 DEF Refuse
  <2>2. ClientTypeOK'
    BY <1>0, <1>1, <1>2, <2>1 DEF ClientTypeOK
  <2>3. EffectsBelong'
    BY <1>1, <2>1 DEF OnceInv, EffectsBelong, IsWrite
  <2> QED
    BY <1>3, <1>4, <2>2, <2>3 DEF OnceInv
<1>6. CASE Execute(i, code)
  <2>1. store' \in [collection : Calls \cup {None, Other}, point : Calls \cup {None}]
    BY <1>0, <1>6 DEF Execute, ClientTypeOK
  <2>2. effects \in [Calls -> SUBSET (Attempts \X Runs)]
    BY <1>0 DEF ClientTypeOK
  <2>3. effects' = [effects EXCEPT ![c] = IF IsWrite(c) THEN @ \cup {<<i[2], i[3]>>} ELSE @]
    BY <1>6 DEF Execute, IsWrite
  <2>4. <<i[2], i[3]>> \in Attempts \X Runs
    BY <1>0
  <2>5. effects' \in [Calls -> SUBSET (Attempts \X Runs)]
    BY <1>0, <2>2, <2>3, <2>4
  <2>6. ClientTypeOK'
    BY <1>0, <1>1, <1>2, <2>1, <2>5 DEF ClientTypeOK
  <2>7. i[2] <= call[c].attempt /\ (IsWrite(c) => i[3] = 1)
    BY <1>1 DEF OnceInv, RPCsBelong
  <2>8. IsWrite(c) => <<i[2], i[3]>> \in (1..call[c].attempt) \X {1}
    <3>1. i[2] \in 1..call[c].attempt
      BY <1>0, <2>7, ClientAssumption DEF Attempts, CallRecord
    <3> QED
      BY <2>7, <3>1
  <2>9. EffectsBelong'
    <3> SUFFICES ASSUME NEW d \in Calls
                 PROVE  effects'[d] \subseteq IF IsWrite(d) THEN (1..call[d].attempt) \X {1} ELSE {}
      BY <1>1 DEF EffectsBelong, IsWrite
    <3>1. effects[d] \subseteq IF IsWrite(d) THEN (1..call[d].attempt) \X {1} ELSE {}
      BY DEF OnceInv, EffectsBelong
    <3>2. effects'[d] = IF d = c /\ IsWrite(c) THEN effects[d] \cup {<<i[2], i[3]>>} ELSE effects[d]
      BY <1>0, <2>2, <2>3
    <3> HIDE DEF c
    <3> QED
      BY <2>8, <3>1, <3>2
  <2> QED
    BY <1>3, <1>4, <2>6, <2>9 DEF OnceInv
<1> QED
  BY <1>5, <1>6

\* Every step of the client and the gateway keeps OnceInv.
LEMMA OnceInductive == OnceInv /\ [AnyClientStep]_clientVars => OnceInv'
<1> SUFFICES ASSUME OnceInv, [AnyClientStep]_clientVars PROVE OnceInv'
  OBVIOUS
<1>1. CASE \E c \in Calls : \E op \in Ops : BeginCall(c, op)
  BY <1>1, CallerKeepsOnce
<1>2. CASE Close
  <2>1. closed' = TRUE /\ UNCHANGED <<options, call, rpc, store, effects>>
    BY <1>2 DEF Close
  <2> QED
    BY <2>1 DEF OnceInv, ClientTypeOK, AttemptsBounded, RPCsBelong, EffectsBelong, IsWrite
<1>3. ASSUME NEW i \in RPCs, Deliver(i) \/ Break(i) \/ Deadline(i) PROVE OnceInv'
  <2>1. rpc[i].code \in Codes \cup {"none", "OK", "NO_POINT"}
    BY DEF OnceInv, ClientTypeOK, RPCState
  <2>2. "UNAVAILABLE" \in Codes /\ "DEADLINE_EXCEEDED" \in Codes
    BY DEF Codes
  <2> QED
    BY <1>3, <2>1, <2>2, EndKeepsOnce DEF Deliver, Break, Deadline
<1>4. ASSUME NEW i \in RPCs,
             \/ \E code \in {"OK", "UNAVAILABLE"} : Execute(i, code)
             \/ \E code \in Codes : Refuse(i, code)
      PROVE  OnceInv'
  <2>1. {"OK", "UNAVAILABLE"} \subseteq Codes \cup {"OK"}
    BY DEF Codes
  <2> QED
    BY <1>4, <2>1, GatewayKeepsOnce
<1>5. CASE \E c \in Calls : HedgeTimer(c) \/ BackoffTimer(c)
  BY <1>5, TimersKeepOnce
<1>6. CASE UNCHANGED clientVars
  BY <1>6 DEF clientVars, OnceInv, ClientTypeOK, AttemptsBounded, RPCsBelong, EffectsBelong, IsWrite
<1> QED
  BY <1>1, <1>2, <1>3, <1>4, <1>5, <1>6 DEF AnyClientStep, ClientStep

LEMMA OnceInitially == ClientInit => OnceInv
<1> SUFFICES ASSUME ClientInit PROVE OnceInv
  OBVIOUS
<1>0. /\ MaxAttempts \in Nat /\ NoRPC \in RPCState
      /\ NoRPC.client = "none" /\ NoRPC.gateway = "none"
  BY ClientAssumption DEF NoRPC, RPCState
<1>1. /\ \A c \in Calls : call[c] = Idle /\ effects[c] = {}
      /\ \A i \in RPCs : rpc[i] = NoRPC
  BY DEF ClientInit, RPCs
<1>2. /\ Idle.attempt = 0 /\ Idle.state = "idle" /\ Idle.error = "none" /\ Idle.hedge = "off"
      /\ Idle.op = "get" /\ "get" \notin Writes
  BY DEF Idle, Writes
<1>3. ClientTypeOK
  <2>1. call \in [Calls -> CallRecord]
    BY IdleRecord DEF ClientInit
  <2>2. store \in [collection : Calls \cup {None, Other}, point : Calls \cup {None}]
    BY DEF ClientInit
  <2> QED
    BY <1>0, <2>1, <2>2 DEF ClientInit, ClientTypeOK, CallRecord, States, RPCs
<1>4. AttemptsBounded /\ RPCsBelong /\ EffectsBelong
  BY <1>0, <1>1, <1>2 DEF AttemptsBounded, RPCsBelong, EffectsBelong, IsWrite
<1> QED
  BY <1>3, <1>4 DEF OnceInv

----------------------------------------------------------------------------
(* A write is carried out at most once.                                    *)

\* The attempts that were carried out are no more than those that were begun.
LEMMA EffectsCounted ==
    ASSUME OnceInv, NEW c \in Calls
    PROVE  Cardinality(effects[c]) \in Nat /\ Cardinality(effects[c]) <= call[c].attempt
<1>0. call[c].attempt \in Nat
  BY CallRecords, ClientAssumption DEF CallRecord
<1> DEFINE made == (1..call[c].attempt) \X {1}
<1>1. effects[c] \subseteq made
  BY DEF OnceInv, EffectsBelong
<1>2. IsFiniteSet(1..call[c].attempt) /\ Cardinality(1..call[c].attempt) = call[c].attempt
  <2>1. /\ IsFiniteSet(1..call[c].attempt)
        /\ Cardinality(1..call[c].attempt) =
               IF 1 > call[c].attempt THEN 0 ELSE call[c].attempt - 1 + 1
    BY <1>0, FS_Interval, SMTT(30)
  <2> QED
    BY <1>0, <2>1
<1>3. IsFiniteSet({1}) /\ Cardinality({1}) = 1
  BY FS_Singleton
<1>4. IsFiniteSet(made) /\ Cardinality(made) = call[c].attempt
  <2>1. IsFiniteSet(made) /\ Cardinality(made) = Cardinality(1..call[c].attempt) * Cardinality({1})
    BY <1>2, <1>3, FS_Product
  <2> QED
    BY <1>0, <1>2, <1>3, <2>1
<1> HIDE DEF made
<1>5. IsFiniteSet(effects[c]) /\ Cardinality(effects[c]) <= Cardinality(made)
  BY <1>1, <1>4, FS_Subset
<1> QED
  BY <1>4, <1>5, FS_CardinalityType

LEMMA OnceImplies == OnceInv => ClientTypeOK /\ WritesAtMostOnce
<1> SUFFICES ASSUME OnceInv PROVE WritesAtMostOnce
  BY DEF OnceInv
<1> SUFFICES ASSUME NEW c \in Calls
             PROVE  /\ ~options.retryOnWrites => Cardinality(effects[c]) <= 1
                    /\ Cardinality(effects[c]) <= 1 \/ Cardinality(effects[c]) <= options.retryMaxAttempts
  BY DEF WritesAtMostOnce
<1>1. /\ Cardinality(effects[c]) \in Nat /\ Cardinality(effects[c]) <= call[c].attempt
      /\ call[c].attempt \in Nat /\ options.retryMaxAttempts \in Nat
      /\ RecordBounded(call[c])
  <2>1. ClientTypeOK
    BY DEF OnceInv
  <2> QED
    BY <2>1, EffectsCounted, CallRecords, OptionTypes DEF CallRecord
<1>2. CASE IsWrite(c)
  BY <1>1, <1>2 DEF RecordBounded, IsWrite
<1>3. CASE ~IsWrite(c)
  <2>1. effects[c] = {}
    BY <1>3 DEF OnceInv, EffectsBelong
  <2> QED
    BY <2>1, FS_EmptySet
<1> QED
  BY <1>2, <1>3

LEMMA OnceAlways == ClientSpec => []OnceInv
BY OnceInitially, OnceInductive, CallersAsk, PTL DEF ClientSpec

\* The types of the client's state: calls, RPCs and what the gateway keeps.
THEOREM ClientTypeCorrect == ClientSpec => []ClientTypeOK
BY OnceAlways, OnceImplies, PTL

\* However many calls, timeouts and lost answers there are, the gateway carries a
\* write out at most once, or with retryOnWrites at most retryMaxAttempts times
\* (callWithRetry, shouldRetry, callRead).
THEOREM WritesHappenAtMostOnce == ClientSpec => []WritesAtMostOnce
BY OnceAlways, OnceImplies, PTL

----------------------------------------------------------------------------
(* A write that has returned stands: StandInv is inductive.                *)

\* Without retryOnWrites a write has one RPC.
LEMMA SoleRPC ==
    ASSUME OnceInv, NEW i \in RPCs, NEW j \in RPCs, Started(i), Started(j), i[1] = j[1],
           IsWrite(i[1]), ~options.retryOnWrites
    PROVE  i = j
<1>1. /\ i = <<i[1], i[2], i[3]>> /\ j = <<j[1], j[2], j[3]>>
      /\ i[1] \in Calls /\ i[2] \in 1..MaxAttempts /\ j[2] \in 1..MaxAttempts
  BY DEF RPCs, Attempts
<1>2. call[i[1]].attempt <= 1 /\ call[i[1]].attempt \in Nat
  BY <1>1, CallRecords, ClientAssumption DEF RecordBounded, CallRecord, IsWrite
<1>3. i[2] <= call[i[1]].attempt /\ j[2] <= call[i[1]].attempt /\ i[3] = 1 /\ j[3] = 1
  BY DEF OnceInv, RPCsBelong, Started
<1>4. i[2] = 1 /\ j[2] = 1
  BY <1>1, <1>2, <1>3, ClientAssumption
<1> QED
  BY <1>1, <1>3, <1>4

\* What SettledQuiet says of call c.
SettledQuietFor(c) ==
    /\ call[c].error = "AlreadyExistsError" => call[c].state = "rejected"
    /\ IsWrite(c) =>
           /\ call[c].state = "resolved" /\ call[c].attempt > 0 => effects[c] # {}
           /\ call[c].state = "resolved" /\ ~options.retryOnWrites => Quiet(c)
           /\ call[c].error = "AlreadyExistsError" /\ ~options.retryOnWrites =>
                  effects[c] = {} /\ Quiet(c)

\* A step makes of RPC i of call c, whose operation is op: one that has ended for
\* the client, or one that has been started.
RPCEnds(i, op) ==
    rpc'[i].code = "none" /\ rpc'[i].gateway = IF op \in Writes THEN rpc[i].gateway ELSE "answered"

RPCStarts(i) ==
    /\ rpc'[i].code = "none" /\ rpc'[i].gateway = "pending"
    /\ <<i[2], i[3]>> \notin effects[i[1]]

\* One call goes on; the others, the store and what was carried out stay.
LEMMA StandGoesOn ==
    ASSUME StandInv, OnceInv', NEW c \in Calls, NEW r, Continues(c, r),
           call' = [call EXCEPT ![c] = r],
           UNCHANGED <<options, closed, store, effects>>,
           \A i \in RPCs : \/ rpc'[i] = rpc[i]
                           \/ i[1] = c /\ (RPCEnds(i, r.op) \/ RPCStarts(i)),
           SettledQuietFor(c)',
           call[c].state = "resolved" => r.state = "resolved",
           \A d \in r.after : call'[d].state = "resolved",
           effects[c] # {} /\ ~options.retryOnWrites => store.point \notin r.after
    PROVE  StandInv'
<1>0. /\ OnceInv
      /\ \A d \in Calls : call[d] \in CallRecord /\ RecordBounded(call[d])
      /\ \A d \in Calls : call'[d] = IF d = c THEN r ELSE call[d]
      /\ r \in CallRecord /\ (r.op = call[c].op \/ call[c].attempt = 0)
  <2>1. OnceInv
    BY DEF StandInv
  <2>2. \A d \in Calls : call[d] \in CallRecord /\ RecordBounded(call[d])
    BY <2>1, CallRecords
  <2> QED
    BY <2>1, <2>2 DEF OnceInv, ClientTypeOK, Continues
<1>1. \A d \in Calls : ~IsWrite(d) => effects[d] = {}
  BY <1>0 DEF OnceInv, EffectsBelong
<1>2. call[c].attempt = 0 =>
          effects[c] = {} /\ \A i \in RPCs : i[1] = c => ~Started(i)
  <2> SUFFICES ASSUME call[c].attempt = 0
               PROVE  effects[c] = {} /\ \A i \in RPCs : i[1] = c => ~Started(i)
    OBVIOUS
  <2>1. effects[c] = {}
    <3>1. 1..call[c].attempt = {}
      OBVIOUS
    <3> QED
      BY <1>0, <3>1 DEF OnceInv, EffectsBelong
  <2>2. \A i \in RPCs : i[1] = c => ~Started(i)
    BY <1>0, ClientAssumption DEF OnceInv, RPCsBelong, Started, RPCs, Attempts
  <2> QED
    BY <2>1, <2>2
<1>3. AnswersTrue'
  <2> SUFFICES ASSUME NEW i \in RPCs
               PROVE  /\ rpc'[i].code # "none" => rpc'[i].gateway = "answered"
                      /\ <<i[2], i[3]>> \in effects[i[1]] => rpc'[i].gateway = "answered"
                      /\ call'[i[1]].op \in Writes =>
                            /\ rpc'[i].code = "OK" => effects[i[1]] # {}
                            /\ rpc'[i].code = "ALREADY_EXISTS" /\ ~options.retryOnWrites =>
                                   effects[i[1]] = {}
    BY DEF AnswersTrue, IsWrite
  <2>0. i[1] \in Calls
    BY DEF RPCs
  <2>1. /\ rpc[i].code # "none" => rpc[i].gateway = "answered"
        /\ <<i[2], i[3]>> \in effects[i[1]] => rpc[i].gateway = "answered"
        /\ call[i[1]].op \in Writes =>
               /\ rpc[i].code = "OK" => effects[i[1]] # {}
               /\ rpc[i].code = "ALREADY_EXISTS" /\ ~options.retryOnWrites => effects[i[1]] = {}
    BY DEF StandInv, AnswersTrue, IsWrite
  <2>2. CASE rpc'[i] = rpc[i]
    <3>1. CASE i[1] = c /\ call[c].attempt = 0
      <4>1. rpc[i].code = "none"
        BY <1>2, <2>1, <3>1 DEF Started
      <4> QED
        BY <1>2, <2>2, <3>1, <4>1
    <3>2. CASE ~(i[1] = c /\ call[c].attempt = 0)
      <4>1. call'[i[1]].op = call[i[1]].op
        BY <1>0, <2>0, <3>2
      <4> QED
        BY <2>1, <2>2, <4>1
    <3> QED
      BY <3>1, <3>2
  <2>3. CASE i[1] = c /\ RPCStarts(i)
    BY <2>3 DEF RPCStarts
  <2>4. CASE i[1] = c /\ RPCEnds(i, r.op)
    BY <2>1, <2>4 DEF RPCEnds
  <2> QED
    BY <2>2, <2>3, <2>4
<1>4. SettledQuiet'
  <2> SUFFICES ASSUME NEW d \in Calls PROVE SettledQuietFor(d)'
    BY DEF SettledQuiet, SettledQuietFor
  <2>1. CASE d # c
    <3>1. call'[d] = call[d] /\ SettledQuietFor(d)
      BY <1>0, <2>1 DEF StandInv, SettledQuiet, SettledQuietFor
    <3>2. \A i \in RPCs : i[1] = d => rpc'[i] = rpc[i]
      BY <2>1
    <3> QED
      BY <3>1, <3>2 DEF SettledQuietFor, Quiet, IsWrite
  <2> QED
    BY <2>1
<1>5. StoreFollows'
  <2>0. StoreFollows
    BY DEF StandInv
  <2>1. \A d \in Calls : \A f \in call'[d].after : call'[f].state = "resolved"
    <3> SUFFICES ASSUME NEW d \in Calls, NEW f \in call'[d].after
                 PROVE  call'[f].state = "resolved"
      OBVIOUS
    <3>1. CASE d = c
      BY <1>0, <3>1
    <3>2. CASE d # c
      <4>1. f \in call[d].after /\ f \in Calls
        BY <1>0, <3>2 DEF CallRecord
      <4>2. call[f].state = "resolved"
        BY <2>0, <4>1 DEF StoreFollows
      <4> QED
        BY <1>0, <4>1, <4>2
    <3> QED
      BY <3>1, <3>2
  <2>2. \A d \in Calls : effects[d] # {} /\ ~options.retryOnWrites => store.point \notin call'[d].after
    BY <1>0, <2>0 DEF StoreFollows
  <2> QED
    BY <2>0, <2>1, <2>2 DEF StoreFollows
<1> QED
  BY <1>3, <1>4, <1>5 DEF StandInv

\* An RPC that begins an attempt, or hedges it, has not been carried out.
LEMMA StartedRPC ==
    ASSUME OnceInv, NEW c \in Calls, NEW n \in 1..MaxAttempts, NEW run \in Runs,
           ~IsWrite(c) \/ call[c].attempt < n, StartRPC(c, n, run)
    PROVE  \A i \in RPCs : rpc'[i] = rpc[i] \/ (i[1] = c /\ RPCStarts(i))
<1>1. rpc \in [RPCs -> RPCState] /\ <<c, n, run>> \in RPCs
  BY DEF OnceInv, ClientTypeOK, RPCs, Attempts
<1>2. <<n, run>> \notin effects[c]
  <2>1. call[c].attempt \in Nat /\ MaxAttempts \in Nat
    BY CallRecords, ClientAssumption DEF CallRecord
  <2>2. effects[c] \subseteq IF IsWrite(c) THEN (1..call[c].attempt) \X {1} ELSE {}
    BY DEF OnceInv, EffectsBelong
  <2>3. CASE ~IsWrite(c)
    BY <2>2, <2>3
  <2>4. CASE call[c].attempt < n
    <3>1. n \notin 1..call[c].attempt
      BY <2>1, <2>4
    <3> QED
      BY <2>2, <3>1
  <2> QED
    BY <2>3, <2>4
<1>3. \A i \in RPCs : i # <<c, n, run>> => rpc'[i] = rpc[i]
  BY <1>1 DEF StartRPC
<1>4. rpc'[<<c, n, run>>].code = "none" /\ rpc'[<<c, n, run>>].gateway = "pending"
  BY <1>1 DEF StartRPC
<1>5. \A i \in RPCs : i = <<c, n, run>> => i[1] = c /\ RPCStarts(i)
  BY <1>2, <1>4 DEF RPCStarts
<1> QED
  BY <1>3, <1>5

\* An attempt begins, of a call that no one takes to be settled.
LEMMA AttemptKeepsStand ==
    ASSUME StandInv, OnceInv', NEW c \in Calls, NEW r \in CallRecord, NEW n \in 1..MaxAttempts,
           RecordBounded(r), r.op = call[c].op \/ call[c].attempt = 0,
           call[c].attempt <= r.attempt, r.attempt < n,
           n <= 1 \/ n <= options.retryMaxAttempts,
           r.op \in Writes /\ ~options.retryOnWrites => n <= 1,
           r.error # "AlreadyExistsError", call[c].state # "resolved",
           \A d \in r.after : call[d].state = "resolved",
           effects[c] # {} /\ ~options.retryOnWrites => store.point \notin r.after,
           Attempt(c, r, n), UNCHANGED <<options, closed, store, effects>>
    PROVE  StandInv'
<1>0. /\ MaxAttempts \in Nat /\ r.attempt \in 0..MaxAttempts /\ call[c].attempt \in 0..MaxAttempts
      /\ OnceInv /\ call \in [Calls -> CallRecord] /\ r.after \subseteq Calls
      /\ options.retryMaxAttempts \in Nat
  <2>1. OnceInv /\ ClientTypeOK
    BY DEF StandInv, OnceInv
  <2> QED
    BY <2>1, CallRecords, OptionTypes, ClientAssumption DEF CallRecord, ClientTypeOK, States
<1>1. PICK q : /\ q \in CallRecord /\ call' = [call EXCEPT ![c] = q]
               /\ q.op = r.op /\ q.after = r.after
               /\ \/ q.state = "rejected" /\ q.attempt = r.attempt /\ q.hedge = r.hedge
                  \/ q.state = "running" /\ q.attempt = n /\ (q.hedge = "armed" => r.op \in Reads)
               /\ q.error # "AlreadyExistsError"
  <2>1. CASE closed /\ ~Hedges(r.op)
    <3> DEFINE q == [r EXCEPT !.state = "rejected", !.error = "Error"]
    <3>1. q \in CallRecord
      BY DEF CallRecord, States, Errors
    <3>2. /\ q.op = r.op /\ q.after = r.after /\ q.state = "rejected" /\ q.attempt = r.attempt
          /\ q.hedge = r.hedge /\ q.error = "Error"
      BY DEF CallRecord
    <3>3. call' = [call EXCEPT ![c] = q]
      BY <2>1 DEF Attempt
    <3> HIDE DEF q
    <3> QED
      BY <3>1, <3>2, <3>3
  <2>2. CASE ~(closed /\ ~Hedges(r.op))
    <3> DEFINE h == IF Hedges(r.op) THEN "armed" ELSE "off"
               q == [r EXCEPT !.state = "running", !.attempt = n, !.hedge = h]
    <3>0. h \in {"off", "armed"} /\ (h = "armed" => r.op \in Reads)
      BY DEF Hedges
    <3>3. call' = [call EXCEPT ![c] = q]
      BY <2>2 DEF Attempt
    <3> HIDE DEF h
    <3>4. n \in 0..MaxAttempts /\ h \in {"off", "armed"} /\ "running" \in States
      BY <1>0, <3>0 DEF States
    <3>1. q \in CallRecord
      BY <3>4 DEF CallRecord
    <3>2. /\ q.op = r.op /\ q.after = r.after /\ q.state = "running" /\ q.attempt = n
          /\ q.hedge = h /\ q.error = r.error
      BY DEF CallRecord
    <3> HIDE DEF q
    <3> QED
      BY <3>0, <3>1, <3>2, <3>3
  <2> QED
    BY <2>1, <2>2
<1>2. Continues(c, q)
  BY <1>0, <1>1 DEF Continues, RecordBounded
<1>3. \A i \in RPCs : \/ rpc'[i] = rpc[i]
                      \/ i[1] = c /\ (RPCEnds(i, q.op) \/ RPCStarts(i))
  <2>1. CASE rpc' = rpc
    BY <2>1
  <2>2. CASE StartRPC(c, n, 1)
    BY <1>0, <2>2, StartedRPC DEF Runs
  <2> QED
    BY <2>1, <2>2 DEF Attempt
<1>4. call'[c] = q /\ \A d \in Calls : d # c => call'[d] = call[d]
  BY <1>0, <1>1
<1>5. SettledQuietFor(c)'
  BY <1>1, <1>4 DEF SettledQuietFor
<1>6. \A d \in q.after : call'[d].state = "resolved"
  BY <1>0, <1>1, <1>4
<1> QED
  BY <1>1, <1>2, <1>3, <1>5, <1>6, StandGoesOn

LEMMA CallerKeepsStand ==
    ASSUME StandInv, OnceInv', NEW c \in Calls, NEW op \in Ops, BeginCall(c, op)
    PROVE  StandInv'
<1>0. /\ OnceInv /\ op \in Ops /\ MaxAttempts \in Nat \ {0} /\ call \in [Calls -> CallRecord]
  BY ClientAssumption DEF StandInv, OnceInv, ClientTypeOK, CallRecord, States
<1>1. /\ call[c].state = "idle" /\ call[c].attempt = 0 /\ effects[c] = {}
      /\ \A i \in RPCs : i[1] = c => rpc[i].gateway = "none"
  <2>1. call[c].state = "idle"
    BY DEF BeginCall, Begin, BeginInvalid, BeginEmpty
  <2>2. call[c].attempt = 0
    BY <1>0, <2>1, CallRecords DEF RecordBounded
  <2>3. 1..call[c].attempt = {}
    BY <2>2
  <2>4. effects[c] = {}
    BY <1>0, <2>3 DEF OnceInv, EffectsBelong
  <2>5. \A i \in RPCs : i[1] = c => ~Started(i)
    BY <1>0, <2>2, ClientAssumption DEF OnceInv, RPCsBelong, Started, RPCs, Attempts
  <2> QED
    BY <2>1, <2>2, <2>4, <2>5 DEF Started
<1>2. CASE Begin(c, op)
  <2> DEFINE r == [Idle EXCEPT !.op = op, !.after = ResolvedCalls]
  <2>1. r \in CallRecord
    BY <1>0, IdleRecord DEF CallRecord, ResolvedCalls
  <2>2. /\ r.attempt = 0 /\ r.hedge = "off" /\ r.state = "idle" /\ r.error = "none"
        /\ r.after = ResolvedCalls
    BY DEF Idle
  <2>3. RecordBounded(r)
    BY <2>1, <2>2 DEF RecordBounded
  <2>4. Attempt(c, r, 1) /\ UNCHANGED <<options, closed, store, effects>>
    BY <1>2 DEF Begin
  <2>5. \A d \in r.after : call[d].state = "resolved"
    BY <2>2 DEF ResolvedCalls
  <2> HIDE DEF r
  <2> QED
    BY <1>0, <1>1, <2>1, <2>2, <2>3, <2>4, <2>5, AttemptKeepsStand
<1>3. ASSUME NEW r, Continues(c, r), call' = [call EXCEPT ![c] = r],
             UNCHANGED <<options, closed, rpc, store, effects>>,
             r.attempt = 0, r.after = {}, r.error # "AlreadyExistsError"
      PROVE  StandInv'
  <2>1. call'[c] = r
    BY <1>0, <1>3
  <2>2. Quiet(c)'
    BY <1>1, <1>3 DEF Quiet
  <2>3. SettledQuietFor(c)'
    BY <1>3, <2>1, <2>2 DEF SettledQuietFor
  <2> QED
    BY <1>1, <1>3, <2>3, StandGoesOn
<1>4. CASE BeginInvalid(c, op)
  <2> DEFINE r == [Idle EXCEPT !.op = op, !.state = "rejected", !.error = "InvalidArgumentError"]
  <2>1. r \in CallRecord
    BY <1>0, IdleRecord DEF CallRecord, States, Errors
  <2>2. /\ r.attempt = 0 /\ r.hedge = "off" /\ r.state = "rejected" /\ r.after = {}
        /\ r.error # "AlreadyExistsError"
    BY DEF Idle
  <2>3. Continues(c, r)
    BY <1>1, <2>1, <2>2 DEF RecordBounded, Continues
  <2>4. call' = [call EXCEPT ![c] = r] /\ UNCHANGED <<options, closed, rpc, store, effects>>
    BY <1>4 DEF BeginInvalid
  <2> HIDE DEF r
  <2> QED
    BY <1>3, <2>2, <2>3, <2>4
<1>5. CASE op = "upsert" /\ BeginEmpty(c)
  <2> DEFINE r == [Idle EXCEPT !.op = "upsert", !.state = "resolved"]
  <2>1. r \in CallRecord
    BY <1>0, <1>5, IdleRecord DEF CallRecord, States, Errors
  <2>2. /\ r.attempt = 0 /\ r.hedge = "off" /\ r.state = "resolved" /\ r.after = {}
        /\ r.error # "AlreadyExistsError"
    BY DEF Idle
  <2>3. Continues(c, r)
    BY <1>1, <2>1, <2>2 DEF RecordBounded, Continues
  <2>4. call' = [call EXCEPT ![c] = r] /\ UNCHANGED <<options, closed, rpc, store, effects>>
    BY <1>5 DEF BeginEmpty
  <2> HIDE DEF r
  <2> QED
    BY <1>3, <2>2, <2>3, <2>4
<1> QED
  BY <1>2, <1>4, <1>5 DEF BeginCall

\* An RPC ends: a write resolves, or finds its collection there, only by the
\* gateway's answer to the one RPC that it has made.
LEMMA EndKeepsStand ==
    ASSUME StandInv, OnceInv', NEW i \in RPCs, NEW code \in Codes \cup {"none", "OK", "NO_POINT"},
           EndRPC(i, code),
           code \in {"OK", "ALREADY_EXISTS"} => rpc[i].gateway = "answered" /\ rpc[i].code = code
    PROVE  StandInv'
<1> DEFINE c == i[1]
<1>0. /\ OnceInv /\ ClientTypeOK /\ c \in Calls /\ rpc \in [RPCs -> RPCState]
      /\ call \in [Calls -> CallRecord] /\ RecordBounded(call[c])
  BY CallRecords DEF StandInv, OnceInv, ClientTypeOK, RPCs, CallRecord, States
<1>1. PICK s, e : /\ Moves(c, code, s, e)
                  /\ Answer(c, code) = [call EXCEPT ![c] = [@ EXCEPT !.state = s, !.error = e]]
  BY <1>0, AnswerMoves
<1> DEFINE r == [call[c] EXCEPT !.state = s, !.error = e]
<1>2. r \in CallRecord
  <2>1. call[c] \in CallRecord /\ s \in States /\ e \in Errors \cup {"none"}
    BY <1>0, <1>1 DEF Moves
  <2> QED
    BY <2>1 DEF CallRecord
<1>3. /\ r.attempt = call[c].attempt /\ r.op = call[c].op /\ r.hedge = call[c].hedge
      /\ r.state = s /\ r.error = e /\ r.after = call[c].after
  BY <1>0 DEF CallRecord
<1>4. call' = [call EXCEPT ![c] = r] /\ UNCHANGED <<options, closed, store, effects>>
  BY <1>0, <1>1 DEF EndRPC, ClientTypeOK
<1>5. call[c].attempt \in Nat
  BY <1>0 DEF CallRecord
<1> HIDE DEF r
<1>6. Continues(c, r)
  BY <1>0, <1>1, <1>2, <1>3, <1>5 DEF Continues, RecordBounded, Moves, IsWrite, Running
<1>7. /\ \A j \in RPCs : j # i => rpc'[j] = rpc[j]
      /\ RPCEnds(i, r.op) /\ Started(i)
  <2>1. rpc'[i] = [client |-> "done", code |-> "none",
                   gateway |-> IF r.op \in Writes THEN rpc[i].gateway ELSE "answered"]
    BY <1>0, <1>3 DEF EndRPC
  <2> QED
    BY <1>0, <2>1 DEF EndRPC, RPCEnds, Started
<1>8. call'[c] = r /\ \A d \in Calls : d # c => call'[d] = call[d]
  BY <1>0, <1>4
<1>9. SettledQuietFor(c)'
  <2>0. SettledQuietFor(c)
    BY <1>0 DEF StandInv, SettledQuiet, SettledQuietFor
  <2>1. r.op \in Writes => \A j \in RPCs : j[1] = c => rpc'[j].gateway = rpc[j].gateway
    BY <1>7 DEF RPCEnds
  <2>2. CASE ~Running(c)
    <3>1. r.state = call[c].state /\ r.error = call[c].error
      BY <1>1, <1>3, <2>2 DEF Moves
    <3> HIDE DEF c
    <3> QED
      BY <1>3, <1>4, <1>8, <2>0, <2>1, <3>1 DEF SettledQuietFor, Quiet, IsWrite
  <2>3. CASE Running(c)
    <3>1. call[c].error # "AlreadyExistsError"
      BY <2>0, <2>3 DEF SettledQuietFor, Running
    <3>2. /\ r.state = "resolved" => code = "OK"
          /\ r.error = "AlreadyExistsError" => code = "ALREADY_EXISTS" /\ r.state = "rejected"
      BY <1>1, <1>3, <2>3, <3>1 DEF Moves
    <3>3. ASSUME r.op \in Writes, code \in {"OK", "ALREADY_EXISTS"}, ~options.retryOnWrites
          PROVE  \A j \in RPCs : j[1] = c => rpc[j].gateway # "pending"
      <4> SUFFICES ASSUME NEW j \in RPCs, j[1] = c, rpc[j].gateway = "pending" PROVE FALSE
        OBVIOUS
      <4>1. Started(j)
        BY DEF Started
      <4>2. i = j
        BY <1>0, <1>3, <1>7, <3>3, <4>1, SoleRPC DEF IsWrite
      <4> QED
        BY <3>3, <4>2
    <3>4. /\ r.op \in Writes /\ code = "OK" => effects[c] # {}
          /\ r.op \in Writes /\ code = "ALREADY_EXISTS" /\ ~options.retryOnWrites => effects[c] = {}
      BY <1>3 DEF StandInv, AnswersTrue, IsWrite
    <3> HIDE DEF c
    <3> QED
      BY <1>3, <1>4, <1>8, <2>1, <3>2, <3>3, <3>4 DEF SettledQuietFor, Quiet, IsWrite
  <2> QED
    BY <2>2, <2>3
<1>10. call[c].state = "resolved" => r.state = "resolved"
  BY <1>1, <1>3 DEF Moves, Running
<1>11. /\ \A d \in r.after : call'[d].state = "resolved"
       /\ effects[c] # {} /\ ~options.retryOnWrites => store.point \notin r.after
  <2>1. /\ \A d \in r.after : call[d].state = "resolved"
        /\ effects[c] # {} /\ ~options.retryOnWrites => store.point \notin r.after
        /\ r.after \subseteq Calls
    BY <1>0, <1>2, <1>3 DEF StandInv, StoreFollows, CallRecord
  <2> QED
    BY <1>8, <1>10, <2>1
<1>12. \A j \in RPCs : \/ rpc'[j] = rpc[j]
                       \/ j[1] = c /\ (RPCEnds(j, r.op) \/ RPCStarts(j))
  BY <1>7
<1> HIDE DEF c
<1> QED
  BY <1>0, <1>4, <1>6, <1>9, <1>10, <1>11, <1>12, StandGoesOn

LEMMA TimersKeepStand ==
    ASSUME StandInv, OnceInv', NEW c \in Calls, HedgeTimer(c) \/ BackoffTimer(c)
    PROVE  StandInv'
<1>0. /\ OnceInv /\ ClientTypeOK /\ call \in [Calls -> CallRecord] /\ RecordBounded(call[c])
      /\ call[c].attempt \in 0..MaxAttempts /\ MaxAttempts \in Nat
  BY CallRecords, ClientAssumption DEF StandInv, OnceInv, ClientTypeOK, CallRecord, States
<1>1. /\ SettledQuietFor(c)
      /\ \A d \in call[c].after : call[d].state = "resolved"
      /\ effects[c] # {} /\ ~options.retryOnWrites => store.point \notin call[c].after
      /\ call[c].after \subseteq Calls
  BY <1>0 DEF StandInv, SettledQuiet, SettledQuietFor, StoreFollows, CallRecord
<1>2. CASE HedgeTimer(c)
  <2> DEFINE r == [call[c] EXCEPT !.hedge = "off"]
  <2>1. r \in CallRecord
    BY <1>0 DEF CallRecord
  <2>2. /\ r.attempt = call[c].attempt /\ r.op = call[c].op /\ r.hedge = "off"
        /\ r.state = call[c].state /\ r.error = call[c].error /\ r.after = call[c].after
    BY <1>0 DEF CallRecord
  <2>3. call' = [call EXCEPT ![c] = r] /\ UNCHANGED <<options, closed, store, effects>>
    BY <1>0, <1>2 DEF HedgeTimer, ClientTypeOK
  <2>4. ~IsWrite(c) /\ r.op \notin Writes
    BY <1>0, <1>2, <2>2 DEF HedgeTimer, RecordBounded, IsWrite, Reads, Writes
  <2> HIDE DEF r
  <2>5. Continues(c, r)
    BY <1>0, <2>1, <2>2 DEF Continues, RecordBounded
  <2>6. \A i \in RPCs : \/ rpc'[i] = rpc[i]
                        \/ i[1] = c /\ (RPCEnds(i, r.op) \/ RPCStarts(i))
    <3>1. CASE rpc' = rpc
      BY <3>1
    <3>2. CASE StartRPC(c, call[c].attempt, 2)
      <4>1. CASE call[c].attempt \in 1..MaxAttempts
        BY <1>0, <2>4, <3>2, <4>1, StartedRPC DEF Runs
      <4>2. CASE call[c].attempt \notin 1..MaxAttempts
        <5>1. call[c].attempt = 0
          BY <1>0, <4>2
        <5>2. \A i \in RPCs : i # <<c, call[c].attempt, 2>>
          BY <1>0, <5>1 DEF RPCs, Attempts
        <5>3. \A i \in RPCs : rpc'[i] = rpc[i]
          BY <1>0, <3>2, <5>2 DEF StartRPC, ClientTypeOK
        <5> QED
          BY <5>3
      <4> QED
        BY <4>1, <4>2
    <3> QED
      BY <1>2, <3>1, <3>2 DEF HedgeTimer
  <2>7. call'[c] = r /\ \A d \in Calls : d # c => call'[d] = call[d]
    BY <1>0, <2>3
  <2>8. SettledQuietFor(c)'
    BY <1>1, <2>2, <2>4, <2>7 DEF SettledQuietFor, IsWrite
  <2>9. \A d \in r.after : call'[d].state = "resolved"
    BY <1>1, <2>2, <2>7
  <2> QED
    BY <1>1, <2>2, <2>3, <2>5, <2>6, <2>8, <2>9, StandGoesOn
<1>3. CASE BackoffTimer(c)
  <2> DEFINE n == call[c].attempt + 1
  <2>1. /\ call[c].state = "backoff" /\ call[c].attempt < options.retryMaxAttempts
        /\ call[c].op \in Writes => options.retryOnWrites
    BY <1>0, <1>3 DEF BackoffTimer, RecordBounded
  <2>2. options.retryMaxAttempts \in 0..MaxAttempts
    BY <1>0, OptionTypes
  <2>3. n \in 1..MaxAttempts /\ n <= options.retryMaxAttempts /\ call[c].attempt < n
    BY <1>0, <2>1, <2>2
  <2>4. Attempt(c, call[c], n) /\ UNCHANGED <<options, closed, store, effects>>
    BY <1>3 DEF BackoffTimer
  <2>5. call[c].error # "AlreadyExistsError"
    BY <1>1, <2>1 DEF SettledQuietFor
  <2>6. call[c] \in CallRecord /\ call[c].attempt <= call[c].attempt
    BY <1>0
  <2> HIDE DEF n
  <2> QED
    BY <1>0, <1>1, <2>1, <2>3, <2>4, <2>5, <2>6, AttemptKeepsStand
<1> QED
  BY <1>2, <1>3

\* The gateway refuses an RPC: it has not carried it out.
LEMMA RefuseKeepsStand ==
    ASSUME StandInv, NEW i \in RPCs, NEW code \in Codes, Refuse(i, code), OnceInv'
    PROVE  StandInv'
<1> DEFINE c == i[1]
<1>0. OnceInv /\ c \in Calls /\ rpc \in [RPCs -> RPCState]
  BY DEF StandInv, OnceInv, ClientTypeOK, RPCs
<1>1. /\ rpc[i].gateway = "pending" /\ Started(i)
      /\ UNCHANGED <<options, closed, call, store, effects>>
  BY DEF Refuse, Started
<1>2. /\ \A j \in RPCs : j # i => rpc'[j] = rpc[j]
      /\ rpc'[i].gateway = "answered" /\ rpc'[i].code = code /\ code # "OK"
  BY <1>0 DEF Refuse, AnswerRPC, Codes
<1>3. IsWrite(c) /\ ~options.retryOnWrites => effects[c] = {}
  <2> SUFFICES ASSUME IsWrite(c), ~options.retryOnWrites, NEW t \in effects[c] PROVE FALSE
    OBVIOUS
  <2>1. call[c].attempt \in Nat /\ call[c].attempt <= 1 /\ MaxAttempts \in Nat
    BY <1>0, CallRecords, ClientAssumption DEF RecordBounded, CallRecord, IsWrite
  <2>2. i[2] \in 1..MaxAttempts /\ i[2] <= call[c].attempt /\ i[3] = 1
    BY <1>0, <1>1 DEF OnceInv, RPCsBelong, Started, RPCs, Attempts
  <2>3. t \in (1..call[c].attempt) \X {1}
    BY <1>0 DEF OnceInv, EffectsBelong
  <2>4. t = <<i[2], i[3]>>
    BY <2>1, <2>2, <2>3
  <2> QED
    BY <1>1, <2>4 DEF StandInv, AnswersTrue
<1>4. AnswersTrue'
  <2>0. AnswersTrue
    BY DEF StandInv
  <2> SUFFICES ASSUME NEW j \in RPCs
               PROVE  /\ rpc'[j].code # "none" => rpc'[j].gateway = "answered"
                      /\ <<j[2], j[3]>> \in effects[j[1]] => rpc'[j].gateway = "answered"
                      /\ IsWrite(j[1]) =>
                            /\ rpc'[j].code = "OK" => effects[j[1]] # {}
                            /\ rpc'[j].code = "ALREADY_EXISTS" /\ ~options.retryOnWrites =>
                                   effects[j[1]] = {}
    BY <1>1 DEF AnswersTrue, IsWrite
  <2>1. CASE j = i
    BY <1>2, <1>3, <2>1
  <2>2. CASE j # i
    BY <1>2, <2>0, <2>2 DEF AnswersTrue
  <2> QED
    BY <2>1, <2>2
<1>5. SettledQuiet'
  <2>1. \A d \in Calls : Quiet(d) => Quiet(d)'
    BY <1>2 DEF Quiet
  <2> QED
    BY <1>1, <2>1 DEF StandInv, SettledQuiet, IsWrite
<1>6. StoreFollows'
  BY <1>1 DEF StandInv, StoreFollows
<1> QED
  BY <1>4, <1>5, <1>6 DEF StandInv

\* The gateway carries an RPC out: a write's caller still waits for it or has given
\* it up, and nobody has been told that it has returned.
LEMMA ExecuteKeepsStand ==
    ASSUME StandInv, NEW i \in RPCs, NEW code \in {"OK", "UNAVAILABLE"}, Execute(i, code), OnceInv'
    PROVE  StandInv'
<1> DEFINE c == i[1]
           op == call[c].op
<1>0. /\ OnceInv /\ c \in Calls /\ rpc \in [RPCs -> RPCState]
      /\ effects \in [Calls -> SUBSET (Attempts \X Runs)]
      /\ store \in [collection : Calls \cup {None, Other}, point : Calls \cup {None}]
      /\ call \in [Calls -> CallRecord]
      /\ i = <<c, i[2], i[3]>>
  BY DEF StandInv, OnceInv, ClientTypeOK, RPCs, CallRecord, States
<1>1. rpc[i].gateway = "pending" /\ Started(i) /\ UNCHANGED <<options, closed, call>>
  BY DEF Execute, Started
<1>2. /\ \A j \in RPCs : j # i => rpc'[j] = rpc[j]
      /\ rpc'[i].gateway = "answered"
      /\ rpc'[i].code # "ALREADY_EXISTS"
  <2> DEFINE b == IF op = "get" /\ code = "OK" /\ store.point = None THEN "NO_POINT" ELSE code
  <2>1. AnswerRPC(i, b)
    BY DEF Execute
  <2>2. b # "ALREADY_EXISTS"
    OBVIOUS
  <2> HIDE DEF b
  <2> QED
    BY <1>0, <2>1, <2>2 DEF AnswerRPC
<1>3. \A d \in Calls : Quiet(d) => Quiet(d)'
  BY <1>2 DEF Quiet
<1>4. CASE ~IsWrite(c)
  <2>1. store' = store /\ effects' = effects
    BY <1>0, <1>4 DEF Execute, IsWrite, Writes
  <2>2. AnswersTrue'
    <3> SUFFICES ASSUME NEW j \in RPCs
                 PROVE  /\ rpc'[j].code # "none" => rpc'[j].gateway = "answered"
                        /\ <<j[2], j[3]>> \in effects[j[1]] => rpc'[j].gateway = "answered"
                        /\ IsWrite(j[1]) =>
                              /\ rpc'[j].code = "OK" => effects[j[1]] # {}
                              /\ rpc'[j].code = "ALREADY_EXISTS" /\ ~options.retryOnWrites =>
                                     effects[j[1]] = {}
      BY <1>1, <2>1 DEF AnswersTrue, IsWrite
    <3>1. CASE j = i
      BY <1>2, <1>4, <3>1
    <3>2. CASE j # i
      BY <1>2, <3>2 DEF StandInv, AnswersTrue
    <3> QED
      BY <3>1, <3>2
  <2>3. SettledQuiet'
    BY <1>1, <1>3, <2>1 DEF StandInv, SettledQuiet, IsWrite
  <2>4. StoreFollows'
    BY <1>1, <2>1 DEF StandInv, StoreFollows
  <2> QED
    BY <2>2, <2>3, <2>4 DEF StandInv
<1>5. CASE IsWrite(c)
  <2>1. \A d \in Calls : effects'[d] = IF d = c THEN effects[d] \cup {<<i[2], i[3]>>} ELSE effects[d]
    BY <1>0, <1>5 DEF Execute, IsWrite
  <2>2. /\ store'.collection = IF op = "createCollection" THEN c ELSE store.collection
        /\ store'.point = IF op = "createCollection" THEN store.point ELSE c
        /\ op = "createCollection" => store.collection = None
        /\ op # "createCollection" => store.collection # None
    <3>1. op \in {"createCollection", "upsert", "delete"}
      BY <1>5 DEF IsWrite, Writes
    <3>2. store' = IF op = "createCollection" THEN [store EXCEPT !.collection = c]
                                             ELSE [store EXCEPT !.point = c]
      BY <3>1 DEF Execute
    <3>3. /\ op = "createCollection" => store.collection = None
          /\ op # "createCollection" => store.collection # None
      BY DEF Execute
    <3> HIDE DEF op, c
    <3> QED
      BY <1>0, <3>2, <3>3
  <2>3. ~options.retryOnWrites => /\ call[c].state # "resolved"
                                  /\ call[c].error # "AlreadyExistsError"
    <3>1. ~Quiet(c)
      BY <1>1 DEF Quiet
    <3> QED
      BY <1>0, <1>5, <3>1 DEF StandInv, SettledQuiet
  <2>4. AnswersTrue'
    <3> SUFFICES ASSUME NEW j \in RPCs
                 PROVE  /\ rpc'[j].code # "none" => rpc'[j].gateway = "answered"
                        /\ <<j[2], j[3]>> \in effects'[j[1]] => rpc'[j].gateway = "answered"
                        /\ IsWrite(j[1]) =>
                              /\ rpc'[j].code = "OK" => effects'[j[1]] # {}
                              /\ rpc'[j].code = "ALREADY_EXISTS" /\ ~options.retryOnWrites =>
                                     effects'[j[1]] = {}
      BY <1>1 DEF AnswersTrue, IsWrite
    <3>0. j[1] \in Calls /\ j = <<j[1], j[2], j[3]>>
      BY DEF RPCs
    <3>1. CASE j = i
      BY <1>0, <1>2, <2>1, <3>1
    <3>2. CASE j # i /\ j[1] # c
      BY <1>2, <2>1, <3>0, <3>2 DEF StandInv, AnswersTrue
    <3>3. CASE j # i /\ j[1] = c
      <4>1. rpc'[j] = rpc[j] /\ effects'[c] = effects[c] \cup {<<i[2], i[3]>>}
        BY <1>0, <1>2, <2>1, <3>3
      <4>2. <<j[2], j[3]>> # <<i[2], i[3]>>
        BY <1>0, <3>0, <3>3
      <4>3. ~options.retryOnWrites => rpc[j].code = "none"
        <5> SUFFICES ASSUME ~options.retryOnWrites, rpc[j].code # "none" PROVE FALSE
          OBVIOUS
        <5>1. Started(j)
          BY DEF StandInv, AnswersTrue, Started
        <5> QED
          BY <1>0, <1>1, <1>5, <3>3, <5>1, SoleRPC
      <4> QED
        BY <3>3, <4>1, <4>2, <4>3 DEF StandInv, AnswersTrue
    <3> QED
      BY <3>1, <3>2, <3>3
  <2>5. SettledQuiet'
    <3> SUFFICES ASSUME NEW d \in Calls PROVE SettledQuietFor(d)'
      BY DEF SettledQuiet, SettledQuietFor
    <3>1. SettledQuietFor(d)
      BY DEF StandInv, SettledQuiet, SettledQuietFor
    <3>2. CASE d # c
      BY <1>1, <1>3, <2>1, <3>1, <3>2 DEF SettledQuietFor, IsWrite
    <3>3. CASE d = c
      <4>1. effects'[c] # {}
        BY <1>0, <2>1
      <4> QED
        BY <1>1, <1>3, <2>3, <3>1, <3>3, <4>1 DEF SettledQuietFor, IsWrite
    <3> QED
      BY <3>2, <3>3
  <2>6. StoreFollows'
    <3>0. StoreFollows
      BY DEF StandInv
    <3>1. c # None
      BY <1>0, ClientAssumption
    <3>2. store'.collection = None => store'.point = None
      BY <2>2, <3>0, <3>1 DEF StoreFollows
    <3>3. \A d \in Calls : store'.collection = d \/ store'.point = d => effects'[d] # {}
      BY <2>1, <2>2, <3>0 DEF StoreFollows
    <3>4. \A d \in Calls : effects'[d] # {} /\ ~options.retryOnWrites =>
                               store'.point \notin call[d].after
      <4> SUFFICES ASSUME NEW d \in Calls, effects'[d] # {}, ~options.retryOnWrites
                   PROVE  store'.point \notin call[d].after
        OBVIOUS
      <4>1. call[d].after \subseteq Calls
        BY <1>0 DEF CallRecord
      <4>2. c \notin call[d].after
        BY <2>3, <3>0 DEF StoreFollows
      <4>3. CASE op = "createCollection"
        <5>1. store'.point = None
          BY <2>2, <3>0, <4>3 DEF StoreFollows
        <5> QED
          BY <4>1, <5>1, ClientAssumption
      <4>4. CASE op # "createCollection"
        BY <2>2, <4>2, <4>4
      <4> QED
        BY <4>3, <4>4
    <3>5. \A d \in Calls : \A f \in call[d].after : call[f].state = "resolved"
      BY <3>0 DEF StoreFollows
    <3> QED
      BY <1>1, <3>2, <3>3, <3>4, <3>5 DEF StoreFollows
  <2> QED
    BY <2>4, <2>5, <2>6 DEF StandInv
<1> QED
  BY <1>4, <1>5

\* Every step of the client and the gateway keeps StandInv.
LEMMA StandInductive == StandInv /\ [AnyClientStep]_clientVars => StandInv'
<1> SUFFICES ASSUME StandInv, [AnyClientStep]_clientVars PROVE StandInv'
  OBVIOUS
<1>0. OnceInv'
  BY OnceInductive DEF StandInv
<1>1. CASE \E c \in Calls : \E op \in Ops : BeginCall(c, op)
  BY <1>0, <1>1, CallerKeepsStand
<1>2. CASE Close
  <2>1. UNCHANGED <<options, call, rpc, store, effects>>
    BY <1>2 DEF Close
  <2> QED
    BY <1>0, <2>1 DEF StandInv, AnswersTrue, SettledQuiet, StoreFollows, Quiet, IsWrite
<1>3. ASSUME NEW i \in RPCs, Deliver(i) \/ Break(i) \/ Deadline(i) PROVE StandInv'
  <2>1. rpc[i].code \in Codes \cup {"none", "OK", "NO_POINT"}
    BY DEF StandInv, OnceInv, ClientTypeOK, RPCState
  <2>2. "UNAVAILABLE" \in Codes /\ "DEADLINE_EXCEEDED" \in Codes
    BY DEF Codes
  <2>3. CASE Deliver(i)
    BY <1>0, <2>1, <2>3, EndKeepsStand DEF Deliver
  <2>4. CASE Break(i)
    BY <1>0, <2>2, <2>4, EndKeepsStand DEF Break
  <2>5. CASE Deadline(i)
    BY <1>0, <2>2, <2>5, EndKeepsStand DEF Deadline
  <2> QED
    BY <1>3, <2>3, <2>4, <2>5
<1>4. ASSUME NEW i \in RPCs,
             \/ \E code \in {"OK", "UNAVAILABLE"} : Execute(i, code)
             \/ \E code \in Codes : Refuse(i, code)
      PROVE  StandInv'
  BY <1>0, <1>4, ExecuteKeepsStand, RefuseKeepsStand
<1>5. CASE \E c \in Calls : HedgeTimer(c) \/ BackoffTimer(c)
  BY <1>0, <1>5, TimersKeepStand
<1>6. CASE UNCHANGED clientVars
  BY <1>0, <1>6 DEF clientVars, StandInv, AnswersTrue, SettledQuiet, StoreFollows, Quiet, IsWrite
<1> QED
  BY <1>1, <1>2, <1>3, <1>4, <1>5, <1>6 DEF AnyClientStep, ClientStep

LEMMA StandInitially == ClientInit => StandInv
<1> SUFFICES ASSUME ClientInit PROVE StandInv
  OBVIOUS
<1>1. /\ \A c \in Calls : call[c] = Idle /\ effects[c] = {}
      /\ \A i \in RPCs : rpc[i] = NoRPC /\ i[1] \in Calls
      /\ store.point = None /\ store.collection \in {None, Other}
  BY DEF ClientInit, RPCs
<1>2. /\ Idle.state = "idle" /\ Idle.error = "none" /\ Idle.after = {}
      /\ NoRPC.code = "none"
  BY DEF Idle, NoRPC
<1>3. AnswersTrue /\ SettledQuiet /\ StoreFollows
  BY <1>1, <1>2, ClientAssumption DEF AnswersTrue, SettledQuiet, StoreFollows
<1> QED
  BY <1>3, OnceInitially DEF StandInv

LEMMA StandImplies == StandInv => ResolvedWritesStand /\ NoConflictWithItself
<1> SUFFICES ASSUME StandInv PROVE ResolvedWritesStand /\ NoConflictWithItself
  OBVIOUS
<1>1. ResolvedWritesStand
  BY DEF StandInv, SettledQuiet, StoreFollows, ResolvedWritesStand, IsWrite
<1>2. NoConflictWithItself
  <2>1. \A c \in Calls : ~IsWrite(c) => effects[c] = {}
    BY DEF StandInv, OnceInv, EffectsBelong
  <2> QED
    BY <2>1 DEF StandInv, SettledQuiet, StoreFollows, NoConflictWithItself
<1> QED
  BY <1>1, <1>2

LEMMA StandAlways == ClientSpec => []StandInv
BY StandInitially, StandInductive, CallersAsk, PTL DEF ClientSpec

\* A write whose promise has resolved was carried out, and without retryOnWrites no
\* write that had returned before it was made comes after it (upsert, delete and
\* createCollection through callWithRetry).
THEOREM WritesThatReturnStand == ClientSpec => []ResolvedWritesStand
BY StandAlways, StandImplies, PTL

\* Without retryOnWrites, createCollection is not told that the collection exists
\* because of itself.
THEOREM CreationIsNotItsOwnConflict == ClientSpec => []NoConflictWithItself
BY StandAlways, StandImplies, PTL

----------------------------------------------------------------------------
(* Sums.                                                                   *)

LEMMA SumsRecursion ==
    ASSUME NEW s \in Seq(Int)
    PROVE  /\ Sums(s) \in [0..Len(s) -> Int] /\ Sums(s)[0] = 0
           /\ \A n \in 1..Len(s) : Sums(s)[n] = Sums(s)[n - 1] + s[n]
<1> DEFINE N == Len(s)
           g == [n \in 1..N |-> [x \in Int |-> x + s[n]]]
           P(h) == h = [n \in 0..N |-> IF n = 0 THEN 0 ELSE h[n - 1] + s[n]]
<1>1. N \in Nat /\ 0 \in Int /\ \A n \in 1..N : s[n] \in Int
  OBVIOUS
<1>2. g \in [1..N -> [Int -> Int]] /\ \A n \in 1..N : \A x \in Int : g[n][x] = x + s[n]
  BY <1>1
<1> HIDE DEF N, g
<1>3. PICK f : Iterates(f, N, Int, 0, g)
  BY <1>1, <1>2, IterationExists, Zenon
<1>4. f \in [0..N -> Int] /\ f[0] = 0 /\ \A n \in 1..N : f[n - 1] \in Int /\ f[n] = f[n - 1] + s[n]
  <2>0. f \in [0..N -> Int] /\ f[0] = 0 /\ \A n \in 1..N : f[n] = g[n][f[n - 1]]
    BY <1>3 DEF Iterates
  <2> SUFFICES ASSUME NEW n \in 1..N PROVE f[n - 1] \in Int /\ f[n] = f[n - 1] + s[n]
    BY <2>0
  <2>1. f[n - 1] \in Int
    BY <1>1, <2>0
  <2> QED
    BY <1>2, <2>0, <2>1
<1>5. P(f)
  BY <1>1, <1>4
<1>6. P(Sums(s))
  <2>1. Sums(s) = CHOOSE h : P(h)
    BY DEF Sums, N
  <2>2. \E h : P(h)
    BY <1>5
  <2> QED
    BY <2>1, <2>2, Zenon
<1>7. \A n \in 0..N : Sums(s)[n] = IF n = 0 THEN 0 ELSE Sums(s)[n - 1] + s[n]
  BY <1>6
<1>8. \A n \in 0..N : Sums(s)[n] = f[n]
  <2>1. Sums(s)[0] = f[0]
    BY <1>1, <1>4, <1>7
  <2>2. \A n \in 1..N : Sums(s)[n - 1] = f[n - 1] => Sums(s)[n] = f[n]
    BY <1>1, <1>4, <1>7
  <2> QED
    BY <1>1, <2>1, <2>2, RecursionUnique, ZenonT(60)
<1>9. DOMAIN Sums(s) = 0..N /\ Sums(s) = [n \in 0..N |-> Sums(s)[n]]
  BY <1>6
<1>10. Sums(s) \in [0..N -> Int]
  BY <1>4, <1>8, <1>9
<1>11. \A n \in 1..N : Sums(s)[n] = Sums(s)[n - 1] + s[n]
  BY <1>1, <1>7
<1>12. Sums(s)[0] = 0
  BY <1>1, <1>7
<1> QED
  BY <1>10, <1>11, <1>12 DEF N

LEMMA TotalGrows ==
    ASSUME NEW s \in Seq(Int), NEW x \in Int
    PROVE  Total(Append(s, x)) = Total(s) + x /\ Total(s) \in Int
<1> DEFINE t == Append(s, x)
<1>1. /\ t \in Seq(Int) /\ Len(t) = Len(s) + 1 /\ t[Len(s) + 1] = x /\ Len(s) \in Nat
      /\ \A n \in 1..Len(s) : t[n] = s[n]
  OBVIOUS
<1> HIDE DEF t
<1>2. /\ Sums(s) \in [0..Len(s) -> Int] /\ Sums(s)[0] = 0
      /\ \A n \in 1..Len(s) : Sums(s)[n] = Sums(s)[n - 1] + s[n]
  BY SumsRecursion
<1>3. /\ Sums(t) \in [0..Len(t) -> Int] /\ Sums(t)[0] = 0
      /\ \A n \in 1..Len(t) : Sums(t)[n] = Sums(t)[n - 1] + t[n]
  BY <1>1, SumsRecursion
<1>4. \A n \in 0..Len(s) : Sums(t)[n] = Sums(s)[n]
  <2>1. \A n \in 1..Len(s) : Sums(t)[n - 1] = Sums(s)[n - 1] => Sums(t)[n] = Sums(s)[n]
    BY <1>1, <1>2, <1>3
  <2>2. Sums(t)[0] = Sums(s)[0]
    BY <1>2, <1>3
  <2> QED
    BY <1>1, <2>1, <2>2, RecursionUnique, ZenonT(60)
<1>5. Sums(t)[Len(s)] = Sums(s)[Len(s)] /\ Sums(s)[Len(s)] \in Int
  BY <1>1, <1>2, <1>4
<1>6. Sums(t)[Len(s) + 1] = Sums(t)[Len(s)] + x
  <2>1. Len(s) + 1 \in 1..Len(t) /\ (Len(s) + 1) - 1 = Len(s)
    BY <1>1
  <2> QED
    BY <1>1, <1>3, <2>1
<1> QED
  BY <1>1, <1>5, <1>6 DEF Total, t

LEMMA TotalOfNone == Total(<<>>) = 0
<1>1. <<>> \in Seq(Int) /\ Len(<<>>) = 0
  OBVIOUS
<1> QED
  BY <1>1, SumsRecursion DEF Total

\* The sum of F over a sequence grows with F of what is appended.
LEMMA MappedTotalGrows ==
    ASSUME NEW S, NEW F \in [S -> Int], NEW a \in Seq(S), NEW p \in S
    PROVE  /\ Total([i \in 1..Len(a) |-> F[a[i]]]) \in Int
           /\ Total([i \in 1..Len(Append(a, p)) |-> F[Append(a, p)[i]]]) =
                  Total([i \in 1..Len(a) |-> F[a[i]]]) + F[p]
<1> DEFINE s == [i \in 1..Len(a) |-> F[a[i]]]
           t == [i \in 1..Len(Append(a, p)) |-> F[Append(a, p)[i]]]
<1>1. /\ Append(a, p) \in Seq(S) /\ Len(Append(a, p)) = Len(a) + 1 /\ Len(a) \in Nat
      /\ Append(a, p)[Len(a) + 1] = p
      /\ \A i \in 1..Len(a) : Append(a, p)[i] = a[i] /\ F[a[i]] \in Int
  OBVIOUS
<1>2. s \in [1..Len(a) -> Int] /\ F[p] \in Int
  BY <1>1
<1>3. s \in Seq(Int) /\ Len(s) = Len(a)
  <2>1. s \in Seq(Int)
    BY <1>1, <1>2
  <2> QED
    BY <1>1, <2>1
<1>4. /\ DOMAIN t = 1..(Len(a) + 1)
      /\ \A i \in 1..(Len(a) + 1) : t[i] = IF i <= Len(a) THEN s[i] ELSE F[p]
  BY <1>1
<1> HIDE DEF s
<1>5. /\ DOMAIN Append(s, F[p]) = 1..(Len(a) + 1)
      /\ \A i \in 1..(Len(a) + 1) : Append(s, F[p])[i] = IF i <= Len(a) THEN s[i] ELSE F[p]
  BY <1>1, <1>2, <1>3
<1>6. t = Append(s, F[p])
  <2>1. t = [i \in 1..(Len(a) + 1) |-> t[i]]
    BY <1>4
  <2>2. Append(s, F[p]) = [i \in 1..(Len(a) + 1) |-> Append(s, F[p])[i]]
    BY <1>3, <1>5
  <2> HIDE DEF t
  <2> QED
    BY <1>4, <1>5, <2>1, <2>2
<1> HIDE DEF t
<1>7. Total(t) = Total(s) + F[p] /\ Total(s) \in Int
  BY <1>2, <1>3, <1>6, TotalGrows
<1> QED
  BY <1>7 DEF s, t

\* upsertBatch's estimate of a batch grows with the point that joins it.
LEMMA BytesGrow ==
    ASSUME NEW b \in Seq(PointType), NEW p \in PointType
    PROVE  Bytes(b) \in Int /\ Bytes(Append(b, p)) = Bytes(b) + p.bytes
<1> DEFINE F == [q \in PointType |-> q.bytes]
<1>1. F \in [PointType -> Int] /\ F[p] = p.bytes
  BY DEF PointType
<1>2. \A a \in Seq(PointType) : Bytes(a) = Total([i \in 1..Len(a) |-> F[a[i]]])
  <2> SUFFICES ASSUME NEW a \in Seq(PointType)
               PROVE  [i \in 1..Len(a) |-> a[i].bytes] = [i \in 1..Len(a) |-> F[a[i]]]
    BY DEF Bytes
  <2>1. \A i \in 1..Len(a) : F[a[i]] = a[i].bytes
    OBVIOUS
  <2> QED
    BY <2>1
<1>3. Append(b, p) \in Seq(PointType)
  OBVIOUS
<1> HIDE DEF F
<1>4. /\ Total([i \in 1..Len(b) |-> F[b[i]]]) \in Int
      /\ Total([i \in 1..Len(Append(b, p)) |-> F[Append(b, p)[i]]]) =
             Total([i \in 1..Len(b) |-> F[b[i]]]) + F[p]
  BY <1>1, MappedTotalGrows, ZenonT(60)
<1>5. /\ Bytes(b) = Total([i \in 1..Len(b) |-> F[b[i]]])
      /\ Bytes(Append(b, p)) = Total([i \in 1..Len(Append(b, p)) |-> F[Append(b, p)[i]]])
  BY <1>2, <1>3, Zenon
<1> QED
  BY <1>1, <1>4, <1>5, Zenon

\* So does the number of points in all batches with a batch.
LEMMA CountGrows ==
    ASSUME NEW P, NEW bs \in Seq(Seq(P)), NEW b \in Seq(P)
    PROVE  Count(bs) \in Int /\ Count(Append(bs, b)) = Count(bs) + Len(b)
<1> DEFINE F == [q \in Seq(P) |-> Len(q)]
<1>1. F \in [Seq(P) -> Int] /\ F[b] = Len(b)
  OBVIOUS
<1>2. \A a \in Seq(Seq(P)) : Count(a) = Total([i \in 1..Len(a) |-> F[a[i]]])
  <2> SUFFICES ASSUME NEW a \in Seq(Seq(P))
               PROVE  [i \in 1..Len(a) |-> Len(a[i])] = [i \in 1..Len(a) |-> F[a[i]]]
    BY DEF Count
  <2>1. \A i \in 1..Len(a) : F[a[i]] = Len(a[i])
    OBVIOUS
  <2> QED
    BY <2>1
<1>3. Append(bs, b) \in Seq(Seq(P))
  OBVIOUS
<1> HIDE DEF F
<1>4. /\ Total([i \in 1..Len(bs) |-> F[bs[i]]]) \in Int
      /\ Total([i \in 1..Len(Append(bs, b)) |-> F[Append(bs, b)[i]]]) =
             Total([i \in 1..Len(bs) |-> F[bs[i]]]) + F[b]
  BY <1>1, MappedTotalGrows, ZenonT(60)
<1>5. /\ Count(bs) = Total([i \in 1..Len(bs) |-> F[bs[i]]])
      /\ Count(Append(bs, b)) = Total([i \in 1..Len(Append(bs, b)) |-> F[Append(bs, b)[i]]])
  BY <1>2, <1>3, Zenon
<1> QED
  BY <1>1, <1>4, <1>5, Zenon

----------------------------------------------------------------------------
(* FlattenSeq.                                                             *)

\* h[n] is the first n batches of s, joined.
Joins(h, s, P) ==
    /\ h \in [0..Len(s) -> Seq(P)] /\ h[0] = <<>>
    /\ \A n \in 1..Len(s) : h[n] = h[n - 1] \o s[n]

LEMMA JoinsExist ==
    ASSUME NEW P, NEW s \in Seq(Seq(P))
    PROVE  \E h : Joins(h, s, P)
<1> DEFINE N == Len(s)
           g == [n \in 1..N |-> [x \in Seq(P) |-> x \o s[n]]]
<1>1. N \in Nat /\ <<>> \in Seq(P) /\ \A n \in 1..N : s[n] \in Seq(P)
  OBVIOUS
<1>2. /\ g \in [1..N -> [Seq(P) -> Seq(P)]]
      /\ \A n \in 1..N : \A x \in Seq(P) : g[n][x] = x \o s[n]
  BY <1>1
<1> HIDE DEF N, g
<1>3. PICK f : Iterates(f, N, Seq(P), <<>>, g)
  BY <1>1, <1>2, IterationExists, Zenon
<1>4. f \in [0..N -> Seq(P)] /\ f[0] = <<>> /\ \A n \in 1..N : f[n] = g[n][f[n - 1]]
  BY <1>3 DEF Iterates
<1>5. ASSUME NEW n \in 1..N PROVE f[n] = f[n - 1] \o s[n]
  <2>1. n - 1 \in 0..N
    BY <1>1
  <2> QED
    BY <1>2, <1>4, <2>1
<1>6. Joins(f, s, P)
  BY <1>4, <1>5 DEF Joins, N
<1> QED
  BY <1>6

LEMMA FlattenJoins ==
    ASSUME NEW P, NEW s \in Seq(Seq(P)), NEW f, Joins(f, s, P)
    PROVE  FlattenSeq(s) = f[Len(s)] /\ FlattenSeq(s) \in Seq(P)
<1> DEFINE N == Len(s)
           G(h) == h = [i \in 1..N |-> IF i = 1 THEN s[i] ELSE h[i - 1] \o s[i]]
           t == CHOOSE h : G(h)
<1>1. N \in Nat /\ \A n \in 1..N : s[n] \in Seq(P)
  OBVIOUS
<1>2. /\ f \in [0..N -> Seq(P)] /\ f[0] = <<>>
      /\ \A n \in 1..N : f[n] = f[n - 1] \o s[n]
  BY DEF Joins
<1> HIDE DEF N
<1>3. CASE N = 0
  <2>1. FlattenSeq(s) = s /\ s = <<>>
    BY <1>3 DEF FlattenSeq, N
  <2> QED
    BY <1>2, <1>3, <2>1 DEF N
<1>4. CASE N # 0
  <2>1. FlattenSeq(s) = t[N]
    BY <1>4 DEF FlattenSeq, N
  <2>2. G([i \in 1..N |-> f[i]])
    <3>1. N >= 1 => f[1] = s[1]
      <4>1. ASSUME N >= 1 PROVE f[1] = f[0] \o s[1] /\ s[1] \in Seq(P)
        <5>1. 1 \in 1..N /\ 1 - 1 = 0
          BY <1>1, <4>1
        <5> QED
          BY <1>1, <1>2, <5>1
      <4> QED
        BY <1>2, <4>1
    <3>2. ASSUME NEW i \in 1..N
          PROVE  f[i] = IF i = 1 THEN s[i] ELSE [k \in 1..N |-> f[k]][i - 1] \o s[i]
      <4>1. CASE i = 1
        BY <1>1, <3>1, <4>1
      <4>2. CASE i # 1
        <5>1. i - 1 \in 1..N
          BY <1>1, <4>2
        <5> QED
          BY <1>2, <4>2, <5>1
      <4> QED
        BY <4>1, <4>2
    <3> QED
      BY <3>2
  <2>3. G(t)
    <3>1. \E h : G(h)
      BY <2>2
    <3> QED
      BY <3>1, Zenon
  <2>4. \A i \in 1..N : t[i] = IF i = 1 THEN s[i] ELSE t[i - 1] \o s[i]
    BY <2>3
  <2> DEFINE u == [n \in 0..N |-> IF n = 0 THEN <<>> ELSE t[n]]
  <2>5. u[0] = f[0]
    BY <1>1, <1>2
  <2> HIDE DEF t, G
  <2>6. \A n \in 1..N : u[n - 1] = f[n - 1] => u[n] = f[n]
    <3> SUFFICES ASSUME NEW n \in 1..N, u[n - 1] = f[n - 1] PROVE u[n] = f[n]
      OBVIOUS
    <3>0. n \in 0..N /\ n # 0
      BY <1>1
    <3>1. u[n] = t[n] /\ f[n] = f[n - 1] \o s[n] /\ s[n] \in Seq(P)
      BY <1>1, <1>2, <3>0, Zenon
    <3>2. CASE n = 1
      <4>1. t[n] = s[n] /\ f[n - 1] = <<>>
        BY <1>2, <2>4, <3>2
      <4> QED
        BY <3>1, <4>1
    <3>3. CASE n # 1
      <4>1. t[n] = t[n - 1] \o s[n]
        BY <2>4, <3>3
      <4>2. u[n - 1] = t[n - 1]
        BY <1>1, <3>3
      <4> QED
        BY <3>1, <4>1, <4>2
    <3> QED
      BY <3>2, <3>3
  <2> HIDE DEF u
  <2>7. \A n \in 0..N : u[n] = f[n]
    BY <1>1, <2>5, <2>6, RecursionUnique, ZenonT(60)
  <2>8. u[N] = t[N] /\ u[N] = f[N] /\ f[N] \in Seq(P)
    BY <1>1, <1>2, <1>4, <2>7 DEF u
  <2> QED
    BY <2>1, <2>8 DEF N
<1> QED
  BY <1>3, <1>4 DEF N

LEMMA FlattenGrows ==
    ASSUME NEW P, NEW s \in Seq(Seq(P)), NEW b \in Seq(P)
    PROVE  FlattenSeq(s) \in Seq(P) /\ FlattenSeq(Append(s, b)) = FlattenSeq(s) \o b
<1> DEFINE t == Append(s, b)
<1>1. /\ t \in Seq(Seq(P)) /\ Len(t) = Len(s) + 1 /\ t[Len(s) + 1] = b /\ Len(s) \in Nat
      /\ \A n \in 1..Len(s) : t[n] = s[n]
  OBVIOUS
<1> HIDE DEF t
<1>2. PICK f : Joins(f, t, P)
  BY <1>1, JoinsExist
<1>3. PICK h : Joins(h, s, P)
  BY JoinsExist
<1>4. /\ f[0] = <<>> /\ \A n \in 1..Len(t) : f[n] = f[n - 1] \o t[n]
      /\ h[0] = <<>> /\ \A n \in 1..Len(s) : h[n] = h[n - 1] \o s[n]
  BY <1>2, <1>3 DEF Joins
<1>5. \A n \in 0..Len(s) : f[n] = h[n]
  <2>1. f[0] = h[0]
    BY <1>4
  <2>2. ASSUME NEW n \in 1..Len(s), f[n - 1] = h[n - 1] PROVE f[n] = h[n]
    <3>1. n \in 1..Len(t) /\ t[n] = s[n]
      BY <1>1
    <3> QED
      BY <1>4, <2>2, <3>1, Zenon
  <2> QED
    BY <1>1, <2>1, <2>2, RecursionUnique, ZenonT(60)
<1>6. f[Len(s)] = h[Len(s)]
  BY <1>1, <1>5
<1>7. f[Len(s) + 1] = f[Len(s)] \o b
  <2>1. Len(s) + 1 \in 1..Len(t) /\ (Len(s) + 1) - 1 = Len(s)
    BY <1>1
  <2> QED
    BY <1>1, <1>4, <2>1
<1>8. /\ FlattenSeq(s) = h[Len(s)] /\ FlattenSeq(s) \in Seq(P)
      /\ FlattenSeq(t) = f[Len(t)]
  BY <1>1, <1>2, <1>3, FlattenJoins
<1> QED
  BY <1>1, <1>6, <1>7, <1>8 DEF t

----------------------------------------------------------------------------
(* The batches.                                                            *)

Batches == Seq(Seq(PointType))

LEMMA ConcatAppend ==
    ASSUME NEW P, NEW s \in Seq(P), NEW t \in Seq(P), NEW x \in P
    PROVE  s \o Append(t, x) = (s \o t) \o <<x>>
<1>1. s \o Append(t, x) = Append(s \o t, x) /\ s \o t \in Seq(P)
  OBVIOUS
<1> QED
  BY <1>1

LEMMA LastSplit ==
    ASSUME NEW P, NEW s \in Seq(P), s # <<>>
    PROVE  /\ Front(s) \in Seq(P) /\ Last(s) \in P /\ Last(s) = s[Len(s)]
           /\ Len(Front(s)) = Len(s) - 1 /\ Len(s) \in Nat \ {0}
           /\ \A k \in 1..(Len(s) - 1) : Front(s)[k] = s[k]
           /\ s = Append(Front(s), Last(s))
<1>1. Len(s) \in Nat \ {0}
  OBVIOUS
<1>2. /\ Front(s) \in Seq(P) /\ Len(Front(s)) = Len(s) - 1
      /\ \A k \in 1..(Len(s) - 1) : Front(s)[k] = s[k]
  <2> DEFINE m == Len(s) - 1
  <2>1. m \in Nat /\ \A k \in 1..m : s[k] \in P
    BY <1>1
  <2>2. SubSeq(s, 1, m) = [k \in 1..m |-> s[k]]
    BY <2>1
  <2>3. [k \in 1..m |-> s[k]] \in Seq(P) /\ Len([k \in 1..m |-> s[k]]) = m
    BY <2>1
  <2> HIDE DEF m
  <2> QED
    BY <2>2, <2>3 DEF Front, m
<1>3. Last(s) \in P /\ Last(s) = s[Len(s)]
  BY <1>1 DEF Last
<1>4. s = Append(Front(s), Last(s))
  <2> DEFINE f == Front(s)
             x == Last(s)
  <2> HIDE DEF f, x
  <2>1. Len(Append(f, x)) = Len(s) /\ Append(f, x) \in Seq(P)
    BY <1>1, <1>2, <1>3 DEF f, x
  <2>2. \A k \in 1..Len(s) : Append(f, x)[k] = s[k]
    BY <1>1, <1>2, <1>3 DEF f, x
  <2> QED
    BY <2>1, <2>2 DEF f, x
<1> QED
  BY <1>1, <1>2, <1>3, <1>4

LEMMA PlaceType ==
    ASSUME NEW bs \in Batches, NEW p \in PointType, NEW size, NEW maxBytes
    PROVE  Place(bs, p, size, maxBytes) \in Batches
<1>1. CASE bs # <<>> /\ HasRoom(Last(bs), p, size, maxBytes)
  <2>1. Front(bs) \in Batches /\ Last(bs) \in Seq(PointType)
    BY <1>1, LastSplit DEF Batches
  <2>2. Append(Last(bs), p) \in Seq(PointType)
    BY <2>1
  <2>3. Append(Front(bs), Append(Last(bs), p)) \in Batches
    BY <2>1, <2>2 DEF Batches
  <2> QED
    BY <1>1, <2>3 DEF Place
<1>2. CASE ~(bs # <<>> /\ HasRoom(Last(bs), p, size, maxBytes))
  <2>1. Append(bs, <<p>>) \in Batches
    BY DEF Batches
  <2> QED
    BY <1>2, <2>1 DEF Place
<1> QED
  BY <1>1, <1>2

LEMMA CutsRecursion ==
    ASSUME NEW points \in Seq(PointType), NEW size, NEW maxBytes
    PROVE  LET c == Cuts(points, size, maxBytes)
           IN  /\ c[0] = <<>>
               /\ \A n \in 1..Len(points) : c[n] = Place(c[n - 1], points[n], size, maxBytes)
<1> DEFINE N == Len(points)
           c == Cuts(points, size, maxBytes)
           g == [n \in 1..N |-> [x \in Batches |-> Place(x, points[n], size, maxBytes)]]
           G(h) == h = [n \in 0..N |-> IF n = 0 THEN <<>>
                                       ELSE Place(h[n - 1], points[n], size, maxBytes)]
<1>1. N \in Nat /\ <<>> \in Batches /\ \A n \in 1..N : points[n] \in PointType
  BY DEF Batches
<1>2. /\ g \in [1..N -> [Batches -> Batches]]
      /\ \A n \in 1..N : \A x \in Batches : g[n][x] = Place(x, points[n], size, maxBytes)
  BY <1>1, PlaceType
<1> HIDE DEF N, g
<1>3. PICK f : Iterates(f, N, Batches, <<>>, g)
  BY <1>1, <1>2, IterationExists, Zenon
<1>4. f \in [0..N -> Batches] /\ f[0] = <<>> /\ \A n \in 1..N : f[n] = g[n][f[n - 1]]
  BY <1>3 DEF Iterates
<1>5. ASSUME NEW n \in 1..N PROVE f[n] = Place(f[n - 1], points[n], size, maxBytes)
  <2>1. n - 1 \in 0..N
    BY <1>1
  <2> QED
    BY <1>2, <1>4, <2>1
<1>6. G(f)
  <2>1. \A n \in 0..N : f[n] = IF n = 0 THEN <<>> ELSE Place(f[n - 1], points[n], size, maxBytes)
    BY <1>1, <1>4, <1>5
  <2>2. f = [n \in 0..N |-> f[n]]
    BY <1>4
  <2> QED
    BY <2>1, <2>2
<1>7. G(c)
  <2>1. c = CHOOSE h : G(h)
    BY DEF Cuts, N
  <2>2. \E h : G(h)
    BY <1>6
  <2> QED
    BY <2>1, <2>2, Zenon
<1> HIDE DEF c
<1>8. \A n \in 0..N : c[n] = IF n = 0 THEN <<>> ELSE Place(c[n - 1], points[n], size, maxBytes)
  BY <1>7
<1>9. c[0] = <<>> /\ \A n \in 1..N : c[n] = Place(c[n - 1], points[n], size, maxBytes)
  BY <1>1, <1>8
<1> QED
  BY <1>9 DEF c, N

\* bs is a partition of the first n points into batches within the limits.
Partitions(bs, points, n, size, maxBytes) ==
    /\ bs \in Batches /\ Len(bs) <= n
    /\ FlattenSeq(bs) = SubSeq(points, 1, n)
    /\ Count(bs) = n
    /\ \A k \in 1..Len(bs) :
        /\ Len(bs[k]) \in 1..size
        /\ maxBytes > 0 /\ Len(bs[k]) > 1 => Bytes(bs[k]) <= maxBytes

LEMMA PlaceKeepsPartition ==
    ASSUME NEW points \in Seq(PointType), NEW n \in 1..Len(points),
           NEW size \in Nat \ {0}, NEW maxBytes \in Int,
           NEW bs, Partitions(bs, points, n - 1, size, maxBytes)
    PROVE  Partitions(Place(bs, points[n], size, maxBytes), points, n, size, maxBytes)
<1> DEFINE p == points[n]
           new == Place(bs, p, size, maxBytes)
<1>0. p \in PointType /\ n \in Nat /\ n - 1 \in Nat /\ p.bytes \in Nat
  <2>1. p \in PointType /\ n \in Nat /\ n - 1 \in Nat
    OBVIOUS
  <2> QED
    BY <2>1 DEF PointType
<1>1. /\ bs \in Batches /\ Len(bs) <= n - 1 /\ Len(bs) \in Nat
      /\ FlattenSeq(bs) = SubSeq(points, 1, n - 1) /\ Count(bs) = n - 1
      /\ \A k \in 1..Len(bs) :
            /\ Len(bs[k]) \in 1..size
            /\ maxBytes > 0 /\ Len(bs[k]) > 1 => Bytes(bs[k]) <= maxBytes
  BY DEF Partitions, Batches
<1>2. SubSeq(points, 1, n) = SubSeq(points, 1, n - 1) \o <<p>>
  OBVIOUS
<1> HIDE DEF p
<1>3. CASE bs # <<>> /\ HasRoom(Last(bs), p, size, maxBytes)
  <2> DEFINE f == Front(bs)
             x == Last(bs)
             y == Append(x, p)
  <2>1. /\ f \in Batches /\ x \in Seq(PointType) /\ x = bs[Len(bs)]
        /\ Len(f) = Len(bs) - 1 /\ Len(bs) \in Nat \ {0}
        /\ \A k \in 1..(Len(bs) - 1) : f[k] = bs[k]
        /\ bs = Append(f, x)
    BY <1>1, <1>3, LastSplit DEF Batches
  <2>2. /\ Len(x) < size /\ Len(x) \in Nat
        /\ maxBytes > 0 => Bytes(x) + p.bytes <= maxBytes
    BY <1>3, <2>1 DEF HasRoom
  <2>3. new = Append(f, y)
    BY <1>3 DEF Place
  <2> HIDE DEF f, x, new
  <2>4. y \in Seq(PointType) /\ Len(y) = Len(x) + 1 /\ Bytes(y) = Bytes(x) + p.bytes
    BY <1>0, <2>1, BytesGrow
  <2>5. FlattenSeq(new) = FlattenSeq(bs) \o <<p>>
    <3>1. FlattenSeq(bs) = FlattenSeq(f) \o x /\ FlattenSeq(f) \in Seq(PointType)
      BY <2>1, FlattenGrows DEF Batches
    <3>2. FlattenSeq(new) = FlattenSeq(f) \o y
      BY <2>1, <2>3, <2>4, FlattenGrows DEF Batches
    <3>3. ASSUME NEW z \in Seq(PointType) PROVE z \o y = (z \o x) \o <<p>>
      <4>1. x \in Seq(PointType) /\ p \in PointType
        BY <1>0, <2>1
      <4>2. ASSUME NEW v \in Seq(PointType), NEW q \in PointType
            PROVE  z \o Append(v, q) = (z \o v) \o <<q>>
        BY ConcatAppend
      <4> QED
        BY <4>1, <4>2, Zenon
    <3> QED
      BY <3>1, <3>2, <3>3
  <2>6. Count(new) = n
    <3>1. Count(bs) = Count(f) + Len(x) /\ Count(f) \in Int
      BY <2>1, CountGrows DEF Batches
    <3>2. Count(new) = Count(f) + Len(y)
      BY <2>1, <2>3, <2>4, CountGrows DEF Batches
    <3> QED
      BY <1>0, <1>1, <2>2, <2>4, <3>1, <3>2
  <2> HIDE DEF y
  <2>7. /\ new \in Batches /\ Len(new) = Len(bs)
        /\ \A k \in 1..Len(new) : new[k] = IF k = Len(bs) THEN y ELSE bs[k]
    BY <2>1, <2>3, <2>4 DEF Batches
  <2>8. Len(y) \in 1..size /\ (maxBytes > 0 => Bytes(y) <= maxBytes)
    BY <2>2, <2>4
  <2>9. \A k \in 1..Len(new) :
            /\ Len(new[k]) \in 1..size
            /\ maxBytes > 0 /\ Len(new[k]) > 1 => Bytes(new[k]) <= maxBytes
    BY <1>1, <2>7, <2>8
  <2>10. Len(new) <= n
    BY <1>0, <1>1, <2>7
  <2> QED
    BY <1>1, <1>2, <2>5, <2>6, <2>7, <2>9, <2>10 DEF Partitions, new, p
<1>4. CASE ~(bs # <<>> /\ HasRoom(Last(bs), p, size, maxBytes))
  <2>1. new = Append(bs, <<p>>) /\ <<p>> \in Seq(PointType) /\ Len(<<p>>) = 1
    BY <1>0, <1>4 DEF Place
  <2> HIDE DEF new
  <2>2. FlattenSeq(new) = FlattenSeq(bs) \o <<p>>
    BY <1>1, <2>1, FlattenGrows DEF Batches
  <2>3. Count(new) = n
    <3>1. Count(new) = Count(bs) + Len(<<p>>)
      BY <1>1, <2>1, CountGrows DEF Batches
    <3> QED
      BY <1>0, <1>1, <2>1, <3>1
  <2>4. /\ new \in Batches /\ Len(new) = Len(bs) + 1
        /\ \A k \in 1..Len(new) : new[k] = IF k = Len(new) THEN <<p>> ELSE bs[k]
    BY <1>1, <2>1 DEF Batches
  <2>5. \A k \in 1..Len(new) :
            /\ Len(new[k]) \in 1..size
            /\ maxBytes > 0 /\ Len(new[k]) > 1 => Bytes(new[k]) <= maxBytes
    BY <1>1, <2>1, <2>4
  <2>6. Len(new) <= n
    BY <1>0, <1>1, <2>4
  <2> QED
    BY <1>1, <1>2, <2>2, <2>3, <2>4, <2>5, <2>6 DEF Partitions, new, p
<1> QED
  BY <1>3, <1>4

\* Split cuts the points into batches within the limits, for any points and limits
\* (the loops of upsertBatch).
LEMMA SplitPartitions ==
    ASSUME NEW points \in Seq(PointType), NEW size \in Nat \ {0}, NEW maxBytes \in Int
    PROVE  /\ Partitions(Split(points, size, maxBytes), points, Len(points), size, maxBytes)
           /\ FlattenSeq(Split(points, size, maxBytes)) = points
<1> DEFINE c == Cuts(points, size, maxBytes)
           N == Len(points)
           S == {n \in Nat : n <= N => Partitions(c[n], points, n, size, maxBytes)}
<1>0. N \in Nat
  OBVIOUS
<1>1. c[0] = <<>> /\ \A n \in 1..N : c[n] = Place(c[n - 1], points[n], size, maxBytes)
  BY CutsRecursion
<1> HIDE DEF c, N
<1>2. 0 \in S
  <2>1. <<>> \in Batches /\ Len(<<>>) = 0 /\ FlattenSeq(<<>>) = <<>> /\ SubSeq(points, 1, 0) = <<>>
    BY DEF Batches, FlattenSeq
  <2>2. Count(<<>>) = 0
    <3>1. [k \in 1..Len(<<>>) |-> Len(<<>>[k])] = <<>>
      OBVIOUS
    <3> QED
      BY <3>1, TotalOfNone DEF Count
  <2>3. Partitions(<<>>, points, 0, size, maxBytes)
    <3>1. 1..Len(<<>>) = {} /\ Len(<<>>) <= 0
      BY <2>1
    <3> QED
      BY <2>1, <2>2, <3>1, Zenon DEF Partitions
  <2> QED
    BY <1>1, <2>3
<1>3. ASSUME NEW n \in Nat, n \in S PROVE n + 1 \in S
  <2>1. CASE n + 1 > N
    BY <1>0, <2>1
  <2>2. CASE n + 1 <= N
    <3>1. n + 1 \in 1..N /\ (n + 1) - 1 = n /\ Partitions(c[n], points, n, size, maxBytes)
      BY <1>0, <1>3, <2>2
    <3>2. c[n + 1] = Place(c[n], points[n + 1], size, maxBytes)
      BY <1>1, <3>1
    <3>3. Partitions(c[n + 1], points, n + 1, size, maxBytes)
      BY <3>1, <3>2, PlaceKeepsPartition DEF N
    <3> QED
      BY <3>3
  <2> QED
    BY <1>0, <2>1, <2>2
<1> HIDE DEF S
<1>4. N \in S
  BY <1>0, <1>2, <1>3, NatSteps
<1>5. Partitions(c[N], points, N, size, maxBytes)
  BY <1>0, <1>4 DEF S
<1>6. SubSeq(points, 1, N) = points
  BY DEF N
<1>7. FlattenSeq(c[N]) = points
  BY <1>5, <1>6 DEF Partitions
<1> QED
  BY <1>5, <1>7 DEF Split, c, N

----------------------------------------------------------------------------
(* The client under an upsertBatch.                                        *)

\* The batches are upserted by calls like any other.
LEMMA BatchStepsAreClients == [BatchNext]_batchVars => [AnyClientStep]_clientVars
<1> SUFFICES ASSUME [BatchNext]_batchVars PROVE AnyClientStep \/ UNCHANGED clientVars
  OBVIOUS
<1>1. ASSUME NEW k \in 1..Len(BatchCalls), StartBatch(k) PROVE AnyClientStep
  <2>1. BatchCalls[k] \in Calls /\ "upsert" \in Ops
    BY BatchAssumption DEF Ops, Writes
  <2>2. BeginCall(BatchCalls[k], "upsert")
    BY <1>1 DEF StartBatch, BeginCall
  <2> QED
    BY <2>1, <2>2 DEF AnyClientStep
<1>2. CASE \E c \in Calls : \E op \in CallerOps[c] : BeginCall(c, op)
  BY <1>2, CallersAsk DEF ClientNext
<1>3. ASSUME NEW points \in Points, NEW size \in BatchSizes, NEW n \in Concurrencies,
             NEW bytes \in BatchBytes, UpsertBatch(points, size, n, bytes)
      PROVE  UNCHANGED clientVars
  BY <1>3 DEF UpsertBatch
<1>4. CASE FinishBatch
  BY <1>4 DEF FinishBatch
<1>5. CASE UNCHANGED batchVars
  BY <1>5 DEF batchVars
<1> QED
  BY <1>1, <1>2, <1>3, <1>4, <1>5 DEF BatchNext, AnyClientStep

LEMMA BatchStandAlways == BatchSpec => []StandInv
<1>1. BatchInit => StandInv
  BY StandInitially DEF BatchInit
<1>2. StandInv /\ [BatchNext]_batchVars => StandInv'
  BY BatchStepsAreClients, StandInductive
<1> QED
  BY <1>1, <1>2, PTL DEF BatchSpec

\* What the client promises of single calls holds of the upserts of an upsertBatch
\* too: types, a write at most once, a returned write that stands, and no conflict
\* of a createCollection with itself.
THEOREM BatchKeepsPromises ==
    BatchSpec => [](ClientTypeOK /\ WritesAtMostOnce /\ ResolvedWritesStand /\ NoConflictWithItself)
<1>1. StandInv => ClientTypeOK /\ WritesAtMostOnce /\ ResolvedWritesStand /\ NoConflictWithItself
  BY OnceImplies, StandImplies DEF StandInv
<1> QED
  BY <1>1, BatchStandAlways, PTL

----------------------------------------------------------------------------
(* How a call goes on.                                                     *)

\* States of a call that has made an attempt.
Active == {"running", "backoff", "resolved"}

Evolves(c) ==
    /\ call'[c].op = call[c].op
    /\ call'[c].state = "idle" <=> call[c].state = "idle"
    /\ call[c].state = "resolved" => call'[c].state = "resolved"
    /\ call[c].attempt > 0 => call'[c].attempt > 0
    /\ call'[c].state \in Active => call[c].state \in Active

\* A step of the event loop or the gateway begins no call and takes none back.
LEMMA CallsEvolve ==
    ASSUME ClientTypeOK, ClientStep, NEW d \in Calls
    PROVE  Evolves(d)
<1>0. call \in [Calls -> CallRecord] /\ \A c \in Calls : call[c] \in CallRecord
  BY DEF ClientTypeOK, CallRecord, States
<1>00. \A c \in Calls : call[c].attempt \in Int
  BY <1>0, ClientAssumption DEF CallRecord
<1>1. ASSUME call' = call PROVE Evolves(d)
  BY <1>00, <1>1 DEF Evolves
<1>2. ASSUME NEW i \in RPCs, NEW code \in Codes \cup {"none", "OK", "NO_POINT"}, EndRPC(i, code)
      PROVE  Evolves(d)
  <2> DEFINE c == i[1]
  <2>1. c \in Calls /\ call' = Answer(c, code)
    BY <1>2 DEF RPCs, EndRPC
  <2> HIDE DEF c
  <2>2. PICK s, e : /\ Moves(c, code, s, e)
                    /\ Answer(c, code) = [call EXCEPT ![c] = [@ EXCEPT !.state = s, !.error = e]]
    BY <1>2, <2>1, AnswerMoves
  <2>3. /\ d # c => call'[d] = call[d]
        /\ d = c => /\ call'[d].op = call[d].op /\ call'[d].attempt = call[d].attempt
                    /\ call'[d].state = s
    BY <1>0, <2>1, <2>2 DEF CallRecord
  <2>4. CASE d # c
    BY <1>00, <2>3, <2>4 DEF Evolves
  <2>5. CASE d = c
    <3>1. CASE Running(c)
      BY <1>00, <2>2, <2>3, <2>5, <3>1 DEF Evolves, Moves, Active, Running
    <3>2. CASE ~Running(c)
      BY <1>00, <2>2, <2>3, <2>5, <3>2 DEF Evolves, Moves, Active
    <3> QED
      BY <3>1, <3>2
  <2> QED
    BY <2>4, <2>5
<1>3. ASSUME NEW i \in RPCs, Deliver(i) \/ Break(i) \/ Deadline(i) PROVE Evolves(d)
  <2>1. rpc[i].code \in Codes \cup {"none", "OK", "NO_POINT"}
    BY DEF ClientTypeOK, RPCState
  <2>2. "UNAVAILABLE" \in Codes /\ "DEADLINE_EXCEEDED" \in Codes
    BY DEF Codes
  <2> QED
    BY <1>2, <1>3, <2>1, <2>2 DEF Deliver, Break, Deadline
<1>4. ASSUME NEW i \in RPCs, \/ \E code \in {"OK", "UNAVAILABLE"} : Execute(i, code)
                             \/ \E code \in Codes : Refuse(i, code)
      PROVE  Evolves(d)
  <2>1. call' = call
    BY <1>4 DEF Execute, Refuse
  <2> QED
    BY <1>1, <2>1
<1>5. ASSUME NEW c \in Calls, HedgeTimer(c) PROVE Evolves(d)
  <2>1. call' = [call EXCEPT ![c].hedge = "off"]
    BY <1>5 DEF HedgeTimer
  <2>2. /\ call'[d].op = call[d].op /\ call'[d].attempt = call[d].attempt
        /\ call'[d].state = call[d].state
    BY <1>0, <2>1 DEF CallRecord
  <2> QED
    BY <1>00, <2>2 DEF Evolves
<1>6. ASSUME NEW c \in Calls, BackoffTimer(c) PROVE Evolves(d)
  <2>1. call[c].state = "backoff" /\ Attempt(c, call[c], call[c].attempt + 1)
    BY <1>6 DEF BackoffTimer
  <2>2. /\ d # c => call'[d] = call[d]
        /\ d = c => /\ call'[d].op = call[d].op
                    /\ call'[d].state \in {"rejected", "running"}
                    /\ call'[d].attempt \in {call[d].attempt, call[d].attempt + 1}
    BY <1>0, <2>1 DEF Attempt, CallRecord
  <2>3. CASE d # c
    BY <1>00, <2>2, <2>3 DEF Evolves
  <2>4. CASE d = c
    BY <1>00, <2>1, <2>2, <2>4 DEF Evolves, Active
  <2> QED
    BY <2>3, <2>4
<1> QED
  BY <1>3, <1>4, <1>5, <1>6 DEF ClientStep

----------------------------------------------------------------------------
(* The inductive invariant of upsertBatch.                                 *)

JobType == [state : {"none", "running", "resolved", "rejected"}, points : Points \cup {<<>>},
            batches : Batches, concurrency : Nat \ {0}, total : Int, batchSize : Nat \ {0},
            maxBytes : Int]

JobInv ==
    /\ job \in JobType
    /\ job.batches = Split(job.points, job.batchSize, job.maxBytes)
    /\ job.state = "none" => job.points = <<>>

\* A batch is begun by its worker, after the batch before it has returned.
BegunInOrder ==
    job.state # "none" =>
        \A k \in 1..Len(BatchCalls) :
            BatchState(k) # "idle" =>
                /\ k \in 1..Len(job.batches)
                /\ k > job.concurrency => BatchState(k - job.concurrency) = "resolved"

\* All calls are upserts of points.
BatchesUpsert ==
    job.state # "none" =>
        \A c \in Calls : call[c].state # "idle" =>
            call[c].op = "upsert" /\ (call[c].state \in Active => call[c].attempt > 0)

Finished ==
    job.state = "resolved" =>
        job.total = Len(job.points) /\ \A k \in 1..Len(job.batches) : BatchState(k) = "resolved"

BatchInv == StandInv /\ JobInv /\ BegunInOrder /\ BatchesUpsert /\ Finished

LEMMA SlotFacts ==
    /\ Len(BatchCalls) \in Nat /\ \A k \in 1..Len(BatchCalls) : BatchCalls[k] \in Calls
    /\ \A j, k \in 1..Len(BatchCalls) : BatchCalls[j] = BatchCalls[k] => j = k
BY BatchAssumption DEF IsInjective

LEMMA SplitOfNone ==
    ASSUME NEW size, NEW maxBytes
    PROVE  Split(<<>>, size, maxBytes) = <<>>
<1>1. <<>> \in Seq(PointType) /\ Len(<<>>) = 0
  OBVIOUS
<1>2. ASSUME NEW points \in Seq(PointType)
      PROVE  Cuts(points, size, maxBytes)[0] = <<>>
  BY CutsRecursion
<1> QED
  BY <1>1, <1>2 DEF Split

LEMMA JobFacts ==
    ASSUME JobInv
    PROVE  /\ Partitions(job.batches, job.points, Len(job.points), job.batchSize, job.maxBytes)
           /\ FlattenSeq(job.batches) = job.points
           /\ Len(job.batches) \in Nat /\ Len(job.batches) <= Len(BatchCalls)
           /\ DOMAIN job.batches = 1..Len(job.batches)
           /\ job.concurrency \in Nat \ {0}
<1>1. /\ job.batchSize \in Nat \ {0} /\ job.maxBytes \in Int /\ job.batches \in Batches
      /\ job.points \in Points \cup {<<>>} /\ job.concurrency \in Nat \ {0}
      /\ job.batches = Split(job.points, job.batchSize, job.maxBytes)
  BY DEF JobInv, JobType
<1>2. job.points \in Seq(PointType) /\ Len(job.points) \in Nat /\ Len(job.points) <= Len(BatchCalls)
  <2>1. <<>> \in Seq(PointType) /\ Len(<<>>) = 0 /\ Len(BatchCalls) \in Nat
    BY SlotFacts
  <2>2. CASE job.points = <<>>
    BY <2>1, <2>2
  <2>3. CASE job.points \in Points
    <3>1. job.points \in Seq(PointType) /\ Len(job.points) <= Len(BatchCalls)
      BY <2>3, BatchAssumption
    <3> QED
      BY <3>1
  <2> QED
    BY <1>1, <2>2, <2>3
<1>3. /\ Partitions(job.batches, job.points, Len(job.points), job.batchSize, job.maxBytes)
      /\ FlattenSeq(job.batches) = job.points
  BY <1>1, <1>2, SplitPartitions
<1>4. Len(job.batches) \in Nat /\ DOMAIN job.batches = 1..Len(job.batches)
  BY <1>1 DEF Batches
<1>5. Len(job.batches) <= Len(job.points)
  BY <1>3 DEF Partitions
<1> QED
  BY <1>1, <1>2, <1>3, <1>4, <1>5, SlotFacts

LEMMA BatchInitially == BatchInit => BatchInv
<1> SUFFICES ASSUME BatchInit PROVE BatchInv
  OBVIOUS
<1>1. StandInv
  BY StandInitially DEF BatchInit
<1>2. job = NoJob
  BY DEF BatchInit
<1>3. JobInv
  <2>1. <<>> \in Batches
    BY DEF Batches
  <2> QED
    BY <1>2, <2>1, SplitOfNone DEF JobInv, JobType, NoJob
<1>4. job.state = "none"
  BY <1>2 DEF NoJob
<1> QED
  BY <1>1, <1>3, <1>4 DEF BatchInv, BegunInOrder, BatchesUpsert, Finished

\* Calls go on under a job that does not change.
LEMMA EvolvingKeeps ==
    ASSUME BatchInv, job' = job, \A c \in Calls : Evolves(c)
    PROVE  JobInv' /\ BegunInOrder' /\ BatchesUpsert' /\ Finished'
<1>1. JobInv'
  BY DEF BatchInv, JobInv
<1>2. ASSUME NEW k \in 1..Len(BatchCalls)
      PROVE  /\ BatchState(k)' # "idle" => BatchState(k) # "idle"
             /\ BatchState(k) = "resolved" => BatchState(k)' = "resolved"
  BY SlotFacts DEF Evolves, BatchState
<1>3. BegunInOrder'
  <2> SUFFICES ASSUME job.state # "none", NEW k \in 1..Len(BatchCalls), BatchState(k)' # "idle"
               PROVE  /\ k \in 1..Len(job.batches)
                      /\ k > job.concurrency => BatchState(k - job.concurrency)' = "resolved"
    BY SlotFacts DEF BegunInOrder, BatchState
  <2>1. /\ k \in 1..Len(job.batches)
        /\ k > job.concurrency => BatchState(k - job.concurrency) = "resolved"
    BY <1>2 DEF BatchInv, BegunInOrder
  <2>2. ASSUME k > job.concurrency PROVE k - job.concurrency \in 1..Len(BatchCalls)
    BY <2>2, JobFacts, SlotFacts DEF BatchInv
  <2> QED
    BY <1>2, <2>1, <2>2
<1>4. BatchesUpsert'
  <2> SUFFICES ASSUME job.state # "none", NEW c \in Calls, call'[c].state # "idle"
               PROVE  /\ call'[c].op = "upsert"
                      /\ call'[c].state \in Active => call'[c].attempt > 0
    BY DEF BatchesUpsert
  <2>1. Evolves(c)
    OBVIOUS
  <2>2. call[c].op = "upsert" /\ (call[c].state \in Active => call[c].attempt > 0)
    BY <2>1 DEF BatchInv, BatchesUpsert, Evolves
  <2> QED
    BY <2>1, <2>2 DEF Evolves
<1>5. Finished'
  <2> SUFFICES ASSUME job.state = "resolved"
               PROVE  /\ job.total = Len(job.points)
                      /\ \A k \in 1..Len(job.batches) : BatchState(k)' = "resolved"
    BY DEF Finished, BatchState
  <2> QED
    BY <1>2, JobFacts, SlotFacts DEF BatchInv, Finished
<1> QED
  BY <1>1, <1>3, <1>4, <1>5

\* The caller makes the upsertBatch.
LEMMA UpsertKeeps ==
    ASSUME BatchInv, NEW points \in Points, NEW batchSize \in BatchSizes,
           NEW concurrency \in Concurrencies, NEW maxBytes \in BatchBytes,
           UpsertBatch(points, batchSize, concurrency, maxBytes)
    PROVE  JobInv' /\ BegunInOrder' /\ BatchesUpsert' /\ Finished'
<1> DEFINE size == IF batchSize <= 0 THEN DefaultBatchSize ELSE batchSize
           n == IF concurrency <= 0 THEN 1 ELSE concurrency
           v == [state |-> IF points = <<>> THEN "resolved" ELSE "running",
                 points |-> points, batches |-> Split(points, size, maxBytes),
                 concurrency |-> n, total |-> 0, batchSize |-> size, maxBytes |-> maxBytes]
<1>1. job' = v /\ call' = call /\ \A c \in Calls : call[c].state = "idle"
  BY DEF UpsertBatch, clientVars
<1>2. size \in Nat \ {0} /\ n \in Nat \ {0} /\ maxBytes \in Int /\ points \in Seq(PointType)
  <2>1. batchSize \in Int /\ concurrency \in Int /\ maxBytes \in Int /\ points \in Seq(PointType)
    BY BatchAssumption
  <2> QED
    BY <2>1, BatchAssumption
<1> HIDE DEF size, n
<1>3. Split(points, size, maxBytes) \in Batches
  BY <1>2, SplitPartitions DEF Partitions
<1>4. /\ v.points = points /\ v.batches = Split(points, size, maxBytes) /\ v.total = 0
      /\ v.batchSize = size /\ v.maxBytes = maxBytes
      /\ v.state = IF points = <<>> THEN "resolved" ELSE "running"
  OBVIOUS
<1>5. v \in JobType
  BY <1>2, <1>3 DEF JobType
<1> HIDE DEF v
<1>6. JobInv'
  BY <1>1, <1>4, <1>5 DEF JobInv
<1>7. BegunInOrder' /\ BatchesUpsert'
  BY <1>1, SlotFacts DEF BegunInOrder, BatchesUpsert, BatchState
<1>8. Finished'
  <2> SUFFICES ASSUME v.state = "resolved"
               PROVE  v.total = Len(v.points) /\ 1..Len(v.batches) = {}
    BY <1>1 DEF Finished
  <2>1. points = <<>>
    BY <1>4
  <2>2. v.batches = <<>> /\ v.points = <<>>
    BY <1>4, <2>1, SplitOfNone
  <2> QED
    BY <1>4, <2>2
<1> QED
  BY <1>6, <1>7, <1>8

\* The worker of batch k begins it.
LEMMA StartKeeps ==
    ASSUME BatchInv, NEW k \in 1..Len(BatchCalls), StartBatch(k)
    PROVE  JobInv' /\ BegunInOrder' /\ BatchesUpsert' /\ Finished'
<1> DEFINE c == BatchCalls[k]
<1>0. c \in Calls /\ call \in [Calls -> CallRecord]
  BY SlotFacts DEF BatchInv, StandInv, OnceInv, ClientTypeOK, CallRecord, States
<1>1. /\ job' = job /\ k \in 1..Len(job.batches) /\ call[c].state = "idle"
      /\ k > job.concurrency => BatchState(k - job.concurrency) = "resolved"
  <2>1. DOMAIN job.batches = 1..Len(job.batches)
    BY JobFacts DEF BatchInv
  <2> QED
    BY <2>1 DEF StartBatch, Begin, BeginInvalid, BatchState
<1>2. /\ \A d \in Calls : d # c => call'[d] = call[d]
      /\ call'[c].op = "upsert" /\ call'[c].state \in {"running", "rejected"}
      /\ call'[c].state = "running" => call'[c].attempt = 1
  <2>1. CASE Begin(c, "upsert")
    <3> DEFINE r == [Idle EXCEPT !.op = "upsert", !.after = ResolvedCalls]
    <3>1. r.op = "upsert" /\ r = [r EXCEPT !.op = "upsert"]
      BY DEF Idle
    <3>2. Attempt(c, r, 1)
      BY <2>1 DEF Begin
    <3>3. call' = [call EXCEPT ![c] =
                      IF closed /\ ~Hedges(r.op)
                      THEN [r EXCEPT !.state = "rejected", !.error = "Error"]
                      ELSE [r EXCEPT !.state = "running", !.attempt = 1,
                                     !.hedge = IF Hedges(r.op) THEN "armed" ELSE "off"]]
      BY <3>2 DEF Attempt
    <3>4. r \in CallRecord
      BY IdleRecord DEF CallRecord, ResolvedCalls, Ops, Writes
    <3> HIDE DEF r, c
    <3> QED
      BY <1>0, <3>1, <3>3, <3>4 DEF CallRecord
  <2>2. CASE BeginInvalid(c, "upsert")
    <3>1. call' = [call EXCEPT ![c] = [Idle EXCEPT !.op = "upsert", !.state = "rejected",
                                                   !.error = "InvalidArgumentError"]]
      BY <2>2 DEF BeginInvalid
    <3> HIDE DEF c
    <3> QED
      BY <1>0, <3>1 DEF Idle
  <2> QED
    BY <2>1, <2>2 DEF StartBatch
<1>3. ASSUME NEW j \in 1..Len(BatchCalls)
      PROVE  /\ BatchState(j) = "resolved" => BatchState(j)' = "resolved"
             /\ j # k => BatchState(j)' = BatchState(j)
  BY <1>1, <1>2, SlotFacts DEF BatchState
<1>4. JobInv'
  BY <1>1 DEF BatchInv, JobInv
<1>5. BegunInOrder'
  <2> SUFFICES ASSUME job.state # "none", NEW j \in 1..Len(BatchCalls), BatchState(j)' # "idle"
               PROVE  /\ j \in 1..Len(job.batches)
                      /\ j > job.concurrency => BatchState(j - job.concurrency)' = "resolved"
    BY <1>1, SlotFacts DEF BegunInOrder, BatchState
  <2>1. /\ j \in 1..Len(job.batches)
        /\ j > job.concurrency => BatchState(j - job.concurrency) = "resolved"
    BY <1>1, <1>3 DEF BatchInv, BegunInOrder
  <2>2. ASSUME j > job.concurrency PROVE BatchState(j - job.concurrency)' = "resolved"
    <3>1. j - job.concurrency \in 1..Len(BatchCalls)
      BY <2>2, JobFacts, SlotFacts DEF BatchInv
    <3> QED
      BY <1>1, <1>3, <2>1, <2>2, <3>1
  <2> QED
    BY <2>1, <2>2
<1>6. BatchesUpsert'
  BY <1>1, <1>2 DEF BatchInv, BatchesUpsert, Active
<1>7. Finished'
  <2>1. job.state # "resolved"
    BY <1>1 DEF BatchInv, Finished, BatchState
  <2> QED
    BY <1>1, <2>1 DEF Finished
<1> QED
  BY <1>4, <1>5, <1>6, <1>7

\* Promise.all settles.
LEMMA FinishKeeps ==
    ASSUME BatchInv, FinishBatch
    PROVE  JobInv' /\ BegunInOrder' /\ BatchesUpsert' /\ Finished'
<1>0. /\ job \in JobType /\ job.state = "running" /\ call' = call
      /\ DOMAIN job.batches = 1..Len(job.batches)
      /\ Count(job.batches) = Len(job.points) /\ Count(job.batches) \in Int
  <2>1. job \in JobType /\ job.state = "running" /\ call' = call
    BY DEF BatchInv, JobInv, FinishBatch, clientVars
  <2>2. DOMAIN job.batches = 1..Len(job.batches) /\ Count(job.batches) = Len(job.points)
    BY JobFacts DEF BatchInv, Partitions
  <2>3. job.points \in Seq(PointType)
    <3>1. job.points = <<>> \/ job.points \in Points
      BY <2>1 DEF JobType
    <3>2. CASE job.points = <<>>
      BY <3>2
    <3>3. CASE job.points \in Points
      BY <3>3, BatchAssumption
    <3> QED
      BY <3>1, <3>2, <3>3
  <2> QED
    BY <2>1, <2>2, <2>3
<1>1. PICK s \in {"resolved", "rejected"}, t \in Int :
          /\ job' = [job EXCEPT !.state = s, !.total = t]
          /\ s = "resolved" => /\ t = Count(job.batches)
                               /\ \A k \in DOMAIN job.batches : BatchState(k) = "resolved"
  <2>1. CASE /\ \A k \in DOMAIN job.batches : BatchState(k) = "resolved"
             /\ job' = [job EXCEPT !.state = "resolved", !.total = Count(job.batches)]
    BY <1>0, <2>1
  <2>2. CASE job' = [job EXCEPT !.state = "rejected"]
    <3>1. job' = [job EXCEPT !.state = "rejected", !.total = job.total] /\ job.total \in Int
      BY <1>0, <2>2 DEF JobType
    <3> QED
      BY <3>1
  <2> QED
    BY <2>1, <2>2 DEF FinishBatch
<1>2. /\ job' \in JobType /\ job'.state = s /\ job'.total = t
      /\ job'.points = job.points /\ job'.batches = job.batches
      /\ job'.batchSize = job.batchSize /\ job'.maxBytes = job.maxBytes
      /\ job'.concurrency = job.concurrency
  BY <1>0, <1>1 DEF JobType
<1>3. JobInv'
  BY <1>2 DEF BatchInv, JobInv
<1>4. BegunInOrder' /\ BatchesUpsert'
  BY <1>0, <1>2 DEF BatchInv, BegunInOrder, BatchesUpsert, BatchState
<1>5. Finished'
  BY <1>0, <1>1, <1>2 DEF Finished, BatchState
<1> QED
  BY <1>3, <1>4, <1>5

LEMMA BatchInductive == BatchInv /\ [BatchNext]_batchVars => BatchInv'
<1> SUFFICES ASSUME BatchInv, [BatchNext]_batchVars PROVE BatchInv'
  OBVIOUS
<1>0. StandInv'
  BY BatchStepsAreClients, StandInductive DEF BatchInv
<1> SUFFICES JobInv' /\ BegunInOrder' /\ BatchesUpsert' /\ Finished'
  BY <1>0 DEF BatchInv
<1>00. ASSUME call' = call, NEW c \in Calls PROVE Evolves(c)
  BY <1>00 DEF Evolves
<1>1. CASE \E points \in Points, size \in BatchSizes, n \in Concurrencies, bytes \in BatchBytes :
              UpsertBatch(points, size, n, bytes)
  BY <1>1, UpsertKeeps
<1>2. CASE \E k \in 1..Len(BatchCalls) : StartBatch(k)
  BY <1>2, StartKeeps
<1>3. CASE FinishBatch
  BY <1>3, FinishKeeps
<1>4. CASE job.state = "none" /\ job' = job
  BY <1>4 DEF BatchInv, JobInv, BegunInOrder, BatchesUpsert, Finished
<1>5. CASE Close /\ job' = job
  <2>1. call' = call
    BY <1>5 DEF Close
  <2> QED
    BY <1>00, <1>5, <2>1, EvolvingKeeps
<1>6. CASE ClientStep /\ job' = job
  <2>1. ClientTypeOK
    BY DEF BatchInv, StandInv, OnceInv
  <2> QED
    BY <1>6, <2>1, CallsEvolve, EvolvingKeeps
<1>7. CASE UNCHANGED batchVars
  <2>1. call' = call /\ job' = job
    BY <1>7 DEF batchVars, clientVars
  <2> QED
    BY <1>00, <2>1, EvolvingKeeps
<1> QED
  BY <1>1, <1>2, <1>3, <1>4, <1>5, <1>6, <1>7 DEF BatchNext

LEMMA BatchAlways == BatchSpec => []BatchInv
BY BatchInitially, BatchInductive, PTL DEF BatchSpec

----------------------------------------------------------------------------
(* Which batches belong to one worker: idx % concurrency.                  *)

LEMMA DivMod ==
    ASSUME NEW a \in Nat, NEW c \in Nat \ {0}
    PROVE  a = (c * (a \div c)) + (a % c) /\ a % c \in 0..(c - 1) /\ a \div c \in Nat
OBVIOUS

LEMMA Multiples ==
    ASSUME NEW c \in Nat \ {0}, NEW x \in Int, NEW y \in Int, x < y
    PROVE  (c * x) + c <= c * y
<1>1. c * (y - x) >= c
  OBVIOUS
<1>2. c * (y - x) = (c * y) - (c * x)
  OBVIOUS
<1>3. c * y \in Int /\ c * x \in Int
  OBVIOUS
<1> QED
  BY <1>1, <1>2, <1>3

LEMMA ModularStep ==
    ASSUME NEW j \in Nat, NEW k \in Nat, NEW c \in Nat \ {0}, j < k, j % c = k % c
    PROVE  j + c <= k
<1> DEFINE qj == j \div c
           qk == k \div c
<1>1. /\ j = (c * qj) + (j % c) /\ k = (c * qk) + (k % c)
      /\ qj \in Nat /\ qk \in Nat /\ j % c \in Nat
  <2>1. j % c \in 0..(c - 1)
    BY DivMod
  <2>2. j = (c * qj) + (j % c) /\ k = (c * qk) + (k % c) /\ qj \in Nat /\ qk \in Nat
    BY DivMod
  <2> QED
    BY <2>1, <2>2
<1>2. c * qj \in Int /\ c * qk \in Int
  BY <1>1
<1>3. qj < qk
  <2>1. CASE qk < qj
    BY <1>1, <1>2, <2>1, Multiples
  <2>2. CASE qk = qj
    BY <1>1, <2>2
  <2> QED
    BY <1>1, <2>1, <2>2
<1>4. (c * qj) + c <= c * qk
  BY <1>1, <1>3, Multiples
<1> QED
  BY <1>1, <1>2, <1>4

LEMMA ModularAdd ==
    ASSUME NEW j \in Nat, NEW c \in Nat \ {0}
    PROVE  (j + c) % c = j % c
<1> DEFINE k == j + c
           qj == j \div c
           qk == k \div c
           rj == j % c
           rk == k % c
<1>1. /\ j = (c * qj) + rj /\ k = (c * qk) + rk /\ qj \in Nat /\ qk \in Nat
      /\ rj \in 0..(c - 1) /\ rk \in 0..(c - 1)
  <2>1. k \in Nat
    OBVIOUS
  <2> QED
    BY <2>1, DivMod
<1>2. c * qj \in Int /\ c * qk \in Int /\ c * (qj + 1) = (c * qj) + c /\ k = j + c
  BY <1>1
<1> HIDE DEF k, qj, qk, rj, rk
<1>3. qk = qj + 1
  <2>1. CASE qk < qj + 1
    BY <1>1, <1>2, <2>1, Multiples
  <2>2. CASE qk > qj + 1
    <3>1. qj + 1 \in Int /\ qk \in Int /\ qj + 1 < qk
      BY <1>1, <2>2
    <3>2. (c * (qj + 1)) + c <= c * qk
      BY <3>1, Multiples
    <3> QED
      BY <1>1, <1>2, <3>2
  <2> QED
    BY <1>1, <2>1, <2>2
<1> QED
  BY <1>1, <1>2, <1>3 DEF k, rj, rk

----------------------------------------------------------------------------
(* What upsertBatch promises.                                              *)

\* upsertBatch's batches are its points in their order, none empty or above the
\* batch size, and none of several points above maxBatchBytes: for any points.
THEOREM BatchesArePartition == BatchSpec => []BatchesPartition
<1>1. ASSUME BatchInv PROVE BatchesPartition
  <2>1. /\ Partitions(job.batches, job.points, Len(job.points), job.batchSize, job.maxBytes)
        /\ FlattenSeq(job.batches) = job.points
        /\ DOMAIN job.batches = 1..Len(job.batches)
    BY <1>1, JobFacts DEF BatchInv
  <2> QED
    BY <2>1 DEF Partitions, BatchesPartition
<1> QED
  BY <1>1, BatchAlways, PTL

\* An upsertBatch that returns has counted every point once, and every batch of it
\* was carried out by the gateway (upsertBatch's Promise.all over upsert).
THEOREM ReturnedBatchesComplete == BatchSpec => []BatchIsComplete
<1>1. ASSUME BatchInv PROVE BatchIsComplete
  <2> SUFFICES ASSUME job.state = "resolved"
               PROVE  /\ job.total = Len(job.points)
                      /\ \A k \in DOMAIN job.batches : effects[BatchCalls[k]] # {}
    BY DEF BatchIsComplete
  <2>1. job.total = Len(job.points) /\ \A k \in 1..Len(job.batches) : BatchState(k) = "resolved"
    BY <1>1 DEF BatchInv, Finished
  <2>2. ASSUME NEW k \in 1..Len(job.batches) PROVE effects[BatchCalls[k]] # {}
    <3> DEFINE c == BatchCalls[k]
    <3>1. c \in Calls /\ call[c].state = "resolved"
      <4>1. k \in 1..Len(BatchCalls)
        BY <1>1, JobFacts, SlotFacts DEF BatchInv
      <4> QED
        BY <2>1, <4>1, SlotFacts DEF BatchState
    <3> HIDE DEF c
    <3>2. call[c].op = "upsert" /\ call[c].attempt > 0
      BY <1>1, <3>1 DEF BatchInv, BatchesUpsert, Active
    <3>3. ResolvedWritesStand /\ "upsert" \in Writes
      BY <1>1, StandImplies DEF BatchInv, Writes
    <3>4. effects[c] # {}
      BY <3>1, <3>2, <3>3 DEF ResolvedWritesStand
    <3> QED
      BY <3>4 DEF c
  <2> QED
    BY <1>1, <2>1, <2>2, JobFacts DEF BatchInv
<1> QED
  BY <1>1, BatchAlways, PTL

\* The batches of one worker: those whose indices agree modulo the concurrency.
LEMMA WorkerBatches ==
    ASSUME BatchInv, job.state # "none",
           NEW k \in 1..Len(BatchCalls), BatchState(k) # "idle",
           NEW j \in 1..(k - 1), j % job.concurrency = k % job.concurrency
    PROVE  BatchState(j) = "resolved"
<1> DEFINE c == job.concurrency
           D == {d \in Nat : /\ d < k /\ d # 0
                             /\ (k - d) % c = k % c /\ BatchState(k - d) # "resolved"}
<1>0. c \in Nat \ {0} /\ k \in Nat /\ j \in Nat
  BY JobFacts, SlotFacts DEF BatchInv
<1> SUFFICES ASSUME BatchState(j) # "resolved" PROVE FALSE
  OBVIOUS
<1>1. k - j \in D
  <2>1. k - (k - j) = j /\ k - j \in Nat /\ k - j < k /\ k - j # 0
    BY <1>0
  <2> HIDE DEF c
  <2> QED
    BY <2>1 DEF c
<1>2. PICK m \in D : \A d \in D : m <= d
  <2>1. D \subseteq Nat /\ D # {}
    BY <1>1
  <2> QED
    BY <2>1, NatLeast
<1> DEFINE i == k - m
           n == i + c
<1>3. i \in 1..(k - 1) /\ i \in Nat /\ i % c = k % c /\ BatchState(i) # "resolved" /\ m \in Nat
  BY <1>0, <1>2
<1>4. n <= k /\ n % c = k % c /\ n \in 1..k /\ n > c /\ n - c = i /\ i = k - m
  <2>1. i + c <= k
    BY <1>0, <1>3, ModularStep
  <2>2. (i + c) % c = i % c
    BY <1>0, <1>3, ModularAdd
  <2> QED
    BY <1>0, <1>3, <2>1, <2>2
<1> HIDE DEF i, n, c
<1>5. BatchState(n) # "idle"
  <2>1. CASE n = k
    BY <2>1
  <2>2. CASE n # k
    <3>1. k - n \in Nat /\ k - n < k /\ k - n # 0 /\ k - n < m /\ k - (k - n) = n
      BY <1>0, <1>3, <1>4, <2>2 DEF n
    <3>2. k - n \notin D
      BY <1>2, <1>3, <3>1
    <3>3. BatchState(n) = "resolved"
      BY <1>4, <3>1, <3>2
    <3> QED
      BY <3>3
  <2> QED
    BY <2>1, <2>2
<1>6. n \in 1..Len(BatchCalls)
  BY <1>0, <1>4, SlotFacts
<1>7. BatchState(n - job.concurrency) = "resolved"
  BY <1>4, <1>5, <1>6 DEF BatchInv, BegunInOrder, c
<1> QED
  BY <1>3, <1>4, <1>7 DEF c

\* What has been written of an upsertBatch is, for each of its workers, a prefix of
\* the worker's batches: after a batch that failed it writes nothing more
\* (the worker's loop in upsertBatch).
THEOREM WorkersStop == BatchSpec => []WorkersStopAtFailure
<1>1. ASSUME BatchInv PROVE WorkersStopAtFailure
  <2> SUFFICES ASSUME NEW k \in DOMAIN job.batches, effects[BatchCalls[k]] # {},
                      NEW j \in 1..(k - 1), j % job.concurrency = k % job.concurrency
               PROVE  BatchState(j) = "resolved"
    BY DEF WorkersStopAtFailure
  <2>1. k \in 1..Len(BatchCalls) /\ BatchCalls[k] \in Calls
    BY <1>1, JobFacts, SlotFacts DEF BatchInv
  <2>2. BatchState(k) # "idle"
    <3> SUFFICES ASSUME BatchState(k) = "idle" PROVE FALSE
      OBVIOUS
    <3> DEFINE c == BatchCalls[k]
    <3>1. call[c].attempt = 0
      BY <1>1, <2>1 DEF BatchInv, StandInv, OnceInv, AttemptsBounded, BatchState
    <3>2. 1..call[c].attempt = {}
      BY <3>1
    <3> QED
      BY <1>1, <2>1, <3>2 DEF BatchInv, StandInv, OnceInv, EffectsBelong
  <2>3. job.state # "none"
    <3> SUFFICES ASSUME job.state = "none" PROVE FALSE
      OBVIOUS
    <3>1. job.batches = <<>>
      BY <1>1, SplitOfNone DEF BatchInv, JobInv
    <3> QED
      BY <3>1
  <2> QED
    BY <1>1, <2>1, <2>2, <2>3, WorkerBatches
<1> QED
  BY <1>1, BatchAlways, PTL
=============================================================================
