------------------------------- MODULE JsClient -------------------------------
(***************************************************************************)
(* The JavaScript client (clientlibs/js/src/client.ts): the calls of one   *)
(* VectronClient, their retries and hedges, and the RPCs they make.        *)
(*                                                                         *)
(* The caller makes up to one call per element of Calls, any number of     *)
(* them at a time.  A call is a promise; each of its attempts awaits one   *)
(* RPC, or, for a hedged read, the first success of two.  An RPC ends for  *)
(* the client with the gateway's answer, a broken connection or its        *)
(* deadline; the gateway may execute it before that, after it, or never.   *)
(*                                                                         *)
(* The gateway is seen through one collection and one point in it: which   *)
(* call created the one and which call wrote the other last.               *)
(***************************************************************************)
EXTENDS Integers, FiniteSets

CONSTANTS
    Calls,          \* the calls that the caller may make
    OptionSets,     \* the ClientOptions considered
    CallerOps,      \* call -> the operations that it may be
    GatewayFaults,  \* the codes of failures that depend on no argument
    MaxAttempts,    \* bound on retryMaxAttempts
    None,           \* no call
    Other           \* another client

Writes == {"createCollection", "upsert", "delete"}
Reads  == {"listCollections", "getCollectionStatus", "search", "get"}
Ops    == Writes \cup Reads

Codes == {"UNAVAILABLE", "RESOURCE_EXHAUSTED", "DEADLINE_EXCEEDED", "INTERNAL",
          "UNAUTHENTICATED", "NOT_FOUND", "ALREADY_EXISTS", "INVALID_ARGUMENT"}

\* What a call can be rejected with; "Error" is one without a gRPC code.
Errors == {"VectronError", "AuthenticationError", "NotFoundError", "InvalidArgumentError",
           "AlreadyExistsError", "InternalServerError", "Error"}

Options == [timeout : BOOLEAN,            \* timeoutMs > 0
            hedgedReads : BOOLEAN,
            hedgeDelay : BOOLEAN,         \* hedgeDelayMs > 0
            retryMaxAttempts : 0..MaxAttempts,
            retryOnWrites : BOOLEAN,
            retryableStatusCodes : SUBSET Codes]

ASSUME ClientAssumption ==
    /\ OptionSets \subseteq Options
    /\ MaxAttempts \in Nat \ {0}
    /\ CallerOps \in [Calls -> SUBSET Ops]
    /\ GatewayFaults \subseteq Codes
    /\ None \notin Calls /\ Other \notin Calls /\ None # Other

VARIABLES
    options,
    closed,     \* close() was called
    call,       \* call -> its operation, its promise and the state of callWithRetry
    rpc,        \* <<call, attempt, run>> -> that RPC, at the client and at the gateway
    store,      \* the gateway's side
    effects     \* call -> the attempts and runs of it that the gateway has carried out

clientVars == <<options, closed, call, rpc, store, effects>>

Attempts == 1..MaxAttempts
Runs == {1, 2}      \* the first run of an attempt, and its hedge

Idle == [op |-> "get", state |-> "idle", attempt |-> 0, hedge |-> "off", error |-> "none",
         after |-> {}]
NoRPC == [client |-> "none", gateway |-> "none", code |-> "none"]

Running(c) == call[c].state = "running"
Settled(c) == call[c].state \in {"resolved", "rejected"}

ClientInit ==
    /\ options \in OptionSets
    /\ closed = FALSE
    /\ call = [c \in Calls |-> Idle]
    /\ rpc = [i \in Calls \X Attempts \X Runs |-> NoRPC]
    /\ store \in [collection : {None, Other}, point : {None}]
    /\ effects = [c \in Calls |-> {}]

----------------------------------------------------------------------------
(* callWithRetry.                                                          *)

HandleError(code) == CASE code = "UNAUTHENTICATED"  -> "AuthenticationError"
                       [] code = "NOT_FOUND"        -> "NotFoundError"
                       [] code = "INVALID_ARGUMENT" -> "InvalidArgumentError"
                       [] code = "ALREADY_EXISTS"   -> "AlreadyExistsError"
                       [] code = "INTERNAL"         -> "InternalServerError"
                       [] OTHER                     -> "VectronError"

GetRetryableCodes ==
    IF options.retryableStatusCodes # {} THEN options.retryableStatusCodes
    ELSE {"UNAVAILABLE", "DEADLINE_EXCEEDED", "RESOURCE_EXHAUSTED"}

\* Mutants: off by one in the number of attempts; writes are retried like reads.
ShouldRetry_OneMore(code, isWrite, attempt) ==
    /\ options.retryMaxAttempts > 1 /\ attempt <= options.retryMaxAttempts
    /\ isWrite => options.retryOnWrites
    /\ code \in GetRetryableCodes

ShouldRetry_Writes(code, isWrite, attempt) ==
    /\ options.retryMaxAttempts > 1 /\ attempt < options.retryMaxAttempts
    /\ code \in GetRetryableCodes

\* An error without a code is never among the retryable codes.
ShouldRetry(code, isWrite, attempt) ==
    /\ options.retryMaxAttempts > 1 /\ attempt < options.retryMaxAttempts
    /\ isWrite => options.retryOnWrites
    /\ code \in GetRetryableCodes

Resolve(c) == [call EXCEPT ![c].state = "resolved"]

Reject(c, error) == [call EXCEPT ![c].state = "rejected", ![c].error = error]

\* The catch block of an attempt: sleep and go round again, or throw.  A
\* VectronError, and an error without a code, are thrown as they are.
Caught(c, error) ==
    IF ShouldRetry(error, call[c].op \in Writes, call[c].attempt)
    THEN [call EXCEPT ![c].state = "backoff"]
    ELSE Reject(c, IF error \in Codes THEN HandleError(error) ELSE error)

\* callRead and hedged: a read is hedged when the option says so; with a delay of
\* zero hedged() makes one run and rejects with it.
Hedges(op) == options.hedgedReads /\ options.hedgeDelay /\ op \in Reads
Hedged(c) == Hedges(call[c].op)

StartRPC(c, attempt, run) ==
    rpc' = [rpc EXCEPT ![<<c, attempt, run>>] =
               [client |-> "open", gateway |-> "pending", code |-> "none"]]

\* The next attempt of call c, whose promise is in state `record`.  On a closed
\* channel the stub throws an error without a code, which hedged() swallows.
Attempt(c, record, attempt) ==
    /\ call' = [call EXCEPT ![c] =
                   IF closed /\ ~Hedges(record.op)
                   THEN [record EXCEPT !.state = "rejected", !.error = "Error"]
                   ELSE [record EXCEPT !.state = "running", !.attempt = attempt,
                                       !.hedge = IF Hedges(record.op) THEN "armed" ELSE "off"]]
    /\ IF closed THEN UNCHANGED rpc ELSE StartRPC(c, attempt, 1)

----------------------------------------------------------------------------
(* The caller.                                                             *)

ResolvedCalls == {d \in Calls : call[d].state = "resolved"}

\* A call with arguments that pass the checks of the method.  `after` remembers
\* which calls had returned by then.
Begin(c, op) ==
    /\ call[c].state = "idle"
    /\ Attempt(c, [Idle EXCEPT !.op = op, !.after = ResolvedCalls], 1)
    /\ UNCHANGED <<options, closed, store, effects>>

\* An empty name or id, an empty vector or one of the wrong dimension.
BeginInvalid(c, op) ==
    /\ call[c].state = "idle" /\ op # "listCollections"
    /\ call' = [call EXCEPT ![c] = [Idle EXCEPT !.op = op, !.state = "rejected",
                                                !.error = "InvalidArgumentError"]]
    /\ UNCHANGED <<options, closed, rpc, store, effects>>

\* An upsert of no points.
BeginEmpty(c) ==
    /\ call[c].state = "idle"
    /\ call' = [call EXCEPT ![c] = [Idle EXCEPT !.op = "upsert", !.state = "resolved"]]
    /\ UNCHANGED <<options, closed, rpc, store, effects>>

Close ==
    /\ ~closed
    /\ closed' = TRUE
    /\ UNCHANGED <<options, call, rpc, store, effects>>

----------------------------------------------------------------------------
(* The RPCs.                                                               *)

\* fn()'s promise settles for run r of the current attempt.  In hedged() only a
\* success settles the promise that callWithRetry awaits.
RunSucceeds(c) == IF Running(c) THEN Resolve(c) ELSE call

\* Mutant: a failure is swallowed without a hedge delay too.
RunFails_Swallows(c, error) ==
    IF Running(c) /\ ~(options.hedgedReads /\ call[c].op \in Reads) THEN Caught(c, error) ELSE call

RunFails(c, error) ==
    IF Running(c) /\ ~Hedged(c) THEN Caught(c, error) ELSE call

\* get rejects an answer without a point.
Answer(c, code) ==
    CASE code = "OK"       -> RunSucceeds(c)
      [] code = "NO_POINT" -> RunFails(c, "NotFoundError")
      [] OTHER             -> RunFails(c, code)

\* The client stops waiting for an RPC, with that code.  What the gateway still
\* makes of it matters only if it is a write.
EndRPC(i, code) ==
    /\ rpc[i].client = "open"
    /\ rpc' = [rpc EXCEPT ![i] = [client |-> "done", code |-> "none",
                                  gateway |-> IF call[i[1]].op \in Writes THEN @.gateway
                                                                          ELSE "answered"]]
    /\ call' = Answer(i[1], code)
    /\ UNCHANGED <<options, closed, store, effects>>

\* The gateway's answer arrives.
Deliver(i) == rpc[i].gateway = "answered" /\ EndRPC(i, rpc[i].code)

\* The connection breaks, or the gateway cannot be reached.
Break(i) == EndRPC(i, "UNAVAILABLE")

\* getCallOptions sets a deadline unless timeoutMs is 0 or less.
Deadline(i) == options.timeout /\ EndRPC(i, "DEADLINE_EXCEEDED")

\* The timer that hedged() set: a second run, unless the first has succeeded.
HedgeTimer(c) ==
    /\ call[c].hedge = "armed"
    /\ \/ /\ Running(c) /\ ~closed
          /\ StartRPC(c, call[c].attempt, 2)
       \/ (~Running(c) \/ closed) /\ UNCHANGED rpc
    /\ call' = [call EXCEPT ![c].hedge = "off"]
    /\ UNCHANGED <<options, closed, store, effects>>

\* The sleep of the backoff is over.
BackoffTimer(c) ==
    /\ call[c].state = "backoff"
    /\ Attempt(c, call[c], call[c].attempt + 1)
    /\ UNCHANGED <<options, closed, store, effects>>

----------------------------------------------------------------------------
(* The gateway (external).                                                 *)

AnswerRPC(i, code) ==
    rpc' = [rpc EXCEPT ![i] = [client |-> @.client, gateway |-> "answered",
                               code |-> IF @.client = "open" THEN code ELSE "none"]]

\* Carried out and answered; an answer of fault means that the gateway lost track
\* of it (the worker did it, its reply did not come).
Execute(i, code) ==
    LET c  == i[1]
        op == call[c].op
    IN  /\ rpc[i].gateway = "pending"
        /\ IF op = "createCollection" THEN store.collection = None
                                      ELSE store.collection # None
        /\ store' = CASE op = "createCollection"     -> [store EXCEPT !.collection = c]
                      [] op \in {"upsert", "delete"} -> [store EXCEPT !.point = c]
                      [] OTHER                       -> store
        /\ effects' = [effects EXCEPT ![c] = IF op \in Writes THEN @ \cup {<<i[2], i[3]>>} ELSE @]
        /\ AnswerRPC(i, IF op = "get" /\ code = "OK" /\ store.point = None
                        THEN "NO_POINT" ELSE code)
        /\ UNCHANGED <<options, closed, call>>

\* Refused without effect.
Refuse(i, code) ==
    LET op == call[i[1]].op
    IN  /\ rpc[i].gateway = "pending" /\ rpc[i].client = "open"
        /\ \/ code \in GatewayFaults
           \/ code = "ALREADY_EXISTS" /\ op = "createCollection" /\ store.collection # None
           \/ code = "NOT_FOUND" /\ op # "createCollection" /\ store.collection = None
        /\ AnswerRPC(i, code)
        /\ UNCHANGED <<options, closed, call, store, effects>>

----------------------------------------------------------------------------

RPCs == Calls \X Attempts \X Runs

BeginCall(c, op) == \/ Begin(c, op) \/ BeginInvalid(c, op)
                    \/ op = "upsert" /\ BeginEmpty(c)

\* Everything but the caller: the client's event loop and the gateway.
ClientStep ==
    \/ \E i \in RPCs :
        \/ Deliver(i) \/ Break(i) \/ Deadline(i)
        \/ \E code \in {"OK", "UNAVAILABLE"} : Execute(i, code)
        \/ \E code \in Codes : Refuse(i, code)
    \/ \E c \in Calls : HedgeTimer(c) \/ BackoffTimer(c)

ClientNext ==
    \/ \E c \in Calls : \E op \in CallerOps[c] : BeginCall(c, op)
    \/ Close
    \/ ClientStep

\* Timers go off.  The gateway is promised nothing: with a timeout it need not be.
ClientFairness ==
    /\ \A i \in RPCs : WF_clientVars(Deadline(i))
    /\ \A c \in Calls : WF_clientVars(HedgeTimer(c)) /\ WF_clientVars(BackoffTimer(c))

ClientSpec == ClientInit /\ [][ClientNext]_clientVars
FairClientSpec == ClientSpec /\ ClientFairness

----------------------------------------------------------------------------
(* Properties.                                                             *)

RPCState == [client : {"none", "open", "done"}, gateway : {"none", "pending", "answered"},
             code : Codes \cup {"none", "OK", "NO_POINT"}]

\* Every variable is in its type.
ClientTypeOK ==
    /\ options \in OptionSets /\ closed \in BOOLEAN
    /\ call \in [Calls -> [op : Ops, state : {"idle", "running", "backoff", "resolved", "rejected"},
                           attempt : 0..MaxAttempts, hedge : {"off", "armed"},
                           error : Errors \cup {"none"}, after : SUBSET Calls]]
    /\ rpc \in [RPCs -> RPCState]
    /\ store \in [collection : Calls \cup {None, Other}, point : Calls \cup {None}]
    /\ effects \in [Calls -> SUBSET (Attempts \X Runs)]

\* Unless the caller asks for it, no write is carried out twice: not after a
\* deadline, a broken connection or an answer that was lost; and with retryOnWrites
\* not more often than retryMaxAttempts says (callWithRetry, shouldRetry).
WritesAtMostOnce ==
    \A c \in Calls :
        /\ ~options.retryOnWrites => Cardinality(effects[c]) <= 1
        /\ Cardinality(effects[c]) <= 1 \/ Cardinality(effects[c]) <= options.retryMaxAttempts

\* A write that returned, of some points, has been carried out, and what it wrote is not undone by
\* one that had returned before it was made: no stray copy of the earlier one is
\* left to arrive late (true without retryOnWrites only).
ResolvedWritesStand ==
    \A c \in Calls :
        call[c].state = "resolved" /\ call[c].op \in Writes /\ call[c].attempt > 0 =>
            /\ effects[c] # {}
            /\ ~options.retryOnWrites => store.point \notin call[c].after

\* createCollection never fails on the collection that the same call has created
\* (true without retryOnWrites only: a retry after a lost answer does).
NoConflictWithItself ==
    \A c \in Calls :
        call[c].error = "AlreadyExistsError" /\ ~options.retryOnWrites => store.collection # c

\* With a timeout every call is answered or thrown, hedged reads aside.
CallsSettle ==
    \A c \in Calls :
        Running(c) /\ options.timeout /\ ~Hedged(c) ~> Settled(c)

\* With a timeout every call is answered or thrown: what README.md of the client
\* says of all operations ("They will throw an exception if the call fails").
FailuresAreThrown ==
    \A c \in Calls : Running(c) /\ options.timeout ~> Settled(c)
=============================================================================
