-------------------------- MODULE ProviderFailover --------------------------
(***************************************************************************)
(* createFailoverManager() of core/provider-failover.ts, with the health   *)
(* records of core/provider-health.ts: calls to a chain of models with     *)
(* fallback, the three modes, the recovery probe, and the queue that takes *)
(* complex requests while every provider is down.  Calls pass the          *)
(* RateLimiter of their provider.                                          *)
(*                                                                         *)
(* Model calls are awaited; everything between two awaits is one step.     *)
(* What a continuation has still to do at once (the next candidate of a    *)
(* call that failed, the next request of the drain) is a step of its own   *)
(* that nothing from outside overtakes: see Quiet.                         *)
(***************************************************************************)
EXTENDS Integers, Sequences, FiniteSets, FiniteSetsExt, SequencesExt

CONSTANTS
  Requests,         \* callers of chat() and chatStream(), one call at a time each
  NoRequest,
  Provider,         \* the provider of each entry; entry 1 is the primary
  Slots,            \* entries 1 .. Slots are the chain, others can be asked for
  Complex,          \* requests that say isComplex
  Sessioned,        \* requests with a failoverSessionKey, each its own
  Wanted,           \* the entry a request asks for, or 0
  Allowed,          \* the entries a request's user may use
  Limited, Concurrent, Budget, Cost,    \* of RateLimiter
  MaxQueue,         \* DegradedQueuePolicy.maxQueueLength
  DropOldest,       \* fullQueuePolicy = 'drop_oldest'
  Probes            \* bound: recovery probes under way at once

DegradedThreshold == 2
DownThreshold == 3
RecoveryThreshold == 2

Entries == DOMAIN Provider
Chain == 1 .. Slots
Providers == {Provider[e] : e \in Entries}

ASSUME ChainAssumption == Provider \in Seq(Providers) /\ Slots \in 1 .. Len(Provider)
ASSUME RequestAssumption ==
  /\ IsFiniteSet(Requests) /\ NoRequest \notin Requests /\ Sessioned \subseteq Requests
  /\ Wanted \in [Requests -> Entries \union {0}]
  /\ Allowed \in [Requests -> SUBSET Entries]

\* A call's estimate is cut down to the provider's limit.
ASSUME CostAssumption ==
  /\ Budget \in [Limited -> Nat] /\ Concurrent \in [Limited -> Nat]
  /\ \A r \in Requests, p \in Limited : Cost[r] \in 1 .. Budget[p]

ASSUME QueueAssumption == MaxQueue \in Nat /\ DropOldest \in BOOLEAN

VARIABLES
  mode,         \* FailoverMode
  active,       \* the entry activeProvider and activeModel name
  health,       \* provider-health's record of each provider, counters capped
  timer,        \* recoveryTimer is set
  probes,       \* the entry each recovery probe under way is asking, or 0
  queue,        \* requestQueue
  toProcess,    \* what drainQueue() has still to serve
  serving,      \* the request drainQueue() awaits
  aged,         \* queued requests that are older than requestTtlMs
  phase,        \* where each request is
  todo,         \* the candidates of each call, the current one first
  pinned,       \* requests that were given the entry of their session only
  sticky,       \* stickySelections: the entry of each session, or 0
  destroyed,
  concurrent, spent, waitQueue          \* of RateLimiter

modes == <<mode, active, timer, probes>>
drain == <<queue, toProcess, serving, aged>>
calls == <<phase, todo, pinned, sticky>>
limiter == <<concurrent, spent, waitQueue>>
vars == <<modes, health, drain, calls, destroyed, limiter>>

Limiter == INSTANCE RateLimiter WITH Clients <- Requests

Health == [status : {"healthy", "degraded", "down"},
           failures : 0 .. DownThreshold, successes : 0 .. RecoveryThreshold]

TypeOK ==
  /\ mode \in {"normal", "fallback", "degraded"}
  /\ active \in Entries
  /\ health \in [Providers -> Health]
  /\ timer \in BOOLEAN /\ destroyed \in BOOLEAN
  /\ probes \in [Probes -> Chain \union {0}]
  /\ queue \in Seq(Requests) /\ Len(queue) <= MaxQueue
  /\ toProcess \in Seq(Requests)
  /\ serving \in Requests \union {NoRequest}
  /\ aged \in SUBSET Requests
  /\ phase \in [Requests -> {"idle", "queued", "next", "calling"}]
  /\ todo \in [Requests -> Seq(Entries)]
  /\ pinned \in SUBSET Requests
  /\ sticky \in [Sessioned -> Entries \union {0}]
  /\ Limiter!LimiterTypeOK

Init ==
  /\ mode = "normal" /\ active = 1 /\ timer = FALSE
  /\ probes = [k \in Probes |-> 0]
  /\ health = [p \in Providers |-> [status |-> "healthy", failures |-> 0, successes |-> 0]]
  /\ queue = <<>> /\ toProcess = <<>> /\ serving = NoRequest /\ aged = {}
  /\ phase = [r \in Requests |-> "idle"]
  /\ todo = [r \in Requests |-> <<>>]
  /\ pinned = {} /\ sticky = [r \in Sessioned |-> 0]
  /\ destroyed = FALSE
  /\ Limiter!LimiterInit

Draining == serving # NoRequest \/ toProcess # <<>>

\* The drain is between two requests.
DrainGoesOn == serving = NoRequest /\ toProcess # <<>>

\* No continuation is left that runs before anything else can happen.
Quiet == ~DrainGoesOn /\ \A r \in Requests : phase[r] # "next"

-----------------------------------------------------------------------------
(* provider-health.ts *)

ReportSuccess(p) ==
  LET h == health[p]
      n == IF h.successes < RecoveryThreshold THEN h.successes + 1 ELSE h.successes
  IN  [health EXCEPT ![p] =
         [status |-> IF n < RecoveryThreshold THEN h.status
                     ELSE IF h.status = "down" THEN "degraded" ELSE "healthy",
          failures |-> 0, successes |-> n]]

ReportFailure(p) ==
  LET h == health[p]
      n == IF h.failures < DownThreshold THEN h.failures + 1 ELSE h.failures
  IN  [health EXCEPT ![p] =
         [status |-> IF n >= DownThreshold THEN "down"
                     ELSE IF n >= DegradedThreshold THEN "degraded" ELSE h.status,
          failures |-> n, successes |-> 0]]

-----------------------------------------------------------------------------
(* The modes and the queue. *)

Elements(seq) == {seq[i] : i \in DOMAIN seq}

\* What of seq is in S, in its order: each element goes to the place its rank
\* among those kept gives it.
Only(seq, S) ==
  LET kept == {i \in DOMAIN seq : seq[i] \in S}
      Rank(i) == Cardinality({j \in kept : j <= i})
  IN  [n \in 1 .. Cardinality(kept) |-> seq[CHOOSE i \in kept : Rank(i) = n]]

\* evictExpiredQueueRequests()
Expired == Elements(queue) \intersect aged
Fresh == Only(queue, Requests \ aged)

\* Promises that are settled: their callers go on, and so does the drain when
\* it awaits one of them.
Settle(done) ==
  serving' = IF serving \in done THEN NoRequest ELSE serving

\* Requests the drain begun by a change to mode m rejects as expired.
DrainRejects(m) ==
  IF m \in {mode, "degraded"} \/ Draining THEN {} ELSE Expired

\* Mutant: the drain takes the requests and leaves them in the queue.
SetMode_QueueKept(m) ==
  /\ mode' = m
  /\ timer' = IF m = mode THEN timer ELSE m = "degraded"
  /\ IF m \in {mode, "degraded"} \/ Draining
       THEN UNCHANGED <<queue, toProcess>>
       ELSE toProcess' = Fresh /\ queue' = Fresh
  /\ aged' = aged \ DrainRejects(m)

(* setMode() with the synchronous part of drainQueue().  A drain that is
   already under way keeps a new one from starting. *)
SetMode(m) ==
  /\ mode' = m
  /\ timer' = IF m = mode THEN timer ELSE m = "degraded"
  /\ IF m \in {mode, "degraded"} \/ Draining
       THEN UNCHANGED <<queue, toProcess>>
       ELSE toProcess' = Fresh /\ queue' = <<>>
  /\ aged' = aged \ DrainRejects(m)

PrimaryDown(hs) == hs[Provider[1]].status = "down"

\* The first fallback whose provider is not down.
HealthyFallbacks(hs) == {e \in Chain \ {1} : hs[Provider[e]].status # "down"}

\* Mutant: a fallback that answers leaves the active entry as it was.
RecordProviderSuccess_ActiveKept(e) ==
  IF mode # "normal" /\ Provider[e] = Provider[1]
    THEN [mode |-> "normal", active |-> active]
    ELSE [mode |-> IF mode = "degraded" THEN "fallback" ELSE mode, active |-> active]

\* The mode and active entry after a call to e succeeded.
RecordProviderSuccess(e) ==
  IF mode # "normal" /\ Provider[e] = Provider[1]
    THEN [mode |-> "normal", active |-> e]
    ELSE IF mode = "degraded" THEN [mode |-> "fallback", active |-> e]
    ELSE [mode |-> mode, active |-> active]

\* The same after one failed, hs being the health records with that failure.
RecordProviderFailure(hs) ==
  IF ~PrimaryDown(hs) THEN [mode |-> mode, active |-> active]
  ELSE IF HealthyFallbacks(hs) = {} THEN [mode |-> "degraded", active |-> active]
  ELSE [mode |-> "fallback", active |-> Min(HealthyFallbacks(hs))]

-----------------------------------------------------------------------------
(* chat() and chatStream() *)

ShouldSkipPrimary == mode # "normal" /\ PrimaryDown(health)

Repeat(e, n) == [i \in 1 .. n |-> e]

\* getProviderList(): the chain; or the entry asked for, once for every slot of
\* its provider, before the other providers of the chain.
ProviderList(r) ==
  LET w == Wanted[r]
      skipped == IF ShouldSkipPrimary THEN {Provider[1]} ELSE {}
      slots == [i \in Chain |-> i]
      same == {e \in Chain : Provider[e] = Provider[w]}
  IN  IF w = 0
        THEN IF skipped = {} THEN slots ELSE Tail(slots)
        ELSE (IF Provider[w] \in skipped THEN <<>>
              ELSE Repeat(w, IF same = {} THEN 1 ELSE Cardinality(same)))
             \o Only(slots, {e \in Chain : Provider[e] \notin skipped \union {Provider[w]}})

EntitledProviderList(r) == Only(ProviderList(r), Allowed[r])

Pin(r) == IF r \in Sessioned THEN sticky[r] ELSE 0

\* Mutant: a pinned session is given the whole list again.
Candidates_Unpinned(r) == EntitledProviderList(r)

Candidates(r) == IF Pin(r) # 0 THEN <<Pin(r)>> ELSE EntitledProviderList(r)

\* Up to the first attempt; without an entitled entry the call throws here.
Begin(r) ==
  /\ todo' = [todo EXCEPT ![r] = Candidates(r)]
  /\ pinned' = IF Pin(r) # 0 THEN pinned \union {r} ELSE pinned \ {r}
  /\ UNCHANGED sticky

Queues(r) == mode = "degraded" /\ r \in Complex

\* Backpressure: what makes room for a new request, once the expired are out.
Overflows == DropOldest /\ Len(Fresh) >= MaxQueue /\ Fresh # <<>>
Dropped == IF Overflows THEN {Head(Fresh)} ELSE {}
\* Mutant: one more than the queue may hold is let in.
Admitted_OffByOne == Overflows \/ Len(Fresh) <= MaxQueue

Admitted == Overflows \/ Len(Fresh) < MaxQueue

Enqueue(r) ==
  /\ queue' = (IF Overflows THEN Tail(Fresh) ELSE Fresh) \o (IF Admitted THEN <<r>> ELSE <<>>)
  /\ aged' = aged \ Expired

Chat(r) ==
  /\ phase[r] = "idle" /\ Quiet
  /\ IF Queues(r)
       THEN /\ Enqueue(r)
            /\ phase' = [q \in Requests |->
                           IF q = r /\ Admitted THEN "queued"
                           ELSE IF q \in Expired \union Dropped THEN "idle" ELSE phase[q]]
            /\ Settle(Expired \union Dropped)
            /\ UNCHANGED <<todo, pinned, sticky, toProcess>>
       ELSE /\ EntitledProviderList(r) # <<>>
            /\ Begin(r)
            /\ phase' = [phase EXCEPT ![r] = "next"]
            /\ UNCHANGED drain
  /\ UNCHANGED <<modes, health, destroyed, limiter>>

\* A stream is never queued; a failed one starts again with the next entry.
ChatStream(r) ==
  /\ phase[r] = "idle" /\ Quiet
  /\ EntitledProviderList(r) # <<>>
  /\ Begin(r)
  /\ phase' = [phase EXCEPT ![r] = "next"]
  /\ UNCHANGED <<modes, health, drain, destroyed, limiter>>

\* The next candidate: ask for a permit, or throw the last error.
NextCandidate(r) ==
  /\ phase[r] = "next"
  /\ IF todo[r] = <<>>
       THEN /\ phase' = [phase EXCEPT ![r] = "idle"]
            /\ Settle({r})
            /\ UNCHANGED limiter
       ELSE /\ phase' = [phase EXCEPT ![r] = "calling"]
            /\ IF Provider[Head(todo[r])] \in Limited
                 THEN Limiter!Acquire(Provider[Head(todo[r])], r) ELSE UNCHANGED limiter
            /\ UNCHANGED serving
  /\ UNCHANGED <<modes, health, queue, toProcess, aged, todo, pinned, sticky, destroyed>>

Calling(r) == phase[r] = "calling" /\ ~Limiter!Waiting(r)

\* The finally of callWithProviderPermit() and of chatStream().
ReleasePermit(r) ==
  LET p == Provider[Head(todo[r])]
  IN  IF p \in Limited THEN Limiter!Release(p) ELSE UNCHANGED limiter

(* The call is over: its local variables are gone. *)
Forget(r) ==
  /\ todo' = [todo EXCEPT ![r] = <<>>]
  /\ pinned' = pinned \ {r}

CallSucceeds(r) ==
  LET e == Head(todo[r])
      to == RecordProviderSuccess(e)
  IN  /\ Calling(r) /\ Quiet
      /\ ReleasePermit(r)
      /\ health' = ReportSuccess(Provider[e])
      /\ SetMode(to.mode)
      /\ active' = to.active
      /\ sticky' = [s \in Sessioned |-> IF s = r THEN e ELSE sticky[s]]
      /\ phase' = [q \in Requests |->
                     IF q \in DrainRejects(to.mode) \union {r} THEN "idle" ELSE phase[q]]
      /\ Settle({r})
      /\ Forget(r)
      /\ UNCHANGED <<probes, destroyed>>

(* An error that may not be retried bars its provider for the rest of the
   call.  A session's entry that fails is given up, and the error thrown. *)
CallFails(r, retryable) ==
  LET e == Head(todo[r])
      hs == ReportFailure(Provider[e])
      to == RecordProviderFailure(hs)
      rest == IF retryable THEN Tail(todo[r])
              ELSE Only(Tail(todo[r]), {c \in Entries : Provider[c] # Provider[e]})
  IN  /\ Calling(r) /\ Quiet
      /\ ReleasePermit(r)
      /\ health' = hs
      /\ SetMode(to.mode)
      /\ active' = to.active
      /\ sticky' = [s \in Sessioned |-> IF s = r /\ r \in pinned THEN 0 ELSE sticky[s]]
      /\ phase' = [q \in Requests |->
                     IF q = r THEN IF r \in pinned THEN "idle" ELSE "next"
                     ELSE IF q \in DrainRejects(to.mode) THEN "idle" ELSE phase[q]]
      /\ IF r \in pinned THEN Forget(r)
         ELSE todo' = [todo EXCEPT ![r] = rest] /\ UNCHANGED pinned
      /\ Settle(IF r \in pinned THEN {r} ELSE {})
      /\ UNCHANGED <<probes, destroyed>>

\* Mutant: a call that is aborted keeps its permit.
Abort_PermitKept(r) ==
  /\ phase[r] = "calling" /\ Quiet
  /\ IF Limiter!Waiting(r)
       THEN Limiter!Withdraw(Provider[Head(todo[r])], r) ELSE UNCHANGED limiter
  /\ phase' = [phase EXCEPT ![r] = "idle"]
  /\ Settle({r})
  /\ Forget(r)
  /\ UNCHANGED <<modes, health, queue, toProcess, aged, sticky, destroyed>>

(* The abort signal of the caller, or a stream whose reader goes away: nothing
   is recorded.  Who waits for admission leaves the limiter's queue. *)
Abort(r) ==
  /\ phase[r] = "calling" /\ Quiet
  /\ IF Limiter!Waiting(r)
       THEN Limiter!Withdraw(Provider[Head(todo[r])], r) ELSE ReleasePermit(r)
  /\ phase' = [phase EXCEPT ![r] = "idle"]
  /\ Settle({r})
  /\ Forget(r)
  /\ UNCHANGED <<modes, health, queue, toProcess, aged, sticky, destroyed>>

-----------------------------------------------------------------------------
(* drainQueue() after its first synchronous part. *)

(* The next request: rejected when it has expired meanwhile, and passed to
   chat() otherwise, which queues it again if the mode is degraded again. *)
DrainNext ==
  /\ DrainGoesOn
  /\ toProcess' = Tail(toProcess)
  /\ LET r == Head(toProcess)
         out == IF r \in aged THEN {r}
                ELSE IF Queues(r) THEN Expired \union Dropped \union (IF Admitted THEN {} ELSE {r})
                ELSE IF EntitledProviderList(r) = <<>> THEN {r} ELSE {}
     IN  /\ phase' = [q \in Requests |->
                        IF q \in out THEN "idle"
                        ELSE IF q = r /\ ~Queues(r) THEN "next" ELSE phase[q]]
         /\ serving' = IF r \in out THEN NoRequest ELSE r
         /\ IF r \notin aged /\ Queues(r)
              THEN Enqueue(r) ELSE aged' = aged \ {r} /\ UNCHANGED queue
         /\ IF r \in out \/ Queues(r) THEN UNCHANGED <<todo, pinned, sticky>> ELSE Begin(r)
  /\ UNCHANGED <<modes, health, destroyed, limiter>>

-----------------------------------------------------------------------------
(* The recovery probe.  A tick does not ask whether an earlier probe is still
   under way, and clearing the timer does not stop one. *)

ProbeTick(k) ==
  /\ timer /\ Quiet /\ probes[k] = 0
  /\ probes' = [probes EXCEPT ![k] = 1]
  /\ UNCHANGED <<mode, active, timer, health, drain, calls, destroyed, limiter>>

ProbeAnswered(k) ==
  LET e == probes[k]
      m == IF e = 1 THEN "normal" ELSE "fallback"
  IN  /\ e # 0 /\ Quiet
      /\ health' = ReportSuccess(Provider[e])
      /\ active' = e
      /\ SetMode(m)
      /\ probes' = [probes EXCEPT ![k] = 0]
      /\ phase' = [q \in Requests |-> IF q \in DrainRejects(m) THEN "idle" ELSE phase[q]]
      /\ UNCHANGED <<serving, todo, pinned, sticky, destroyed, limiter>>

ProbeFails(k) ==
  /\ probes[k] # 0 /\ Quiet
  /\ health' = ReportFailure(Provider[probes[k]])
  /\ probes' = [probes EXCEPT ![k] = IF @ < Slots THEN @ + 1 ELSE 0]
  /\ UNCHANGED <<mode, active, timer, drain, calls, destroyed, limiter>>

-----------------------------------------------------------------------------
(* Time, and the end. *)

RequestAges(r) ==
  /\ phase[r] = "queued" /\ r \notin aged /\ Quiet
  /\ aged' = aged \union {r}
  /\ UNCHANGED <<modes, health, queue, toProcess, serving, calls, destroyed, limiter>>

\* pruneStickySelections() drops a selection not touched for stickyTtlMs.
PinExpires(r) ==
  /\ sticky[r] # 0 /\ Quiet
  /\ sticky' = [sticky EXCEPT ![r] = 0]
  /\ UNCHANGED <<modes, health, drain, phase, todo, pinned, destroyed, limiter>>

LimiterTime(p) ==
  /\ Quiet
  /\ Limiter!Poll(p) \/ Limiter!NewMinute(p)
  /\ UNCHANGED <<modes, health, drain, calls, destroyed>>

Destroy ==
  /\ ~destroyed /\ Quiet
  /\ destroyed' = TRUE
  /\ timer' = FALSE
  /\ queue' = <<>>
  /\ aged' = aged \ Elements(queue)
  /\ Settle(Elements(queue))
  /\ phase' = [q \in Requests |-> IF q \in Elements(queue) THEN "idle" ELSE phase[q]]
  /\ sticky' = [r \in Sessioned |-> 0]
  /\ UNCHANGED <<mode, active, probes, health, toProcess, todo, pinned, limiter>>

CallEnds(r) == CallSucceeds(r) \/ Abort(r) \/ \E b \in BOOLEAN : CallFails(r, b)

Next ==
  \/ \E r \in Requests :
       \/ Chat(r) \/ ChatStream(r) \/ NextCandidate(r) \/ CallSucceeds(r)
       \/ \E b \in BOOLEAN : CallFails(r, b)
       \/ Abort(r) \/ RequestAges(r)
  \/ DrainNext
  \/ \E k \in Probes : ProbeTick(k) \/ ProbeAnswered(k) \/ ProbeFails(k)
  \/ \E r \in Sessioned : PinExpires(r)
  \/ \E p \in Limited : LimiterTime(p)
  \/ Destroy

(* Continuations run, calls and probes end, timers fire; callers go on calling. *)
Fairness ==
  /\ \A r \in Requests : WF_vars(NextCandidate(r)) /\ WF_vars(CallEnds(r)) /\ WF_vars(Chat(r))
  /\ WF_vars(DrainNext)
  /\ \A k \in Probes : WF_vars(ProbeTick(k)) /\ WF_vars(ProbeAnswered(k) \/ ProbeFails(k))
  /\ \A p \in Limited : WF_vars(LimiterTime(p))

Spec == Init /\ [][Next]_vars
FairSpec == Spec /\ Fairness

-----------------------------------------------------------------------------
\* A request that waits is in one place and one only, the queue or the list the
\* drain has taken: none is lost when the drain passes it on, puts it back or is
\* cut short, and none is served twice.  (That somebody serves it is not said.)
QueuedOnce ==
  /\ \A r \in Requests :
       Cardinality({i \in DOMAIN queue : queue[i] = r})
         + Cardinality({i \in DOMAIN toProcess : toProcess[i] = r})
       = IF phase[r] = "queued" THEN 1 ELSE 0
  /\ serving # NoRequest => phase[serving] # "idle" /\ serving \notin Elements(toProcess)

\* What the limiter counts is what really runs: every way a call can end gives
\* its permit back once, and who waits holds none.
PermitsMatchCalls ==
  \A p \in Limited :
    concurrent[p] = Cardinality({r \in Requests : Calling(r) /\ Provider[Head(todo[r])] = p})

\* The mode tells the truth, in whatever order calls, old probes and mode
\* changes follow each other: the recovery timer runs exactly while everything
\* is down, and the entry reported as active is the one the mode speaks of.
ModeTellsTruth ==
  /\ ~destroyed => (timer <=> mode = "degraded")
  /\ mode = "normal" => Provider[active] = Provider[1]
  /\ mode = "fallback" => active # 1

\* A session that has an entry keeps it until the entry fails or the session
\* has been silent for long: a tool loop never changes its model on the way.
SessionStaysPinned ==
  [][\A r \in Sessioned : sticky[r] # 0 => sticky'[r] \in {sticky[r], 0}]_vars

\* "Automatic recovery detection" (provider-failover.ts:8): while the manager
\* works on a fallback it asks the primary again some time.
PrimaryTriedAgain ==
  mode = "fallback" ~>
    \/ mode # "fallback" \/ destroyed
    \/ \E r \in Requests : Calling(r) /\ Provider[Head(todo[r])] = Provider[1]
=============================================================================
