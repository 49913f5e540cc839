----------------------------- MODULE DagLimiter -----------------------------
(***************************************************************************)
(* DagConcurrencyLimiter of core/dag-executor.ts: the process-wide permit  *)
(* queue that every step of every plan passes before it runs.  Requests    *)
(* are served first come, first served; each one brings the limit that was *)
(* configured when its DAG started, so requests with different limits may  *)
(* stand in the queue together.                                            *)
(***************************************************************************)
EXTENDS Integers, Sequences, FiniteSets, FiniteSetsExt

CONSTANTS Clients,    \* the startReadyTask() calls that ask for a permit
          Limits      \* values of system.max_parallel_agents they may bring

ASSUME ClientsAssumption == IsFiniteSet(Clients)
ASSUME LimitsAssumption == Limits \subseteq Int /\ Limits # {}

VARIABLES active,     \* permits in use
          waiting,    \* queued requests, oldest first
          holders     \* clients whose release() has not been called yet

vars == <<active, waiting, holders>>

\* Mutant: no lower bound on a limit.
NormalizedLimit_Raw(limit) == limit

\* A limit is at least one permit, whatever the configuration says.
NormalizedLimit(limit) == IF limit < 1 THEN 1 ELSE limit

Request == [client : Clients, limit : {NormalizedLimit(l) : l \in Limits}]

Waiters == {waiting[i].client : i \in DOMAIN waiting}

TypeOK == /\ active \in Nat
          /\ waiting \in Seq(Request)
          /\ holders \in SUBSET Clients

Init == /\ active = 0
        /\ waiting = <<>>
        /\ holders = {}

-----------------------------------------------------------------------------
(* drain(): grant the longest prefix of the queue whose every request still
   finds a free permit after the ones before it took theirs. *)
Grantable(inUse, queue) ==
  Max({k \in 0 .. Len(queue) :
         \A i \in 1 .. k : inUse + i - 1 < queue[i].limit})

Drain(inUse, queue, keep) ==
  LET k == Grantable(inUse, queue)
  IN  /\ active' = inUse + k
      /\ waiting' = SubSeq(queue, k + 1, Len(queue))
      /\ holders' = keep \union {queue[i].client : i \in 1 .. k}

\* Mutant: the fast path does not look at the queue.
Acquire_Overtaking(c, limit) ==
  /\ c \notin holders \union Waiters
  /\ IF active < NormalizedLimit(limit)
       THEN Drain(active + 1, waiting, holders \union {c})
       ELSE Drain(active,
                  Append(waiting, [client |-> c, limit |-> NormalizedLimit(limit)]),
                  holders)

\* acquire(): with a permit free and nobody queued the grant is immediate,
\* which is what queueing the request and draining at once amounts to.
Acquire(c, limit) ==
  /\ c \notin holders \union Waiters
  /\ Drain(active,
           Append(waiting, [client |-> c, limit |-> NormalizedLimit(limit)]),
           holders)

\* Mutant: a release closure that may be called again.
Release_Twice(c) ==
  Drain(IF active > 0 THEN active - 1 ELSE 0, waiting, holders \ {c})

\* Mutant: a release that does not drain.
Release_NoDrain(c) ==
  /\ c \in holders
  /\ active' = (IF active > 0 THEN active - 1 ELSE 0)
  /\ holders' = holders \ {c}
  /\ UNCHANGED waiting

\* The closure grant() returned, on its first call; a second call finds
\* `released` set and changes nothing, so it is no step of its own.
Release(c) ==
  /\ c \in holders
  /\ Drain(IF active > 0 THEN active - 1 ELSE 0, waiting, holders \ {c})

Next == \E c \in Clients : Release(c) \/ \E l \in Limits : Acquire(c, l)

\* A step gives its permit back in a `finally`: every holder releases.
Spec == /\ Init /\ [][Next]_vars
        /\ \A c \in Clients : WF_vars(Release(c))

-----------------------------------------------------------------------------
\* The counter the limiter decides by is the number of permits really out.
SlotAccounting == active = Cardinality(holders)

\* Whoever waits, waits for a reason: the oldest request is held back only
\* while its own limit is used up.  A lost wake-up would break this.
NoIdleHead == waiting # <<>> => active >= waiting[1].limit

\* Nobody is at once queued and running, and nobody is queued twice, so a
\* release cannot start one step two times.
OnePlacePerClient ==
  /\ holders \intersect Waiters = {}
  /\ \A i, j \in DOMAIN waiting : waiting[i].client = waiting[j].client => i = j

\* First come, first served: whoever is granted a permit had no older request
\* before it that goes on waiting, not even one that waits for a lower limit.
FirstComeFirstServed ==
  [][\A c \in holders' \ holders, i \in DOMAIN waiting :
       waiting[i].client \notin holders' =>
         \E j \in 1 .. i : waiting[j].client = c]_vars

\* Every queued request is granted.
WaitersServed == \A c \in Clients : c \in Waiters ~> c \in holders

=============================================================================
