----------------------------- MODULE RateLimiter -----------------------------
(***************************************************************************)
(* core/rate-limiter.ts: admission of calls to a provider that has limits. *)
(* A call needs a free concurrent slot and its share of the budget of the  *)
(* current minute.  Requests and tokens of the minute are one budget here: *)
(* a call costs Cost[c] of it, never more than the whole (the caller cuts  *)
(* its estimate down to the limit).                                        *)
(***************************************************************************)
EXTENDS Integers, Sequences, FiniteSets, FiniteSetsExt, SequencesExt

CONSTANTS Clients,      \* who asks for admission
          Limited,      \* providers that have limits
          Concurrent,   \* calls a provider takes at once
          Budget,       \* what a provider takes in a minute
          Cost          \* what a client's call takes of it

VARIABLES concurrent,   \* calls admitted and not released
          spent,        \* budget used in the current minute
          waitQueue     \* queued clients, oldest first

limiterVars == <<concurrent, spent, waitQueue>>

LimiterTypeOK ==
  /\ concurrent \in [Limited -> Nat]
  /\ spent \in [Limited -> Nat]
  /\ waitQueue \in [Limited -> Seq(Clients)]

LimiterInit ==
  /\ concurrent = [p \in Limited |-> 0]
  /\ spent = [p \in Limited |-> 0]
  /\ waitQueue = [p \in Limited |-> <<>>]

Waiting(c) == \E p \in Limited : \E i \in DOMAIN waitQueue[p] : waitQueue[p][i] = c

TotalCost(queue) ==
  LET sum[n \in 0 .. Len(queue)] == IF n = 0 THEN 0 ELSE sum[n - 1] + Cost[queue[n]]
  IN  sum[Len(queue)]

\* canProceed(), for a whole queue one after the other.
CanProceed(p, queue, inUse, used) ==
  /\ inUse + Len(queue) <= Concurrent[p]
  /\ used + TotalCost(queue) <= Budget[p]

(* processQueue(): admit the longest prefix of the queue that fits. *)
ProcessQueue(p, queue, inUse, used) ==
  LET k == Max({n \in 0 .. Len(queue) :
                  n = 0 \/ CanProceed(p, SubSeq(queue, 1, n), inUse, used)})
  IN  /\ concurrent' = [concurrent EXCEPT ![p] = inUse + k]
      /\ spent' = [spent EXCEPT ![p] = used + TotalCost(SubSeq(queue, 1, k))]
      /\ waitQueue' = [waitQueue EXCEPT ![p] = SubSeq(queue, k + 1, Len(queue))]

\* acquire(): the fast path does not look at who waits already.
Acquire(p, c) ==
  IF CanProceed(p, <<c>>, concurrent[p], spent[p])
    THEN /\ concurrent' = [concurrent EXCEPT ![p] = @ + 1]
         /\ spent' = [spent EXCEPT ![p] = @ + Cost[c]]
         /\ UNCHANGED waitQueue
    ELSE /\ waitQueue' = [waitQueue EXCEPT ![p] = Append(@, c)]
         /\ UNCHANGED <<concurrent, spent>>

Release(p) ==
  ProcessQueue(p, waitQueue[p], IF concurrent[p] > 0 THEN concurrent[p] - 1 ELSE 0, spent[p])

\* The poll of a waiting call, every 100 ms.
Poll(p) ==
  /\ waitQueue[p] # <<>>
  /\ ProcessQueue(p, waitQueue[p], concurrent[p], spent[p])

\* A waiting call whose signal aborts leaves the queue.
Withdraw(p, c) ==
  /\ \E i \in DOMAIN waitQueue[p] :
       /\ waitQueue[p][i] = c
       /\ waitQueue' = [waitQueue EXCEPT ![p] = RemoveAt(@, i)]
  /\ UNCHANGED <<concurrent, spent>>

\* resetMinuteIfNeeded(): a new minute has begun when somebody looks.
NewMinute(p) ==
  /\ spent[p] > 0
  /\ spent' = [spent EXCEPT ![p] = 0]
  /\ UNCHANGED <<concurrent, waitQueue>>
=============================================================================
