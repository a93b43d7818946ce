---------------------------- MODULE LifecycleLock ---------------------------
(***************************************************************************)
(* backend/src/sessionLifecycleLock.ts: the FIFO lock of one session.      *)
(* An entry exists in the map only while somebody holds the lock; waiters  *)
(* queue behind the holder until they are granted or their timer fires.    *)
(* `run` awaits the guard and then fn inside the lock, and releases on     *)
(* every way out. The guard is the gate of the session's recreations       *)
(* (recreateAttempt.ts): the bodies open and resolve attempts, and a       *)
(* resolution that T_rb abandoned may still land after the lock was let    *)
(* go, so the gate moves while calls wait and while it is being read.      *)
(***************************************************************************)
EXTENDS Naturals, Sequences, SequencesExt

CONSTANTS Callers,   \* the concurrent calls of run() on this session
          NoCaller,  \* the map has no entry for the session
          FailFast,  \* the calls made with mode "fail"
          Exempt,    \* the calls whose op is "create" or "recreate-resolve"
          Recreates, \* the calls that may open an attempt: op "recreate"
          Resolves,  \* the calls with op "recreate-resolve"
          MaxCalls   \* bound: calls started in a behaviour

ASSUME LockAssumption ==
  /\ NoCaller \notin Callers
  /\ FailFast \subseteq Callers
  /\ Exempt \subseteq Callers
  /\ Recreates \subseteq FailFast \ Exempt
  /\ Resolves \subseteq Exempt
  /\ MaxCalls \in Nat

VARIABLES holder,   \* Entry.holder, or NoCaller when there is no entry
          queue,    \* Entry.queue
          pc,       \* where each call is
          shut,     \* the record on disk holds an unresolved attempt
          writer,   \* the call whose `resolved` write is under way, or NoCaller
          calls,    \* calls started (bound)
          ticket,   \* ghost: the arrival number of each call
          arrival   \* ghost: the gate as each call found it, until the guard reads it

gate == <<shut, writer>>
vars == <<holder, queue, pc, shut, writer, calls, ticket, arrival>>

\* Past acquire(): "guard" awaits the guard, "passed" and "barred" are its
\* answers, "fn" runs the body, "opened" runs it with an attempt it opened,
\* "closing" after it began to write an attempt resolved.
Within == {"guard", "passed", "barred", "fn", "opened", "closing"}
PcStates == {"idle", "queued", "busy", "refused", "done"} \cup Within
Inside == {c \in Callers : pc[c] \in Within}

TypeOK ==
  /\ holder \in Callers \cup {NoCaller}
  /\ queue \in Seq(Callers)
  /\ pc \in [Callers -> PcStates]
  /\ shut \in BOOLEAN
  /\ writer \in Callers \cup {NoCaller}
  /\ calls \in Nat
  /\ ticket \in [Callers -> Nat]
  /\ arrival \in [Callers -> BOOLEAN]

Init ==
  /\ holder = NoCaller
  /\ queue = <<>>
  /\ pc = [c \in Callers |-> "idle"]
  /\ shut \in BOOLEAN
  /\ writer = NoCaller
  /\ calls = 0
  /\ ticket = [c \in Callers |-> 0]
  /\ arrival = [c \in Callers |-> FALSE]

Resting == {"idle", "busy", "refused", "done"}

\* What every new call leaves behind: its number and the gate as it was.
Arrives(c) ==
  /\ pc[c] \in Resting /\ calls < MaxCalls
  /\ calls' = calls + 1
  /\ ticket' = [ticket EXCEPT ![c] = calls + 1]
  /\ arrival' = [arrival EXCEPT ![c] = shut]
  /\ UNCHANGED gate

\* acquire(): no entry, so the call holds the lock at once.
AcquireFree(c) ==
  /\ Arrives(c)
  /\ holder = NoCaller
  /\ holder' = c
  /\ pc' = [pc EXCEPT ![c] = "guard"]
  /\ UNCHANGED queue

\* acquire() in mode "fail" while anyone holds or waits.
AcquireBusy(c) ==
  /\ pc[c] \in Resting /\ calls < MaxCalls
  /\ holder # NoCaller /\ c \in FailFast
  /\ pc' = [pc EXCEPT ![c] = "busy"]
  /\ calls' = calls + 1
  /\ UNCHANGED <<holder, queue, gate, ticket, arrival>>

\* Mutation: the newest waiter goes first.
AcquireInFront(c) ==
  /\ Arrives(c)
  /\ holder # NoCaller /\ c \notin FailFast
  /\ queue' = <<c>> \o queue
  /\ pc' = [pc EXCEPT ![c] = "queued"]
  /\ UNCHANGED holder

\* acquire() in mode "wait": join the queue, timer armed.
AcquireWait(c) ==
  /\ Arrives(c)
  /\ holder # NoCaller /\ c \notin FailFast
  /\ queue' = Append(queue, c)
  /\ pc' = [pc EXCEPT ![c] = "queued"]
  /\ UNCHANGED holder

\* Mutation: the call is told it is busy and stays in the queue.
ExpiresQueued(c) ==
  /\ pc[c] = "queued"
  /\ pc' = [pc EXCEPT ![c] = "busy"]
  /\ UNCHANGED <<holder, queue, gate, calls, ticket, arrival>>

\* The waiter's timer: it leaves the queue without having run.
WaitExpires(c) ==
  /\ pc[c] = "queued"
  /\ \E i \in DOMAIN queue : queue[i] = c /\ queue' = RemoveAt(queue, i)
  /\ pc' = [pc EXCEPT ![c] = "busy"]
  /\ UNCHANGED <<holder, gate, calls, ticket, arrival>>

\* Mutation: the entry is dropped with calls still queued behind it.
ReleaseDrops(c, end) ==
  /\ holder' = NoCaller
  /\ pc' = [pc EXCEPT ![c] = end]
  /\ UNCHANGED queue

\* release(): hand the entry to the first waiter, or drop it. `end` is how
\* the releasing call ended.
Release(c, end) ==
  IF queue = <<>>
  THEN /\ holder' = NoCaller
       /\ pc' = [pc EXCEPT ![c] = end]
       /\ UNCHANGED queue
  ELSE /\ holder' = Head(queue)
       /\ queue' = Tail(queue)
       /\ pc' = [pc EXCEPT ![c] = end, ![Head(queue)] = "guard"]

\* Mutation: the gate is the one the call found when it arrived.
GuardReadAtArrival(c) ==
  /\ pc[c] = "guard"
  /\ \E answer \in {"passed", "barred"} :
       /\ answer = "passed" => c \in Exempt \/ ~arrival[c]
       /\ answer = "barred" => c \notin Exempt
       /\ pc' = [pc EXCEPT ![c] = answer]
  /\ arrival' = [arrival EXCEPT ![c] = FALSE]
  /\ UNCHANGED <<holder, queue, gate, calls, ticket>>

\* The record is read, under the lock; exempt ops are not asked. A record
\* that cannot be read, or a retained container before a hard delete, bars a
\* call with the gate open too.
GuardRead(c) ==
  /\ pc[c] = "guard"
  /\ \E answer \in {"passed", "barred"} :
       /\ answer = "passed" => c \in Exempt \/ ~shut
       /\ answer = "barred" => c \notin Exempt
       /\ pc' = [pc EXCEPT ![c] = answer]
  /\ arrival' = [arrival EXCEPT ![c] = FALSE]
  /\ UNCHANGED <<holder, queue, gate, calls, ticket>>

\* The awaited guard returned: fn starts.
GuardPass(c) ==
  /\ pc[c] = "passed"
  /\ pc' = [pc EXCEPT ![c] = "fn"]
  /\ UNCHANGED <<holder, queue, gate, calls, ticket, arrival>>

\* The guard throws inside the try: the finally still releases.
GuardRefuse(c) ==
  /\ pc[c] = "barred"
  /\ Release(c, "refused")
  /\ UNCHANGED <<gate, calls, ticket, arrival>>

\* begin(): the `open` record is on disk, which shuts the gate. It reads the
\* record itself too and refuses over an unresolved attempt.
OpenAttempt(c) ==
  /\ pc[c] = "fn" /\ c \in Recreates
  /\ ~shut /\ shut' = TRUE
  /\ pc' = [pc EXCEPT ![c] = "opened"]
  /\ UNCHANGED <<holder, queue, writer, calls, ticket, arrival>>

\* resolveRecord(): the body that opened the attempt, or a recreate-resolve
\* pass, starts to write it resolved. One pass at a time (`resolving`).
ResolveBegins(c) ==
  /\ pc[c] = "opened" \/ (pc[c] = "fn" /\ c \in Resolves)
  /\ shut /\ writer = NoCaller
  /\ writer' = c
  /\ pc' = [pc EXCEPT ![c] = "closing"]
  /\ UNCHANGED <<holder, queue, shut, calls, ticket, arrival>>

\* The write lands, or fails and leaves the attempt unresolved. Nothing ties
\* it to the lock any more: T_rb may have let the lock go.
ResolveLands ==
  /\ writer # NoCaller /\ writer' = NoCaller
  /\ shut' \in {FALSE, shut}
  /\ UNCHANGED <<holder, queue, pc, calls, ticket, arrival>>

\* fn settles, resolved or rejected. A recreate-resolve pass awaits its
\* write; a recreate whose T_rb is over does not.
Finish(c) ==
  /\ pc[c] \in {"fn", "opened", "closing"}
  /\ c \in Resolves => writer # c
  /\ Release(c, "done")
  /\ UNCHANGED <<gate, calls, ticket, arrival>>

CallerNext(c) ==
  \/ AcquireFree(c) \/ AcquireBusy(c) \/ AcquireWait(c) \/ WaitExpires(c)
  \/ GuardRead(c) \/ GuardPass(c) \/ GuardRefuse(c) \/ Finish(c)
  \/ OpenAttempt(c) \/ ResolveBegins(c)

Next == ResolveLands \/ \E c \in Callers : CallerNext(c)

Spec == Init /\ [][Next]_vars

\* Node runs every ready continuation: the record's file is read or written
\* or the call fails, and fn settles (each lifecycle verb has bounded waits).
\* Nothing is assumed of the waiters' timers.
Fairness ==
  /\ WF_vars(ResolveLands)
  /\ \A c \in Callers :
       /\ WF_vars(GuardRead(c)) /\ WF_vars(GuardPass(c) \/ GuardRefuse(c))
       /\ WF_vars(Finish(c))
FairSpec == Spec /\ Fairness

-----------------------------------------------------------------------------
\* Two lifecycle operations never run on one session at once.
MutualExclusion == \A c, d \in Inside : c = d

\* The queue and the calls agree: exactly the queued calls wait in it, each
\* once, and the holder is the one call inside. A queued call with no holder
\* would never be granted (a lost wake-up).
QueueMatchesCalls ==
  /\ \A c \in Callers : pc[c] = "queued" <=> \E i \in DOMAIN queue : queue[i] = c
  /\ \A i, j \in DOMAIN queue : queue[i] = queue[j] => i = j
  /\ holder = NoCaller => queue = <<>>
  /\ \A c \in Callers : pc[c] \in Within <=> holder = c

\* First come, first served: nobody still queued arrived before the holder
\* unless the holder got a free lock, and the queue is in arrival order.
Fifo ==
  /\ \A i, j \in DOMAIN queue : i < j => ticket[queue[i]] < ticket[queue[j]]
  /\ holder # NoCaller => \A i \in DOMAIN queue : ticket[holder] < ticket[queue[i]]

\* No gated body runs under an attempt it did not open itself. The gate shuts
\* and opens while calls wait for the lock, and a resolution may land while
\* it is read: a call that would go by the gate it found on arrival, or that
\* ran beside another's body, would work under a live recreation.
NoBodyUnderAttempt ==
  shut => \A c \in Callers \ Exempt : pc[c] \notin {"passed", "fn"}

\* Every queued call is eventually granted or turned away, timers aside.
QueuedCallsLeave == \A c \in Callers : pc[c] = "queued" ~> pc[c] # "queued"

\* The lock implements the abstract mutex: what a caller can tell of it.
PhaseOf(c) ==
  IF pc[c] = "queued" THEN "waiting"
  ELSE IF pc[c] \in Within THEN "in" ELSE "out"
Mutex == INSTANCE SessionMutex WITH phase <- [c \in Callers |-> PhaseOf(c)]
ImplementsMutex == Mutex!Spec
=============================================================================
