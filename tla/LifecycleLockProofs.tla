------------------------ MODULE LifecycleLockProofs -------------------------
(***************************************************************************)
(* Proofs about LifecycleLock, for any set of calls and any number of      *)
(* them: the type invariant, the agreement of the queue with the calls     *)
(* (which is inductive), mutual exclusion, and the implementation of       *)
(* SessionMutex.                                                           *)
(***************************************************************************)
EXTENDS LifecycleLock, SequenceTheorems, TLAPS

\* Removing one element keeps every other one, in order, and adds nothing
\* (splice(i, 1) in the waiter's timer).
LEMMA RemoveOne ==
  ASSUME NEW S, NEW s \in Seq(S), NEW i \in 1..Len(s)
  PROVE  /\ RemoveAt(s, i) \in Seq(S)
         /\ Len(RemoveAt(s, i)) = Len(s) - 1
         /\ \A k \in 1..(Len(s) - 1) : RemoveAt(s, i)[k] = IF k < i THEN s[k] ELSE s[k + 1]
<1> DEFINE l == SubSeq(s, 1, i - 1)
           r == SubSeq(s, i + 1, Len(s))
<1>0. Len(s) \in Nat /\ i \in Int
  OBVIOUS
<1>1. l \in Seq(S) /\ Len(l) = i - 1 /\ \A k \in 1..(i - 1) : l[k] = s[k]
  BY <1>0, SubSeqProperties
<1>2. r \in Seq(S) /\ Len(r) = Len(s) - i /\ \A k \in 1..(Len(s) - i) : r[k] = s[i + k]
  BY <1>0, SubSeqProperties
<1>3. RemoveAt(s, i) = l \o r
  BY DEF RemoveAt
<1> HIDE DEF l, r
<1>4. /\ l \o r \in Seq(S)
      /\ Len(l \o r) = Len(s) - 1
      /\ \A k \in 1..(Len(s) - 1) : (l \o r)[k] = IF k <= i - 1 THEN l[k] ELSE r[k - (i - 1)]
  <2>1. /\ l \o r \in Seq(S)
        /\ Len(l \o r) = Len(l) + Len(r)
        /\ \A k \in 1..(Len(l) + Len(r)) : (l \o r)[k] = IF k <= Len(l) THEN l[k] ELSE r[k - Len(l)]
    BY <1>1, <1>2, ConcatProperties
  <2>2. Len(l) = i - 1 /\ Len(l) + Len(r) = Len(s) - 1
    BY <1>0, <1>1, <1>2
  <2> QED BY <2>1, <2>2
<1>5. ASSUME NEW k \in 1..(Len(s) - 1)
      PROVE  (l \o r)[k] = IF k < i THEN s[k] ELSE s[k + 1]
  <2>1. CASE k < i
    BY <2>1, <1>0, <1>1, <1>4
  <2>2. CASE ~(k < i)
    <3>1. k - (i - 1) \in 1..(Len(s) - i) /\ i + (k - (i - 1)) = k + 1
      BY <2>2, <1>0
    <3>2. r[k - (i - 1)] = s[k + 1]
      BY <3>1, <1>2
    <3> QED BY <2>2, <3>2, <1>0, <1>4
  <2> QED BY <2>1, <2>2
<1> QED BY <1>3, <1>4, <1>5

\* The inductive invariant.
LockInv == TypeOK /\ QueueMatchesCalls

\* The states of a call: out of the lock, waiting for it or within it.
LEMMA PcFacts ==
  /\ PcStates = Resting \cup {"queued"} \cup Within
  /\ "queued" \notin Resting /\ "queued" \notin Within /\ "guard" \in Within
  /\ \A p \in Resting : p \notin Within
  /\ "busy" \in Resting /\ "refused" \in Resting /\ "done" \in Resting
  /\ "idle" \in Resting
BY DEF PcStates, Resting, Within

\* A step of the call that holds the lock, inside of it.
LEMMA StepWithin ==
  ASSUME LockInv, NEW c \in Callers, pc[c] \in Within, NEW p \in Within,
         pc' = [pc EXCEPT ![c] = p], UNCHANGED <<holder, queue>>
  PROVE  QueueMatchesCalls' /\ pc' \in [Callers -> PcStates]
BY PcFacts DEF LockInv, TypeOK, QueueMatchesCalls

\* The invariant holds when nobody has called yet,
LEMMA InitLockInv == Init => LockInv
BY LockAssumption DEF Init, LockInv, TypeOK, QueueMatchesCalls, PcStates, Within

\* Handing the lock over, or dropping the entry, on the way out of a call.
LEMMA ReleaseKeepsInv ==
  ASSUME LockInv, NEW c \in Callers, NEW end \in {"refused", "done"},
         pc[c] \in Within, Release(c, end), UNCHANGED <<gate, calls, ticket, arrival>>
  PROVE  LockInv'
<1> USE PcFacts DEF LockInv, TypeOK, gate
<1>0. end \in Resting /\ end \in PcStates
  OBVIOUS
<1>1. holder = c
  BY DEF QueueMatchesCalls
<1>2. CASE queue = <<>>
  <2>1. TypeOK'
    BY <1>0, <1>2 DEF Release
  <2>2. QueueMatchesCalls'
    BY <1>0, <1>1, <1>2, LockAssumption DEF Release, QueueMatchesCalls
  <2> QED BY <2>1, <2>2
<1>3. CASE queue # <<>>
  <2> DEFINE h == Head(queue)
  <2>1. /\ h \in Callers /\ h = queue[1]
        /\ Tail(queue) \in Seq(Callers) /\ Len(Tail(queue)) = Len(queue) - 1
        /\ \A i \in 1..Len(Tail(queue)) : Tail(queue)[i] = queue[i + 1]
        /\ Len(queue) \in Nat \ {0} /\ 1 \in DOMAIN queue
    BY <1>3, HeadTailProperties
  <2>2. pc[h] = "queued" /\ h # c
    BY <2>1 DEF QueueMatchesCalls
  <2>3. /\ holder' = h /\ queue' = Tail(queue)
        /\ pc' = [pc EXCEPT ![c] = end, ![h] = "guard"]
    BY <1>3 DEF Release
  <2>4. TypeOK'
    BY <1>0, <2>1, <2>3
  <2>5. DOMAIN queue = 1..Len(queue) /\ DOMAIN queue' = 1..(Len(queue) - 1)
    BY <2>1, <2>3
  <2> HIDE DEF h
  <2>6. \A d \in Callers : pc'[d] = "queued" <=> \E i \in DOMAIN queue' : queue'[i] = d
    <3> TAKE d \in Callers
    <3>1. CASE d = c
      <4>1. pc'[d] # "queued" /\ pc[c] # "queued"
        BY <3>1, <1>0, <2>2, <2>3
      <4>2. \A i \in DOMAIN queue : queue[i] # c
        BY <4>1 DEF QueueMatchesCalls
      <4> QED BY <3>1, <4>1, <4>2, <2>1, <2>3, <2>5, SMTT(30)
    <3>2. CASE d = h
      <4>1. pc'[d] # "queued"
        BY <3>2, <2>1, <2>3
      <4>2. \A i \in DOMAIN queue : i # 1 => queue[i] # h
        BY <2>1 DEF QueueMatchesCalls
      <4> QED BY <3>2, <4>1, <4>2, <2>1, <2>3, <2>5
    <3>3. CASE d # c /\ d # h
      <4>1. pc'[d] = pc[d]
        BY <3>3, <2>3
      <4>2. (\E i \in DOMAIN queue : queue[i] = d) <=> (\E i \in DOMAIN queue' : queue'[i] = d)
        <5>1. ASSUME NEW i \in DOMAIN queue, queue[i] = d
              PROVE  \E j \in DOMAIN queue' : queue'[j] = d
          <6>1. i # 1
            BY <5>1, <3>3, <2>1
          <6>2. i - 1 \in DOMAIN queue' /\ queue'[i - 1] = queue[i]
            BY <6>1, <2>1, <2>3, <2>5, SMTT(30)
          <6> QED BY <5>1, <6>2
        <5>2. ASSUME NEW j \in DOMAIN queue', queue'[j] = d
              PROVE  \E i \in DOMAIN queue : queue[i] = d
          <6>1. j + 1 \in DOMAIN queue /\ queue[j + 1] = queue'[j]
            BY <2>1, <2>3, <2>5
          <6> QED BY <5>2, <6>1
        <5> QED BY <5>1, <5>2
      <4> QED BY <4>1, <4>2 DEF QueueMatchesCalls
    <3> QED BY <3>1, <3>2, <3>3
  <2>7. \A i, j \in DOMAIN queue' : queue'[i] = queue'[j] => i = j
    <3> TAKE i, j \in DOMAIN queue'
    <3>1. /\ i + 1 \in DOMAIN queue /\ j + 1 \in DOMAIN queue
          /\ queue'[i] = queue[i + 1] /\ queue'[j] = queue[j + 1]
      BY <2>1, <2>3, <2>5, SMTT(30)
    <3>2. queue[i + 1] = queue[j + 1] => i + 1 = j + 1
      BY <3>1 DEF QueueMatchesCalls
    <3> QED BY <3>1, <3>2, <2>5
  <2>8. holder' # NoCaller
    BY <2>1, <2>3, LockAssumption
  <2>9. \A d \in Callers : pc'[d] \in Within <=> holder' = d
    <3> TAKE d \in Callers
    <3>1. CASE d = c
      BY <1>0, <2>1, <2>2, <2>3, <3>1
    <3>2. CASE d = h
      BY <2>1, <2>3, <3>2
    <3>3. CASE d # c /\ d # h
      <4>1. pc'[d] = pc[d]
        BY <2>3, <3>3
      <4> QED BY <1>1, <2>3, <3>3, <4>1 DEF QueueMatchesCalls
    <3> QED BY <3>1, <3>2, <3>3
  <2> QED BY <2>4, <2>6, <2>7, <2>8, <2>9 DEF QueueMatchesCalls
<1> QED BY <1>2, <1>3

\* is kept by every step,
LEMMA NextLockInv == LockInv /\ [Next]_vars => LockInv'
<1> SUFFICES ASSUME LockInv, [Next]_vars PROVE LockInv'
  OBVIOUS
<1> USE LockAssumption, PcFacts DEF LockInv, TypeOK, gate
<1>1. ASSUME NEW c \in Callers, AcquireFree(c) PROVE LockInv'
  <2>1. TypeOK'
    BY <1>1 DEF AcquireFree, Arrives
  <2>2. QueueMatchesCalls'
    BY <1>1 DEF AcquireFree, Arrives, QueueMatchesCalls
  <2> QED BY <2>1, <2>2
<1>2. ASSUME NEW c \in Callers, AcquireBusy(c) PROVE LockInv'
  BY <1>2 DEF AcquireBusy, QueueMatchesCalls
<1>3. ASSUME NEW c \in Callers, AcquireWait(c) PROVE LockInv'
  <2>1. /\ queue' \in Seq(Callers) /\ Len(queue') = Len(queue) + 1
        /\ \A i \in 1..Len(queue) : queue'[i] = queue[i]
        /\ queue'[Len(queue) + 1] = c
        /\ Len(queue) \in Nat
    BY <1>3, AppendProperties DEF AcquireWait, Arrives
  <2>2. TypeOK'
    BY <1>3, <2>1 DEF AcquireWait, Arrives
  <2>3. /\ DOMAIN queue = 1..Len(queue) /\ DOMAIN queue' = 1..(Len(queue) + 1)
        /\ pc' = [pc EXCEPT ![c] = "queued"] /\ holder' = holder
        /\ holder # NoCaller /\ pc[c] \notin {"queued"} \cup Within
    BY <1>3, <2>1 DEF AcquireWait, Arrives
  <2>4. \A i \in DOMAIN queue : queue[i] # c
    BY <2>3 DEF QueueMatchesCalls
  <2>5. ASSUME NEW d \in Callers
        PROVE  pc'[d] = "queued" <=> \E i \in DOMAIN queue' : queue'[i] = d
    <3>1. CASE d = c
      <4>1. Len(queue) + 1 \in DOMAIN queue' /\ pc'[c] = "queued"
        BY <2>1, <2>3
      <4> QED BY <3>1, <4>1, <2>1
    <3>2. CASE d # c
      <4>1. (\E i \in DOMAIN queue : queue[i] = d) <=> (\E i \in DOMAIN queue' : queue'[i] = d)
        <5>1. \A i \in DOMAIN queue' : i \in DOMAIN queue \/ i = Len(queue) + 1
          BY <2>1, <2>3
        <5>2. \A i \in DOMAIN queue : i \in DOMAIN queue' /\ queue'[i] = queue[i]
          BY <2>1, <2>3
        <5> QED BY <3>2, <5>1, <5>2, <2>1
      <4>2. pc'[d] = pc[d]
        BY <3>2, <2>3
      <4> QED BY <4>1, <4>2 DEF QueueMatchesCalls
    <3> QED BY <3>1, <3>2
  <2>6. \A i, j \in DOMAIN queue' : queue'[i] = queue'[j] => i = j
    <3> TAKE i, j \in DOMAIN queue'
    <3>1. CASE i \in DOMAIN queue /\ j \in DOMAIN queue
      BY <3>1, <2>1, <2>3 DEF QueueMatchesCalls
    <3>2. CASE i \notin DOMAIN queue \/ j \notin DOMAIN queue
      BY <3>2, <2>1, <2>3, <2>4, SMTT(30)
    <3> QED BY <3>1, <3>2
  <2>7. (holder' = NoCaller => queue' = <<>>)
        /\ \A d \in Callers : pc'[d] \in Within <=> holder' = d
    BY <2>3 DEF QueueMatchesCalls
  <2> QED BY <2>2, <2>5, <2>6, <2>7 DEF QueueMatchesCalls
<1>4. ASSUME NEW c \in Callers, WaitExpires(c) PROVE LockInv'
  <2>1. PICK n \in DOMAIN queue : queue[n] = c /\ queue' = RemoveAt(queue, n)
    BY <1>4 DEF WaitExpires
  <2>2. n \in 1..Len(queue) /\ Len(queue) \in Nat
    BY <2>1
  <2>3. /\ queue' \in Seq(Callers)
        /\ Len(queue') = Len(queue) - 1
        /\ \A k \in 1..(Len(queue) - 1) : queue'[k] = IF k < n THEN queue[k] ELSE queue[k + 1]
    BY <2>1, <2>2, RemoveOne, ZenonT(40)
  <2>4. /\ DOMAIN queue = 1..Len(queue) /\ DOMAIN queue' = 1..(Len(queue) - 1)
        /\ pc' = [pc EXCEPT ![c] = "busy"] /\ holder' = holder /\ pc[c] = "queued"
    BY <1>4, <2>2, <2>3 DEF WaitExpires
  <2>5. TypeOK'
    BY <1>4, <2>3 DEF WaitExpires
  <2>6. \A i \in DOMAIN queue : i # n => queue[i] # c
    BY <2>1 DEF QueueMatchesCalls
  \* where each remaining element was
  <2> DEFINE was(k) == IF k < n THEN k ELSE k + 1
  <2>7. \A k \in DOMAIN queue' : /\ was(k) \in DOMAIN queue /\ was(k) # n
                                 /\ queue'[k] = queue[was(k)]
    <3> TAKE k \in DOMAIN queue'
    <3>1. k \in 1..(Len(queue) - 1)
      BY <2>4
    <3>2. CASE k < n
      <4>1. was(k) = k /\ k \in DOMAIN queue /\ k # n
        BY <3>1, <3>2, <2>2, <2>4
      <4>2. queue'[k] = queue[k]
        BY <3>1, <3>2, <2>3
      <4> QED BY <4>1, <4>2
    <3>3. CASE ~(k < n)
      <4>1. was(k) = k + 1 /\ k + 1 \in DOMAIN queue /\ k + 1 # n
        BY <3>1, <3>3, <2>2, <2>4, SMTT(30)
      <4>2. queue'[k] = queue[k + 1]
        BY <3>1, <3>3, <2>3
      <4> QED BY <4>1, <4>2
    <3> QED BY <3>2, <3>3
  <2>8. \A j, k \in DOMAIN queue' : was(j) = was(k) => j = k
    BY <2>2, <2>4, SMTT(30)
  <2>9. \A i \in DOMAIN queue : i # n => \E k \in DOMAIN queue' : was(k) = i
    <3> TAKE i \in DOMAIN queue
    <3> HAVE i # n
    <3>1. CASE i < n
      <4>1. i \in DOMAIN queue' /\ was(i) = i
        BY <3>1, <2>2, <2>4
      <4> QED BY <4>1
    <3>2. CASE i > n
      <4>1. i - 1 \in DOMAIN queue' /\ was(i - 1) = i
        BY <3>2, <2>2, <2>4, SMTT(30)
      <4> QED BY <4>1
    <3> QED BY <3>1, <3>2, <2>2, <2>4
  <2> HIDE DEF was
  <2>10. ASSUME NEW d \in Callers
         PROVE  pc'[d] = "queued" <=> \E i \in DOMAIN queue' : queue'[i] = d
    <3>1. CASE d = c
      BY <3>1, <2>4, <2>6, <2>7
    <3>2. CASE d # c
      <4>1. pc'[d] = pc[d]
        BY <3>2, <2>4
      <4>2. (\E i \in DOMAIN queue : queue[i] = d) <=> (\E i \in DOMAIN queue' : queue'[i] = d)
        BY <3>2, <2>1, <2>7, <2>9
      <4> QED BY <4>1, <4>2 DEF QueueMatchesCalls
    <3> QED BY <3>1, <3>2
  <2>11. \A i, j \in DOMAIN queue' : queue'[i] = queue'[j] => i = j
    <3> TAKE i, j \in DOMAIN queue'
    <3>1. queue[was(i)] = queue[was(j)] => was(i) = was(j)
      BY <2>7 DEF QueueMatchesCalls
    <3> QED BY <3>1, <2>7, <2>8
  <2>12. holder' # NoCaller
    BY <2>1, <2>4 DEF QueueMatchesCalls
  <2>13. \A d \in Callers : pc'[d] \in Within <=> holder' = d
    BY <2>4 DEF QueueMatchesCalls
  <2> QED BY <2>5, <2>10, <2>11, <2>12, <2>13 DEF QueueMatchesCalls
<1>5. ASSUME NEW c \in Callers,
             GuardRead(c) \/ GuardPass(c) \/ OpenAttempt(c) \/ ResolveBegins(c)
      PROVE  LockInv'
  <2>1. PICK p \in Within : pc' = [pc EXCEPT ![c] = p]
    BY <1>5 DEF GuardRead, GuardPass, OpenAttempt, ResolveBegins, Within
  <2>2. pc[c] \in Within /\ UNCHANGED <<holder, queue>>
    BY <1>5 DEF GuardRead, GuardPass, OpenAttempt, ResolveBegins, Within
  <2>3. QueueMatchesCalls' /\ pc' \in [Callers -> PcStates]
    BY <2>1, <2>2, StepWithin
  <2>4. TypeOK'
    BY <1>5, <2>3 DEF GuardRead, GuardPass, OpenAttempt, ResolveBegins
  <2> QED BY <2>3, <2>4
<1>6. ASSUME NEW c \in Callers, GuardRefuse(c) PROVE LockInv'
  BY <1>6, ReleaseKeepsInv DEF GuardRefuse, Within
<1>7. ASSUME NEW c \in Callers, Finish(c) PROVE LockInv'
  BY <1>7, ReleaseKeepsInv DEF Finish, Within
<1>8. CASE ResolveLands
  BY <1>8 DEF ResolveLands, QueueMatchesCalls
<1>9. CASE UNCHANGED vars
  BY <1>9 DEF vars, QueueMatchesCalls
<1> QED
  BY <1>1, <1>2, <1>3, <1>4, <1>5, <1>6, <1>7, <1>8, <1>9 DEF Next, CallerNext

\* and so holds for ever.
LEMMA LockInvHolds == Spec => []LockInv
BY InitLockInv, NextLockInv, PTL DEF Spec

\* The values of the lock's variables: an entry of the map names a call, and
\* its queue only calls.
THEOREM TypeCorrect == Spec => []TypeOK
<1>1. LockInv => TypeOK
  BY DEF LockInv
<1> QED BY <1>1, LockInvHolds, PTL

\* No lost wake-up: exactly the queued calls are in the queue, each once, and
\* behind a holder that will hand the lock over.
THEOREM QueueAgrees == Spec => []QueueMatchesCalls
<1>1. LockInv => QueueMatchesCalls
  BY DEF LockInv
<1> QED BY <1>1, LockInvHolds, PTL

\* At most one lifecycle operation of a session is past acquire().
THEOREM Exclusion == Spec => []MutualExclusion
<1>1. LockInv => MutualExclusion
  BY DEF LockInv, QueueMatchesCalls, MutualExclusion, Inside
<1> QED BY <1>1, LockInvHolds, PTL

-----------------------------------------------------------------------------
\* First come, first served. Arrival numbers are handed out in order, so none
\* that is held or queued exceeds the number of calls so far.
Numbered ==
  /\ holder # NoCaller => ticket[holder] <= calls
  /\ \A i \in DOMAIN queue : ticket[queue[i]] <= calls
FifoInv == Numbered /\ Fifo

\* Handing over moves everybody one place up.
LEMMA ReleaseKeepsOrder ==
  ASSUME LockInv, FifoInv, NEW c \in Callers, NEW end \in {"refused", "done"},
         Release(c, end), UNCHANGED <<calls, ticket>>
  PROVE  FifoInv'
<1> USE DEF LockInv, TypeOK, FifoInv, Numbered, Fifo
<1>1. CASE queue = <<>>
  BY <1>1 DEF Release
<1>2. CASE queue # <<>>
  <2>0. /\ Head(queue) = queue[1] /\ Len(Tail(queue)) = Len(queue) - 1
        /\ Tail(queue) \in Seq(Callers) /\ Len(queue) \in Nat \ {0}
        /\ \A i \in 1..Len(Tail(queue)) : Tail(queue)[i] = queue[i + 1]
    BY <1>2, HeadTailProperties
  <2>a. holder' = Head(queue) /\ queue' = Tail(queue)
    BY <1>2 DEF Release
  <2>1. /\ holder' = queue[1] /\ 1 \in DOMAIN queue /\ Len(queue) \in Nat
        /\ DOMAIN queue = 1..Len(queue) /\ DOMAIN queue' = 1..(Len(queue) - 1)
        /\ \A i \in 1..(Len(queue) - 1) : queue'[i] = queue[i + 1]
    BY <2>0, <2>a
  <2>2. \A i \in DOMAIN queue' : i + 1 \in DOMAIN queue /\ queue'[i] = queue[i + 1] /\ 1 < i + 1
    BY <2>1
  <2>3. Numbered'
    BY <2>1, <2>2
  <2>4. \A i, j \in DOMAIN queue' : i < j => ticket'[queue'[i]] < ticket'[queue'[j]]
    <3> TAKE i, j \in DOMAIN queue'
    <3>1. i \in Int /\ j \in Int /\ i + 1 \in DOMAIN queue /\ j + 1 \in DOMAIN queue
          /\ queue'[i] = queue[i + 1] /\ queue'[j] = queue[j + 1]
      BY <2>1, <2>2
    <3>2. i < j => i + 1 < j + 1
      BY <3>1
    <3>3. \A a, b \in DOMAIN queue : a < b => ticket[queue[a]] < ticket[queue[b]]
      BY DEF Fifo
    <3> QED BY <3>1, <3>2, <3>3
  <2>5. holder' # NoCaller => \A i \in DOMAIN queue' : ticket'[holder'] < ticket'[queue'[i]]
    BY <2>1, <2>2
  <2> QED BY <2>3, <2>4, <2>5
<1> QED BY <1>1, <1>2

\* Every step keeps the queue in the order of the calls.
LEMMA NextFifo == LockInv /\ FifoInv /\ [Next]_vars => FifoInv'
<1> SUFFICES ASSUME LockInv, FifoInv, [Next]_vars PROVE FifoInv'
  OBVIOUS
<1> USE LockAssumption DEF LockInv, TypeOK
<1>1. ASSUME NEW c \in Callers, AcquireFree(c) PROVE FifoInv'
  <2>1. queue = <<>> /\ queue' = <<>> /\ holder' = c /\ ticket'[c] = calls + 1 /\ calls' = calls + 1
    BY <1>1 DEF AcquireFree, Arrives, QueueMatchesCalls
  <2> QED BY <2>1 DEF FifoInv, Numbered, Fifo
<1>2. ASSUME NEW c \in Callers, AcquireBusy(c) PROVE FifoInv'
  <2>1. /\ calls' = calls + 1 /\ UNCHANGED <<holder, queue, ticket>>
        /\ \A i \in DOMAIN queue : queue[i] \in Callers
    BY <1>2 DEF AcquireBusy
  <2> QED BY <2>1 DEF FifoInv, Numbered, Fifo
<1>3. ASSUME NEW c \in Callers, AcquireWait(c) PROVE FifoInv'
  <2>1. /\ queue' \in Seq(Callers) /\ Len(queue) \in Nat
        /\ DOMAIN queue = 1..Len(queue) /\ DOMAIN queue' = 1..(Len(queue) + 1)
        /\ \A i \in 1..Len(queue) : queue'[i] = queue[i]
        /\ queue'[Len(queue) + 1] = c
    BY <1>3, AppendProperties DEF AcquireWait, Arrives
  <2>2. /\ holder' = holder /\ holder # c /\ calls' = calls + 1
        /\ ticket' = [ticket EXCEPT ![c] = calls + 1]
        /\ \A i \in DOMAIN queue : queue[i] # c
    <3>1. pc[c] \notin Within /\ pc[c] # "queued"
      BY <1>3, PcFacts DEF AcquireWait, Arrives
    <3> QED BY <1>3, <3>1 DEF AcquireWait, Arrives, QueueMatchesCalls
  <2>3. ticket'[c] = calls + 1 /\ \A d \in Callers : d # c => ticket'[d] = ticket[d]
    BY <2>2
  <2>4. \A i \in DOMAIN queue : queue[i] \in Callers /\ ticket'[queue'[i]] = ticket[queue[i]]
    BY <2>1, <2>2, <2>3
  <2>5. holder # NoCaller => ticket'[holder] = ticket[holder] /\ ticket[holder] \in Nat
    BY <2>2, <2>3
  <2>6. \A i \in DOMAIN queue' : i \in DOMAIN queue \/ (i = Len(queue) + 1 /\ ticket'[queue'[i]] = calls + 1)
    BY <2>1, <2>3
  <2>7. \A i \in DOMAIN queue : ticket'[queue'[i]] \in Nat /\ ticket'[queue'[i]] <= calls /\ i < Len(queue) + 1
    BY <2>1, <2>4 DEF FifoInv, Numbered
  <2>8. Numbered'
    BY <2>2, <2>5, <2>6, <2>7 DEF FifoInv, Numbered
  <2>9. \A i, j \in DOMAIN queue' : i < j => ticket'[queue'[i]] < ticket'[queue'[j]]
    <3> TAKE i, j \in DOMAIN queue'
    <3> HAVE i < j
    <3>0. i \in DOMAIN queue
      BY <2>1
    <3>1. CASE j \in DOMAIN queue
      <4>1. ticket[queue[i]] < ticket[queue[j]]
        BY <3>0, <3>1 DEF FifoInv, Fifo
      <4> QED BY <3>0, <3>1, <4>1, <2>4
    <3>2. CASE j \notin DOMAIN queue
      <4>1. ticket'[queue'[j]] = calls + 1
        BY <3>2, <2>6
      <4>2. ticket'[queue'[i]] \in Nat /\ ticket'[queue'[i]] <= calls
        BY <3>0, <2>7
      <4> QED BY <4>1, <4>2
    <3> QED BY <3>1, <3>2
  <2>10. holder' # NoCaller => \A i \in DOMAIN queue' : ticket'[holder'] < ticket'[queue'[i]]
    BY <2>2, <2>4, <2>5, <2>6 DEF FifoInv, Numbered, Fifo
  <2> QED BY <2>8, <2>9, <2>10 DEF FifoInv, Fifo
<1>4. ASSUME NEW c \in Callers, WaitExpires(c) PROVE FifoInv'
  <2>1. PICK n \in DOMAIN queue : queue[n] = c /\ queue' = RemoveAt(queue, n)
    BY <1>4 DEF WaitExpires
  <2>2. n \in 1..Len(queue) /\ Len(queue) \in Nat /\ DOMAIN queue = 1..Len(queue)
    BY <2>1, SMTT(30)
  <2>a. /\ queue' \in Seq(Callers) /\ Len(queue') = Len(queue) - 1
        /\ \A k \in 1..(Len(queue) - 1) : queue'[k] = IF k < n THEN queue[k] ELSE queue[k + 1]
    BY <2>1, <2>2, RemoveOne, ZenonT(40)
  <2>b. DOMAIN queue' = 1..Len(queue')
    BY <2>a
  <2>3. DOMAIN queue' = 1..(Len(queue) - 1)
    BY <2>a, <2>b, Zenon
  <2>4. UNCHANGED <<holder, calls, ticket>>
    BY <1>4 DEF WaitExpires
  <2> DEFINE was(k) == IF k < n THEN k ELSE k + 1
  <2>5. \A k \in DOMAIN queue' : was(k) \in DOMAIN queue /\ queue'[k] = queue[was(k)]
    <3> TAKE k \in DOMAIN queue'
    <3>1. CASE k < n
      <4>1. k \in 1..(Len(queue) - 1)
        BY <2>3
      <4>2. was(k) = k /\ k \in DOMAIN queue
        BY <2>2, <3>1, <4>1
      <4>3. queue'[k] = queue[k]
        BY <2>a, <3>1, <4>1
      <4> QED BY <4>2, <4>3
    <3>2. CASE ~(k < n)
      <4>1. k \in 1..(Len(queue) - 1)
        BY <2>3
      <4>2. was(k) = k + 1 /\ k + 1 \in DOMAIN queue
        BY <2>2, <3>2, <4>1
      <4>3. queue'[k] = queue[k + 1]
        BY <2>a, <3>2, <4>1
      <4> QED BY <4>2, <4>3
    <3> QED BY <3>1, <3>2
  <2>6. \A j, k \in DOMAIN queue' : j < k => was(j) < was(k)
    BY <2>2, <2>3, SMTT(30)
  <2> HIDE DEF was
  <2> QED BY <2>4, <2>5, <2>6 DEF FifoInv, Numbered, Fifo
<1>5. ASSUME UNCHANGED <<holder, queue, calls, ticket>> PROVE FifoInv'
  BY <1>5 DEF FifoInv, Numbered, Fifo
<1>6. ASSUME NEW c \in Callers, GuardRefuse(c) PROVE FifoInv'
  BY <1>6, ReleaseKeepsOrder DEF GuardRefuse
<1>7. ASSUME NEW c \in Callers, Finish(c) PROVE FifoInv'
  BY <1>7, ReleaseKeepsOrder DEF Finish
<1>8. ASSUME NEW c \in Callers,
             GuardRead(c) \/ GuardPass(c) \/ OpenAttempt(c) \/ ResolveBegins(c)
      PROVE  FifoInv'
  BY <1>5, <1>8 DEF GuardRead, GuardPass, OpenAttempt, ResolveBegins
<1>9. CASE ResolveLands \/ UNCHANGED vars
  BY <1>5, <1>9 DEF ResolveLands, vars
<1> QED
  BY <1>1, <1>2, <1>3, <1>4, <1>6, <1>7, <1>8, <1>9 DEF Next, CallerNext

\* Calls are granted in the order they arrived: nobody in the queue came
\* before the holder, and the queue is in arrival order, whichever waiters
\* gave up in between.
THEOREM FirstComeFirstServed == Spec => []Fifo
<1>1. Init => FifoInv
  BY LockAssumption DEF Init, FifoInv, Numbered, Fifo
<1>2. FifoInv => Fifo
  BY DEF FifoInv
<1> QED BY <1>1, <1>2, LockInvHolds, NextFifo, PTL DEF Spec

-----------------------------------------------------------------------------
\* The refinement.
Phases == [c \in Callers |-> PhaseOf(c)]

\* What the invariant says of the phase of a call.
LEMMA PhaseFacts ==
  ASSUME LockInv
  PROVE  /\ \A c \in Callers : Phases[c] = "waiting" <=> pc[c] = "queued"
         /\ \A c \in Callers : Phases[c] = "in" <=> pc[c] \in Within
         /\ \A c \in Callers : Phases[c] = "out" <=> pc[c] \in Resting
BY PcFacts DEF LockInv, TypeOK, Phases, PhaseOf

\* The initial states map to initial states of the abstract mutex.
LEMMA InitPhases == Init => Mutex!Init
BY PcFacts DEF Init, Mutex!Init, PhaseOf

\* How the phases change when the calls' program counters do.
LEMMA PhasesChange ==
  ASSUME LockInv, LockInv', NEW c \in Callers, NEW end \in PcStates,
         pc' = [pc EXCEPT ![c] = end]
  PROVE  /\ end = "queued" => Phases' = [Phases EXCEPT ![c] = "waiting"]
         /\ end \in Within => Phases' = [Phases EXCEPT ![c] = "in"]
         /\ end \in Resting => Phases' = [Phases EXCEPT ![c] = "out"]
BY PcFacts DEF LockInv, TypeOK, Phases, PhaseOf

\* Inside the lock, or outside of it, no step of a call shows.
LEMMA PhaseStays ==
  ASSUME LockInv, NEW c \in Callers, NEW p \in PcStates, pc' = [pc EXCEPT ![c] = p],
         (pc[c] \in Within /\ p \in Within) \/ (pc[c] \in Resting /\ p \in Resting)
  PROVE  Phases' = Phases
BY PcFacts DEF LockInv, TypeOK, Phases, PhaseOf

\* Leaving: to nobody if nobody waits, else to the first in the queue.
LEMMA ReleaseRefines ==
  ASSUME LockInv, LockInv', NEW c \in Callers, NEW end \in {"refused", "done"},
         pc[c] \in Within, Release(c, end)
  PROVE  Mutex!Leave(c) \/ \E d \in Callers : Mutex!HandOver(c, d)
<1>1. CASE queue = <<>>
  <2>1. \A d \in Callers : Phases[d] # "waiting"
    BY <1>1, PhaseFacts DEF LockInv, QueueMatchesCalls
  <2>2. Phases' = [Phases EXCEPT ![c] = "out"] /\ Phases[c] = "in"
    BY <1>1, PhaseFacts, PhasesChange, PcFacts DEF Release
  <2> QED BY <2>1, <2>2 DEF Mutex!Leave, Mutex!Nobody, Phases
<1>2. CASE queue # <<>>
  <2> DEFINE h == Head(queue)
  <2>1. h \in Callers /\ h = queue[1] /\ 1 \in DOMAIN queue
    BY <1>2, HeadTailProperties DEF LockInv, TypeOK
  <2>2. pc[h] = "queued" /\ h # c
    BY <2>1, PcFacts DEF LockInv, QueueMatchesCalls
  <2>3. pc' = [pc EXCEPT ![c] = end, ![h] = "guard"]
    BY <1>2 DEF Release
  <2> HIDE DEF h
  <2>4. Phases' = [Phases EXCEPT ![c] = "out", ![h] = "in"]
    BY <2>1, <2>2, <2>3, PcFacts, ZenonT(40) DEF LockInv, TypeOK, Phases, PhaseOf
  <2>5. Phases[c] = "in" /\ Phases[h] = "waiting"
    BY <2>1, <2>2, PhaseFacts
  <2>6. Mutex!HandOver(c, h)
    BY <2>4, <2>5 DEF Mutex!HandOver, Phases
  <2> QED BY <2>1, <2>6
<1> QED BY <1>1, <1>2

\* Every step maps to a step of the abstract mutex or to a stutter.
LEMMA NextPhases ==
  LockInv /\ LockInv' /\ [Next]_vars => [Mutex!Next]_([c \in Callers |-> PhaseOf(c)])
<1> SUFFICES ASSUME LockInv, LockInv', [Next]_vars
             PROVE  Mutex!Next \/ Phases' = Phases
  BY DEF Phases
<1>1. ASSUME NEW c \in Callers, AcquireFree(c) PROVE Mutex!Enter(c)
  <2>1. Phases' = [Phases EXCEPT ![c] = "in"] /\ Phases[c] = "out"
    BY <1>1, PhaseFacts, PhasesChange, PcFacts DEF AcquireFree, Arrives
  <2>2. \A d \in Callers : Phases[d] \notin {"in", "waiting"}
    BY <1>1, PhaseFacts, LockAssumption DEF AcquireFree, Arrives, LockInv, QueueMatchesCalls
  <2> QED BY <2>1, <2>2 DEF Mutex!Enter, Mutex!Nobody, Phases
<1>2. ASSUME NEW c \in Callers, AcquireBusy(c) PROVE Phases' = Phases
  BY <1>2, PhaseStays, PcFacts DEF AcquireBusy
<1>3. ASSUME NEW c \in Callers, AcquireWait(c) PROVE Mutex!Wait(c)
  <2>1. Phases' = [Phases EXCEPT ![c] = "waiting"] /\ Phases[c] = "out"
    BY <1>3, PhaseFacts, PhasesChange, PcFacts DEF AcquireWait, Arrives
  <2>2. holder \in Callers /\ Phases[holder] = "in"
    BY <1>3, PhaseFacts DEF AcquireWait, Arrives, LockInv, TypeOK, QueueMatchesCalls
  <2> QED BY <2>1, <2>2 DEF Mutex!Wait, Mutex!Nobody, Phases
<1>4. ASSUME NEW c \in Callers, WaitExpires(c) PROVE Mutex!GiveUp(c)
  <2>1. Phases' = [Phases EXCEPT ![c] = "out"] /\ Phases[c] = "waiting"
    BY <1>4, PhaseFacts, PhasesChange, PcFacts DEF WaitExpires
  <2> QED BY <2>1 DEF Mutex!GiveUp, Phases
<1>5. ASSUME NEW c \in Callers, GuardRead(c) \/ GuardPass(c) \/ OpenAttempt(c) \/ ResolveBegins(c)
      PROVE  Phases' = Phases
  <2>1. PICK p \in Within : pc' = [pc EXCEPT ![c] = p]
    BY <1>5 DEF GuardRead, GuardPass, OpenAttempt, ResolveBegins, Within
  <2>2. pc[c] \in Within
    BY <1>5 DEF GuardRead, GuardPass, OpenAttempt, ResolveBegins, Within
  <2> QED BY <2>1, <2>2, PhaseStays, PcFacts
<1>6. ASSUME NEW c \in Callers, GuardRefuse(c)
      PROVE  Mutex!Leave(c) \/ \E d \in Callers : Mutex!HandOver(c, d)
  BY <1>6, ReleaseRefines DEF GuardRefuse, Within
<1>7. ASSUME NEW c \in Callers, Finish(c)
      PROVE  Mutex!Leave(c) \/ \E d \in Callers : Mutex!HandOver(c, d)
  BY <1>7, ReleaseRefines DEF Finish, Within
<1>8. CASE ResolveLands
  BY <1>8 DEF ResolveLands, Phases, PhaseOf
<1>9. CASE UNCHANGED vars
  BY <1>9 DEF vars, Phases, PhaseOf
<1> QED
  BY <1>1, <1>2, <1>3, <1>4, <1>5, <1>6, <1>7, <1>8, <1>9 DEF Next, CallerNext, Mutex!Next

\* Whatever its callers do, the lock is the abstract mutex: one inside at a
\* time, nobody overtaking a waiter, every departure handing over.
THEOREM LockImplementsMutex == Spec => ImplementsMutex
<1>1. Spec => []LockInv
  BY LockInvHolds
<1> QED
  BY <1>1, InitPhases, NextPhases, PTL DEF Spec, ImplementsMutex, Mutex!Spec

-----------------------------------------------------------------------------
\* The gate. What a gated call holds once the guard let it through: nobody can
\* open an attempt but a body, and there is only this one.
GateInv == LockInv /\ NoBodyUnderAttempt

\* Leaving the lock starts no body: the next call has its guard still to read.
LEMMA ReleaseKeepsGate ==
  ASSUME GateInv, NEW c \in Callers, NEW end \in {"refused", "done"}, Release(c, end), shut' = shut
  PROVE  NoBodyUnderAttempt'
<1> USE DEF GateInv, LockInv, TypeOK
<1>1. queue # <<>> => Head(queue) \in Callers
  BY HeadTailProperties
<1>2. ASSUME NEW d \in Callers, pc'[d] \in {"passed", "fn"} PROVE pc[d] = pc'[d]
  BY <1>1, <1>2 DEF Release
<1> QED BY <1>2 DEF NoBodyUnderAttempt

\* Every step keeps the gated bodies and the unresolved attempts apart.
LEMMA NextGate == GateInv /\ [Next]_vars => NoBodyUnderAttempt'
<1> SUFFICES ASSUME GateInv, [Next]_vars PROVE NoBodyUnderAttempt'
  OBVIOUS
<1> USE LockAssumption DEF GateInv, LockInv, TypeOK, PcStates, Within, Resting, gate
<1>1. ASSUME NEW c \in Callers,
             AcquireFree(c) \/ AcquireBusy(c) \/ AcquireWait(c) \/ WaitExpires(c)
      PROVE  NoBodyUnderAttempt'
  BY <1>1 DEF Arrives, AcquireFree, AcquireBusy, AcquireWait, WaitExpires, NoBodyUnderAttempt
<1>2. ASSUME NEW c \in Callers, GuardRead(c) \/ GuardPass(c) PROVE NoBodyUnderAttempt'
  BY <1>2 DEF GuardRead, GuardPass, NoBodyUnderAttempt
<1>3. ASSUME NEW c \in Callers, GuardRefuse(c) \/ Finish(c) PROVE NoBodyUnderAttempt'
  BY <1>3, ReleaseKeepsGate DEF GuardRefuse, Finish
\* the attempt shuts the gate on a lock only its opener is inside of
<1>4. ASSUME NEW c \in Callers, OpenAttempt(c) PROVE NoBodyUnderAttempt'
  <2>1. holder = c /\ \A d \in Callers : pc[d] \in Within => d = c
    BY <1>4 DEF OpenAttempt, QueueMatchesCalls
  <2>2. pc' = [pc EXCEPT ![c] = "opened"]
    BY <1>4 DEF OpenAttempt
  <2> QED BY <2>1, <2>2 DEF NoBodyUnderAttempt
<1>5. ASSUME NEW c \in Callers, ResolveBegins(c) PROVE NoBodyUnderAttempt'
  BY <1>5 DEF ResolveBegins, NoBodyUnderAttempt
<1>6. CASE ResolveLands
  BY <1>6 DEF ResolveLands, NoBodyUnderAttempt
<1>7. CASE UNCHANGED vars
  BY <1>7 DEF vars, NoBodyUnderAttempt
<1> QED
  BY <1>1, <1>2, <1>3, <1>4, <1>5, <1>6, <1>7 DEF Next, CallerNext

\* A gated body never runs under an attempt it did not open, whenever the gate
\* shut or opened while the call waited, read it or ran.
THEOREM GateAlwaysHolds == Spec => []NoBodyUnderAttempt
<1>1. Init => NoBodyUnderAttempt
  BY DEF Init, NoBodyUnderAttempt
<1> QED BY <1>1, LockInvHolds, NextGate, PTL DEF Spec, GateInv
=============================================================================
