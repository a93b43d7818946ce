--------------------------- MODULE RecreateProofs ---------------------------
(***************************************************************************)
(* Proofs about Recreate, for any number of attempts, faults, crashes and  *)
(* hand-started containers. The first part holds with and without failing  *)
(* fsyncs and hasty operators: the types, the authorized token, and whose  *)
(* the gate is. The second, from Calm on, is the safety of a recreation    *)
(* while record writes do not fail after their rename and an operator      *)
(* waits for what a dead process left to settle (the setting of the run    *)
(* `recreate`).                                                            *)
(*                                                                         *)
(* The inductive invariant is built in layers, each kept by every step     *)
(* given the ones before it:                                               *)
(*   Control    who holds the lock, whose the record is, what is out       *)
(*   Sides      on which side of the commit each point stands              *)
(*   Kept       no container that is named was made by an attempt that was *)
(*              rolled back                                                *)
(*   Present    the containers an attempt still needs are there            *)
(*   Evidence   what a pass has seen when it gets to the record            *)
(*   Aims       what the requests nobody waits for are about               *)
(*   Seeds      the defer marker stands until the commit                   *)
(* and, on all of them (Sound), Writers (who runs), Remains (what exists)  *)
(* and NamesKept (what it is called).                                      *)
(***************************************************************************)
EXTENDS Recreate, TLAPS

-----------------------------------------------------------------------------
(* The D1 row changes in three ways only: a commit, whose own condition     *)
(* holds when it applies; a hard delete; a disable.                         *)

Commits == \E a \in Attempts : CommitApplies(a) /\ CommitEffect(a)

\* Every step that changes the D1 row is one of the three.
LEMMA RowChanges == [Next]_vars => UNCHANGED row \/ Commits \/ Purge \/ Disable
<1> SUFFICES ASSUME [Next]_vars PROVE UNCHANGED row \/ Commits \/ Purge \/ Disable
  OBVIOUS
<1>1. ASSUME NEW a \in Attempts, Recreate(a, FALSE) \/ Recreate(a, TRUE) \/ RollbackToRetained(a)
      PROVE  UNCHANGED row
  BY <1>1 DEF Recreate, RollbackToRetained, Admit
<1>2. ASSUME NEW a \in Attempts, BeginNotNow(a) \/ Begin(a) \/ BeginFails(a) \/ Prepare(a)
      PROVE  UNCHANGED row
  BY <1>2 DEF BeginNotNow, Begin, BeginFails, Prepare
<1>3. ASSUME NEW a \in Attempts,
             MainRequest(a) \/ MainCheck(a) \/ Deadline(a) \/ LateAnswer(a) \/ RollbackTimeout(a)
      PROVE  UNCHANGED row
  BY <1>3 DEF MainRequest, MainCheck, Deadline, LateAnswer, RollbackTimeout
<1>4. ASSUME NEW a \in Attempts,
             CommitApplied(a) \/ CommitNotApplied(a) \/ CommitAmbiguous(a) \/ LimboEnds(a)
      PROVE  UNCHANGED row \/ Commits
  BY <1>4 DEF CommitApplied, CommitNotApplied, CommitAmbiguous, LimboEnds, Commits
<1>5. ASSUME NEW a \in Attempts,
             \/ Unmark(a) \/ RemoveO(a) \/ Check(a)
             \/ StartPass(a) \/ PassRefused(a) \/ LeaseLost(a) \/ ReadRow(a) \/ PassRequest(a)
      PROVE  UNCHANGED row
  BY <1>5 DEF Unmark, RemoveO, Check, StartPass, PassRefused, LeaseLost, ReadRow, PassRequest
<1>6. ASSUME NEW a \in Attempts,
             \/ UnmarkO(a) \/ ConvergeN(a) \/ Recheck(a) \/ Resolve(a) \/ ResolveFails(a)
             \/ Recover(a)
      PROVE  UNCHANGED row
  BY <1>6 DEF UnmarkO, ConvergeN, Recheck, Resolve, ResolveFails, Recover
<1>7. ASSUME Approve \/ ApproveRemove \/ ApproveRecord \/ Start \/ Stop \/ Shutdown \/ Crash \/ Boot \/ ZombieEnds
      PROVE  UNCHANGED row
  BY <1>7 DEF Approve, ApproveRemove, ApproveRecord, Start, Stop, Shutdown, Crash, Boot, ZombieEnds
<1>8. ASSUME NEW c \in Containers, StartByHand(c) \/ ExitsByItself(c)
      PROVE  UNCHANGED row
  BY <1>8 DEF StartByHand, ExitsByItself
<1>9. CASE UNCHANGED vars
  BY <1>9 DEF vars
<1> QED
  BY <1>1, <1>2, <1>3, <1>4, <1>5, <1>6, <1>7, <1>8, <1>9 DEF Next, AttemptStep, Elsewhere

\* The authorized token is that of the container D1 names, or none: the
\* commit moves both in one statement, in either direction.
THEOREM HashAlwaysFollows == Spec => []HashFollows
<1>1. Init => HashFollows
  BY DEF Init, HashFollows
<1>2. HashFollows /\ [Next]_vars => HashFollows'
  BY RowChanges DEF HashFollows, row, Commits, CommitEffect, Purge, Disable
<1> QED BY <1>1, <1>2, PTL DEF Spec

\* Once capture is disabled no commit, however late, authorizes a token.
THEOREM DisableAlwaysWins == Spec => DisableWins
<1>1. [Next]_vars => [~wanted => hash' \in {0, hash} /\ ~wanted']_vars
  BY RowChanges DEF row, Commits, CommitApplies, CommitEffect, Purge, Disable
<1> QED BY <1>1, PTL DEF Spec, DisableWins

-----------------------------------------------------------------------------
(* Type correctness: first what each shared piece of a step does.           *)

\* The constants' types, and the numbers every step uses in range.
LEMMA NumberFacts ==
  /\ MaxAttempts \in Nat \ {0} /\ MaxFaults \in Nat /\ MaxCrashes \in Nat /\ MaxByHand \in Nat
  /\ Admin = MaxAttempts + 1
  /\ \A a \in Attempts : /\ a \in Nat /\ a \in 0..MaxAttempts /\ a \in 0..Admin
                         /\ a + 1 \in 0..(MaxAttempts + 1)
                         /\ {Canonical, OldName(a), TempName(a), UndoName(a)} \subseteq Names
BY MaxAttemptsAssumption, RecreateAssumption
   DEF Admin, Attempts, Canonical, OldName, TempName, UndoName, Names

\* The request out at a point is a request, or none.
LEMMA OpAtType ==
  ASSUME EngineOK, NEW a \in Attempts
  PROVE  OpAt(a) \in Ops \cup {NoOp}
<1>1. plan[a].o \in 0..(MaxAttempts + 1) /\ plan[a].n \in 0..(MaxAttempts + 1)
  BY DEF EngineOK, Plans
<1>2. ASSUME NEW k \in Kinds, NEW c \in 0..(MaxAttempts + 1), NEW m \in Names
      PROVE  Op(k, c, m, a) \in Ops
  BY NumberFacts DEF Op, Ops
<1>3. 0 \in Names
  BY NumberFacts DEF Names
<1> QED
  BY <1>1, <1>2, <1>3, NumberFacts DEF OpAt, Kinds

\* A request leaves a container in a container's state.
LEMMA AfterType ==
  \A k, st : st \in {"absent", "stopped", "running"} => After(k, st) \in {"absent", "stopped", "running"}
BY DEF After

\* Docker's state keeps its type when a request takes effect,
LEMMA EffectType ==
  ASSUME DockerOK, NEW op \in Ops, Effect(op)
  PROVE  DockerOK'
BY AfterType DEF DockerOK, Effect, Ops

\* the bounds are kept by every fault,
LEMMA FaultType == SpentOK /\ (Fault \/ NoFault) => SpentOK'
BY NumberFacts DEF SpentOK, Fault, NoFault, spent

\* and both by every answer, right or wrong.
LEMMA AnswerType ==
  ASSUME DockerOK, SpentOK, NEW op \in Ops \cup {NoOp}, NEW ok, Answer(op, ok)
  PROVE  DockerOK' /\ SpentOK'
<1>1. Accepts(op) => op \in Ops
  BY DEF Accepts, NoOp, Ops
<1>2. CASE UNCHANGED docker
  BY <1>2, FaultType DEF docker, DockerOK, Answer
<1>3. CASE Accepts(op) /\ Effect(op)
  BY <1>1, <1>3, EffectType, FaultType DEF Answer
<1> QED BY <1>2, <1>3 DEF Answer

\* Leaving a point, and going to another, keep the engine's type.
LEMMA LeaveType ==
  ASSUME EngineOK, NEW a \in Attempts, NEW p \in Points, NEW m \in Modes,
         NEW op \in Ops \cup {NoOp}, NEW l \in 0..Admin, Leave(a, p, m, op, l)
  PROVE  EngineOK'
BY DEF EngineOK, Leave

\* (the same, for the steps that only go on)
LEMMA GoType ==
  ASSUME EngineOK, NEW a \in Attempts, NEW p \in Points, Go(a, p)
  PROVE  EngineOK'
BY DEF EngineOK, Go

\* Every transition of the store maps records to records.
LEMMA RecordTypes ==
  ASSUME NEW r \in Records, NEW a \in Attempts, NEW o \in 0..(MaxAttempts + 1),
         NEW n \in 0..(MaxAttempts + 1), NEW b \in BOOLEAN, NEW v \in BOOLEAN,
         NEW out \in Outcomes, NEW role \in {"-", "O", "N"}
  PROVE  /\ BeginRec(a, o, n, b, v) \in Records
         /\ UncertainRec(r) \in Records /\ AdoptedRec(r) \in Records
         /\ ApprovedRec(r) \in Records /\ OrphanedRec(r) \in Records
         /\ ResolvedRec(r, out, o, role) \in Records
         /\ NoRecord \in Records
<1> USE NumberFacts DEF Records, RecStates, Outcomes
<1>1. NoRecord \in Records
  BY DEF NoRecord
<1>2. UncertainRec(r) \in Records
  BY DEF UncertainRec
<1>3. AdoptedRec(r) \in Records
  BY DEF AdoptedRec
<1>4. ApprovedRec(r) \in Records
  <2>1. 0 \in 0..(MaxAttempts + 1)
    OBVIOUS
  <2> QED BY <2>1 DEF ApprovedRec
<1>5. OrphanedRec(r) \in Records
  BY DEF OrphanedRec
<1>6. BeginRec(a, o, n, b, v) \in Records
  BY <1>1 DEF BeginRec
<1>7. ResolvedRec(r, out, o, role) \in Records
  <2>1. (IF o = 0 THEN r.retained ELSE o) \in 0..(MaxAttempts + 1)
        /\ (IF o = 0 THEN r.role ELSE role) \in {"-", "O", "N"}
    OBVIOUS
  <2> QED BY <2>1 DEF ResolvedRec
<1> QED BY <1>1, <1>2, <1>3, <1>4, <1>5, <1>6, <1>7

\* markUncertain() leaves a record on disk.
LEMMA MarkUncertainType ==
  ASSUME DiskOK, NEW a \in Attempts, MarkUncertain(a)
  PROVE  DiskOK'
<1>1. UncertainRec(rec) \in Records
  BY DEF DiskOK, Records, RecStates, Outcomes, UncertainRec
<1> QED BY <1>1 DEF DiskOK, MarkUncertain

\* Zero and NoOp are always in range.
LEMMA RestFacts ==
  ASSUME EngineOK
  PROVE  /\ 0 \in 0..Admin /\ NoOp \in Ops \cup {NoOp} /\ lock \in 0..Admin
         /\ {"settle", "stuck", "off", "read"} \subseteq Points
         /\ {"await", "live", "sync", "recover", "main"} \subseteq Modes
BY NumberFacts DEF EngineOK, Points, PassPoints, Modes

\* Abandoning an attempt, before or after its commit, keeps the types.
LEMMA AbandonType ==
  ASSUME DiskOK, EngineOK, NEW a \in Attempts, NEW op \in Ops \cup {NoOp},
         Abandon(a, op) \/ NotConverged(a, op)
  PROVE  DiskOK' /\ EngineOK'
<1>1. DiskOK'
  BY MarkUncertainType DEF Abandon, NotConverged, DiskOK, disk
<1>2. EngineOK'
  BY LeaveType, RestFacts DEF Abandon, NotConverged
<1> QED BY <1>1, <1>2

\* So does a pass that ends without resolving, whoever waits for it,
LEMMA PassGoesType ==
  ASSUME EngineOK, NEW a \in Attempts, NEW p \in {"settle", "stuck"}, PassGoes(a, p)
  PROVE  EngineOK'
<1>1. p \in Points
  BY RestFacts
<1>2. CASE mode[a] = "await"
  BY <1>1, <1>2, LeaveType, RestFacts DEF PassGoes
<1>3. CASE mode[a] = "recover"
  BY <1>1, <1>3, LeaveType, RestFacts DEF PassGoes
<1>4. CASE mode[a] \notin {"await", "recover"}
  <2>1. Leave(a, p, "live", NoOp, IF lock = a THEN 0 ELSE lock)
    BY <1>4 DEF PassGoes
  <2> QED BY <1>1, <2>1, LeaveType, RestFacts
<1> QED BY <1>2, <1>3, <1>4

\* with or without its record write,
LEMMA PassEndsType ==
  ASSUME DiskOK, EngineOK, NEW a \in Attempts, Retry(a) \/ Stuck(a)
  PROVE  DiskOK' /\ EngineOK'
<1>1. PICK p \in {"settle", "stuck"} : PassEnds(a, p)
  BY DEF Retry, Stuck
<1>2. DiskOK'
  BY <1>1, MarkUncertainType DEF PassEnds, DiskOK, disk
<1>3. EngineOK'
  BY <1>1, PassGoesType DEF PassEnds
<1> QED BY <1>2, <1>3

\* and a pass that goes on to its next action.
LEMMA MoveOnType ==
  ASSUME DiskOK, EngineOK, NEW a \in Attempts, NEW p \in Points \cup {"retry"}, MoveOn(a, p)
  PROVE  DiskOK' /\ EngineOK'
<1>1. CASE p \in {"retry", "stuck"}
  BY <1>1, PassEndsType DEF MoveOn
<1>2. CASE p \notin {"retry", "stuck"}
  BY <1>2, GoType DEF MoveOn, DiskOK, disk
<1> QED BY <1>1, <1>2

-----------------------------------------------------------------------------
\* The initial states are well typed.
LEMMA TypeInit == Init => TypeOK
<1> SUFFICES ASSUME Init PROVE TypeOK
  OBVIOUS
<1>0. /\ 0 \in 0..MaxAttempts /\ 0 \in 0..(MaxAttempts + 1) /\ 1 \in 0..(MaxAttempts + 1)
      /\ 0 \in 0..Admin /\ 0 \in 0..MaxFaults /\ 0 \in 0..MaxCrashes /\ 0 \in 0..MaxByHand
      /\ Canonical \in Names
  BY NumberFacts DEF Canonical, Names
<1>1. DockerOK
  BY <1>0 DEF Init, DockerOK
<1>2. RowOK
  BY <1>0 DEF Init, RowOK
<1>3. DiskOK
  <2>1. NoRecord \in Records
    BY <1>0 DEF NoRecord, Records, RecStates, Outcomes
  <2> QED BY <2>1 DEF Init, DiskOK, Outcomes
<1>4. ProcOK /\ SpentOK
  BY <1>0 DEF Init, ProcOK, SpentOK
<1>5. WireOK
  BY DEF Init, WireOK
<1>6. EngineOK
  BY <1>0 DEF Init, EngineOK, NoPlan, Plans, Points, Modes
<1> QED BY <1>1, <1>2, <1>3, <1>4, <1>5, <1>6 DEF TypeOK

\* Taking the lock for an attempt.
LEMMA TypeAdmit ==
  ASSUME TypeOK, NEW a \in Attempts,
         Recreate(a, FALSE) \/ Recreate(a, TRUE) \/ RollbackToRetained(a)
  PROVE  TypeOK'
<1> USE NumberFacts DEF TypeOK
<1>1. /\ UNCHANGED <<docker, row, disk, up, stopped, own, adm, late, wire, spent>>
      /\ lock' = a /\ started' = a /\ at' = [at EXCEPT ![a] = "begin"]
      /\ mode' = [mode EXCEPT ![a] = "main"]
  BY DEF Recreate, RollbackToRetained, Admit
<1>2. PICK o \in 0..(MaxAttempts + 1), n \in 0..(MaxAttempts + 1), c \in BOOLEAN, v \in BOOLEAN :
        plan' = [plan EXCEPT ![a] = PlanOf(o, n, c, v)]
  <2>1. cid \in 0..(MaxAttempts + 1) /\ rec.retained \in 0..(MaxAttempts + 1)
    BY DEF RowOK, DiskOK, Records
  <2> QED BY <2>1 DEF Recreate, RollbackToRetained, NewOf
<1>3. PlanOf(o, n, c, v) \in Plans
  BY DEF PlanOf, NoPlan, Plans
<1>4. EngineOK'
  BY <1>1, <1>2, <1>3 DEF EngineOK, Points, Modes
<1>5. DockerOK' /\ RowOK' /\ DiskOK' /\ ProcOK' /\ WireOK' /\ SpentOK'
  BY <1>1 DEF DockerOK, RowOK, DiskOK, ProcOK, WireOK, SpentOK, docker, row, disk, wire, spent
<1> QED BY <1>4, <1>5

\* What the frame conditions give.
LEMMA Frames ==
  ASSUME TypeOK
  PROVE  /\ UNCHANGED docker => DockerOK'
         /\ UNCHANGED row => RowOK'
         /\ UNCHANGED disk => DiskOK'
         /\ UNCHANGED proc => ProcOK'
         /\ UNCHANGED engine => EngineOK'
         /\ UNCHANGED wire => WireOK'
         /\ UNCHANGED spent => SpentOK'
<1> USE DEF TypeOK
<1>1. UNCHANGED docker => DockerOK'
  BY DEF DockerOK, docker
<1>2. UNCHANGED row => RowOK'
  BY DEF RowOK, row
<1>3. UNCHANGED disk => DiskOK'
  BY DEF DiskOK, disk
<1>4. UNCHANGED proc => ProcOK'
  BY DEF ProcOK, proc
<1>5. UNCHANGED engine => EngineOK'
  BY DEF EngineOK, engine
<1>6. UNCHANGED wire => WireOK'
  BY DEF WireOK, wire
<1>7. UNCHANGED spent => SpentOK'
  BY DEF SpentOK, spent
<1> QED BY <1>1, <1>2, <1>3, <1>4, <1>5, <1>6, <1>7

\* The record begin() writes, and what its failure leaves.
LEMMA NewRecordType ==
  ASSUME TypeOK, NEW a \in Attempts
  PROVE  /\ NewRecord(a) \in Records
         /\ ResolvedRec(NewRecord(a), "rolled-back", 0, "-") \in Records
         /\ [hist EXCEPT ![rec.att] = rec.out] \in [Attempts -> Outcomes]
<1>1. /\ plan[a].o \in 0..(MaxAttempts + 1) /\ plan[a].n \in 0..(MaxAttempts + 1)
      /\ plan[a].carry \in BOOLEAN /\ plan[a].reverse \in BOOLEAN
  BY DEF TypeOK, EngineOK, Plans
<1>2. NewRecord(a) \in Records
  BY <1>1, RecordTypes DEF NewRecord, TypeOK, DiskOK, Outcomes
<1>3. ResolvedRec(NewRecord(a), "rolled-back", 0, "-") \in Records
  <2>1. 0 \in 0..(MaxAttempts + 1) /\ "rolled-back" \in Outcomes /\ "-" \in {"-", "O", "N"} /\ TRUE \in BOOLEAN
    BY NumberFacts DEF Outcomes
  <2> HIDE DEF NewRecord
  <2> QED BY <1>2, <2>1, RecordTypes
<1>4. [hist EXCEPT ![rec.att] = rec.out] \in [Attempts -> Outcomes]
  BY DEF TypeOK, DiskOK, Records
<1> QED BY <1>2, <1>3, <1>4

\* Writing the record, or not.
LEMMA TypeBegin ==
  ASSUME TypeOK, NEW a \in Attempts, BeginNotNow(a) \/ Begin(a) \/ BeginFails(a)
  PROVE  TypeOK'
<1> USE DEF TypeOK
<1>1. ASSUME BeginNotNow(a) PROVE TypeOK'
  <2>1. EngineOK'
    BY <1>1, LeaveType, RestFacts DEF BeginNotNow
  <2> QED BY <1>1, <2>1, Frames DEF BeginNotNow
<1>2. ASSUME Begin(a) PROVE TypeOK'
  <2>1. DiskOK'
    BY <1>2, NewRecordType DEF Begin, DiskOK
  <2>2. EngineOK'
    <3>1. plan' \in [Attempts -> Plans]
      <4>1. [plan[a] EXCEPT !.deaf = stopped] \in Plans
        BY DEF EngineOK, ProcOK, Plans
      <4>2. plan' = plan \/ plan' = [plan EXCEPT ![a] = [plan[a] EXCEPT !.deaf = stopped]]
        BY <1>2 DEF Begin
      <4> QED BY <4>1, <4>2 DEF EngineOK
    <3>2. lock' \in 0..Admin /\ own' \subseteq Attempts /\ adm' = adm /\ mode' = mode /\ late' = late
      BY <1>2, RestFacts DEF Begin, EngineOK
    <3>3. at' \in [Attempts -> Points]
      BY <1>2 DEF Begin, EngineOK, Points, BeforeCommit
    <3> QED BY <3>1, <3>2, <3>3 DEF EngineOK
  <2> QED BY <1>2, <2>1, <2>2, Frames DEF Begin
<1>3. ASSUME BeginFails(a) PROVE TypeOK'
  <2>1. DiskOK'
    BY <1>3, NewRecordType DEF BeginFails, DiskOK
  <2>2. EngineOK'
    BY <1>3, RestFacts DEF BeginFails, EngineOK
  <2>3. SpentOK'
    BY <1>3, FaultType DEF BeginFails
  <2> QED BY <1>3, <2>1, <2>2, <2>3, Frames DEF BeginFails
<1> QED BY <1>1, <1>2, <1>3

\* The main flow up to the commit, and the time limits on it.
LEMMA TypeMain ==
  ASSUME TypeOK, NEW a \in Attempts,
         \/ Prepare(a) \/ MainRequest(a) \/ MainCheck(a) \/ Deadline(a) \/ LateAnswer(a)
         \/ RollbackTimeout(a)
  PROVE  TypeOK'
<1> USE DEF TypeOK
<1>0. /\ OpAt(a) \in Ops \cup {NoOp} /\ late[a] \in Ops \cup {NoOp}
      /\ BeforeCommit \subseteq Points /\ AfterCommit \subseteq Points /\ "cas" \in Points
  BY OpAtType DEF EngineOK, Points
<1>1. ASSUME Prepare(a) PROVE TypeOK'
  <2>1. DiskOK'
    BY <1>1 DEF Prepare, DeferSeed, DiskOK
  <2>2. EngineOK' /\ SpentOK'
    BY <1>0, <1>1, GoType, LeaveType, RestFacts, FaultType DEF Prepare, BeforeCommit
  <2> QED BY <1>1, <2>1, <2>2, Frames DEF Prepare
<1>2. ASSUME MainRequest(a) PROVE TypeOK'
  <2>1. DockerOK' /\ SpentOK'
    BY <1>0, <1>2, AnswerType DEF MainRequest
  <2>2. NextMain(a) \in Points
    BY RestFacts DEF NextMain, Points, BeforeCommit
  <2>3. DiskOK' /\ EngineOK'
    <3>1. CASE Abandon(a, NoOp)
      BY <3>1, AbandonType, RestFacts
    <3>2. CASE Go(a, NextMain(a)) /\ UNCHANGED disk
      BY <3>2, <2>2, GoType, Frames
    <3> QED BY <1>2, <3>1, <3>2 DEF MainRequest
  <2> QED BY <1>2, <2>1, <2>3, Frames DEF MainRequest
<1>3. ASSUME MainCheck(a) PROVE TypeOK'
  <2>1. SpentOK'
    BY <1>3, FaultType DEF MainCheck
  <2>2. DiskOK' /\ EngineOK'
    <3>1. CASE Abandon(a, NoOp)
      BY <3>1, AbandonType, RestFacts
    <3>2. CASE UNCHANGED disk /\ \E p \in {"renameO", "cas"} : Go(a, p)
      BY <3>2, GoType, Frames DEF Points, BeforeCommit
    <3> QED BY <1>3, <3>1, <3>2 DEF MainCheck
  <2> QED BY <1>3, <2>1, <2>2, Frames DEF MainCheck
<1>4. ASSUME Deadline(a) PROVE TypeOK'
  <2>1. DiskOK' /\ EngineOK'
    <3>1. CASE Abandon(a, OpAt(a)) \/ NotConverged(a, OpAt(a))
      BY <1>0, <3>1, AbandonType
    <3>2. CASE /\ DeferSeed \/ UNCHANGED marker
               /\ UNCHANGED <<rec, hist>> /\ Leave(a, "settle", "await", NoOp, lock)
      BY <3>2, LeaveType, RestFacts DEF DeferSeed, DiskOK
    <3> QED BY <1>4, <3>1, <3>2 DEF Deadline
  <2> QED BY <1>4, <2>1, Frames DEF Deadline
<1>5. ASSUME LateAnswer(a) PROVE TypeOK'
  <2>1. DockerOK' /\ SpentOK'
    BY <1>0, <1>5, AnswerType DEF LateAnswer
  <2>2. EngineOK'
    BY <1>5 DEF LateAnswer, EngineOK
  <2> QED BY <1>5, <2>1, <2>2, Frames DEF LateAnswer
<1>6. ASSUME RollbackTimeout(a) PROVE TypeOK'
  <2>1. DiskOK'
    BY <1>6, MarkUncertainType DEF RollbackTimeout
  <2>2. EngineOK'
    BY <1>6, RestFacts DEF RollbackTimeout, EngineOK
  <2> QED BY <1>6, <2>1, <2>2, Frames DEF RollbackTimeout
<1> QED BY <1>1, <1>2, <1>3, <1>4, <1>5, <1>6

\* The row a commit leaves.
LEMMA CommitEffectType ==
  ASSUME TypeOK, NEW a \in Attempts, CommitEffect(a)
  PROVE  RowOK'
<1>1. plan[a].n \in 0..(MaxAttempts + 1) /\ 0 \in 0..(MaxAttempts + 1)
  BY NumberFacts DEF TypeOK, EngineOK, Plans
<1>2. wanted \in BOOLEAN /\ gone \in BOOLEAN
  BY DEF TypeOK, RowOK
<1> QED BY <1>1, <1>2 DEF RowOK, CommitEffect

\* The commit, and the convergence after it.
LEMMA TypeCommit ==
  ASSUME TypeOK, NEW a \in Attempts,
         \/ CommitApplied(a) \/ CommitNotApplied(a) \/ CommitAmbiguous(a) \/ LimboEnds(a)
         \/ Unmark(a) \/ RemoveO(a) \/ Check(a)
  PROVE  TypeOK'
<1> USE DEF TypeOK
<1>0. /\ OpAt(a) \in Ops \cup {NoOp}
      /\ {"unmark", "removeO", "check", "recordN"} \subseteq Points
  BY OpAtType DEF Points, AfterCommit, PassPoints, RecordPoints
<1>1. ASSUME CommitApplied(a) PROVE TypeOK'
  <2>1. RowOK'
    BY <1>1, CommitEffectType DEF CommitApplied
  <2>2. DiskOK' /\ EngineOK'
    <3>1. CASE NotConverged(a, NoOp)
      BY <3>1, AbandonType, RestFacts
    <3>2. CASE UNCHANGED disk /\ (Go(a, "unmark") \/ Leave(a, "settle", "sync", NoOp, lock))
      BY <1>0, <3>2, GoType, LeaveType, RestFacts, Frames
    <3> QED BY <1>1, <3>1, <3>2 DEF CommitApplied
  <2> QED BY <1>1, <2>1, <2>2, Frames DEF CommitApplied
<1>2. ASSUME CommitNotApplied(a) PROVE TypeOK'
  <2>1. SpentOK'
    BY <1>2, FaultType DEF CommitNotApplied
  <2>2. EngineOK'
    BY <1>2, LeaveType, RestFacts DEF CommitNotApplied
  <2> QED BY <1>2, <2>1, <2>2, Frames DEF CommitNotApplied
<1>3. ASSUME CommitAmbiguous(a) PROVE TypeOK'
  <2>1. SpentOK'
    BY <1>3, FaultType DEF CommitAmbiguous
  <2>2. RowOK' /\ WireOK'
    BY <1>3, CommitEffectType, Frames DEF CommitAmbiguous, WireOK
  <2>3. DiskOK' /\ EngineOK'
    BY <1>3, AbandonType, RestFacts DEF CommitAmbiguous
  <2> QED BY <1>3, <2>1, <2>2, <2>3, Frames DEF CommitAmbiguous
<1>4. ASSUME LimboEnds(a) PROVE TypeOK'
  <2>1. RowOK' /\ WireOK'
    BY <1>4, CommitEffectType, Frames DEF LimboEnds, WireOK
  <2> QED BY <1>4, <2>1, Frames DEF LimboEnds
<1>5. ASSUME Unmark(a) PROVE TypeOK'
  <2>1. DiskOK' /\ SpentOK'
    BY <1>5, FaultType DEF Unmark, DiskOK
  <2>2. EngineOK'
    BY <1>0, <1>5, GoType DEF Unmark
  <2> QED BY <1>5, <2>1, <2>2, Frames DEF Unmark
<1>6. ASSUME RemoveO(a) PROVE TypeOK'
  <2>1. DockerOK' /\ SpentOK'
    BY <1>0, <1>6, AnswerType DEF RemoveO
  <2>2. DiskOK' /\ EngineOK'
    BY <1>0, <1>6, GoType, AbandonType, RestFacts, Frames DEF RemoveO
  <2> QED BY <1>6, <2>1, <2>2, Frames DEF RemoveO
<1>7. ASSUME Check(a) PROVE TypeOK'
  <2>1. DiskOK' /\ EngineOK'
    BY <1>0, <1>7, GoType, AbandonType, RestFacts, Frames DEF Check
  <2> QED BY <1>7, <2>1, Frames DEF Check
<1> QED BY <1>1, <1>2, <1>3, <1>4, <1>5, <1>6, <1>7

\* The resolution table only names points of the engine.
LEMMA PassPointsAreMoves ==
  ASSUME NEW a, NEW ok
  PROVE  FirstAct(a) \in Points \cup {"retry"} /\ NextPass(a, ok) \in Points \cup {"retry"}
<1>1. ToOPoints \cup ToNPoints \cup ReversePoints \cup {"stuck"} \subseteq Points
  BY DEF Points, PassPoints
<1>2. AfterN(a) \in Points
  BY <1>1 DEF AfterN, ToOPoints
<1>3. FirstAct(a) \in Points \cup {"retry"}
  BY <1>1, <1>2 DEF FirstAct, ToOPoints, ToNPoints, ReversePoints
<1>4. NextPass(a, ok) \in Points \cup {"retry"}
  BY <1>1, <1>2 DEF NextPass, ToOPoints, ToNPoints, ReversePoints
<1> QED BY <1>3, <1>4

\* The steps of a resolution pass.
LEMMA TypePass ==
  ASSUME TypeOK, NEW a \in Attempts,
         \/ StartPass(a) \/ PassRefused(a) \/ LeaseLost(a) \/ ReadRow(a) \/ PassRequest(a)
         \/ UnmarkO(a) \/ ConvergeN(a) \/ Recheck(a)
  PROVE  TypeOK'
<1> USE DEF TypeOK
<1>0. /\ OpAt(a) \in Ops \cup {NoOp}
      /\ {"recordO", "recordN", "recordBack", "recordUndo", "recheckN"} \subseteq Points
  BY OpAtType DEF Points, PassPoints, RecordPoints, ToNPoints
<1>1. ASSUME StartPass(a) PROVE TypeOK'
  <2>1. EngineOK'
    BY <1>1, RestFacts, NumberFacts DEF StartPass, EngineOK
  <2> QED BY <1>1, <2>1, Frames DEF StartPass
<1>2. ASSUME PassRefused(a) \/ LeaseLost(a) PROVE TypeOK'
  BY <1>2, PassEndsType, Frames DEF PassRefused, LeaseLost
<1>3. ASSUME ReadRow(a) PROVE TypeOK'
  <2>1. DiskOK' /\ EngineOK'
    BY <1>3, MoveOnType, PassPointsAreMoves DEF ReadRow
  <2> QED BY <1>3, <2>1, Frames DEF ReadRow
<1>4. ASSUME PassRequest(a) PROVE TypeOK'
  <2>1. DockerOK' /\ SpentOK'
    BY <1>0, <1>4, AnswerType DEF PassRequest
  <2>2. DiskOK' /\ EngineOK'
    BY <1>4, MoveOnType, PassPointsAreMoves, PassEndsType DEF PassRequest
  <2> QED BY <1>4, <2>1, <2>2, Frames DEF PassRequest
<1>5. ASSUME UnmarkO(a) \/ ConvergeN(a) PROVE TypeOK'
  <2>1. SpentOK'
    BY <1>5, FaultType DEF UnmarkO, ConvergeN
  <2>2. DiskOK' /\ EngineOK'
    <3>1. CASE Retry(a)
      BY <3>1, PassEndsType
    <3>2. CASE marker' = FALSE /\ UNCHANGED <<rec, hist>> /\ (Go(a, "recordO") \/ Go(a, "recheckN"))
      BY <1>0, <3>2, GoType DEF DiskOK
    <3> QED BY <1>5, <3>1, <3>2 DEF UnmarkO, ConvergeN
  <2> QED BY <1>5, <2>1, <2>2, Frames DEF UnmarkO, ConvergeN
<1>6. ASSUME Recheck(a) PROVE TypeOK'
  <2>1. PICK p \in Points \cup {"retry"} : MoveOn(a, p)
    BY <1>0, <1>6 DEF Recheck
  <2>2. DiskOK' /\ EngineOK'
    BY <2>1, MoveOnType
  <2> QED BY <1>6, <2>2, Frames DEF Recheck
<1> QED BY <1>1, <1>2, <1>3, <1>4, <1>5, <1>6

\* The records written outside the main flow are records.
LEMMA AdoptionType ==
  ASSUME TypeOK
  PROVE  /\ AdoptedRec(rec) \in Records /\ OrphanedRec(rec) \in Records
         /\ ApprovedRec(rec) \in Records /\ NoRecord \in Records
         /\ \A a \in Attempts : ResolvedRec(rec, OutcomeAt(a), RetainedAt(a), RoleAt(a)) \in Records
         /\ PlanOf(rec.old, rec.new, rec.carry, rec.reverse) \in Plans
<1>1. rec \in Records /\ 0 \in 0..(MaxAttempts + 1) /\ "none" \in Outcomes
      /\ "-" \in {"-", "O", "N"} /\ TRUE \in BOOLEAN
  BY NumberFacts DEF TypeOK, DiskOK, Outcomes
<1>2. 1 \in Attempts
  BY NumberFacts DEF Attempts
<1>3. /\ AdoptedRec(rec) \in Records /\ OrphanedRec(rec) \in Records
      /\ ApprovedRec(rec) \in Records /\ NoRecord \in Records
  BY <1>1, <1>2, RecordTypes
<1>4. ASSUME NEW a \in Attempts
      PROVE  ResolvedRec(rec, OutcomeAt(a), RetainedAt(a), RoleAt(a)) \in Records
  <2>1. RetainedAt(a) \in 0..(MaxAttempts + 1)
    BY <1>1 DEF RetainedAt, TypeOK, EngineOK, Plans
  <2>2. OutcomeAt(a) \in Outcomes /\ RoleAt(a) \in {"-", "O", "N"}
    BY DEF OutcomeAt, RoleAt, Outcomes
  <2> QED BY <1>1, <2>1, <2>2, RecordTypes
<1>5. PlanOf(rec.old, rec.new, rec.carry, rec.reverse) \in Plans
  BY <1>1 DEF PlanOf, NoPlan, Plans, Records
<1> QED BY <1>3, <1>4, <1>5

\* Resolution, its failure, and an operator's adoption.
LEMMA TypeResolve ==
  ASSUME TypeOK, NEW a \in Attempts, Resolve(a) \/ ResolveFails(a) \/ Recover(a)
  PROVE  TypeOK'
<1> USE DEF TypeOK
<1>1. ASSUME Resolve(a) PROVE TypeOK'
  <2>1. DiskOK'
    BY <1>1, AdoptionType DEF Resolve, DiskOK
  <2>2. EngineOK'
    BY <1>1, RestFacts DEF Resolve, EngineOK
  <2> QED BY <1>1, <2>1, <2>2, Frames DEF Resolve
<1>2. ASSUME ResolveFails(a) PROVE TypeOK'
  <2>1. DiskOK' /\ EngineOK'
    <3>1. CASE Retry(a)
      BY <3>1, PassEndsType
    <3>2. CASE /\ rec' = ResolvedRec(rec, OutcomeAt(a), RetainedAt(a), RoleAt(a))
               /\ UNCHANGED <<hist, marker>> /\ PassGoes(a, "settle")
      BY <3>2, AdoptionType, PassGoesType DEF DiskOK
    <3> QED BY <1>2, <3>1, <3>2 DEF ResolveFails
  <2>2. SpentOK'
    BY <1>2, FaultType DEF ResolveFails
  <2> QED BY <1>2, <2>1, <2>2, Frames DEF ResolveFails
<1>3. ASSUME Recover(a) PROVE TypeOK'
  <2>1. DiskOK' /\ SpentOK'
    BY <1>3, AdoptionType, FaultType DEF Recover, DiskOK
  <2>2. EngineOK'
    <3>1. CASE UNCHANGED <<own, lock, plan, at, mode>>
      BY <1>3, <3>1 DEF Recover, EngineOK
    <3>2. CASE /\ own' = own \cup {a} /\ lock' = a
               /\ plan' = [plan EXCEPT ![a] = PlanOf(rec.old, rec.new, rec.carry, rec.reverse)]
               /\ at' = [at EXCEPT ![a] = "read"] /\ mode' = [mode EXCEPT ![a] = "recover"]
      <4>1. adm' = adm /\ late' = late
        BY <1>3 DEF Recover
      <4>2. lock' \in 0..Admin
        BY <3>2, NumberFacts
      <4> QED BY <3>2, <4>1, <4>2, AdoptionType, RestFacts DEF EngineOK
    <3> QED BY <1>3, <3>1, <3>2 DEF Recover
  <2> QED BY <1>3, <2>1, <2>2, Frames DEF Recover
<1> QED BY <1>1, <1>2, <1>3

\* approve, the lifecycle verbs, the disable, the shutdown.
LEMMA TypeAdmin ==
  ASSUME TypeOK,
         \/ Approve \/ ApproveRemove \/ ApproveRecord
         \/ Start \/ Stop \/ Purge \/ Disable \/ Shutdown
  PROVE  TypeOK'
<1> USE DEF TypeOK
<1>1. ASSUME Approve PROVE TypeOK'
  <2>1. EngineOK'
    BY <1>1, NumberFacts DEF Approve, EngineOK
  <2> QED BY <1>1, <2>1, Frames DEF Approve
<1>2. ASSUME ApproveRemove PROVE TypeOK'
  <2>1. RetainedOp \in Ops
    BY NumberFacts DEF RetainedOp, Op, Ops, Kinds, DiskOK, Records, Names
  <2>2. DockerOK' /\ SpentOK'
    BY <1>2, <2>1, AnswerType DEF ApproveRemove
  <2>3. EngineOK'
    BY <1>2, RestFacts DEF ApproveRemove, EngineOK
  <2> QED BY <1>2, <2>2, <2>3, Frames DEF ApproveRemove
<1>3. ASSUME ApproveRecord PROVE TypeOK'
  <2>1. DiskOK' /\ SpentOK'
    BY <1>3, AdoptionType, FaultType DEF ApproveRecord, DiskOK
  <2>2. EngineOK'
    BY <1>3, RestFacts DEF ApproveRecord, EngineOK
  <2> QED BY <1>3, <2>1, <2>2, Frames DEF ApproveRecord
<1>4. ASSUME Start \/ Stop PROVE TypeOK'
  <2>1. DockerOK'
    BY <1>4 DEF Start, Stop, Running, DockerOK
  <2> QED BY <1>4, <2>1, Frames DEF Start, Stop
<1>5. ASSUME Purge PROVE TypeOK'
  <2>1. DockerOK'
    BY <1>5 DEF Purge, Exists, DockerOK
  <2>2. RowOK'
    BY <1>5, NumberFacts DEF Purge, RowOK
  <2>3. DiskOK'
    BY <1>5, AdoptionType DEF Purge, DiskOK, Outcomes
  <2> QED BY <1>5, <2>1, <2>2, <2>3, Frames DEF Purge
<1>6. ASSUME Disable PROVE TypeOK'
  <2>1. RowOK'
    <3>1. 0 \in 0..(MaxAttempts + 1)
      BY NumberFacts
    <3> QED BY <1>6, <3>1 DEF Disable, RowOK
  <2> QED BY <1>6, <2>1, Frames DEF Disable
<1>7. ASSUME Shutdown PROVE TypeOK'
  <2>1. ProcOK'
    BY <1>7 DEF Shutdown, ProcOK
  <2> QED BY <1>7, <2>1, Frames DEF Shutdown
<1> QED BY <1>1, <1>2, <1>3, <1>4, <1>5, <1>6, <1>7

\* Process deaths, boots, late requests, people at the host.
LEMMA TypeWorld ==
  ASSUME TypeOK,
         \/ Crash \/ Boot \/ ZombieEnds
         \/ \E c \in Containers : StartByHand(c) \/ ExitsByItself(c)
  PROVE  TypeOK'
<1> USE DEF TypeOK
<1>1. ASSUME Crash PROVE TypeOK'
  <2>1. SpentOK'
    BY <1>1, NumberFacts DEF Crash, SpentOK
  <2>2. ProcOK'
    BY <1>1 DEF Crash, ProcOK
  <2>3. EngineOK'
    BY <1>1, RestFacts DEF Crash, EngineOK
  <2>4. WireOK'
    <3>1. RetainedOp \in Ops
      BY NumberFacts DEF RetainedOp, Op, Ops, Kinds, DiskOK, Records, Names
    <3>2. \A a \in Attempts : OpAt(a) \in Ops \cup {NoOp} /\ late[a] \in Ops \cup {NoOp}
      BY OpAtType DEF EngineOK
    <3>3. zombies' \subseteq Ops
      <4>1. (IF adm = "remove" THEN {RetainedOp} ELSE {}) \subseteq Ops
        BY <3>1
      <4>2. zombies \subseteq Ops
        BY DEF WireOK
      <4> QED BY <1>1, <3>2, <4>1, <4>2 DEF Crash
    <3>4. limbo' \in [Attempts -> BOOLEAN]
      <4>1. \A a \in Attempts : (limbo[a] \/ at[a] = "cas") \in BOOLEAN
        OBVIOUS
      <4> QED BY <1>1, <4>1 DEF Crash
    <3> QED BY <3>3, <3>4 DEF WireOK
  <2> QED BY <1>1, <2>1, <2>2, <2>3, <2>4, Frames DEF Crash
<1>2. ASSUME Boot PROVE TypeOK'
  <2>1. DockerOK'
    <3>1. PICK swept : cst' = [c \in Containers |-> IF c \in swept THEN "absent" ELSE cst[c]]
      BY <1>2 DEF Boot
    <3>2. \A c \in Containers : (IF c \in swept THEN "absent" ELSE cst[c]) \in {"absent", "stopped", "running"}
      BY DEF DockerOK
    <3> QED BY <1>2, <3>1, <3>2 DEF DockerOK, Boot
  <2>2. DiskOK'
    <3>1. rec' \in Records /\ hist' = hist
      BY <1>2, AdoptionType DEF Boot, DiskOK
    <3>2. marker' \in BOOLEAN
      BY <1>2 DEF Boot, DiskOK
    <3> QED BY <3>1, <3>2 DEF DiskOK
  <2>3. ProcOK' /\ SpentOK'
    BY <1>2, FaultType DEF Boot, ProcOK
  <2>4. RowOK'
    BY <1>2, Frames DEF Boot
  <2> QED BY <1>2, <2>1, <2>2, <2>3, <2>4, Frames DEF Boot
<1>3. ASSUME ZombieEnds PROVE TypeOK'
  <2>1. PICK op \in zombies : zombies' = zombies \ {op} /\ (Effect(op) \/ UNCHANGED docker)
    BY <1>3 DEF ZombieEnds
  <2>2. op \in Ops
    BY <2>1 DEF WireOK
  <2>3. DockerOK'
    BY <2>1, <2>2, EffectType, Frames
  <2>4. WireOK'
    BY <1>3, <2>1 DEF WireOK, ZombieEnds
  <2> QED BY <1>3, <2>3, <2>4, Frames DEF ZombieEnds
<1>4. ASSUME NEW c \in Containers, StartByHand(c) \/ ExitsByItself(c) PROVE TypeOK'
  <2>1. DockerOK'
    BY <1>4 DEF StartByHand, ExitsByItself, DockerOK
  <2>2. SpentOK'
    BY <1>4, NumberFacts DEF StartByHand, ExitsByItself, SpentOK, spent
  <2> QED BY <1>4, <2>1, <2>2, Frames DEF StartByHand, ExitsByItself
<1> QED BY <1>1, <1>2, <1>3, <1>4

\* Every step keeps the types.
LEMMA TypeNext == TypeOK /\ [Next]_vars => TypeOK'
<1> SUFFICES ASSUME TypeOK, [Next]_vars PROVE TypeOK'
  OBVIOUS
<1>1. CASE \E a \in Attempts : AttemptStep(a)
  <2>1. PICK a \in Attempts : AttemptStep(a)
    BY <1>1
  <2> QED
    BY <2>1, TypeAdmit, TypeBegin, TypeMain, TypeCommit, TypePass, TypeResolve DEF AttemptStep
<1>2. CASE Elsewhere
  BY <1>2, TypeAdmin, TypeWorld DEF Elsewhere
<1>3. CASE UNCHANGED vars
  BY <1>3, Frames DEF vars, TypeOK
<1> QED BY <1>1, <1>2, <1>3 DEF Next

\* Every variable keeps its type, whatever the bounds.
THEOREM TypeCorrect == Spec => []TypeOK
BY TypeInit, TypeNext, PTL DEF Spec

-----------------------------------------------------------------------------
(* The record leaves the unresolved states in one way only: resolve(), by   *)
(* an owner, and for an orphan after its adoption.                          *)

Frees == ~GateOpen(rec) /\ GateOpen(rec')
Owned == rec.att \in own /\ (rec.orphaned => rec.recovered)

\* markUncertain, adopt and the boot's orphaning keep the gate closed;
\* approve keeps the state it finds.
LEMMA StatesKept ==
  ASSUME NEW r \in Records
  PROVE  /\ ~GateOpen(UncertainRec(r)) /\ ~GateOpen(AdoptedRec(r)) /\ ~GateOpen(OrphanedRec(r))
         /\ ApprovedRec(r).st = r.st
BY DEF GateOpen, UncertainRec, AdoptedRec, OrphanedRec, ApprovedRec, Records

\* Marking a record uncertain, or leaving it alone, never opens the gate.
LEMMA MarkKeepsClosed ==
  ASSUME TypeOK, NEW a, MarkUncertain(a) \/ UNCHANGED disk \/ UNCHANGED rec
  PROVE  ~Frees
<1>1. rec \in Records
  BY DEF TypeOK, DiskOK
<1> QED BY <1>1, StatesKept DEF Frees, MarkUncertain, disk

\* No piece of the control moves frees the record.
LEMMA MovesKeepClosed ==
  ASSUME TypeOK, NEW a, NEW p, NEW op
  PROVE  /\ Abandon(a, op) => ~Frees
         /\ NotConverged(a, op) => ~Frees
         /\ PassEnds(a, p) => ~Frees
         /\ MoveOn(a, p) => ~Frees
<1>1. Abandon(a, op) => ~Frees
  BY MarkKeepsClosed DEF Abandon
<1>2. NotConverged(a, op) => ~Frees
  BY MarkKeepsClosed DEF NotConverged
<1>3. \A q : PassEnds(a, q) => ~Frees
  BY MarkKeepsClosed DEF PassEnds
<1>4. MoveOn(a, p) => ~Frees
  BY <1>3, MarkKeepsClosed DEF MoveOn, Retry, Stuck
<1> QED BY <1>1, <1>2, <1>3, <1>4

\* The main flow never opens the gate of an unresolved attempt,
LEMMA FreesMain ==
  ASSUME TypeOK, NEW a \in Attempts, Frees,
         \/ Recreate(a, FALSE) \/ Recreate(a, TRUE) \/ RollbackToRetained(a)
         \/ BeginNotNow(a) \/ Begin(a) \/ BeginFails(a)
         \/ Prepare(a) \/ MainRequest(a) \/ MainCheck(a) \/ Deadline(a) \/ LateAnswer(a)
         \/ RollbackTimeout(a)
  PROVE  FALSE
<1>1. CASE Recreate(a, FALSE) \/ Recreate(a, TRUE) \/ RollbackToRetained(a)
  BY <1>1, MarkKeepsClosed DEF Recreate, RollbackToRetained, Admit
<1>2. CASE BeginNotNow(a)
  BY <1>2, MarkKeepsClosed DEF BeginNotNow
<1>3. CASE Begin(a) \/ BeginFails(a)
  BY <1>3 DEF Begin, BeginFails, MayBegin, Frees
<1>4. CASE Prepare(a) \/ LateAnswer(a)
  BY <1>4, MarkKeepsClosed DEF Prepare, LateAnswer, disk
<1>5. CASE MainRequest(a) \/ MainCheck(a)
  BY <1>5, MarkKeepsClosed, MovesKeepClosed DEF MainRequest, MainCheck
<1>6. CASE Deadline(a)
  BY <1>6, MarkKeepsClosed, MovesKeepClosed DEF Deadline
<1>7. CASE RollbackTimeout(a)
  BY <1>7, MarkKeepsClosed DEF RollbackTimeout
<1> QED BY <1>1, <1>2, <1>3, <1>4, <1>5, <1>6, <1>7

\* nor does the commit or the convergence after it,
LEMMA FreesCommit ==
  ASSUME TypeOK, NEW a \in Attempts, Frees,
         \/ CommitApplied(a) \/ CommitNotApplied(a) \/ CommitAmbiguous(a) \/ LimboEnds(a)
         \/ Unmark(a) \/ RemoveO(a) \/ Check(a)
  PROVE  FALSE
<1>1. CASE CommitApplied(a) \/ CommitAmbiguous(a)
  BY <1>1, MarkKeepsClosed, MovesKeepClosed DEF CommitApplied, CommitAmbiguous
<1>2. CASE CommitNotApplied(a) \/ LimboEnds(a) \/ Unmark(a)
  BY <1>2, MarkKeepsClosed DEF CommitNotApplied, LimboEnds, Unmark
<1>3. CASE RemoveO(a) \/ Check(a)
  BY <1>3, MarkKeepsClosed, MovesKeepClosed DEF RemoveO, Check
<1> QED BY <1>1, <1>2, <1>3

\* nor a pass before its last action.
LEMMA FreesPass ==
  ASSUME TypeOK, NEW a \in Attempts, Frees,
         \/ StartPass(a) \/ PassRefused(a) \/ LeaseLost(a) \/ ReadRow(a) \/ PassRequest(a)
         \/ UnmarkO(a) \/ ConvergeN(a) \/ Recheck(a)
  PROVE  FALSE
<1>1. CASE StartPass(a)
  BY <1>1, MarkKeepsClosed DEF StartPass
<1>2. CASE PassRefused(a) \/ LeaseLost(a)
  BY <1>2, MovesKeepClosed DEF PassRefused, LeaseLost, Retry
<1>3. CASE ReadRow(a) \/ PassRequest(a)
  BY <1>3, MovesKeepClosed DEF ReadRow, PassRequest, Retry
<1>4. CASE UnmarkO(a) \/ ConvergeN(a)
  BY <1>4, MovesKeepClosed, MarkKeepsClosed DEF UnmarkO, ConvergeN, Retry
<1>5. CASE Recheck(a)
  BY <1>5, MovesKeepClosed DEF Recheck
<1> QED BY <1>1, <1>2, <1>3, <1>4, <1>5

\* A resolution is by the attempt's owner; adoption resolves nothing.
LEMMA FreesResolve ==
  ASSUME TypeOK, NEW a \in Attempts, Frees, Resolve(a) \/ ResolveFails(a) \/ Recover(a)
  PROVE  Owned
<1>1. MayResolve(rec, a, own, OutcomeAt(a)) => Owned
  BY DEF MayResolve, Owned
<1>2. CASE Resolve(a)
  BY <1>1, <1>2 DEF Resolve
<1>3. CASE ResolveFails(a)
  BY <1>1, <1>3, MovesKeepClosed DEF ResolveFails, Retry
<1>4. CASE Recover(a)
  BY <1>4, StatesKept DEF Recover, Frees, TypeOK, DiskOK
<1> QED BY <1>2, <1>3, <1>4

\* Nothing outside the engine's attempts opens it: no verb, no boot.
LEMMA FreesElsewhere ==
  ASSUME TypeOK, Frees, Elsewhere
  PROVE  FALSE
<1>0. rec \in Records
  BY DEF TypeOK, DiskOK
<1>1. CASE Approve \/ ApproveRemove \/ Start \/ Stop \/ Disable \/ Shutdown \/ Crash \/ ZombieEnds
  BY <1>1, MarkKeepsClosed
     DEF Approve, ApproveRemove, Start, Stop, Disable, Shutdown, Crash, ZombieEnds
<1>2. CASE ApproveRecord
  BY <1>0, <1>2, StatesKept DEF ApproveRecord, Frees, GateOpen
<1>3. CASE Purge
  BY <1>3 DEF Purge, Gate, Frees
<1>4. CASE Boot
  BY <1>0, <1>4, StatesKept DEF Boot, Frees
<1>5. CASE \E c \in Containers : StartByHand(c) \/ ExitsByItself(c)
  BY <1>5, MarkKeepsClosed DEF StartByHand, ExitsByItself
<1> QED BY <1>1, <1>2, <1>3, <1>4, <1>5 DEF Elsewhere

\* The gate reopens on an unresolved attempt only through a resolution by a
\* process that owns it, and on an orphan only once an operator adopted it:
\* neither the boot nor a verb ever resolves what a dead process left.
THEOREM OrphansAlwaysWait == Spec => OrphansWait
<1>1. TypeOK /\ [Next]_vars
        => [(~GateOpen(rec) /\ GateOpen(rec')) => rec.att \in own /\ (rec.orphaned => rec.recovered)]_vars
  <2> SUFFICES ASSUME TypeOK, Next, Frees PROVE Owned
    BY DEF Frees, Owned
  <2>1. CASE \E a \in Attempts : AttemptStep(a)
    <3>1. PICK a \in Attempts : AttemptStep(a)
      BY <2>1
    <3> QED BY <3>1, FreesMain, FreesCommit, FreesPass, FreesResolve DEF AttemptStep
  <2>2. CASE Elsewhere
    BY <2>2, FreesElsewhere
  <2> QED BY <2>1, <2>2 DEF Next
<1> QED BY <1>1, TypeCorrect, PTL DEF Spec, OrphansWait

-----------------------------------------------------------------------------
(* The safety of a recreation.                                              *)

Calm == ~SyncFaults /\ ~EarlyRecovery

Unresolved == ~GateOpen(rec)

-----------------------------------------------------------------------------
(* Control.                                                                 *)

\* The points of the main flow, run under the lock of the verb.
MainPoints == {"begin", "cas"} \cup BeforeCommit \cup AfterCommit

\* A main flow, a pass somebody waits for and an approval hold the lock; a
\* dead process holds nothing.
LockHeld ==
  /\ \A a \in Attempts : at[a] \in MainPoints => lock = a /\ mode[a] = "main"
  /\ \A a \in Attempts : at[a] # "off" /\ mode[a] \in {"await", "recover"} => lock = a
  /\ \A a \in Attempts : at[a] = "off" => mode[a] \in {"live", "main"}
  /\ adm # "none" => lock = Admin /\ GateOpen(rec) /\ rec.retained # 0
  /\ ~up => lock = 0 /\ adm = "none" /\ \A a \in Attempts : at[a] = "off"

\* The record is a's and unresolved as long as a is under way or its commit
\* in limbo; it says what a's plan says.
Agrees(a) ==
  /\ rec.att = a /\ rec.old = plan[a].o /\ rec.new = plan[a].n
  /\ rec.carry = plan[a].carry /\ rec.reverse = plan[a].reverse
RecordIsIts ==
  /\ \A a \in Attempts : at[a] \notin {"off", "begin"} \/ limbo[a] => rec.att = a /\ Unresolved
  /\ \A a \in Attempts : at[a] = "begin" => GateOpen(rec) /\ a = started /\ rec.att < a
  /\ Unresolved => rec.att \in Attempts /\ Agrees(rec.att) /\ rec.retained = 0
  /\ rec.att <= started

\* A request nobody waits for is the only thing its attempt has out, and
\* what a dead process left out is out alone.
WireOrder ==
  /\ \A a \in Attempts : late[a] # NoOp => at[a] = "settle"
  /\ \A a \in Attempts : limbo[a] => at[a] \in {"settle", "off"} /\ late[a] = NoOp
  /\ zombies # {} => /\ \A a \in Attempts : at[a] = "off" /\ ~limbo[a]
                     /\ adm = "none"
                     /\ GateOpen(rec) => rec.retained # 0

Control == Calm /\ LockHeld /\ RecordIsIts /\ WireOrder

-----------------------------------------------------------------------------
(* The steps an attempt takes once begun and before it is resolved.         *)

Inner(a) ==
  \/ Prepare(a) \/ MainRequest(a) \/ MainCheck(a) \/ Deadline(a) \/ RollbackTimeout(a)
  \/ CommitApplied(a) \/ CommitNotApplied(a) \/ CommitAmbiguous(a)
  \/ Unmark(a) \/ RemoveO(a) \/ Check(a)
  \/ StartPass(a) \/ PassRefused(a) \/ LeaseLost(a) \/ ReadRow(a) \/ PassRequest(a)
  \/ UnmarkO(a) \/ ConvergeN(a) \/ Recheck(a) \/ ResolveFails(a)

\* The record is left alone or marked uncertain.
Softly == rec' = rec \/ (rec.st = "open" /\ rec' = UncertainRec(rec))

\* Only a's entries of the engine change, and the lock only in a's hands.
Others(a) ==
  /\ \A b \in Attempts \ {a} :
       at'[b] = at[b] /\ mode'[b] = mode[b] /\ late'[b] = late[b] /\ limbo'[b] = limbo[b]
  /\ UNCHANGED <<adm, plan, zombies, up, stopped, started, hist>>
  /\ lock' = lock \/ (lock = a /\ lock' = 0) \/ (lock = 0 /\ lock' = a)

\* Where the attempt may get to: how far it keeps the lock, and that only a
\* step that settles leaves anything out.
Keeps(a) ==
  /\ at[a] \notin {"off", "begin"} /\ (at'[a] = "off" => mode'[a] = "live")
  /\ at'[a] # "begin"
  /\ at'[a] \in MainPoints => at[a] \in MainPoints /\ mode'[a] = mode[a] /\ lock' = lock
  /\ at'[a] # "off" /\ mode'[a] \in {"await", "recover"} => lock' = a
  /\ late'[a] # NoOp => at'[a] = "settle"
  /\ limbo'[a] => at'[a] = "settle" /\ late'[a] = NoOp

Shift(a) == Softly /\ Others(a) /\ Keeps(a)

\* What a step that leaves a point does to the engine,
LEMMA LeaveFacts ==
  ASSUME EngineOK, NEW a \in Attempts, NEW p, NEW m, NEW op, NEW l, Leave(a, p, m, op, l)
  PROVE  /\ at'[a] = p /\ mode'[a] = m /\ late'[a] = op /\ lock' = l /\ UNCHANGED <<own, adm, plan>>
         /\ \A b \in Attempts \ {a} : at'[b] = at[b] /\ mode'[b] = mode[b] /\ late'[b] = late[b]
BY DEF EngineOK, Leave

\* and one that goes on.
LEMMA GoFacts ==
  ASSUME EngineOK, NEW a \in Attempts, NEW p, Go(a, p)
  PROVE  /\ at'[a] = p /\ UNCHANGED <<mode, late, lock, own, adm, plan>>
         /\ \A b \in Attempts \ {a} : at'[b] = at[b]
BY DEF EngineOK, Go

\* A pass that ends without resolving lets the lock go, but for a recovery
\* that tries again.
Ended(a) ==
  /\ late'[a] = NoOp /\ UNCHANGED <<own, adm, plan>>
  /\ \A b \in Attempts \ {a} : at'[b] = at[b] /\ mode'[b] = mode[b] /\ late'[b] = late[b]
  /\ \/ /\ mode[a] \in {"await", "main", "sync", "live"} /\ at'[a] \in {"settle", "stuck"} /\ mode'[a] = "live"
        /\ IF mode[a] = "await" \/ lock = a THEN lock' = 0 ELSE lock' = lock
     \/ mode[a] = "recover" /\ at'[a] = "read" /\ mode'[a] = "recover" /\ lock' = lock
     \/ mode[a] = "recover" /\ at'[a] = "off" /\ mode'[a] = "live" /\ lock' = 0
  /\ Softly /\ UNCHANGED <<hist, marker>>

\* A mark changes nothing a resolution is based on.
LEMMA MarkIsSoft ==
  ASSUME NEW a, MarkUncertain(a) \/ UNCHANGED disk
  PROVE  Softly /\ UNCHANGED <<hist, marker>>
BY DEF MarkUncertain, MayMarkUncertain, Softly, disk

\* A retry does not leave the attempt stuck.
LEMMA RetryFacts ==
  ASSUME EngineOK, NEW a \in Attempts, Retry(a)
  PROVE  at'[a] # "stuck"
<1>1. \E p \in {"settle", "read", "off"} : \E m, l : Leave(a, p, m, NoOp, l)
  BY DEF Retry, PassEnds, PassGoes
<1> QED BY <1>1, LeaveFacts

\* A pass that ends, to go on or to be stuck, has ended for its attempt.
LEMMA EndFacts ==
  ASSUME EngineOK, NEW a \in Attempts, Retry(a) \/ Stuck(a)
  PROVE  Ended(a)
<1>1. PICK p \in {"settle", "stuck"} : PassEnds(a, p)
  BY DEF Retry, Stuck
<1>2. Softly /\ UNCHANGED <<hist, marker>>
  BY <1>1, MarkIsSoft DEF PassEnds
<1>3. PassGoes(a, p)
  BY <1>1 DEF PassEnds
<1>4. mode[a] \in Modes
  BY DEF EngineOK
<1>5. CASE mode[a] = "await"
  <2>1. Leave(a, p, "live", NoOp, 0)
    BY <1>3, <1>5 DEF PassGoes
  <2> QED BY <1>2, <1>5, <2>1, LeaveFacts DEF Ended
<1>6. CASE mode[a] = "recover"
  <2>1. Leave(a, "read", "recover", NoOp, lock) \/ Leave(a, "off", "live", NoOp, 0)
    BY <1>3, <1>6 DEF PassGoes
  <2>2. CASE Leave(a, "read", "recover", NoOp, lock)
    BY <1>2, <1>6, <2>2, LeaveFacts DEF Ended
  <2>3. CASE Leave(a, "off", "live", NoOp, 0)
    BY <1>2, <1>6, <2>3, LeaveFacts DEF Ended
  <2> QED BY <2>1, <2>2, <2>3
<1>7. CASE mode[a] \notin {"await", "recover"}
  <2>1. Leave(a, p, "live", NoOp, IF lock = a THEN 0 ELSE lock)
    BY <1>3, <1>7 DEF PassGoes
  <2> QED BY <1>2, <1>4, <1>7, <2>1, LeaveFacts DEF Ended, Modes
<1> QED BY <1>5, <1>6, <1>7

\* So does a pass that goes on.
LEMMA MoveFacts ==
  ASSUME EngineOK, NEW a \in Attempts, NEW p, MoveOn(a, p)
  PROVE  \/ p \in {"retry", "stuck"} /\ Ended(a)
         \/ /\ p \notin {"retry", "stuck"} /\ at'[a] = p /\ UNCHANGED <<mode, late, lock, own, adm, plan, disk>>
            /\ \A b \in Attempts \ {a} : at'[b] = at[b]
<1>1. CASE p \in {"retry", "stuck"}
  BY <1>1, EndFacts DEF MoveOn
<1>2. CASE p \notin {"retry", "stuck"}
  BY <1>2, GoFacts DEF MoveOn
<1> QED BY <1>1, <1>2

\* What T_rb leaves: the attempt out of the lock, its request still under way.
LEMMA AbandonFacts ==
  ASSUME EngineOK, NEW a \in Attempts, NEW op, Abandon(a, op) \/ NotConverged(a, op)
  PROVE  /\ at'[a] = "settle" /\ late'[a] = op /\ UNCHANGED <<own, adm, plan>>
         /\ (mode'[a] = "live" /\ lock' = 0) \/ (mode'[a] = "await" /\ lock' = lock)
         /\ \A b \in Attempts \ {a} : at'[b] = at[b] /\ mode'[b] = mode[b] /\ late'[b] = late[b]
         /\ Softly /\ UNCHANGED <<hist, marker>>
<1>1. Softly /\ UNCHANGED <<hist, marker>>
  BY MarkIsSoft DEF Abandon, NotConverged
<1>2. Leave(a, "settle", "live", op, 0) \/ Leave(a, "settle", "await", op, lock)
  BY DEF Abandon, NotConverged
<1>3. CASE Leave(a, "settle", "live", op, 0)
  BY <1>1, <1>3, LeaveFacts
<1>4. CASE Leave(a, "settle", "await", op, lock)
  BY <1>1, <1>4, LeaveFacts
<1> QED BY <1>2, <1>3, <1>4

\* Each of its steps is such a shift.
LEMMA InnerShift ==
  ASSUME TypeOK, Control, NEW a \in Attempts, Inner(a)
  PROVE  Shift(a)
<1> USE DEF Shift
<1>0. EngineOK /\ mode[a] \in Modes /\ ~SyncFaults /\ lock \in 0..Admin /\ a # 0
  BY NumberFacts DEF TypeOK, EngineOK, Control, Calm, Attempts
<1>1. /\ at[a] \in MainPoints => lock = a /\ mode[a] = "main"
      /\ at[a] # "off" /\ mode[a] \in {"await", "recover"} => lock = a
      /\ at[a] = "off" => mode[a] \in {"live", "main"}
  BY DEF Control, LockHeld
<1>2. /\ late[a] # NoOp => at[a] = "settle"
      /\ limbo[a] => at[a] \in {"settle", "off"} /\ late[a] = NoOp
  BY DEF Control, WireOrder
<1>3. /\ {"begin", "cas", "prepare", "create", "furnish", "renameO", "renameN", "startN", "ready",
          "unmark", "removeO", "check"} = MainPoints
      /\ MainPoints \cap (PassPoints \cup {"off", "settle", "stuck"}) \subseteq {}
  BY DEF MainPoints, BeforeCommit, AfterCommit, PassPoints, ToOPoints, ToNPoints, ReversePoints, RecordPoints
\* A step that abandons or does not converge.
<1>4. ASSUME UNCHANGED <<proc, zombies>>, at[a] \in MainPoints \ {"begin"},
             NEW op, Abandon(a, op) \/ NotConverged(a, op), limbo'[a] => op = NoOp,
             \A b \in Attempts \ {a} : limbo'[b] = limbo[b]
      PROVE  Shift(a)
  <2>1. /\ at'[a] = "settle" /\ late'[a] = op /\ UNCHANGED <<adm, plan>>
        /\ (mode'[a] = "live" /\ lock' = 0) \/ (mode'[a] = "await" /\ lock' = lock)
        /\ \A b \in Attempts \ {a} : at'[b] = at[b] /\ mode'[b] = mode[b] /\ late'[b] = late[b]
        /\ Softly /\ UNCHANGED <<hist, marker>>
    BY <1>0, <1>4, AbandonFacts
  <2> QED BY <1>1, <1>3, <1>4, <2>1 DEF Others, Keeps, proc
\* A step that ends a pass.
<1>5. ASSUME UNCHANGED <<proc, wire>>, Ended(a), at[a] \notin {"off", "begin"} \cup MainPoints,
             limbo[a] => mode[a] # "recover" /\ at'[a] # "stuck"
      PROVE  Shift(a)
  BY <1>1, <1>2, <1>3, <1>5 DEF Ended, Others, Keeps, proc, wire
\* A step that goes on.
<1>6. ASSUME UNCHANGED <<proc, wire>>, UNCHANGED <<mode, late, lock, adm, plan, rec, hist>>, NEW p, at'[a] = p,
             \A b \in Attempts \ {a} : at'[b] = at[b], at[a] \notin {"off", "begin", "settle"},
             p \notin {"begin", "off"}, p \in MainPoints => at[a] \in MainPoints
      PROVE  Shift(a)
  BY <1>1, <1>2, <1>3, <1>6 DEF Others, Keeps, Softly, proc, wire
\* A main flow that leaves its point for its own pass.
<1>7. ASSUME UNCHANGED <<proc, zombies, limbo, rec, hist>>, at[a] \in MainPoints \ {"begin"},
             NEW m \in {"await", "sync"}, Leave(a, "settle", m, NoOp, lock)
      PROVE  Shift(a)
  <2>1. /\ at'[a] = "settle" /\ mode'[a] = m /\ late'[a] = NoOp /\ lock' = lock /\ UNCHANGED <<own, adm, plan>>
        /\ \A b \in Attempts \ {a} : at'[b] = at[b] /\ mode'[b] = mode[b] /\ late'[b] = late[b]
    BY <1>0, <1>7, LeaveFacts
  <2> QED BY <1>1, <1>3, <1>7, <2>1 DEF Others, Keeps, Softly, proc
<1>11. ASSUME Prepare(a) PROVE Shift(a)
  BY <1>0, <1>3, <1>6, <1>7, <1>11, GoFacts DEF Prepare, wire
<1>12. ASSUME MainRequest(a) PROVE Shift(a)
  <2>1. at[a] \in MainPoints \ {"begin", "cas"} /\ UNCHANGED <<proc, wire>>
    BY <1>12 DEF MainRequest, MainPoints, BeforeCommit
  <2>2. CASE Abandon(a, NoOp)
    BY <1>4, <2>1, <2>2 DEF wire
  <2>3. CASE Go(a, NextMain(a)) /\ UNCHANGED disk
    <3>1. NextMain(a) \notin {"begin", "off"}
      BY <1>12 DEF NextMain, MainRequest, BeforeCommit, RequestPoints
    <3> QED BY <1>0, <1>3, <1>6, <2>1, <2>3, <3>1, GoFacts DEF disk
  <2> QED BY <1>12, <2>2, <2>3 DEF MainRequest
<1>13. ASSUME MainCheck(a) PROVE Shift(a)
  <2>1. at[a] \in {"furnish", "ready"} /\ UNCHANGED <<proc, wire>>
    BY <1>13 DEF MainCheck
  <2>2. CASE Abandon(a, NoOp)
    BY <1>3, <1>4, <2>1, <2>2 DEF wire
  <2>3. CASE UNCHANGED disk /\ \E p \in {"renameO", "cas"} : Go(a, p)
    BY <1>0, <1>3, <1>6, <2>1, <2>3, GoFacts DEF disk
  <2> QED BY <1>13, <2>2, <2>3 DEF MainCheck
<1>14. ASSUME Deadline(a) PROVE Shift(a)
  <2>1. UNCHANGED <<proc, wire>>
    BY <1>14 DEF Deadline
  <2>2. CASE at[a] \in BeforeCommit /\ Abandon(a, OpAt(a))
    BY <1>2, <1>3, <1>4, <2>1, <2>2 DEF wire, BeforeCommit
  <2>3. CASE at[a] \in AfterCommit /\ NotConverged(a, OpAt(a))
    BY <1>2, <1>3, <1>4, <2>1, <2>3 DEF wire, AfterCommit
  <2>4. CASE at[a] = "prepare" /\ UNCHANGED <<rec, hist>> /\ Leave(a, "settle", "await", NoOp, lock)
    BY <1>3, <1>7, <2>1, <2>4 DEF wire
  <2> QED BY <1>14, <2>2, <2>3, <2>4 DEF Deadline
<1>15. ASSUME RollbackTimeout(a) PROVE Shift(a)
  <2>1. /\ mode[a] = "await" /\ lock = a /\ lock' = 0 /\ UNCHANGED <<proc, wire, own, adm, plan, at, late>>
        /\ mode'[a] = "live" /\ \A b \in Attempts \ {a} : mode'[b] = mode[b]
    BY <1>0, <1>15 DEF RollbackTimeout, EngineOK
  <2>2. Softly /\ UNCHANGED hist
    BY <1>15, MarkIsSoft DEF RollbackTimeout
  <2> QED BY <1>1, <1>2, <1>3, <2>1, <2>2 DEF Others, Keeps, proc, wire
<1>16. ASSUME CommitApplied(a) PROVE Shift(a)
  <2>1. at[a] = "cas" /\ UNCHANGED <<proc, wire>>
    BY <1>16 DEF CommitApplied
  <2>2. CASE Leave(a, "settle", "sync", NoOp, lock) /\ UNCHANGED disk
    BY <1>3, <1>7, <2>1, <2>2 DEF wire, disk
  <2>3. CASE NotConverged(a, NoOp)
    BY <1>3, <1>4, <2>1, <2>3 DEF wire
  <2>4. CASE Go(a, "unmark") /\ UNCHANGED disk
    BY <1>0, <1>3, <1>6, <2>1, <2>4, GoFacts DEF disk
  <2> QED BY <1>16, <2>2, <2>3, <2>4 DEF CommitApplied
<1>17. ASSUME CommitNotApplied(a) PROVE Shift(a)
  <2>1. at[a] = "cas" /\ UNCHANGED <<proc, wire, disk>>
    BY <1>17 DEF CommitNotApplied
  <2>2. PICK m \in {"await", "sync"} : Leave(a, "settle", m, NoOp, lock)
    BY <1>17 DEF CommitNotApplied
  <2> QED BY <1>3, <1>7, <2>1, <2>2 DEF wire, disk
<1>18. ASSUME CommitAmbiguous(a) PROVE Shift(a)
  <2>1. at[a] = "cas" /\ UNCHANGED <<proc, zombies>> /\ NotConverged(a, NoOp)
    BY <1>18 DEF CommitAmbiguous
  <2>2. \A b \in Attempts \ {a} : limbo'[b] = limbo[b]
    BY <1>18 DEF CommitAmbiguous, TypeOK, WireOK
  <2> QED BY <1>3, <1>4, <2>1, <2>2
<1>19. ASSUME Unmark(a) PROVE Shift(a)
  BY <1>0, <1>3, <1>6, <1>19, GoFacts DEF Unmark
<1>20. ASSUME RemoveO(a) PROVE Shift(a)
  <2>1. at[a] = "removeO" /\ UNCHANGED <<proc, wire>>
    BY <1>20 DEF RemoveO
  <2>2. CASE NotConverged(a, NoOp)
    BY <1>3, <1>4, <2>1, <2>2 DEF wire
  <2>3. CASE Go(a, "check") /\ UNCHANGED disk
    BY <1>0, <1>3, <1>6, <2>1, <2>3, GoFacts DEF disk
  <2> QED BY <1>20, <2>2, <2>3 DEF RemoveO
<1>21. ASSUME Check(a) PROVE Shift(a)
  <2>1. at[a] = "check" /\ UNCHANGED <<proc, wire>>
    BY <1>21 DEF Check
  <2>2. CASE NotConverged(a, NoOp)
    BY <1>3, <1>4, <2>1, <2>2 DEF wire
  <2>3. CASE Go(a, "recordN") /\ UNCHANGED disk
    BY <1>0, <1>3, <1>6, <2>1, <2>3, GoFacts DEF disk
  <2> QED BY <1>21, <2>2, <2>3 DEF Check
<1>22. ASSUME StartPass(a) PROVE Shift(a)
  <2>1. /\ at[a] = "settle" /\ late[a] = NoOp /\ ~limbo[a] /\ lock' = a /\ lock \in {0, a}
        /\ UNCHANGED <<proc, wire, own, adm, plan, mode, late, disk>>
        /\ at'[a] = "read" /\ \A b \in Attempts \ {a} : at'[b] = at[b]
    BY <1>0, <1>22 DEF StartPass, Answered, FinalCommit, EngineOK
  <2> QED BY <1>1, <1>3, <2>1 DEF Others, Keeps, Softly, proc, wire, disk
<1>23. ASSUME PassRefused(a) \/ LeaseLost(a) PROVE Shift(a)
  <2>1. Ended(a) /\ UNCHANGED <<proc, wire>>
    BY <1>0, <1>23, EndFacts DEF PassRefused, LeaseLost
  <2>2. at[a] \notin {"off", "begin"} \cup MainPoints
    BY <1>3, <1>23 DEF PassRefused, LeaseLost, PassPoints, ToOPoints, ToNPoints, ReversePoints, RecordPoints
  <2>3. limbo[a] => mode[a] # "recover" /\ at'[a] # "stuck"
    <3>1. CASE PassRefused(a)
      BY <1>0, <3>1, RetryFacts DEF PassRefused
    <3>2. CASE LeaseLost(a)
      <4>1. at[a] \notin {"settle", "off"}
        BY <3>2 DEF LeaseLost, PassPoints, ToOPoints, ToNPoints, ReversePoints, RecordPoints
      <4> QED BY <1>2, <4>1
    <3> QED BY <1>23, <3>1, <3>2
  <2> QED BY <1>5, <2>1, <2>2, <2>3
\* The steps of a pass that is at one of its points.
<1>8. ASSUME at[a] \in PassPoints
      PROVE  at[a] \notin {"off", "begin", "settle"} \cup MainPoints /\ ~limbo[a] /\ late[a] = NoOp
  <2>1. at[a] \notin {"off", "begin", "settle"} \cup MainPoints
    BY <1>3, <1>8 DEF PassPoints, ToOPoints, ToNPoints, ReversePoints, RecordPoints
  <2> QED BY <1>2, <2>1
<1>9. ASSUME at[a] \in PassPoints, UNCHANGED <<proc, wire>>,
             NEW p, MoveOn(a, p), p \notin MainPoints \cup {"begin", "off"}
      PROVE  Shift(a)
  <2>1. at[a] \notin {"off", "begin", "settle"} \cup MainPoints /\ ~limbo[a]
    BY <1>8, <1>9
  <2>2. CASE Ended(a)
    BY <1>5, <1>9, <2>1, <2>2
  <2>3. CASE /\ at'[a] = p /\ UNCHANGED <<mode, late, lock, own, adm, plan, disk>>
             /\ \A b \in Attempts \ {a} : at'[b] = at[b]
    BY <1>6, <1>9, <2>1, <2>3 DEF disk
  <2> QED BY <1>0, <1>9, <2>2, <2>3, MoveFacts
<1>10. \A ok : /\ FirstAct(a) \notin MainPoints \cup {"begin", "off"}
               /\ NextPass(a, ok) \notin MainPoints \cup {"begin", "off"}
  BY <1>3 DEF FirstAct, NextPass, AfterN
<1>24. ASSUME ReadRow(a) PROVE Shift(a)
  BY <1>9, <1>10, <1>24 DEF ReadRow, PassPoints
<1>25. ASSUME PassRequest(a) PROVE Shift(a)
  <2>1. at[a] \in PassPoints /\ UNCHANGED <<proc, wire>>
    BY <1>25 DEF PassRequest
  <2>2. CASE Retry(a)
    <3>1. Ended(a)
      BY <1>0, <2>2, EndFacts
    <3> QED BY <1>5, <1>8, <2>1, <3>1
  <2>3. ASSUME NEW ok, MoveOn(a, NextPass(a, ok)) PROVE Shift(a)
    BY <1>9, <1>10, <2>1, <2>3
  <2> QED BY <1>25, <2>2, <2>3 DEF PassRequest
<1>26. ASSUME UnmarkO(a) \/ ConvergeN(a) \/ ResolveFails(a) PROVE Shift(a)
  <2>1. at[a] \in PassPoints /\ UNCHANGED <<proc, wire>>
    BY <1>26 DEF UnmarkO, ConvergeN, ResolveFails, PassPoints, ToOPoints, ToNPoints
  <2>2. CASE Retry(a)
    <3>1. Ended(a)
      BY <1>0, <2>2, EndFacts
    <3> QED BY <1>5, <1>8, <2>1, <3>1
  <2>3. CASE UNCHANGED <<rec, hist>> /\ (Go(a, "recordO") \/ Go(a, "recheckN"))
    <3>1. PICK p \in {"recordO", "recheckN"} : Go(a, p)
      BY <2>3
    <3>2. at'[a] = p /\ UNCHANGED <<mode, late, lock, own, adm, plan>> /\ \A b \in Attempts \ {a} : at'[b] = at[b]
      BY <1>0, <3>1, GoFacts
    <3>3. p \notin MainPoints \cup {"begin", "off"}
      BY <1>3
    <3>4. at[a] \notin {"off", "begin", "settle"}
      BY <1>8, <2>1
    <3> QED BY <1>6, <2>1, <2>3, <3>2, <3>3, <3>4
  <2> QED BY <1>0, <1>26, <2>2, <2>3 DEF UnmarkO, ConvergeN, ResolveFails
<1>27. ASSUME Recheck(a) PROVE Shift(a)
  <2>1. at[a] \in PassPoints /\ UNCHANGED <<proc, wire>>
    BY <1>27 DEF Recheck, PassPoints, ToNPoints, ReversePoints
  <2>2. PICK p \in {"recordN", "recordBack", "recordUndo", "retry"} : MoveOn(a, p)
    BY <1>27 DEF Recheck
  <2> QED BY <1>3, <1>9, <2>1, <2>2
<1> QED BY <1>11, <1>12, <1>13, <1>14, <1>15, <1>16, <1>17, <1>18, <1>19, <1>20, <1>21, <1>22, <1>23,
           <1>24, <1>25, <1>26, <1>27 DEF Inner

\* Marking changes neither whose the record is nor whether the gate is open.
LEMMA SoftFacts ==
  ASSUME TypeOK, Softly
  PROVE  /\ rec'.att = rec.att /\ rec'.old = rec.old /\ rec'.new = rec.new
         /\ rec'.carry = rec.carry /\ rec'.reverse = rec.reverse
         /\ rec'.retained = rec.retained /\ rec'.role = rec.role
         /\ GateOpen(rec') <=> GateOpen(rec)
         /\ GateOpen(rec) => rec' = rec
BY DEF TypeOK, DiskOK, Records, Softly, UncertainRec, GateOpen

\* Who is under way is alone: the others are off, the dead left nothing, no
\* approval runs.
LEMMA Alone ==
  ASSUME TypeOK, Control, NEW a \in Attempts, at[a] # "off"
  PROVE  /\ up /\ zombies = {} /\ adm = "none"
         /\ \A b \in Attempts \ {a} : at[b] = "off" /\ ~limbo[b] /\ late[b] = NoOp
         /\ at[a] # "begin" => rec.att = a /\ Unresolved /\ Agrees(a)
         /\ at[a] = "begin" => GateOpen(rec) /\ lock = a /\ ~limbo[a] /\ late[a] = NoOp
<1>1. ASSUME at[a] # "begin" PROVE rec.att = a /\ Unresolved /\ Agrees(a)
  BY <1>1 DEF Control, RecordIsIts
<1>2. ASSUME at[a] = "begin" PROVE GateOpen(rec) /\ lock = a /\ ~limbo[a] /\ late[a] = NoOp
  BY <1>2 DEF Control, RecordIsIts, LockHeld, WireOrder, MainPoints
<1>3. up /\ zombies = {}
  BY DEF Control, LockHeld, WireOrder
<1>4. adm = "none"
  <2>1. a # Admin
    BY NumberFacts DEF Attempts
  <2>2. CASE at[a] = "begin"
    BY <1>2, <2>1, <2>2 DEF Control, LockHeld
  <2>3. CASE at[a] # "begin"
    BY <1>1, <2>3 DEF Control, LockHeld, Unresolved
  <2> QED BY <2>2, <2>3
<1>5. ASSUME NEW b \in Attempts \ {a}
      PROVE  at[b] = "off" /\ ~limbo[b] /\ late[b] = NoOp
  <2>1. at[b] = "off" /\ ~limbo[b]
    BY <1>1, <1>2, <1>5 DEF Control, RecordIsIts, LockHeld, MainPoints, Unresolved
  <2> QED BY <2>1 DEF Control, WireOrder
<1> QED BY <1>1, <1>2, <1>3, <1>4, <1>5

\* A shift keeps the control.
LEMMA ControlShift ==
  ASSUME TypeOK, Control, NEW a \in Attempts, Shift(a)
  PROVE  Control'
<1> USE DEF Shift
<1>0. /\ rec'.att = rec.att /\ rec'.old = rec.old /\ rec'.new = rec.new
      /\ rec'.carry = rec.carry /\ rec'.reverse = rec.reverse /\ rec'.retained = rec.retained
      /\ GateOpen(rec') <=> GateOpen(rec)
  BY SoftFacts
<1>1. /\ at[a] \notin {"off", "begin"} /\ up /\ zombies = {} /\ adm = "none"
      /\ rec.att = a /\ Unresolved /\ Agrees(a)
      /\ \A b \in Attempts \ {a} : at[b] = "off" /\ ~limbo[b] /\ late[b] = NoOp
  BY Alone DEF Keeps
<1>2. /\ UNCHANGED <<adm, plan, zombies, up, started>>
      /\ \A b \in Attempts \ {a} : at'[b] = "off" /\ mode'[b] = mode[b] /\ late'[b] = NoOp /\ ~limbo'[b]
  BY <1>1 DEF Others
<1>3. LockHeld'
  <2>1. \A b \in Attempts : at'[b] = "off" => mode'[b] \in {"live", "main"}
    BY <1>1, <1>2 DEF Control, LockHeld, Keeps
  <2>2. \A b \in Attempts : at'[b] \in MainPoints => lock' = b /\ mode'[b] = "main"
    <3>1. "off" \notin MainPoints
      BY DEF MainPoints, BeforeCommit, AfterCommit
    <3> QED BY <1>1, <1>2, <3>1 DEF Control, LockHeld, Keeps
  <2>3. \A b \in Attempts : at'[b] # "off" /\ mode'[b] \in {"await", "recover"} => lock' = b
    BY <1>2 DEF Keeps
  <2> QED BY <1>1, <1>2, <2>1, <2>2, <2>3 DEF LockHeld, Control
<1>4. RecordIsIts'
  <2>1. Agrees(a)'
    BY <1>0, <1>1, <1>2 DEF Agrees
  <2> QED BY <1>0, <1>1, <1>2, <2>1 DEF RecordIsIts, Control, Keeps, Unresolved
<1>5. WireOrder'
  BY <1>1, <1>2 DEF WireOrder, Keeps
<1> QED BY <1>3, <1>4, <1>5 DEF Control, Calm

\* Beginning: a takes the lock for an attempt nobody began yet,
LEMMA ControlAdmit ==
  ASSUME TypeOK, Control, NEW a \in Attempts,
         Recreate(a, FALSE) \/ Recreate(a, TRUE) \/ RollbackToRetained(a)
  PROVE  Control'
<1>1. /\ up /\ ~stopped /\ ~gone /\ lock = 0 /\ a = started + 1 /\ GateOpen(rec)
      /\ lock' = a /\ started' = a /\ at' = [at EXCEPT ![a] = "begin"]
      /\ mode' = [mode EXCEPT ![a] = "main"]
      /\ UNCHANGED <<docker, row, disk, up, stopped, own, adm, late, wire, spent>>
      /\ \A b \in Attempts \ {a} : plan'[b] = plan[b]
  BY DEF Recreate, RollbackToRetained, Admit, TypeOK, EngineOK
<1>2. \A b \in Attempts : at[b] = "off" /\ ~limbo[b]
  <2>1. \A b \in Attempts : b # 0 /\ at[b] \in {"off", "begin"} /\ ~limbo[b]
    BY <1>1 DEF Control, RecordIsIts, Attempts, Unresolved
  <2> QED BY <1>1, <2>1 DEF Control, LockHeld, MainPoints
<1>3. zombies = {} /\ adm = "none"
  <2>1. adm = "none"
    BY <1>1, NumberFacts DEF Control, LockHeld
  <2>2. CASE rec.retained = 0
    BY <1>1, <2>1, <2>2 DEF Control, WireOrder
  <2>3. CASE rec.retained # 0
    BY <2>1, <2>3 DEF Recreate, RollbackToRetained, OperatorMay, Settled, Control, Calm
  <2> QED BY <2>1, <2>2, <2>3
<1>4. /\ \A b \in Attempts \ {a} : at'[b] = "off" /\ mode'[b] = mode[b]
      /\ at'[a] = "begin" /\ mode'[a] = "main" /\ UNCHANGED <<adm, up, late, limbo, zombies, rec>>
  BY <1>1, <1>2 DEF TypeOK, EngineOK, disk, wire
<1>5. LockHeld'
  BY <1>1, <1>2, <1>3, <1>4 DEF Control, LockHeld, MainPoints, BeforeCommit, AfterCommit
<1>6. RecordIsIts'
  <2>1. rec.att < a /\ rec.att <= a
    BY <1>1, NumberFacts DEF Control, RecordIsIts, TypeOK, ProcOK, DiskOK, Records
  <2> QED BY <1>1, <1>2, <1>4, <2>1 DEF Control, RecordIsIts, Unresolved
<1>7. WireOrder'
  BY <1>2, <1>3, <1>4 DEF Control, WireOrder
<1> QED BY <1>5, <1>6, <1>7 DEF Control, Calm

\* and writes its record, or fails to.
LEMMA ControlBegin ==
  ASSUME TypeOK, Control, NEW a \in Attempts, BeginNotNow(a) \/ Begin(a) \/ BeginFails(a)
  PROVE  Control'
<1>0. /\ at[a] = "begin" /\ late[a] = NoOp /\ UNCHANGED <<proc, adm, late, wire>>
      /\ \A b \in Attempts \ {a} : at'[b] = at[b] /\ mode'[b] = mode[b]
  <2>1. at[a] = "begin" /\ UNCHANGED <<proc, adm, wire>>
    BY DEF BeginNotNow, Begin, BeginFails, Leave
  <2>2. late[a] = NoOp
    BY <2>1, Alone
  <2>3. UNCHANGED late /\ \A b \in Attempts \ {a} : at'[b] = at[b] /\ mode'[b] = mode[b]
    <3>1. CASE BeginNotNow(a)
      BY <2>2, <3>1 DEF BeginNotNow, Leave, TypeOK, EngineOK
    <3>2. CASE Begin(a) \/ BeginFails(a)
      BY <3>2 DEF Begin, BeginFails, TypeOK, EngineOK
    <3> QED BY <3>1, <3>2
  <2> QED BY <2>1, <2>2, <2>3
<1>1. /\ up /\ zombies = {} /\ adm = "none" /\ lock = a /\ GateOpen(rec)
      /\ ~limbo[a] /\ late[a] = NoOp /\ mode[a] = "main" /\ a = started /\ rec.att < a
      /\ \A b \in Attempts \ {a} : at[b] = "off" /\ ~limbo[b] /\ late[b] = NoOp
  BY <1>0, Alone DEF Control, LockHeld, RecordIsIts, MainPoints
\* Nothing begun.
<1>2. ASSUME rec' = rec, at'[a] = "off", mode'[a] \in {"live", "main"}, lock' = 0
      PROVE  Control'
  <2>1. LockHeld'
    BY <1>0, <1>1, <1>2 DEF Control, LockHeld, MainPoints, BeforeCommit, AfterCommit, proc
  <2>2. RecordIsIts'
    BY <1>0, <1>1, <1>2 DEF Control, RecordIsIts, Unresolved, proc, wire
  <2>3. WireOrder'
    BY <1>0, <1>1, <1>2 DEF Control, WireOrder, wire
  <2> QED BY <2>1, <2>2, <2>3 DEF Control, Calm
\* Begun.
<1>3. ASSUME rec' = NewRecord(a), mode' = mode, at'[a] \in {"off", "prepare", "renameO"},
             lock' = IF at'[a] = "off" THEN 0 ELSE a,
             plan' = plan \/ plan' = [plan EXCEPT ![a].deaf = stopped]
      PROVE  Control'
  <2>1. /\ plan'[a].o = plan[a].o /\ plan'[a].n = plan[a].n
        /\ plan'[a].carry = plan[a].carry /\ plan'[a].reverse = plan[a].reverse
    BY <1>3 DEF TypeOK, EngineOK, Plans
  <2>2. /\ rec'.st = "open" /\ rec'.att = a /\ rec'.old = plan[a].o /\ rec'.new = plan[a].n
        /\ rec'.carry = plan[a].carry /\ rec'.reverse = plan[a].reverse /\ rec'.retained = 0
    BY <1>3 DEF NewRecord, BeginRec, NoRecord
  <2>3. LockHeld'
    BY <1>0, <1>1, <1>3 DEF Control, LockHeld, MainPoints, BeforeCommit, AfterCommit, proc
  <2>4. RecordIsIts'
    <3>1. Agrees(a)'
      BY <2>1, <2>2 DEF Agrees
    <3>2. Unresolved'
      BY <2>2 DEF Unresolved, GateOpen
    <3> QED BY <1>0, <1>1, <1>3, <2>2, <3>1, <3>2, NumberFacts DEF RecordIsIts, proc, wire
  <2>5. WireOrder'
    BY <1>0, <1>1, <1>3 DEF Control, WireOrder, wire
  <2> QED BY <2>3, <2>4, <2>5 DEF Control, Calm
<1>4. CASE BeginNotNow(a)
  <2>1. Leave(a, "off", "live", NoOp, 0) /\ rec' = rec
    BY <1>4 DEF BeginNotNow, disk
  <2> QED BY <1>2, <2>1, LeaveFacts DEF TypeOK
<1>5. CASE Begin(a)
  <2>1. rec' = NewRecord(a) /\ mode' = mode /\ (plan' = plan \/ plan' = [plan EXCEPT ![a].deaf = stopped])
    BY <1>5 DEF Begin
  <2>2. /\ at'[a] \in {"off", "prepare", "renameO"}
        /\ lock' = IF at'[a] = "off" THEN 0 ELSE a
    BY <1>1, <1>5 DEF Begin, TypeOK, EngineOK
  <2> QED BY <1>3, <2>1, <2>2
<1>6. CASE BeginFails(a)
  <2>1. rec' = rec /\ at'[a] = "off" /\ lock' = 0 /\ mode' = mode
    BY <1>6 DEF BeginFails, Control, Calm, TypeOK, EngineOK
  <2> QED BY <1>1, <1>2, <2>1
<1> QED BY <1>4, <1>5, <1>6

\* A resolution ends the attempt.
LEMMA ControlResolve ==
  ASSUME TypeOK, Control, NEW a \in Attempts, Resolve(a)
  PROVE  Control'
<1>1. /\ at[a] \in RecordPoints /\ lock = a /\ rec' = ResolvedRec(rec, OutcomeAt(a), RetainedAt(a), RoleAt(a))
      /\ at'[a] = "off" /\ mode'[a] = "live" /\ lock' = 0
      /\ \A b \in Attempts \ {a} : at'[b] = at[b] /\ mode'[b] = mode[b]
      /\ UNCHANGED <<up, started, adm, plan, late, limbo, zombies>>
  BY DEF Resolve, MayAct, TypeOK, EngineOK, wire, proc
<1>2. at[a] \notin {"off", "begin", "settle"}
  BY <1>1 DEF RecordPoints
<1>3. /\ zombies = {} /\ up /\ adm = "none" /\ ~limbo[a] /\ late[a] = NoOp /\ rec.att = a
      /\ \A b \in Attempts \ {a} : at[b] = "off" /\ ~limbo[b] /\ late[b] = NoOp
  BY <1>2, Alone DEF Control, WireOrder
<1>4. rec'.att = a /\ GateOpen(rec')
  BY <1>1, <1>3 DEF ResolvedRec, GateOpen, TypeOK, DiskOK, Records
<1>5. LockHeld'
  BY <1>1, <1>3, <1>4 DEF Control, LockHeld, MainPoints, BeforeCommit, AfterCommit
<1>6. RecordIsIts'
  BY <1>1, <1>3, <1>4 DEF Control, RecordIsIts, Unresolved
<1>7. WireOrder'
  BY <1>1, <1>3 DEF WireOrder
<1> QED BY <1>5, <1>6, <1>7 DEF Control, Calm

\* An adoption finds the session's engine idle and everything settled.
LEMMA ControlRecover ==
  ASSUME TypeOK, Control, NEW a \in Attempts, Recover(a)
  PROVE  Control'
<1>1. /\ up /\ lock = 0 /\ zombies = {} /\ \A b \in Attempts : at[b] = "off" /\ ~limbo[b] /\ late[b] = NoOp
      /\ rec' = AdoptedRec(rec) /\ lock' = a /\ rec.att = a /\ Unresolved
      /\ plan' = [plan EXCEPT ![a] = PlanOf(rec.old, rec.new, rec.carry, rec.reverse)]
      /\ at' = [at EXCEPT ![a] = "read"] /\ mode' = [mode EXCEPT ![a] = "recover"]
      /\ UNCHANGED <<up, started, adm, late, limbo, zombies>>
  BY DEF Recover, Control, Calm, WireOrder, OperatorMay, Settled, Quiet, wire, proc, MayAdopt,
         Unresolved, GateOpen
<1>2. adm = "none"
  BY <1>1, NumberFacts DEF Control, LockHeld
<1>3. /\ rec'.st = "uncertain" /\ rec'.att = a /\ rec'.old = rec.old /\ rec'.new = rec.new
      /\ rec'.carry = rec.carry /\ rec'.reverse = rec.reverse /\ rec'.retained = rec.retained
  BY <1>1 DEF AdoptedRec, TypeOK, DiskOK, Records
<1>4. /\ plan'[a].o = rec.old /\ plan'[a].n = rec.new
      /\ plan'[a].carry = rec.carry /\ plan'[a].reverse = rec.reverse
  BY <1>1 DEF PlanOf, NoPlan, TypeOK, EngineOK
<1>5. /\ at'[a] = "read" /\ mode'[a] = "recover"
      /\ \A b \in Attempts \ {a} : at'[b] = "off" /\ mode'[b] = mode[b]
  BY <1>1 DEF TypeOK, EngineOK
<1>6. LockHeld'
  BY <1>1, <1>2, <1>5 DEF Control, LockHeld, MainPoints, BeforeCommit, AfterCommit
<1>7. RecordIsIts'
  <2>1. Agrees(a)'
    BY <1>3, <1>4 DEF Agrees
  <2>2. Unresolved'
    BY <1>3 DEF Unresolved, GateOpen
  <2>3. rec'.retained = 0 /\ rec'.att <= started'
    BY <1>1, <1>3 DEF Control, RecordIsIts
  <2> QED BY <1>1, <1>3, <1>5, <2>1, <2>2, <2>3 DEF RecordIsIts
<1>8. WireOrder'
  BY <1>1, <1>5 DEF WireOrder
<1> QED BY <1>6, <1>7, <1>8 DEF Control, Calm

\* An answer nobody waits for, and a statement that turns final.
LEMMA ControlLate ==
  ASSUME TypeOK, Control, NEW a \in Attempts, LateAnswer(a) \/ LimboEnds(a)
  PROVE  Control'
<1>1. /\ UNCHANGED <<disk, proc, lock, adm, plan, at, mode, zombies>>
      /\ \A b \in Attempts : late'[b] \in {NoOp, late[b]} /\ (limbo'[b] => limbo[b])
  BY DEF LateAnswer, LimboEnds, TypeOK, EngineOK, WireOK, engine, wire
<1>2. LockHeld'
  BY <1>1 DEF Control, LockHeld, disk, proc
<1>3. RecordIsIts'
  BY <1>1 DEF Control, RecordIsIts, Agrees, Unresolved, disk, proc
<1>4. WireOrder'
  BY <1>1 DEF Control, WireOrder, disk
<1> QED BY <1>2, <1>3, <1>4 DEF Control, Calm

\* An approval runs alone, on what the record retains.
LEMMA ControlApprove ==
  ASSUME TypeOK, Control, Approve \/ ApproveRemove \/ ApproveRecord
  PROVE  Control'
<1>1. UNCHANGED <<proc, plan, at, mode, late, wire>>
  BY DEF Approve, ApproveRemove, ApproveRecord
<1>2. CASE Approve
  <2>1. /\ up /\ lock = 0 /\ zombies = {} /\ lock' = Admin /\ adm' # "none"
        /\ GateOpen(rec) /\ rec.retained # 0 /\ rec' = rec
    BY <1>2 DEF Approve, OperatorMay, Settled, Control, Calm, disk
  <2>2. \A b \in Attempts : at[b] = "off" /\ ~limbo[b]
    <3>1. \A b \in Attempts : b # 0 /\ at[b] \in {"off", "begin"} /\ ~limbo[b]
      BY <2>1 DEF Control, RecordIsIts, Attempts, Unresolved
    <3> QED BY <2>1, <3>1 DEF Control, LockHeld, MainPoints
  <2>3. LockHeld'
    BY <1>1, <2>1, <2>2 DEF Control, LockHeld, MainPoints, BeforeCommit, AfterCommit, proc
  <2>4. RecordIsIts'
    BY <1>1, <2>1 DEF Control, RecordIsIts, Agrees, Unresolved, proc, wire
  <2>5. WireOrder'
    BY <1>1, <2>1 DEF Control, WireOrder, wire
  <2> QED BY <2>3, <2>4, <2>5 DEF Control, Calm
<1>3. CASE ApproveRemove \/ ApproveRecord
  <2>1. /\ adm # "none"
        /\ \/ adm' = "none" /\ lock' = 0
           \/ adm' = "record" /\ lock' = lock /\ rec' = rec
        /\ rec' = rec \/ rec' = ApprovedRec(rec)
    BY <1>3 DEF ApproveRemove, ApproveRecord, disk
  <2>2. /\ up /\ zombies = {} /\ lock = Admin /\ GateOpen(rec)
        /\ \A b \in Attempts : at[b] = "off" /\ ~limbo[b]
    BY <2>1, Alone DEF Control, LockHeld, WireOrder, RecordIsIts, Unresolved
  <2>3. rec'.att = rec.att /\ GateOpen(rec')
    BY <2>1, <2>2 DEF ApprovedRec, GateOpen, TypeOK, DiskOK, Records
  <2>4. LockHeld'
    BY <1>1, <2>1, <2>2, <2>3 DEF Control, LockHeld, MainPoints, BeforeCommit, AfterCommit, proc
  <2>5. RecordIsIts'
    BY <1>1, <2>2, <2>3 DEF Control, RecordIsIts, Unresolved, proc, wire
  <2>6. WireOrder'
    BY <1>1, <2>2 DEF Control, WireOrder, wire
  <2> QED BY <2>4, <2>5, <2>6 DEF Control, Calm
<1> QED BY <1>2, <1>3

\* The verbs, the disable, people and Docker itself leave the engine alone.
LEMMA ControlVerbs ==
  ASSUME TypeOK, Control,
         \/ Start \/ Stop \/ Purge \/ Disable \/ Shutdown \/ ZombieEnds
         \/ \E c \in Containers : StartByHand(c) \/ ExitsByItself(c)
  PROVE  Control'
<1>1. /\ UNCHANGED <<lock, adm, plan, at, mode, late, limbo, up, started>>
      /\ zombies' \subseteq zombies
  BY DEF Start, Stop, Purge, Disable, Shutdown, ZombieEnds, StartByHand, ExitsByItself, engine, wire, proc
<1>2. \/ rec' = rec
      \/ /\ rec' = NoRecord /\ GateOpen(rec) /\ rec.retained = 0 /\ lock = 0
         /\ zombies' = zombies
  BY DEF Start, Stop, Purge, Disable, Shutdown, ZombieEnds, StartByHand, ExitsByItself, disk, wire,
         Gate, DeleteGateOpen
<1>3. CASE rec' = rec
  <2>1. LockHeld'
    BY <1>1, <1>3 DEF Control, LockHeld
  <2>2. RecordIsIts'
    BY <1>1, <1>3 DEF Control, RecordIsIts, Agrees, Unresolved
  <2>3. WireOrder'
    BY <1>1, <1>3 DEF Control, WireOrder
  <2> QED BY <2>1, <2>2, <2>3 DEF Control, Calm
<1>4. CASE /\ rec' = NoRecord /\ GateOpen(rec) /\ rec.retained = 0 /\ lock = 0
           /\ zombies' = zombies
  <2>1. \A b \in Attempts : b # 0 /\ at[b] = "off" /\ ~limbo[b]
    <3>1. \A b \in Attempts : b # 0 /\ at[b] \in {"off", "begin"} /\ ~limbo[b]
      BY <1>4 DEF Control, RecordIsIts, Attempts, Unresolved
    <3> QED BY <1>4, <3>1 DEF Control, LockHeld, MainPoints
  <2>2. rec'.att = 0 /\ GateOpen(rec') /\ adm = "none" /\ zombies = {}
    BY <1>4, NumberFacts DEF NoRecord, GateOpen, Control, LockHeld, WireOrder
  <2>3. LockHeld'
    BY <1>1, <1>4, <2>1, <2>2 DEF Control, LockHeld
  <2>4. RecordIsIts'
    BY <1>1, <2>1, <2>2 DEF RecordIsIts, Unresolved, TypeOK, ProcOK
  <2>5. WireOrder'
    BY <1>1, <1>4, <2>1, <2>2 DEF Control, WireOrder
  <2> QED BY <2>3, <2>4, <2>5 DEF Control, Calm
<1> QED BY <1>2, <1>3, <1>4

\* A death leaves on the wire what was out, alone; a boot finds it there.
LEMMA ControlProcess ==
  ASSUME TypeOK, Control, Crash \/ Boot
  PROVE  Control'
<1>1. CASE Crash
  <2>1. /\ up /\ up' = FALSE /\ lock' = 0 /\ adm' = "none" /\ UNCHANGED <<rec, plan, started>>
        /\ \A b \in Attempts : /\ at'[b] = "off" /\ mode'[b] = "live" /\ late'[b] = NoOp
                               /\ limbo'[b] <=> limbo[b] \/ at[b] = "cas"
    BY <1>1 DEF Crash, disk, TypeOK, WireOK
  <2>2. LockHeld'
    BY <2>1 DEF LockHeld, MainPoints, BeforeCommit, AfterCommit
  <2>3. RecordIsIts'
    BY <2>1 DEF Control, RecordIsIts, Agrees, Unresolved
  <2>4. ASSUME zombies' # {}
        PROVE  /\ \A b \in Attempts : ~limbo'[b]
               /\ GateOpen(rec') => rec'.retained # 0
    <3>1. CASE zombies # {}
      BY <2>1, <3>1 DEF Control, WireOrder
    <3>2. CASE \E b \in Attempts : OpAt(b) # NoOp
      <4>1. PICK b \in Attempts : OpAt(b) # NoOp
        BY <3>2
      <4>2. at[b] \notin {"off", "begin", "cas", "settle"}
        BY <4>1 DEF OpAt
      <4>3. /\ Unresolved /\ ~limbo[b] /\ \A d \in Attempts \ {b} : at[d] = "off" /\ ~limbo[d]
        BY <4>2, Alone DEF Control, WireOrder
      <4> QED BY <2>1, <4>2, <4>3 DEF Unresolved
    <3>3. CASE \E b \in Attempts : late[b] # NoOp
      <4>1. PICK b \in Attempts : late[b] # NoOp
        BY <3>3
      <4>2. at[b] = "settle" /\ ~limbo[b]
        BY <4>1 DEF Control, WireOrder
      <4>3. /\ Unresolved /\ \A d \in Attempts \ {b} : at[d] = "off" /\ ~limbo[d]
        BY <4>2, Alone
      <4> QED BY <2>1, <4>2, <4>3 DEF Unresolved
    <3>4. CASE adm = "remove"
      <4>1. GateOpen(rec) /\ rec.retained # 0 /\ lock = Admin
        BY <3>4 DEF Control, LockHeld
      <4>2. \A b \in Attempts : at[b] = "off" /\ ~limbo[b]
        BY <3>4, <4>1, Alone DEF Control, RecordIsIts, Unresolved
      <4> QED BY <2>1, <4>1, <4>2
    <3> QED BY <1>1, <2>4, <3>1, <3>2, <3>3, <3>4 DEF Crash
  <2>5. WireOrder'
    BY <2>1, <2>4 DEF WireOrder
  <2> QED BY <2>2, <2>3, <2>5 DEF Control, Calm
<1>2. CASE Boot
  <2>1. /\ ~up /\ up' = TRUE /\ UNCHANGED <<lock, adm, plan, at, mode, late, started, limbo, zombies>>
        /\ rec' = rec \/ (Unresolved /\ rec' = OrphanedRec(rec))
    BY <1>2 DEF Boot, engine, wire, NeedsOrphaning, Unresolved
  <2>2. /\ rec'.att = rec.att /\ rec'.old = rec.old /\ rec'.new = rec.new /\ rec'.carry = rec.carry
        /\ rec'.reverse = rec.reverse /\ rec'.retained = rec.retained /\ (GateOpen(rec') <=> GateOpen(rec))
    BY <2>1 DEF OrphanedRec, TypeOK, DiskOK, Records, GateOpen, Unresolved
  <2>3. LockHeld'
    BY <2>1 DEF Control, LockHeld
  <2>4. RecordIsIts'
    BY <2>1, <2>2 DEF Control, RecordIsIts, Agrees, Unresolved
  <2>5. WireOrder'
    BY <2>1, <2>2 DEF Control, WireOrder
  <2> QED BY <2>3, <2>4, <2>5 DEF Control, Calm
<1> QED BY <1>1, <1>2

\* Control holds at first.
LEMMA ControlInit == Calm /\ Init => Control
<1> SUFFICES ASSUME Calm, Init PROVE Control
  OBVIOUS
<1>1. rec.att = 0 /\ GateOpen(rec)
  BY DEF Init, NoRecord, GateOpen
<1>2. LockHeld
  BY DEF Init, LockHeld, MainPoints, BeforeCommit, AfterCommit
<1>3. RecordIsIts
  BY <1>1 DEF Init, RecordIsIts, Unresolved
<1>4. WireOrder
  BY DEF Init, WireOrder
<1> QED BY <1>2, <1>3, <1>4 DEF Control

\* Every step is one of these.
LEMMA Steps ==
  ASSUME [Next]_vars
  PROVE  \/ \E a \in Attempts :
              \/ Recreate(a, FALSE) \/ Recreate(a, TRUE) \/ RollbackToRetained(a)
              \/ BeginNotNow(a) \/ Begin(a) \/ BeginFails(a)
              \/ Inner(a) \/ LateAnswer(a) \/ LimboEnds(a) \/ Resolve(a) \/ Recover(a)
         \/ Approve \/ ApproveRemove \/ ApproveRecord
         \/ Start \/ Stop \/ Purge \/ Disable \/ Shutdown \/ ZombieEnds
         \/ \E c \in Containers : StartByHand(c) \/ ExitsByItself(c)
         \/ Crash \/ Boot \/ UNCHANGED vars
<1>1. CASE UNCHANGED vars
  BY <1>1
<1>2. ASSUME NEW a \in Attempts, AttemptStep(a)
      PROVE  \/ Recreate(a, FALSE) \/ Recreate(a, TRUE) \/ RollbackToRetained(a)
             \/ BeginNotNow(a) \/ Begin(a) \/ BeginFails(a)
             \/ Inner(a) \/ LateAnswer(a) \/ LimboEnds(a) \/ Resolve(a) \/ Recover(a)
  BY <1>2 DEF AttemptStep, Inner
<1>3. CASE Elsewhere
  BY <1>3 DEF Elsewhere
<1> QED BY <1>1, <1>2, <1>3 DEF Next

\* Every step keeps Control.
LEMMA ControlNext == TypeOK /\ Control /\ [Next]_vars => Control'
<1> SUFFICES ASSUME TypeOK, Control, [Next]_vars PROVE Control'
  OBVIOUS
<1>1. ASSUME NEW a \in Attempts,
             \/ Recreate(a, FALSE) \/ Recreate(a, TRUE) \/ RollbackToRetained(a)
             \/ BeginNotNow(a) \/ Begin(a) \/ BeginFails(a)
             \/ Inner(a) \/ LateAnswer(a) \/ LimboEnds(a) \/ Resolve(a) \/ Recover(a)
      PROVE  Control'
  BY <1>1, ControlAdmit, ControlBegin, InnerShift, ControlShift, ControlLate, ControlResolve, ControlRecover
<1>2. CASE UNCHANGED vars
  BY <1>2 DEF vars, docker, row, disk, proc, engine, wire, spent, Control, Calm, LockHeld, RecordIsIts,
              WireOrder, Agrees, Unresolved
<1> QED BY <1>1, <1>2, Steps, ControlApprove, ControlVerbs, ControlProcess

\* The control, always.
LEMMA ControlAlways == Calm /\ Spec => [](TypeOK /\ Control)
<1>1. Calm /\ Init => TypeOK /\ Control
  BY TypeInit, ControlInit
<1>2. TypeOK /\ Control /\ [Next]_vars => (TypeOK /\ Control)'
  BY TypeNext, ControlNext
<1> QED BY <1>1, <1>2, PTL DEF Spec

\* While the engine holds an attempt that is not under the lock, the gate is
\* closed: no verb and no further attempt gets between its steps.
THEOREM GateAlwaysCovers == Calm /\ Spec => []GateCoversAttempts
<1>1. Control => GateCoversAttempts
  BY DEF Control, RecordIsIts, GateCoversAttempts, Unresolved
<1> QED BY <1>1, ControlAlways, PTL

-----------------------------------------------------------------------------
(* What an inner step does to Docker, D1 and the marker, and where the      *)
(* attempt then is.                                                         *)

\* A request took effect; it did, or nothing happened.
Did(op) == Accepts(op) /\ Effect(op)
DockerBy(op) == UNCHANGED docker \/ Did(op)

Stays(a) == at'[a] = at[a] /\ UNCHANGED <<docker, row, marker>>
Falls(a) == at'[a] \in {"settle", "stuck", "off", "read"}

\* The main flow goes on,
MainGoesOn(a) ==
  \/ at[a] = "prepare" /\ at'[a] = "create" /\ marker' = TRUE /\ UNCHANGED <<docker, row>>
  \/ /\ at[a] \in {"create", "renameO", "renameN", "startN"} /\ at'[a] = NextMain(a)
     /\ Did(OpAt(a)) /\ UNCHANGED <<row, marker>>
     /\ at'[a] = "startN" => ~Running(plan[a].o)
  \/ /\ at[a] = "furnish" /\ at'[a] = "renameO" /\ Exists(plan[a].n) /\ UNCHANGED <<docker, row, marker>>
  \/ /\ at[a] = "ready" /\ at'[a] = "cas" /\ UNCHANGED <<docker, row, marker>>
  \/ /\ at[a] = "cas" /\ at'[a] = "unmark" /\ ~plan[a].reverse
     /\ CommitApplies(a) /\ CommitEffect(a) /\ UNCHANGED <<docker, marker>>
  \/ at[a] = "unmark" /\ at'[a] \in {"check", "removeO"} /\ UNCHANGED <<docker, row>>
  \/ at[a] = "removeO" /\ at'[a] = "check" /\ Did(OpAt(a)) /\ UNCHANGED <<row, marker>>
  \/ at[a] = "check" /\ at'[a] = "recordN" /\ ConvergedOnN(a) /\ UNCHANGED <<docker, row, marker>>

\* or a pass does.
PassGoesOn(a) ==
  \/ /\ at[a] = "read" /\ at'[a] = FirstAct(a) /\ UNCHANGED <<docker, row, marker>>
  \/ /\ at[a] \in PassPoints \cap RequestPoints /\ UNCHANGED <<row, marker>>
     /\ \/ at'[a] = NextPass(a, TRUE) /\ Did(OpAt(a))
        \/ at'[a] = NextPass(a, FALSE) /\ DockerBy(OpAt(a))
  \/ at[a] = "unmarkO" /\ at'[a] = "recordO" /\ marker' = FALSE /\ UNCHANGED <<docker, row>>
  \/ at[a] = "convergeN" /\ at'[a] = "recheckN" /\ marker' = FALSE /\ UNCHANGED <<docker, row>>
  \/ /\ at[a] = "recheckN" /\ at'[a] = "recordN" /\ ConvergedOnN(a) /\ UNCHANGED <<docker, row, marker>>
  \/ /\ at[a] = "recheckBack" /\ at'[a] = "recordBack"
     /\ Exists(plan[a].n) /\ cname[plan[a].n] = Canonical /\ UNCHANGED <<docker, row, marker>>
  \/ /\ at[a] = "recheckUndo" /\ at'[a] = "recordUndo"
     /\ Exists(plan[a].o) /\ cname[plan[a].o] = Canonical /\ UNCHANGED <<docker, row, marker>>

Moved(a) == Stays(a) \/ Falls(a) \/ MainGoesOn(a) \/ PassGoesOn(a)

\* Docker sees at most the request of the point left, D1 at most the commit,
\* the marker is set before a container is made and taken away after the
\* commit or once N is gone.
Touches(a) ==
  /\ DockerBy(OpAt(a)) /\ UNCHANGED byHand
  /\ UNCHANGED row \/ (at[a] = "cas" /\ CommitApplies(a) /\ CommitEffect(a) /\ UNCHANGED <<docker, limbo>>)
  /\ \/ marker' = marker
     \/ at[a] = "prepare" /\ marker' = TRUE
     \/ at[a] \in {"unmark", "unmarkO", "convergeN"} /\ marker' = FALSE
  /\ limbo'[a] => limbo[a] \/ (at[a] = "cas" /\ UNCHANGED <<docker, row>>)
  /\ late'[a] \in {NoOp, late[a]} \/ (late'[a] = OpAt(a) /\ UNCHANGED <<docker, row>>)

\* An answer is the effect or nothing; a right one is the effect.
LEMMA AnswerFacts ==
  \A op, ok : Answer(op, ok) => /\ DockerBy(op) /\ (ok => Did(op))
                                /\ UNCHANGED byHand
BY DEF Answer, DockerBy, Did, Fault, NoFault, spent

\* What the steps under the lock move, and what they touch.
LEMMA InnerMoves ==
  ASSUME TypeOK, Control, NEW a \in Attempts, Inner(a)
  PROVE  Moved(a) /\ Touches(a)
<1>0. EngineOK /\ mode[a] \in Modes /\ ~SyncFaults
  BY DEF TypeOK, EngineOK, Control, Calm
<1>1. late[a] # NoOp => at[a] = "settle"
  BY DEF Control, WireOrder
<1>2. \A op : Fault \/ NoFault => UNCHANGED byHand
  BY DEF Fault, NoFault, spent
<1> USE DEF Moved, Touches
\* Nothing of Docker, D1 or the wire is touched by what ends or abandons.
<1>3. ASSUME UNCHANGED <<docker, row, limbo, marker, byHand>>, at'[a] \in {"settle", "stuck", "off", "read"},
             late'[a] \in {NoOp, late[a], OpAt(a)}
      PROVE  Moved(a) /\ Touches(a)
  BY <1>3 DEF Falls, DockerBy
<1>4. ASSUME Ended(a) PROVE at'[a] \in {"settle", "stuck", "off", "read"} /\ late'[a] = NoOp /\ UNCHANGED marker
  BY <1>4 DEF Ended
<1>5. ASSUME NEW op, Abandon(a, op) \/ NotConverged(a, op)
      PROVE  at'[a] = "settle" /\ late'[a] = op /\ UNCHANGED marker
  BY <1>0, <1>5, AbandonFacts
<1>6. ASSUME NEW p, Go(a, p) PROVE at'[a] = p /\ late' = late
  BY <1>0, <1>6, GoFacts
<1>11. ASSUME Prepare(a) PROVE Moved(a) /\ Touches(a)
  <2>1. at[a] = "prepare" /\ UNCHANGED <<docker, row, limbo>> /\ marker' \in {marker, TRUE} /\ UNCHANGED byHand
    BY <1>2, <1>11 DEF Prepare, DeferSeed, wire
  <2>2. CASE Go(a, "create") /\ DeferSeed
    BY <1>6, <2>1, <2>2 DEF MainGoesOn, DeferSeed, DockerBy
  <2>3. CASE Leave(a, "settle", "await", NoOp, lock)
    BY <1>0, <2>1, <2>3, LeaveFacts DEF Falls, DockerBy
  <2> QED BY <1>11, <2>2, <2>3 DEF Prepare
<1>12. ASSUME MainRequest(a) PROVE Moved(a) /\ Touches(a)
  <2>1. at[a] \in {"create", "renameO", "renameN", "startN"} /\ UNCHANGED <<row, limbo>>
    BY <1>12 DEF MainRequest, BeforeCommit, RequestPoints, wire
  <2>2. PICK ok \in BOOLEAN :
          /\ Answer(OpAt(a), ok)
          /\ IF ok /\ ~(NextMain(a) = "startN" /\ (Running(plan[a].o) \/ ~Exists(plan[a].o)))
             THEN Go(a, NextMain(a)) /\ UNCHANGED disk
             ELSE Abandon(a, NoOp)
    BY <1>12 DEF MainRequest
  <2>3. DockerBy(OpAt(a)) /\ (ok => Did(OpAt(a))) /\ UNCHANGED byHand
    BY <2>2, AnswerFacts
  <2>4. CASE Abandon(a, NoOp)
    BY <1>5, <2>1, <2>3, <2>4 DEF Falls
  <2>5. CASE ok /\ Go(a, NextMain(a)) /\ UNCHANGED disk /\ ~(NextMain(a) = "startN" /\ Running(plan[a].o))
    BY <1>6, <2>1, <2>3, <2>5 DEF MainGoesOn, disk
  <2> QED BY <2>2, <2>4, <2>5
<1>13. ASSUME MainCheck(a) PROVE Moved(a) /\ Touches(a)
  <2>1. at[a] \in {"furnish", "ready"} /\ UNCHANGED <<docker, row, limbo>> /\ UNCHANGED byHand
    BY <1>2, <1>13 DEF MainCheck, wire
  <2>2. CASE Abandon(a, NoOp)
    BY <1>3, <1>5, <2>1, <2>2
  <2>3. CASE /\ UNCHANGED disk /\ Go(a, IF at[a] = "furnish" THEN "renameO" ELSE "cas")
             /\ at[a] = "furnish" => Exists(plan[a].n)
    BY <1>6, <2>1, <2>3 DEF MainGoesOn, disk, DockerBy
  <2> QED BY <1>13, <2>2, <2>3 DEF MainCheck
<1>14. ASSUME Deadline(a) PROVE Moved(a) /\ Touches(a)
  <2>1. UNCHANGED <<docker, row, limbo, byHand>>
    BY <1>14 DEF Deadline, wire, spent
  <2>2. CASE Abandon(a, OpAt(a)) \/ NotConverged(a, OpAt(a))
    BY <1>3, <1>5, <2>1, <2>2
  <2>3. CASE /\ at[a] = "prepare" /\ (DeferSeed \/ UNCHANGED marker)
             /\ Leave(a, "settle", "await", NoOp, lock)
    BY <1>0, <2>1, <2>3, LeaveFacts DEF DeferSeed, Falls, DockerBy
  <2> QED BY <1>14, <2>2, <2>3 DEF Deadline
<1>15. ASSUME RollbackTimeout(a) PROVE Moved(a) /\ Touches(a)
  BY <1>15 DEF RollbackTimeout, Stays, DockerBy, MarkUncertain, wire, spent
<1>16. ASSUME CommitApplied(a) PROVE Moved(a) /\ Touches(a)
  <2>1. /\ at[a] = "cas" /\ CommitApplies(a) /\ CommitEffect(a) /\ UNCHANGED <<docker, limbo>>
        /\ UNCHANGED byHand
    BY <1>16 DEF CommitApplied, wire, spent
  <2>2. CASE Leave(a, "settle", "sync", NoOp, lock) /\ UNCHANGED disk
    BY <1>0, <2>1, <2>2, LeaveFacts DEF disk, Falls, DockerBy
  <2>3. CASE NotConverged(a, NoOp)
    BY <1>5, <2>1, <2>3 DEF Falls, DockerBy
  <2>4. CASE Go(a, "unmark") /\ UNCHANGED disk /\ ~plan[a].reverse
    BY <1>6, <2>1, <2>4 DEF MainGoesOn, disk, DockerBy
  <2> QED BY <1>16, <2>2, <2>3, <2>4 DEF CommitApplied
<1>17. ASSUME CommitNotApplied(a) PROVE Moved(a) /\ Touches(a)
  <2>1. UNCHANGED <<docker, row, limbo, marker>> /\ UNCHANGED byHand
    BY <1>2, <1>17 DEF CommitNotApplied, wire, disk
  <2>2. at'[a] = "settle" /\ late'[a] = NoOp
    BY <1>0, <1>17, LeaveFacts DEF CommitNotApplied
  <2> QED BY <1>3, <2>1, <2>2
<1>18. ASSUME CommitAmbiguous(a) PROVE Moved(a) /\ Touches(a)
  <2>1. /\ at[a] = "cas" /\ at'[a] = "settle" /\ late'[a] = NoOp /\ UNCHANGED docker /\ UNCHANGED marker
        /\ UNCHANGED byHand
    BY <1>2, <1>5, <1>18 DEF CommitAmbiguous
  <2>2. (CommitApplies(a) /\ CommitEffect(a) /\ UNCHANGED limbo) \/ UNCHANGED row
    BY <1>18 DEF CommitAmbiguous
  <2> QED BY <2>1, <2>2 DEF Falls, DockerBy
<1>19. ASSUME Unmark(a) PROVE Moved(a) /\ Touches(a)
  <2>1. /\ at[a] = "unmark" /\ UNCHANGED <<docker, row, limbo>> /\ marker' \in {marker, FALSE} /\ UNCHANGED byHand
    BY <1>2, <1>19 DEF Unmark, wire
  <2>2. at'[a] \in {"check", "removeO"} /\ late' = late
    BY <1>6, <1>19 DEF Unmark
  <2> QED BY <2>1, <2>2 DEF MainGoesOn, DockerBy
<1>20. ASSUME RemoveO(a) PROVE Moved(a) /\ Touches(a)
  <2>1. at[a] = "removeO" /\ UNCHANGED <<row, limbo>>
    BY <1>20 DEF RemoveO, wire
  <2>2. PICK ok \in BOOLEAN :
          /\ Answer(OpAt(a), ok)
          /\ IF ok THEN Go(a, "check") /\ UNCHANGED disk ELSE NotConverged(a, NoOp)
    BY <1>20 DEF RemoveO
  <2>3. DockerBy(OpAt(a)) /\ (ok => Did(OpAt(a))) /\ UNCHANGED byHand
    BY <2>2, AnswerFacts
  <2>4. CASE NotConverged(a, NoOp)
    BY <1>5, <2>1, <2>3, <2>4 DEF Falls
  <2>5. CASE ok /\ Go(a, "check") /\ UNCHANGED disk
    BY <1>6, <2>1, <2>3, <2>5 DEF MainGoesOn, disk
  <2> QED BY <2>2, <2>4, <2>5
<1>21. ASSUME Check(a) PROVE Moved(a) /\ Touches(a)
  <2>1. at[a] = "check" /\ UNCHANGED <<docker, row, limbo>> /\ UNCHANGED byHand
    BY <1>21 DEF Check, wire, spent
  <2>2. CASE NotConverged(a, NoOp)
    BY <1>3, <1>5, <2>1, <2>2
  <2>3. CASE ConvergedOnN(a) /\ Go(a, "recordN") /\ UNCHANGED disk
    BY <1>6, <2>1, <2>3 DEF MainGoesOn, disk, DockerBy
  <2> QED BY <1>21, <2>2, <2>3 DEF Check
<1>22. ASSUME StartPass(a) PROVE Moved(a) /\ Touches(a)
  <2>1. UNCHANGED <<docker, row, limbo, marker, byHand, late>> /\ at'[a] = "read"
    BY <1>0, <1>22 DEF StartPass, wire, disk, spent, EngineOK
  <2> QED BY <1>3, <2>1
<1>23. ASSUME PassRefused(a) \/ LeaseLost(a) PROVE Moved(a) /\ Touches(a)
  <2>1. UNCHANGED <<docker, row, limbo, byHand>> /\ Ended(a)
    BY <1>0, <1>23, EndFacts DEF PassRefused, LeaseLost, wire, spent
  <2> QED BY <1>3, <1>4, <2>1
<1>24. ASSUME ReadRow(a) PROVE Moved(a) /\ Touches(a)
  <2>1. at[a] = "read" /\ UNCHANGED <<docker, row, limbo, byHand>> /\ MoveOn(a, FirstAct(a))
    BY <1>24 DEF ReadRow, wire, spent
  <2>2. CASE Ended(a)
    BY <1>3, <1>4, <2>1, <2>2
  <2>3. CASE at'[a] = FirstAct(a) /\ UNCHANGED <<late, disk>>
    BY <2>1, <2>3 DEF PassGoesOn, disk, DockerBy
  <2> QED BY <1>0, <2>1, <2>2, <2>3, MoveFacts
<1>25. ASSUME PassRequest(a) PROVE Moved(a) /\ Touches(a)
  <2>1. at[a] \in PassPoints \cap RequestPoints /\ UNCHANGED <<row, limbo>>
    BY <1>25 DEF PassRequest, wire
  <2>2. PICK ok \in BOOLEAN :
          /\ Answer(OpAt(a), ok)
          /\ IF MayAct(a) THEN MoveOn(a, NextPass(a, ok)) ELSE Retry(a)
    BY <1>25 DEF PassRequest
  <2>3. DockerBy(OpAt(a)) /\ (ok => Did(OpAt(a))) /\ UNCHANGED byHand
    BY <2>2, AnswerFacts
  <2>4. CASE Ended(a)
    BY <1>4, <2>1, <2>3, <2>4 DEF Falls
  <2>5. CASE at'[a] = NextPass(a, ok) /\ UNCHANGED <<late, disk>>
    BY <2>1, <2>3, <2>5 DEF PassGoesOn, disk
  <2> QED BY <1>0, <2>2, <2>4, <2>5, MoveFacts, EndFacts
<1>26. ASSUME UnmarkO(a) \/ ConvergeN(a) PROVE Moved(a) /\ Touches(a)
  <2>1. at[a] \in {"unmarkO", "convergeN"} /\ UNCHANGED <<docker, row, limbo>> /\ UNCHANGED byHand
    BY <1>2, <1>26 DEF UnmarkO, ConvergeN, wire
  <2>2. CASE Retry(a)
    BY <1>0, <1>3, <1>4, <2>1, <2>2, EndFacts
  <2>3. CASE /\ marker' = FALSE
             /\ Go(a, IF at[a] = "unmarkO" THEN "recordO" ELSE "recheckN")
    BY <1>6, <2>1, <2>3 DEF PassGoesOn, DockerBy
  <2> QED BY <1>26, <2>2, <2>3 DEF UnmarkO, ConvergeN
<1>27. ASSUME ResolveFails(a) PROVE Moved(a) /\ Touches(a)
  <2>1. UNCHANGED <<docker, row, limbo>> /\ Ended(a)
    BY <1>0, <1>27, EndFacts DEF ResolveFails, wire
  <2>2. UNCHANGED byHand
    BY <1>2, <1>27 DEF ResolveFails
  <2> QED BY <1>3, <1>4, <2>1, <2>2
<1>28. ASSUME Recheck(a) PROVE Moved(a) /\ Touches(a)
  <2>1. UNCHANGED <<docker, row, limbo, byHand>>
    BY <1>28 DEF Recheck, wire, spent
  <2>2. CASE Ended(a)
    BY <1>3, <1>4, <2>1, <2>2
  <2>3. CASE \/ at[a] = "recheckN" /\ ConvergedOnN(a) /\ Go(a, "recordN") /\ UNCHANGED disk
             \/ /\ at[a] = "recheckBack" /\ Exists(plan[a].n) /\ cname[plan[a].n] = Canonical
                /\ Go(a, "recordBack") /\ UNCHANGED disk
             \/ /\ at[a] = "recheckUndo" /\ Exists(plan[a].o) /\ cname[plan[a].o] = Canonical
                /\ Go(a, "recordUndo") /\ UNCHANGED disk
    BY <1>6, <2>1, <2>3 DEF PassGoesOn, disk, DockerBy
  <2> QED BY <1>0, <1>28, <2>2, <2>3, EndFacts DEF Recheck, MoveOn
<1> QED BY <1>11, <1>12, <1>13, <1>14, <1>15, <1>16, <1>17, <1>18, <1>19, <1>20, <1>21, <1>22, <1>23,
           <1>24, <1>25, <1>26, <1>27, <1>28 DEF Inner

-----------------------------------------------------------------------------
(* On which side of the commit each point stands.                           *)

OnOld == {"begin", "cas"} \cup BeforeCommit
           \cup {"stopN", "removeN", "nameO", "unmarkO", "recordO", "parkO", "nameN", "recheckUndo", "recordUndo"}
OnNew == AfterCommit \cup ToNPoints \cup {"recordN", "parkN", "nameBack", "recheckBack", "recordBack"}
Forward  == {"prepare", "create", "furnish", "startN", "ready"} \cup AfterCommit \cup ToOPoints
              \cup ToNPoints \cup {"recordO", "recordN"}
Backward == ReversePoints \cup {"recordBack", "recordUndo"}

Stands(a) ==
  /\ at[a] \in OnOld => cid = plan[a].o
  /\ at[a] \in OnNew => cid = plan[a].n
  /\ at[a] \in Forward => ~plan[a].reverse
  /\ at[a] \in Backward => plan[a].reverse

\* The two ends of attempt a's swap: O is older than a, and N is the
\* container a makes, or an older one that a reverse attempt brings back.
Ends(a, o, n, v) ==
  /\ o \in Containers /\ n \in Containers /\ o # n
  /\ o <= a /\ n <= a + 1 /\ (v <=> n # a + 1)

Sides ==
  /\ gone => GateOpen(rec) /\ \A a \in Attempts : at[a] = "off"
  /\ ~gone => cid \in Containers
  /\ cid <= rec.att + 1 /\ rec.retained <= rec.att + 1
  /\ \A a \in Attempts : Stands(a)
  /\ \A a \in Attempts : at[a] = "begin" => Ends(a, plan[a].o, plan[a].n, plan[a].reverse)
  /\ Unresolved => cid \in {rec.old, rec.new} /\ Ends(rec.att, rec.old, rec.new, rec.reverse)

\* An inner step takes its attempt to a point of the side it is on.
LEMMA StandsNext ==
  ASSUME TypeOK, Control, Sides, NEW a \in Attempts, Inner(a)
  PROVE  Stands(a)'
<1>0. /\ plan' = plan /\ Stands(a) /\ Moved(a) /\ cid \in {plan[a].o, plan[a].n} /\ plan[a].o # plan[a].n
  <2>1. at[a] \notin {"off", "begin"} /\ plan' = plan
    BY InnerShift DEF Shift, Keeps, Others
  <2>2. rec.att = a /\ Unresolved /\ Agrees(a)
    BY <2>1, Alone
  <2> QED BY <2>1, <2>2, InnerMoves DEF Sides, Agrees, Ends
<1>1. CASE Stays(a)
  BY <1>0, <1>1 DEF Stays, Stands, row
<1>2. CASE Falls(a)
  <2>1. {"settle", "stuck", "off", "read"} \cap (OnOld \cup OnNew \cup Forward \cup Backward) = {}
    BY DEF OnOld, OnNew, Forward, Backward, BeforeCommit, AfterCommit, ToOPoints, ToNPoints, ReversePoints
  <2> QED BY <1>2, <2>1 DEF Falls, Stands
<1>3. CASE MainGoesOn(a)
  <2> USE DEF OnOld, OnNew, Forward, Backward, BeforeCommit, AfterCommit, ToOPoints, ToNPoints, ReversePoints
  <2>1. ASSUME UNCHANGED row,
               \/ at[a] = "prepare" /\ at'[a] = "create"
               \/ at[a] \in {"create", "renameO", "renameN", "startN"} /\ at'[a] = NextMain(a)
               \/ at[a] = "furnish" /\ at'[a] = "renameO"
               \/ at[a] = "ready" /\ at'[a] = "cas"
        PROVE  Stands(a)'
    <3>1. at'[a] \in {"create", "furnish", "renameO", "renameN", "cas", "startN", "ready"}
      BY <2>1 DEF NextMain
    <3>2. at'[a] \in {"create", "furnish", "startN", "ready"} => ~plan[a].reverse
      BY <1>0, <2>1 DEF NextMain, Stands
    <3>3. at[a] \in OnOld
      BY <2>1
    <3> QED BY <1>0, <2>1, <3>1, <3>2, <3>3 DEF Stands, row
  <2>3. ASSUME UNCHANGED row,
               \/ at[a] = "unmark" /\ at'[a] \in {"check", "removeO"}
               \/ at[a] = "removeO" /\ at'[a] = "check"
               \/ at[a] = "check" /\ at'[a] = "recordN"
        PROVE  Stands(a)'
    BY <1>0, <2>3 DEF Stands, row
  <2>2. CASE at[a] = "cas" /\ at'[a] = "unmark" /\ ~plan[a].reverse /\ CommitEffect(a)
    BY <1>0, <2>2 DEF Stands, CommitEffect
  <2> QED BY <1>3, <2>1, <2>2, <2>3 DEF MainGoesOn
<1>4. CASE PassGoesOn(a)
  <2>1. UNCHANGED row
    BY <1>4 DEF PassGoesOn
  <2>2. CASE at[a] = "read" /\ at'[a] = FirstAct(a)
    BY <1>0, <2>1, <2>2 DEF Stands, row, FirstAct, AfterN, OnOld, OnNew, Forward, Backward, BeforeCommit,
       AfterCommit, ToOPoints, ToNPoints, ReversePoints
  <2>3. ASSUME NEW ok, at[a] \in PassPoints \cap RequestPoints, at'[a] = NextPass(a, ok) PROVE Stands(a)'
    BY <1>0, <2>1, <2>3 DEF Stands, row, NextPass, AfterN, OnOld, OnNew, Forward, Backward, BeforeCommit,
       AfterCommit, ToOPoints, ToNPoints, ReversePoints, PassPoints, RecordPoints, RequestPoints
  <2>4. CASE \/ at[a] = "unmarkO" /\ at'[a] = "recordO"
             \/ at[a] = "convergeN" /\ at'[a] = "recheckN"
             \/ at[a] = "recheckN" /\ at'[a] = "recordN"
             \/ at[a] = "recheckBack" /\ at'[a] = "recordBack"
             \/ at[a] = "recheckUndo" /\ at'[a] = "recordUndo"
    BY <1>0, <2>1, <2>4 DEF Stands, row, OnOld, OnNew, Forward, Backward, BeforeCommit,
       AfterCommit, ToOPoints, ToNPoints, ReversePoints
  <2> QED BY <1>4, <2>2, <2>3, <2>4 DEF PassGoesOn
<1> QED BY <1>0, <1>1, <1>2, <1>3, <1>4 DEF Moved

\* An attempt that is off, settling or stuck expects nothing of the containers.
LEMMA OffStands == \A a : at[a] \in {"off", "settle", "stuck", "read"} => Stands(a)
BY DEF Stands, OnOld, OnNew, Forward, Backward, BeforeCommit, AfterCommit, ToOPoints, ToNPoints, ReversePoints

\* An inner step keeps the sides.
LEMMA SidesInner ==
  ASSUME TypeOK, Control, Sides, Control', NEW a \in Attempts, Inner(a)
  PROVE  Sides'
<1>1. /\ at[a] \notin {"off", "begin"} /\ plan' = plan /\ at'[a] # "begin" /\ Softly
      /\ \A b \in Attempts \ {a} : at'[b] = at[b]
  BY InnerShift DEF Shift, Keeps, Others
<1>2. /\ rec.att = a /\ Unresolved /\ Agrees(a) /\ ~gone
      /\ \A b \in Attempts \ {a} : at[b] = "off"
  BY <1>1, Alone DEF Sides
<1>3. /\ rec'.att = rec.att /\ rec'.old = rec.old /\ rec'.new = rec.new /\ rec'.reverse = rec.reverse
      /\ rec'.retained = rec.retained /\ Unresolved'
  BY <1>1, <1>2, SoftFacts DEF Unresolved
<1>4. ~gone' /\ cid' \in {rec.old, rec.new}
  BY <1>2, InnerMoves DEF Touches, row, CommitEffect, Sides, Agrees
<1>5. \A b \in Attempts : Stands(b)'
  <2>1. \A b \in Attempts \ {a} : at'[b] = "off"
    BY <1>1, <1>2
  <2>2. \A b \in Attempts \ {a} : Stands(b)'
    BY <2>1 DEF Stands, OnOld, OnNew, Forward, Backward, BeforeCommit, AfterCommit, ToOPoints, ToNPoints, ReversePoints
  <2> QED BY <2>2, StandsNext
<1>6. Ends(rec.att, rec.old, rec.new, rec.reverse)
  BY <1>2 DEF Sides
<1>7. cid' \in Containers /\ cid' <= rec'.att + 1
  BY <1>2, <1>3, <1>4, <1>6, NumberFacts DEF Ends, Containers
<1>8. rec'.retained <= rec'.att + 1
  BY <1>3 DEF Sides
<1>9. \A b \in Attempts : at'[b] # "begin"
  BY <1>1, <1>2
<1> QED BY <1>3, <1>4, <1>5, <1>6, <1>7, <1>8, <1>9 DEF Sides

\* With the lock free and the gate open, or with something left by the dead,
\* no attempt is under way.
LEMMA Idle ==
  ASSUME TypeOK, Control, lock = 0 \/ lock = Admin, GateOpen(rec)
  PROVE  \A b \in Attempts : at[b] = "off" /\ ~limbo[b] /\ late[b] = NoOp
<1>1. \A b \in Attempts : b # 0 /\ b # Admin
  BY NumberFacts DEF Attempts
<1>2. \A b \in Attempts : at[b] \in {"off", "begin"} /\ ~limbo[b]
  BY DEF Control, RecordIsIts, Unresolved
<1>3. \A b \in Attempts : at[b] = "off"
  BY <1>1, <1>2 DEF Control, LockHeld, MainPoints
<1> QED BY <1>2, <1>3 DEF Control, WireOrder

\* A limbo's attempt is alone too.
LEMMA LimboAlone ==
  ASSUME TypeOK, Control, NEW a \in Attempts, limbo[a]
  PROVE  /\ rec.att = a /\ Unresolved /\ Agrees(a) /\ zombies = {} /\ adm = "none"
         /\ at[a] \in {"settle", "off"} /\ late[a] = NoOp
         /\ \A b \in Attempts \ {a} : at[b] = "off" /\ ~limbo[b] /\ late[b] = NoOp
<1>1. rec.att = a /\ Unresolved /\ Agrees(a)
  BY DEF Control, RecordIsIts
<1>2. zombies = {} /\ adm = "none" /\ at[a] \in {"settle", "off"} /\ late[a] = NoOp
  BY <1>1 DEF Control, WireOrder, LockHeld, Unresolved
<1>3. \A b \in Attempts \ {a} : at[b] = "off" /\ ~limbo[b]
  BY <1>1 DEF Control, RecordIsIts, Unresolved
<1> QED BY <1>1, <1>2, <1>3 DEF Control, WireOrder

\* Admission of an attempt (evaluate, and the rollback to the retained one).
LEMMA SidesAdmit ==
  ASSUME TypeOK, Control, Sides, NEW a \in Attempts,
         Recreate(a, FALSE) \/ Recreate(a, TRUE) \/ RollbackToRetained(a)
  PROVE  Sides'
<1>1. /\ ~gone /\ lock = 0 /\ a = started + 1 /\ GateOpen(rec) /\ UNCHANGED <<row, disk>>
      /\ at' = [at EXCEPT ![a] = "begin"]
      /\ \/ plan' = [plan EXCEPT ![a] = PlanOf(cid, a + 1, FALSE, FALSE)]
         \/ plan' = [plan EXCEPT ![a] = PlanOf(cid, a + 1, TRUE, FALSE)]
         \/ /\ plan' = [plan EXCEPT ![a] = PlanOf(cid, rec.retained, FALSE, TRUE)]
            /\ rec.retained # 0 /\ cid # rec.retained
  BY DEF Recreate, RollbackToRetained, Admit, NewOf
<1>2. \A b \in Attempts : at[b] = "off"
  BY <1>1, Idle
<1>3. /\ cid \in Nat /\ rec.retained \in Nat /\ rec.att \in Nat /\ started \in Nat
      /\ rec.att <= started /\ cid \in Containers
  BY <1>1 DEF TypeOK, RowOK, DiskOK, ProcOK, Records, Control, RecordIsIts, Sides
<1>4. cid <= a /\ rec.retained <= a /\ a <= MaxAttempts
  BY <1>1, <1>3, NumberFacts DEF Sides, Attempts
<1>5. /\ plan'[a].o = cid
      /\ \/ plan'[a].n = a + 1 /\ ~plan'[a].reverse
         \/ plan'[a].n = rec.retained /\ plan'[a].reverse /\ rec.retained # 0 /\ cid # rec.retained
  <2>1. PICK n, c, v : /\ plan' = [plan EXCEPT ![a] = PlanOf(cid, n, c, v)]
                       /\ \/ n = a + 1 /\ v = FALSE
                          \/ n = rec.retained /\ v = TRUE /\ rec.retained # 0 /\ cid # rec.retained
    BY <1>1
  <2>2. plan'[a] = PlanOf(cid, n, c, v)
    BY <2>1 DEF TypeOK, EngineOK
  <2>3. plan'[a].o = cid /\ plan'[a].n = n /\ plan'[a].reverse = v
    BY <2>2 DEF PlanOf, NoPlan
  <2> QED BY <2>1, <2>3
<1>6. Ends(a, plan'[a].o, plan'[a].n, plan'[a].reverse)
  BY <1>3, <1>4, <1>5, NumberFacts DEF Ends, Containers
<1>7. at'[a] = "begin" /\ \A b \in Attempts \ {a} : at'[b] = "off"
  BY <1>1, <1>2 DEF TypeOK, EngineOK
<1>8. \A b \in Attempts : Stands(b)'
  BY <1>1, <1>5, <1>7 DEF Stands, OnOld, OnNew, Forward, Backward, BeforeCommit, AfterCommit, ToOPoints, ToNPoints,
     ReversePoints, row
<1> QED BY <1>1, <1>6, <1>7, <1>8 DEF Sides, Unresolved, row, disk

\* Its record being written (begin).
LEMMA SidesBegin ==
  ASSUME TypeOK, Control, Sides, NEW a \in Attempts, BeginNotNow(a) \/ Begin(a) \/ BeginFails(a)
  PROVE  Sides'
<1>1. at[a] = "begin" /\ UNCHANGED row
  BY DEF BeginNotNow, Begin, BeginFails
<1>2. /\ GateOpen(rec) /\ rec.att < a /\ ~gone /\ cid = plan[a].o
      /\ \A b \in Attempts \ {a} : at[b] = "off"
      /\ Ends(a, plan[a].o, plan[a].n, plan[a].reverse)
  BY <1>1, Alone DEF Control, RecordIsIts, Sides, Stands, OnOld
<1>3. \A b \in Attempts \ {a} : at'[b] = "off"
  BY <1>2 DEF BeginNotNow, Begin, BeginFails, Leave, TypeOK, EngineOK
<1>4. \A b \in Attempts \ {a} : Stands(b)'
  BY <1>3 DEF Stands, OnOld, OnNew, Forward, Backward, BeforeCommit, AfterCommit, ToOPoints, ToNPoints, ReversePoints
<1>5. ASSUME rec' = rec, at'[a] = "off" PROVE Sides'
  <2>1. Stands(a)'
    BY <1>5 DEF Stands, OnOld, OnNew, Forward, Backward, BeforeCommit, AfterCommit, ToOPoints, ToNPoints, ReversePoints
  <2> QED BY <1>1, <1>2, <1>3, <1>4, <1>5, <2>1 DEF Sides, Unresolved, row
<1>6. CASE BeginNotNow(a)
  BY <1>5, <1>6 DEF BeginNotNow, Leave, disk, TypeOK, EngineOK
<1>7. CASE BeginFails(a)
  BY <1>5, <1>7 DEF BeginFails, Control, Calm, TypeOK, EngineOK
<1>8. CASE Begin(a)
  <2>1. /\ rec'.att = a /\ rec'.old = plan[a].o /\ rec'.new = plan[a].n /\ rec'.reverse = plan[a].reverse
        /\ rec'.retained = 0
    BY <1>8 DEF Begin, NewRecord, BeginRec, NoRecord
  <2>2. /\ plan'[a].o = plan[a].o /\ plan'[a].n = plan[a].n /\ plan'[a].reverse = plan[a].reverse
    BY <1>8 DEF Begin, TypeOK, EngineOK, Plans
  <2>3. \/ at'[a] = "off"
        \/ at'[a] = "prepare" /\ ~plan[a].reverse
        \/ at'[a] = "renameO"
    BY <1>8 DEF Begin, TypeOK, EngineOK
  <2>4. Stands(a)'
    BY <1>1, <1>2, <2>2, <2>3 DEF Stands, row, OnOld, OnNew, Forward, Backward, BeforeCommit, AfterCommit, ToOPoints,
       ToNPoints, ReversePoints
  <2>5. cid' <= rec'.att + 1 /\ rec'.retained <= rec'.att + 1 /\ cid' \in Containers
    BY <1>1, <1>2, <2>1, NumberFacts DEF Ends, row, Containers
  <2>6. at'[a] # "begin" /\ ~gone'
    BY <1>1, <1>2, <2>3 DEF row
  <2> QED BY <1>1, <1>2, <1>3, <1>4, <2>1, <2>4, <2>5, <2>6 DEF Sides, row
<1> QED BY <1>6, <1>7, <1>8

\* The statement left in limbo moves D1 to the other end, or not.
LEMMA SidesLate ==
  ASSUME TypeOK, Control, Sides, NEW a \in Attempts, LateAnswer(a) \/ LimboEnds(a)
  PROVE  Sides'
<1>1. UNCHANGED <<disk, plan, at>>
  BY DEF LateAnswer, LimboEnds, engine
<1>2. CASE UNCHANGED row
  BY <1>1, <1>2 DEF Sides, Stands, Unresolved, disk, row
<1>3. CASE limbo[a] /\ CommitEffect(a)
  <2>1. /\ rec.att = a /\ Unresolved /\ Agrees(a) /\ at[a] \in {"settle", "off"}
        /\ \A b \in Attempts \ {a} : at[b] = "off"
    BY <1>3, LimboAlone
  <2>2. cid' = rec.new /\ UNCHANGED gone /\ ~gone
    BY <1>3, <2>1 DEF CommitEffect, Agrees, Sides, Unresolved
  <2>3. \A b \in Attempts : Stands(b)'
    BY <1>1, <2>1 DEF Stands, OnOld, OnNew, Forward, Backward, BeforeCommit, AfterCommit, ToOPoints, ToNPoints,
       ReversePoints
  <2>4. \A b \in Attempts : at'[b] # "begin"
    BY <1>1, <2>1
  <2> QED BY <1>1, <2>1, <2>2, <2>3, <2>4, NumberFacts DEF Sides, Ends, Unresolved, disk
<1> QED BY <1>2, <1>3 DEF LateAnswer, LimboEnds

\* A resolution (complete).
LEMMA SidesResolve ==
  ASSUME TypeOK, Control, Sides, NEW a \in Attempts, Resolve(a)
  PROVE  Sides'
<1>1. /\ at[a] \in RecordPoints /\ rec' = ResolvedRec(rec, OutcomeAt(a), RetainedAt(a), RoleAt(a))
      /\ at' = [at EXCEPT ![a] = "off"] /\ UNCHANGED <<row, plan>>
  BY DEF Resolve
<1>2. /\ rec.att = a /\ Unresolved /\ Agrees(a) /\ ~gone
      /\ \A b \in Attempts \ {a} : at[b] = "off"
  <2>1. at[a] \notin {"off", "begin"}
    BY <1>1 DEF RecordPoints
  <2> QED BY <2>1, Alone DEF Sides
<1>3. \A b \in Attempts : at'[b] = "off"
  BY <1>1, <1>2 DEF TypeOK, EngineOK
<1>4. RetainedAt(a) \in {rec.old, rec.new, 0}
  BY <1>2 DEF RetainedAt, Agrees
<1>5. GateOpen(rec') /\ rec'.att = a /\ rec'.retained \in {rec.old, rec.new, rec.retained}
  BY <1>1, <1>2, <1>4 DEF ResolvedRec, GateOpen, TypeOK, DiskOK, Records
<1>6. rec'.retained <= rec'.att + 1
  BY <1>2, <1>5, NumberFacts DEF Sides, Ends, Containers
<1>7. \A b \in Attempts : Stands(b)'
  BY <1>3 DEF Stands, OnOld, OnNew, Forward, Backward, BeforeCommit, AfterCommit, ToOPoints, ToNPoints, ReversePoints
<1> QED BY <1>1, <1>2, <1>3, <1>5, <1>6, <1>7 DEF Sides, Unresolved, row

\* An operator's recovery.
LEMMA SidesRecover ==
  ASSUME TypeOK, Control, Sides, NEW a \in Attempts, Recover(a)
  PROVE  Sides'
<1>1. /\ rec' = AdoptedRec(rec) /\ rec.att = a /\ Unresolved /\ ~gone
      /\ at' = [at EXCEPT ![a] = "read"] /\ UNCHANGED row /\ \A b \in Attempts : at[b] = "off"
  BY DEF Recover, Control, Calm, MayAdopt, Unresolved, GateOpen
<1>2. /\ rec'.att = rec.att /\ rec'.old = rec.old /\ rec'.new = rec.new /\ rec'.reverse = rec.reverse
      /\ rec'.retained = rec.retained
  BY <1>1 DEF AdoptedRec, TypeOK, DiskOK, Records
<1>3. \A b \in Attempts : at'[b] \in {"off", "read"}
  BY <1>1 DEF TypeOK, EngineOK
<1>4. \A b \in Attempts : Stands(b)'
  BY <1>3 DEF Stands, OnOld, OnNew, Forward, Backward, BeforeCommit, AfterCommit, ToOPoints, ToNPoints, ReversePoints
<1> QED BY <1>1, <1>2, <1>3, <1>4 DEF Sides, row

\* Everything that is not a step of an attempt.
LEMMA SidesElsewhere ==
  ASSUME TypeOK, Control, Sides,
         \/ Approve \/ ApproveRemove \/ ApproveRecord
         \/ Start \/ Stop \/ Purge \/ Disable \/ Shutdown \/ ZombieEnds
         \/ \E c \in Containers : StartByHand(c) \/ ExitsByItself(c)
         \/ Crash \/ Boot
  PROVE  Sides'
<1>1. CASE Approve \/ Start \/ Stop \/ Disable \/ Shutdown \/ ZombieEnds
           \/ \E c \in Containers : StartByHand(c) \/ ExitsByItself(c)
  <2>1. UNCHANGED <<cid, gone, rec, plan, at>>
    BY <1>1 DEF Approve, Start, Stop, Disable, Shutdown, ZombieEnds, StartByHand, ExitsByItself, row, disk, engine
  <2> QED BY <2>1 DEF Sides, Stands, Unresolved
<1>2. CASE ApproveRemove \/ ApproveRecord
  <2>1. /\ UNCHANGED <<cid, gone, plan, at>> /\ adm # "none"
        /\ rec' = rec \/ rec' = ApprovedRec(rec)
    BY <1>2 DEF ApproveRemove, ApproveRecord, row, disk
  <2>2. GateOpen(rec) /\ lock = Admin
    BY <2>1 DEF Control, LockHeld
  <2>3. \A b \in Attempts : at[b] = "off"
    BY <2>2, Idle
  <2>4. rec'.att = rec.att /\ GateOpen(rec') /\ rec'.retained <= rec'.att + 1
    <3>1. rec.att \in Nat /\ rec.retained <= rec.att + 1
      BY NumberFacts DEF TypeOK, DiskOK, Records, Sides
    <3>2. CASE rec' = ApprovedRec(rec)
      <4>1. rec'.att = rec.att /\ rec'.st = rec.st /\ rec'.retained = 0
        BY <3>2 DEF ApprovedRec, TypeOK, DiskOK, Records
      <4> QED BY <2>2, <3>1, <4>1 DEF GateOpen
    <3> QED BY <2>1, <2>2, <3>1, <3>2
  <2> QED BY <2>1, <2>3, <2>4 DEF Sides, Stands, Unresolved
<1>3. CASE Purge
  <2>1. cid' = 0 /\ gone' /\ rec' = NoRecord /\ UNCHANGED <<plan, at>> /\ lock = 0 /\ GateOpen(rec)
    BY <1>3 DEF Purge, Gate, engine
  <2>2. \A b \in Attempts : at'[b] = "off"
    BY <2>1, Idle
  <2>3. rec'.att = 0 /\ rec'.retained = 0 /\ GateOpen(rec')
    BY <2>1 DEF NoRecord, GateOpen
  <2>4. \A b \in Attempts : Stands(b)'
    BY <2>2 DEF Stands, OnOld, OnNew, Forward, Backward, BeforeCommit, AfterCommit, ToOPoints, ToNPoints, ReversePoints
  <2> QED BY <2>1, <2>2, <2>3, <2>4 DEF Sides, Unresolved
<1>4. CASE Crash \/ Boot
  <2>1. UNCHANGED <<cid, gone, plan>> /\ \A b \in Attempts : at'[b] = "off"
    BY <1>4 DEF Crash, Boot, row, engine, Control, LockHeld
  <2>2. /\ rec'.att = rec.att /\ rec'.old = rec.old /\ rec'.new = rec.new /\ rec'.reverse = rec.reverse
        /\ rec'.retained = rec.retained /\ (GateOpen(rec') <=> GateOpen(rec))
    BY <1>4 DEF Crash, Boot, disk, OrphanedRec, TypeOK, DiskOK, Records, GateOpen, NeedsOrphaning
  <2>3. \A b \in Attempts : Stands(b)'
    BY <2>1 DEF Stands, OnOld, OnNew, Forward, Backward, BeforeCommit, AfterCommit, ToOPoints, ToNPoints, ReversePoints
  <2> QED BY <2>1, <2>2, <2>3 DEF Sides, Unresolved
<1> QED BY <1>1, <1>2, <1>3, <1>4

\* Every step keeps Sides.
LEMMA SidesNext == TypeOK /\ Control /\ Sides /\ [Next]_vars => Sides'
<1> SUFFICES ASSUME TypeOK, Control, Sides, [Next]_vars PROVE Sides'
  OBVIOUS
<1>1. Control'
  BY ControlNext
<1>2. CASE UNCHANGED vars
  BY <1>2 DEF vars, row, disk, engine, Sides, Stands, Unresolved
<1> QED BY <1>1, <1>2, Steps, SidesAdmit, SidesBegin, SidesInner, SidesLate, SidesResolve, SidesRecover,
           SidesElsewhere

\* Sides holds at first.
LEMMA SidesInit == Init => Sides
<1> SUFFICES ASSUME Init PROVE Sides
  OBVIOUS
<1>1. \A a \in Attempts : at[a] = "off"
  BY DEF Init
<1>2. rec.att = 0 /\ rec.retained = 0 /\ GateOpen(rec) /\ cid = 1 /\ ~gone
  BY DEF Init, NoRecord, GateOpen
<1>3. 1 \in Containers
  BY NumberFacts DEF Containers
<1> QED BY <1>1, <1>2, <1>3, OffStands DEF Sides, Unresolved

-----------------------------------------------------------------------------
(* What the boot pass may sweep: containers of attempts that were rolled    *)
(* back. None that D1 names, or that an unresolved record may still make    *)
(* D1 name, or that can be brought back, is one.                            *)

Keep(c) == c > 1 => OutcomeOf(c - 1) # "rolled-back"

Kept ==
  /\ \A b \in Attempts : b >= rec.att => hist[b] = "none"
  /\ ~gone => Keep(cid)
  /\ rec.role = "O" => Keep(rec.retained)
  /\ Unresolved => Keep(rec.old) /\ Keep(rec.new)
  /\ \A a \in Attempts : at[a] = "begin" /\ plan[a].reverse => Keep(plan[a].n)

\* With the same history and the same outcome, the same containers are kept.
LEMMA SameOutcomes ==
  ASSUME hist' = hist, rec'.att = rec.att,
         rec'.st = "resolved" <=> rec.st = "resolved",
         rec.st = "resolved" => rec'.out = rec.out
  PROVE  \A c : Keep(c)' <=> Keep(c)
BY DEF Keep, OutcomeOf

\* A soft step keeps the same containers.
LEMMA SoftOutcomes ==
  ASSUME TypeOK, Softly, hist' = hist
  PROVE  \A c : Keep(c)' <=> Keep(c)
<1>1. /\ rec'.att = rec.att /\ (rec'.st = "resolved" <=> rec.st = "resolved")
      /\ rec.st = "resolved" => rec'.out = rec.out
  BY DEF Softly, UncertainRec, TypeOK, DiskOK, Records
<1> QED BY <1>1, SameOutcomes

\* Steps under the lock keep what was promised to be kept.
LEMMA KeptInner ==
  ASSUME TypeOK, Control, Sides, Kept, NEW a \in Attempts, Inner(a)
  PROVE  Kept'
<1>1. /\ at[a] \notin {"off", "begin"} /\ plan' = plan /\ at'[a] # "begin" /\ Softly /\ hist' = hist
      /\ \A b \in Attempts \ {a} : at'[b] = at[b]
  BY InnerShift DEF Shift, Keeps, Others
<1>2. /\ Unresolved /\ Agrees(a) /\ \A b \in Attempts \ {a} : at[b] = "off"
  BY <1>1, Alone
<1>3. /\ rec'.att = rec.att /\ rec'.old = rec.old /\ rec'.new = rec.new
      /\ rec'.retained = rec.retained /\ rec'.role = rec.role
  BY <1>1, SoftFacts
<1>4. cid' \in {rec.old, rec.new}
  BY <1>2, InnerMoves DEF Touches, row, CommitEffect, Sides, Agrees
<1>5. \A c : Keep(c)' <=> Keep(c)
  BY <1>1, SoftOutcomes
<1>6. \A b \in Attempts : at'[b] # "begin"
  BY <1>1, <1>2
<1> QED BY <1>1, <1>2, <1>3, <1>4, <1>5, <1>6 DEF Kept

\* So does an attempt that begins.
LEMMA KeptBegin ==
  ASSUME TypeOK, Control, Sides, Kept, NEW a \in Attempts,
         \/ Recreate(a, FALSE) \/ Recreate(a, TRUE) \/ RollbackToRetained(a)
         \/ BeginNotNow(a) \/ Begin(a) \/ BeginFails(a)
  PROVE  Kept'
<1>1. CASE Recreate(a, FALSE) \/ Recreate(a, TRUE) \/ RollbackToRetained(a)
  <2>1. /\ lock = 0 /\ GateOpen(rec) /\ UNCHANGED <<row, disk>> /\ at' = [at EXCEPT ![a] = "begin"]
        /\ \/ \E v \in BOOLEAN : plan' = [plan EXCEPT ![a] = PlanOf(cid, a + 1, v, FALSE)]
           \/ /\ plan' = [plan EXCEPT ![a] = PlanOf(cid, rec.retained, FALSE, TRUE)]
              /\ rec.role = "O"
    BY <1>1 DEF Recreate, RollbackToRetained, Admit, NewOf
  <2>2. \A b \in Attempts \ {a} : at'[b] = "off"
    BY <2>1, Idle DEF TypeOK, EngineOK
  <2>3. plan'[a].reverse => plan'[a].n = rec.retained /\ rec.role = "O"
    <3>1. CASE \E v \in BOOLEAN : plan' = [plan EXCEPT ![a] = PlanOf(cid, a + 1, v, FALSE)]
      BY <3>1 DEF PlanOf, NoPlan, TypeOK, EngineOK
    <3>2. CASE plan' = [plan EXCEPT ![a] = PlanOf(cid, rec.retained, FALSE, TRUE)] /\ rec.role = "O"
      BY <3>2 DEF PlanOf, NoPlan, TypeOK, EngineOK
    <3> QED BY <2>1, <3>1, <3>2
  <2>4. \A c : Keep(c)' <=> Keep(c)
    BY <2>1, SameOutcomes DEF disk
  <2> QED BY <2>1, <2>2, <2>3, <2>4 DEF Kept, Unresolved, row, disk
<1>2. ASSUME at[a] = "begin", UNCHANGED row, hist' = hist, rec' = rec, at'[a] = "off",
             \A b \in Attempts \ {a} : at'[b] = at[b]
      PROVE  Kept'
  <2>1. \A b \in Attempts : at'[b] = "off"
    BY <1>2, Alone
  <2>2. \A c : Keep(c)' <=> Keep(c)
    BY <1>2, SameOutcomes
  <2> QED BY <1>2, <2>1, <2>2 DEF Kept, Unresolved, row
<1>3. CASE BeginNotNow(a)
  BY <1>2, <1>3 DEF BeginNotNow, Leave, disk, TypeOK, EngineOK
<1>4. CASE BeginFails(a)
  BY <1>2, <1>4 DEF BeginFails, Control, Calm, TypeOK, EngineOK
<1>5. CASE Begin(a)
  <2>1. /\ at[a] = "begin" /\ UNCHANGED row
        /\ hist' = IF rec.st = "resolved" THEN [hist EXCEPT ![rec.att] = rec.out] ELSE hist
    BY <1>5 DEF Begin
  <2>2. /\ GateOpen(rec) /\ rec.att < a /\ ~gone /\ cid = plan[a].o
        /\ Ends(a, plan[a].o, plan[a].n, plan[a].reverse)
        /\ \A b \in Attempts \ {a} : at[b] = "off"
    BY <2>1, Alone DEF Control, RecordIsIts, Sides, Stands, OnOld
  <2>3. /\ rec'.att = a /\ rec'.old = plan[a].o /\ rec'.new = plan[a].n /\ rec'.reverse = plan[a].reverse
        /\ rec'.role = "-" /\ rec'.st = "open"
    BY <1>5 DEF Begin, NewRecord, BeginRec, NoRecord
  <2>4. /\ \A b \in Attempts : b >= a => hist'[b] = "none"
        /\ \A b \in Attempts \ {a} : hist'[b] = OutcomeOf(b)
    <3>1. \A b \in Attempts : b >= a => b >= rec.att /\ b # rec.att
      BY <2>2, NumberFacts DEF TypeOK, DiskOK, Records
    <3> QED BY <2>1, <2>2, <3>1 DEF OutcomeOf, Kept, GateOpen, TypeOK, DiskOK
  <2>5. \A b \in Attempts : OutcomeOf(b)' = hist'[b]
    BY <2>3 DEF OutcomeOf
  <2>6. ASSUME NEW c \in Containers, c # a + 1, Keep(c) PROVE Keep(c)'
    <3>1. c > 1 => c - 1 \in Attempts \ {a}
      BY <2>6, NumberFacts DEF Containers, Attempts
    <3> QED BY <2>4, <2>5, <2>6, <3>1 DEF Keep
  <2>7. ASSUME NEW c \in Containers, c = a + 1 PROVE Keep(c)'
    <3>1. c - 1 = a /\ a >= a
      BY <2>7, NumberFacts
    <3> QED BY <2>4, <2>5, <3>1 DEF Keep
  <2>8. rec'.old # a + 1 /\ rec'.old \in Containers /\ rec'.new \in Containers /\ Keep(rec'.old)
    BY <2>2, <2>3, NumberFacts DEF Ends, Kept, Containers
  <2>9. rec'.new # a + 1 => Keep(rec'.new)
    BY <2>1, <2>2, <2>3 DEF Ends, Kept
  <2>10. at'[a] # "begin" /\ \A b \in Attempts \ {a} : at'[b] = "off"
    BY <1>5, <2>2 DEF Begin, TypeOK, EngineOK
  <2> QED BY <2>1, <2>2, <2>3, <2>4, <2>6, <2>7, <2>8, <2>9, <2>10 DEF Kept, row
<1> QED BY <1>1, <1>3, <1>4, <1>5

\* So does a resolution, whose outcome is what D1 and Docker showed.
LEMMA KeptResolve ==
  ASSUME TypeOK, Control, Sides, Kept, NEW a \in Attempts, Resolve(a)
  PROVE  Kept'
<1>1. /\ at[a] \in RecordPoints /\ rec' = ResolvedRec(rec, OutcomeAt(a), RetainedAt(a), RoleAt(a))
      /\ at' = [at EXCEPT ![a] = "off"] /\ UNCHANGED <<row, plan, hist>>
  BY DEF Resolve
<1>2. /\ rec.att = a /\ Unresolved /\ Agrees(a) /\ rec.retained = 0
      /\ \A b \in Attempts \ {a} : at[b] = "off"
      /\ Ends(a, rec.old, rec.new, rec.reverse) /\ Stands(a)
  <2>1. at[a] \notin {"off", "begin"}
    BY <1>1 DEF RecordPoints
  <2> QED BY <2>1, Alone DEF Sides, Control, RecordIsIts
<1>3. /\ rec'.att = a /\ rec'.st = "resolved" /\ rec'.out = OutcomeAt(a) /\ GateOpen(rec')
      /\ rec'.retained = IF RetainedAt(a) = 0 THEN 0 ELSE RetainedAt(a)
      /\ rec'.role = IF RetainedAt(a) = 0 THEN rec.role ELSE RoleAt(a)
  BY <1>1, <1>2 DEF ResolvedRec, GateOpen, TypeOK, DiskOK, Records
<1>4. ASSUME NEW c \in Containers, Keep(c), c # a + 1 \/ OutcomeAt(a) = "committed" PROVE Keep(c)'
  <2>1. c > 1 => c - 1 \in Attempts /\ (c - 1 = a => c = a + 1)
    BY NumberFacts DEF Containers, Attempts
  <2>2. CASE c > 1 /\ c - 1 = a
    BY <1>3, <1>4, <2>1, <2>2 DEF Keep, OutcomeOf
  <2>3. CASE c > 1 /\ c - 1 # a
    BY <1>1, <1>2, <1>3, <1>4, <2>3 DEF Keep, OutcomeOf
  <2> QED BY <2>2, <2>3 DEF Keep
<1>5. rec.old # a + 1
  BY <1>2, NumberFacts DEF Ends, Containers
<1>6. Keep(cid)'
  <2>1. CASE at[a] \in {"recordN", "recordBack"}
    <3>1. OutcomeAt(a) = "committed" /\ cid = rec.new
      BY <1>2, <2>1 DEF OutcomeAt, Stands, OnNew, Agrees
    <3> QED BY <1>1, <1>2, <1>4, <3>1 DEF Kept, Ends, row
  <2>2. CASE at[a] \in {"recordO", "recordUndo"}
    <3>1. cid = rec.old
      BY <1>2, <2>2 DEF Stands, OnOld, Agrees
    <3> QED BY <1>1, <1>2, <1>4, <1>5, <3>1 DEF Kept, Ends, row
  <2> QED BY <1>1, <2>1, <2>2 DEF RecordPoints
<1>7. rec'.role = "O" => Keep(rec.retained)'
  <2>1. CASE RetainedAt(a) = 0
    BY <1>3, <2>1 DEF Keep
  <2>2. CASE RetainedAt(a) # 0 /\ at[a] = "recordN"
    <3>1. RetainedAt(a) = rec.old
      BY <1>2, <2>2 DEF RetainedAt, Agrees
    <3> QED BY <1>2, <1>3, <1>4, <1>5, <2>2, <3>1 DEF Kept, Ends
  <2>3. CASE RetainedAt(a) # 0 /\ at[a] = "recordUndo"
    <3>1. RetainedAt(a) = rec.new /\ rec.reverse
      BY <1>2, <2>3 DEF RetainedAt, Agrees, Stands, Backward
    <3> QED BY <1>2, <1>3, <1>4, <2>3, <3>1 DEF Kept, Ends
  <2>4. CASE RetainedAt(a) # 0 /\ at[a] \in {"recordBack", "recordO"}
    BY <1>3, <2>4 DEF RoleAt, RetainedAt
  <2> QED BY <1>1, <2>1, <2>2, <2>3, <2>4 DEF RecordPoints
<1>8. \A b \in Attempts : at'[b] = "off"
  BY <1>1, <1>2 DEF TypeOK, EngineOK
<1> QED BY <1>1, <1>2, <1>3, <1>6, <1>7, <1>8 DEF Kept, Unresolved

\* And so does everything else.
LEMMA KeptOther ==
  ASSUME TypeOK, Control, Sides, Kept,
         \/ \E a \in Attempts : LateAnswer(a) \/ LimboEnds(a) \/ Recover(a)
         \/ Approve \/ ApproveRemove \/ ApproveRecord
         \/ Start \/ Stop \/ Purge \/ Disable \/ Shutdown \/ ZombieEnds
         \/ \E c \in Containers : StartByHand(c) \/ ExitsByItself(c)
         \/ Crash \/ Boot
  PROVE  Kept'
<1>1. ASSUME UNCHANGED <<cid, gone, rec, hist, plan, at>> PROVE Kept'
  <2>1. \A c : Keep(c)' <=> Keep(c)
    BY <1>1, SameOutcomes
  <2> QED BY <1>1, <2>1 DEF Kept, Unresolved
<1>2. CASE Approve \/ Start \/ Stop \/ Disable \/ Shutdown \/ ZombieEnds
           \/ \E c \in Containers : StartByHand(c) \/ ExitsByItself(c)
  BY <1>1, <1>2 DEF Approve, Start, Stop, Disable, Shutdown, ZombieEnds, StartByHand, ExitsByItself, row, disk, engine
<1>3. ASSUME NEW a \in Attempts, LateAnswer(a) PROVE Kept'
  BY <1>1, <1>3 DEF LateAnswer, row, disk
<1>4. ASSUME NEW a \in Attempts, LimboEnds(a) PROVE Kept'
  <2>1. limbo[a] /\ UNCHANGED <<disk, plan, at>>
    BY <1>4 DEF LimboEnds, engine
  <2>2. Unresolved /\ Agrees(a)
    BY <2>1, LimboAlone
  <2>3. cid' \in {cid, rec.new} /\ gone' = gone
    BY <1>4, <2>2 DEF LimboEnds, CommitEffect, Agrees, row
  <2>4. \A c : Keep(c)' <=> Keep(c)
    BY <2>1, SameOutcomes DEF disk
  <2> QED BY <2>1, <2>2, <2>3, <2>4 DEF Kept, Unresolved, disk
\* The steps that move the record on, or the engine off.
<1>5. ASSUME UNCHANGED <<cid, gone, hist>>, \A a \in Attempts : at'[a] # "begin",
             rec'.att = rec.att, rec'.old = rec.old, rec'.new = rec.new,
             rec'.role \in {rec.role, "-"}, rec'.role = rec.role => rec'.retained \in {0, rec.retained},
             GateOpen(rec') <=> GateOpen(rec), rec'.st = "resolved" <=> rec.st = "resolved",
             rec.st = "resolved" => rec'.out = rec.out
      PROVE  Kept'
  <2>1. \A c : Keep(c)' <=> Keep(c)
    BY <1>5, SameOutcomes
  <2>2. Keep(0)
    BY DEF Keep
  <2> QED BY <1>5, <2>1, <2>2 DEF Kept, Unresolved
<1>6. rec \in Records
  BY DEF TypeOK, DiskOK
<1>7. ASSUME NEW a \in Attempts, Recover(a) PROVE Kept'
  <2>1. /\ rec' = AdoptedRec(rec) /\ UNCHANGED <<row, hist>> /\ rec.st \in {"open", "uncertain"}
        /\ at' = [at EXCEPT ![a] = "read"] /\ \A b \in Attempts : at[b] = "off"
    BY <1>7 DEF Recover, Control, Calm, MayAdopt
  <2>2. \A b \in Attempts : at'[b] # "begin"
    BY <2>1 DEF TypeOK, EngineOK
  <2> QED BY <1>5, <1>6, <2>1, <2>2 DEF AdoptedRec, Records, GateOpen, row
<1>8. CASE ApproveRemove \/ ApproveRecord
  <2>1. /\ UNCHANGED <<cid, gone, plan, at, hist>> /\ adm # "none"
        /\ rec' = rec \/ rec' = ApprovedRec(rec)
    BY <1>8 DEF ApproveRemove, ApproveRecord, row, disk
  <2>2. \A b \in Attempts : at[b] = "off"
    BY <2>1, Idle DEF Control, LockHeld
  <2>3. CASE rec' = rec
    BY <1>1, <2>1, <2>3
  <2>4. CASE rec' = ApprovedRec(rec)
    BY <1>5, <1>6, <2>1, <2>2, <2>4 DEF ApprovedRec, Records, GateOpen
  <2> QED BY <2>1, <2>3, <2>4
<1>9. CASE Purge
  <2>1. /\ cid' = 0 /\ gone' /\ rec' = NoRecord /\ hist' = [a \in Attempts |-> "none"]
        /\ UNCHANGED <<plan, at>> /\ lock = 0 /\ GateOpen(rec)
    BY <1>9 DEF Purge, Gate, engine
  <2>2. \A b \in Attempts : at'[b] = "off"
    BY <2>1, Idle
  <2>3. rec'.role = "-" /\ GateOpen(rec')
    BY <2>1 DEF NoRecord, GateOpen
  <2> QED BY <2>1, <2>2, <2>3 DEF Kept, Unresolved
<1>10. CASE Crash
  BY <1>5, <1>10 DEF Crash, row, disk
<1>11. CASE Boot
  <2>1. /\ UNCHANGED <<row, hist, at>> /\ \A a \in Attempts : at[a] = "off"
        /\ rec' = rec \/ (~GateOpen(rec) /\ rec' = OrphanedRec(rec))
    BY <1>11 DEF Boot, engine, Control, LockHeld, NeedsOrphaning
  <2>2. CASE rec' = rec
    BY <1>5, <2>1, <2>2 DEF row
  <2>3. CASE ~GateOpen(rec) /\ rec' = OrphanedRec(rec)
    BY <1>5, <1>6, <2>1, <2>3 DEF row, OrphanedRec, Records, GateOpen
  <2> QED BY <2>1, <2>2, <2>3
<1> QED BY <1>2, <1>3, <1>4, <1>7, <1>8, <1>9, <1>10, <1>11

\* Every step keeps Kept.
LEMMA KeptNext == TypeOK /\ Control /\ Sides /\ Kept /\ [Next]_vars => Kept'
<1> SUFFICES ASSUME TypeOK, Control, Sides, Kept, [Next]_vars PROVE Kept'
  OBVIOUS
<1>1. CASE UNCHANGED vars
  BY <1>1 DEF vars, row, disk, engine, Kept, Keep, OutcomeOf, Unresolved
<1> QED BY <1>1, Steps, KeptInner, KeptBegin, KeptResolve, KeptOther

\* Kept holds at first.
LEMMA KeptInit == Init => Kept
<1> SUFFICES ASSUME Init PROVE Kept
  OBVIOUS
<1>1. GateOpen(rec) /\ rec.role = "-"
  BY DEF Init, NoRecord, GateOpen
<1> QED BY <1>1 DEF Init, Kept, Keep, Unresolved

-----------------------------------------------------------------------------
(* The container D1 names, and the one it may come to name, are there.      *)

\* What a request does, if anything.
LEMMA EffectFacts ==
  ASSUME TypeOK, NEW op, DockerBy(op)
  PROVE  \A c \in Containers :
           /\ Exists(c) /\ ~(op.kind = "remove" /\ op.c = c) => Exists(c)'
           /\ Exists(c)' => Exists(c) \/ (op.kind = "create" /\ op.c = c)
           /\ Running(c)' => Running(c) \/ (op.kind = "start" /\ op.c = c)
           /\ \/ cname'[c] = cname[c]
              \/ /\ op.kind \in {"create", "rename"} /\ op.c = c /\ cname'[c] = op.name
                 /\ \A d \in Containers : Exists(d) => cname[d] # op.name
                 /\ op.kind = "create" => ~Exists(c)
<1>1. CASE UNCHANGED docker
  BY <1>1 DEF docker, Exists, Running
<1>2. CASE Did(op)
  <2>1. /\ cst' = [cst EXCEPT ![op.c] = After(op.kind, @)]
        /\ cname' = IF op.kind \in {"create", "rename"} THEN [cname EXCEPT ![op.c] = op.name] ELSE cname
    BY <1>2 DEF Did, Effect
  <2>2. \A k, st : /\ st # "absent" /\ k # "remove" => After(k, st) # "absent"
                   /\ After(k, st) # "absent" => st # "absent" \/ k \in {"create", "start"}
                   /\ After(k, st) = "running" => st = "running" \/ k = "start"
    BY DEF After
  <2>5. op.kind = "start" => cst[op.c] # "absent"
    BY <1>2 DEF Did, Accepts
  <2>3. ASSUME NEW c \in Containers
        PROVE  /\ cst'[c] = IF c = op.c THEN After(op.kind, cst[c]) ELSE cst[c]
               /\ cname'[c] = IF c = op.c /\ op.kind \in {"create", "rename"} THEN op.name ELSE cname[c]
    BY <2>1 DEF TypeOK, DockerOK
  <2>4. ASSUME op.kind \in {"create", "rename"}
        PROVE  /\ \A d \in Containers : Exists(d) => cname[d] # op.name
               /\ op.kind = "create" => ~Exists(op.c)
    BY <1>2, <2>4 DEF Did, Accepts
  <2> QED BY <2>2, <2>3, <2>4, <2>5 DEF Exists, Running
<1> QED BY <1>1, <1>2 DEF DockerBy

\* and does, when it took effect.
LEMMA DidFacts ==
  ASSUME TypeOK, NEW op, Did(op), op.c \in Containers
  PROVE  /\ op.kind = "create" => Exists(op.c)'
         /\ op.kind = "remove" => ~Exists(op.c)'
         /\ op.kind = "stop" => ~Running(op.c)'
         /\ op.kind = "rename" => Exists(op.c)' /\ cname'[op.c] = op.name
<1>1. /\ cst'[op.c] = After(op.kind, cst[op.c])
      /\ op.kind \in {"create", "rename"} => cname'[op.c] = op.name
  BY DEF Did, Effect, TypeOK, DockerOK
<1>2. op.kind = "rename" => Exists(op.c)
  BY SMTT(30) DEF Did, Accepts
<1> QED BY <1>1, <1>2 DEF After, Exists, Running

\* The request of each point.
LEMMA RequestAt ==
  ASSUME NEW a
  PROVE  /\ OpAt(a).kind = "create" => at[a] = "create" /\ OpAt(a).c = plan[a].n
         /\ OpAt(a).kind = "start" => at[a] = "startN" /\ OpAt(a).c = plan[a].n
         /\ OpAt(a).kind = "remove" => \/ at[a] \in {"removeO", "dropO"} /\ OpAt(a).c = plan[a].o
                                       \/ at[a] = "removeN" /\ OpAt(a).c = plan[a].n
         /\ OpAt(a).kind = "rename" =>
              \/ at[a] \in {"renameO", "parkN"} /\ OpAt(a).c = plan[a].o /\ OpAt(a).name = OldName(a)
              \/ at[a] \in {"renameN", "nameBack"} /\ OpAt(a).c = plan[a].n /\ OpAt(a).name = Canonical
              \/ at[a] \in {"nameO", "nameN"} /\ OpAt(a).c = plan[a].o /\ OpAt(a).name = Canonical
              \/ at[a] = "parkO" /\ OpAt(a).c = plan[a].n /\ OpAt(a).name = UndoName(a)
         /\ OpAt(a) # NoOp => at[a] \in RequestPoints
BY DEF OpAt, Op, NoOp, RequestPoints

\* (and nothing is done where there is none)
LEMMA NoRequest ==
  ASSUME NEW op, op.kind = "none", DockerBy(op)
  PROVE  UNCHANGED docker
BY DEF DockerBy, Did, Accepts

NThere == {"furnish", "renameO", "renameN", "startN", "ready", "cas"}

Present ==
  /\ CurrentExists
  /\ \A a \in Attempts : at[a] \in NThere => Exists(plan[a].n)
  /\ \A a \in Attempts : at[a] = "begin" /\ plan[a].reverse => Exists(plan[a].n)
  /\ \A a \in Attempts : limbo[a] => Exists(rec.new)
  /\ \A op \in zombies : op.kind = "remove" => op.c # cid
  /\ \A a \in Attempts : late[a].kind = "remove" => late[a].c # cid
  /\ adm = "remove" => rec.retained # cid

\* The two ends, while a is under way.
LEMMA Pair ==
  ASSUME TypeOK, Control, Sides, NEW a \in Attempts, at[a] # "off"
  PROVE  /\ plan[a].o \in Containers /\ plan[a].n \in Containers /\ plan[a].o # plan[a].n
         /\ cid \in {plan[a].o, plan[a].n} /\ ~gone
         /\ at[a] # "begin" => rec.att = a /\ Unresolved /\ rec.old = plan[a].o /\ rec.new = plan[a].n
                               /\ rec.reverse = plan[a].reverse /\ rec.carry = plan[a].carry
         /\ \A b \in Attempts \ {a} : at[b] = "off" /\ ~limbo[b] /\ late[b] = NoOp
         /\ zombies = {} /\ adm = "none"
<1>1. CASE at[a] = "begin"
  BY <1>1, Alone DEF Sides, Ends, Stands, OnOld
<1>2. CASE at[a] # "begin"
  BY <1>2, Alone DEF Sides, Ends, Agrees
<1> QED BY <1>1, <1>2

\* No request of an attempt under way, late or not, removes the current one.
LEMMA NeverAimed ==
  ASSUME TypeOK, Control, Sides, NEW a \in Attempts, OpAt(a).kind = "remove"
  PROVE  OpAt(a).c # cid
<1>1. at[a] \in {"removeO", "dropO", "removeN"}
  BY RequestAt
<1>2. plan[a].o # plan[a].n
  BY <1>1, Pair
<1> QED BY <1>1, <1>2, RequestAt DEF Sides, Stands, OnOld, OnNew, AfterCommit, ToNPoints

\* An inner step leaves the containers that matter in place.
LEMMA PresentInner ==
  ASSUME TypeOK, Control, Sides, Present, NEW a \in Attempts, Inner(a)
  PROVE  Present' /\ \A c \in Containers : c = cid /\ Exists(c) => Exists(c)'
<1>1. /\ at[a] \notin {"off", "begin"} /\ plan' = plan /\ at'[a] # "begin" /\ Softly
      /\ UNCHANGED <<adm, zombies>>
      /\ \A b \in Attempts \ {a} : at'[b] = at[b] /\ late'[b] = late[b] /\ limbo'[b] = limbo[b]
  BY InnerShift DEF Shift, Keeps, Others
<1>2. /\ plan[a].o \in Containers /\ plan[a].n \in Containers /\ plan[a].o # plan[a].n
      /\ cid \in {plan[a].o, plan[a].n} /\ ~gone /\ rec.new = plan[a].n
      /\ \A b \in Attempts \ {a} : at[b] = "off" /\ ~limbo[b] /\ late[b] = NoOp
      /\ zombies = {} /\ adm = "none"
  BY <1>1, Pair
<1>3. rec'.new = rec.new
  BY <1>1, SoftFacts
<1>4. Touches(a) /\ Moved(a)
  BY InnerMoves
<1>5. \A c \in Containers : c = cid /\ Exists(c) => Exists(c)'
  BY <1>4, EffectFacts, NeverAimed DEF Touches
<1>6. CurrentExists'
  <2>1. CASE UNCHANGED row
    BY <1>2, <1>5, <2>1 DEF Present, CurrentExists, row
  <2>2. CASE at[a] = "cas" /\ CommitEffect(a) /\ UNCHANGED docker
    <3>1. Exists(plan[a].n) /\ cid' = plan[a].n
      BY <2>2 DEF Present, NThere, CommitEffect
    <3> QED BY <1>2, <2>2, <3>1 DEF CurrentExists, Exists, docker
  <2> QED BY <1>4, <2>1, <2>2 DEF Touches
<1>7. at'[a] \in NThere => Exists(plan[a].n)'
  <2>1. ASSUME at[a] \in NThere, at[a] # "furnish" \/ UNCHANGED docker PROVE Exists(plan[a].n)'
    <3>1. Exists(plan[a].n)
      BY <2>1 DEF Present
    <3>2. OpAt(a).kind # "remove"
      BY <2>1, RequestAt DEF NThere
    <3>3. \A c \in Containers : Exists(c) => Exists(c)'
      BY <1>4, <3>2, EffectFacts DEF Touches
    <3> QED BY <1>1, <1>2, <3>1, <3>3 DEF Exists
  <2>2. CASE Stays(a) \/ Falls(a) \/ PassGoesOn(a)
    <3>1. Stays(a) \/ at'[a] \notin NThere
      <4>1. \A ok : FirstAct(a) \notin NThere /\ NextPass(a, ok) \notin NThere
        BY DEF FirstAct, NextPass, AfterN, NThere
      <4> QED BY <2>2, <4>1 DEF Falls, PassGoesOn, NThere
    <3> QED BY <2>1, <3>1 DEF Stays
  <2>3. CASE MainGoesOn(a)
    <3>1. CASE at[a] = "create" /\ Did(OpAt(a))
      <4>1. OpAt(a).kind = "create" /\ OpAt(a).c = plan[a].n
        BY <3>1 DEF OpAt, Op
      <4>2. \A c \in Containers : c = OpAt(a).c => Exists(c)'
        BY <1>2, <3>1, <4>1, DidFacts
      <4> QED BY <1>1, <1>2, <4>1, <4>2 DEF Exists
    <3>2. CASE at[a] # "create"
      BY <2>1, <2>3, <3>2 DEF MainGoesOn, NThere, NextMain
    <3> QED BY <2>3, <3>1, <3>2 DEF MainGoesOn
  <2> QED BY <1>4, <2>2, <2>3 DEF Moved
<1>8. limbo'[a] => Exists(rec.new)'
  <2>1. CASE limbo[a]
    <3>1. at[a] = "settle"
      BY <1>1, <2>1 DEF Control, WireOrder
    <3>2. OpAt(a).kind # "remove"
      BY <3>1, RequestAt
    <3>3. \A c \in Containers : Exists(c) => Exists(c)'
      BY <1>4, <3>2, EffectFacts DEF Touches
    <3> QED BY <1>2, <1>3, <2>1, <3>3 DEF Present, Exists
  <2>2. CASE at[a] = "cas" /\ UNCHANGED docker
    BY <1>2, <1>3, <2>2 DEF Present, NThere, Exists, docker
  <2> QED BY <1>4, <2>1, <2>2 DEF Touches
<1>9. late'[a].kind = "remove" => late'[a].c # cid'
  <2>1. NoOp.kind # "remove"
    BY DEF NoOp
  <2>2. CASE late'[a] = OpAt(a) /\ UNCHANGED row
    BY <2>2, NeverAimed DEF row
  <2>3. CASE late'[a] = late[a] /\ late[a] # NoOp
    <3>1. at[a] = "settle"
      BY <2>3 DEF Control, WireOrder
    <3> QED BY <1>4, <2>3, <3>1 DEF Touches, Present, row
  <2> QED BY <1>4, <2>1, <2>2, <2>3 DEF Touches
<1>10. \A b \in Attempts \ {a} : at'[b] = "off" /\ ~limbo'[b] /\ late'[b] = NoOp
  BY <1>1, <1>2
<1>11. "off" \notin NThere /\ NoOp.kind # "remove"
  BY DEF NThere, NoOp
<1> QED BY <1>1, <1>2, <1>5, <1>6, <1>7, <1>8, <1>9, <1>10, <1>11 DEF Present

\* (current containers survive a step, but for the delete of the session)
Survives == \A c \in Containers : c = cid /\ Exists(c) => Exists(c)' \/ gone'

\* Steps that move nothing towards a container and take none away.
LEMMA PresentFrame ==
  ASSUME Present, UNCHANGED <<cid, gone, plan>>, \A c \in Containers : Exists(c) => Exists(c)',
         rec'.new = rec.new, rec'.retained = rec.retained,
         \A a \in Attempts : /\ at'[a] \in {at[a], "off"} /\ late'[a] \in {late[a], NoOp}
                             /\ limbo'[a] => limbo[a],
         zombies' \subseteq zombies, adm' \in {adm, "none"}
  PROVE  Present' /\ Survives
<1>1. NoOp.kind # "remove" /\ "off" \notin NThere
  BY DEF NoOp, NThere
<1>2. \A c : Exists(c) => Exists(c)'
  BY DEF Exists
<1>3. CurrentExists'
  BY <1>2 DEF Present, CurrentExists
<1>4. \A a \in Attempts : /\ at'[a] \in NThere => Exists(plan[a].n)'
                          /\ at'[a] = "begin" /\ plan'[a].reverse => Exists(plan[a].n)'
                          /\ limbo'[a] => Exists(rec.new)'
                          /\ late'[a].kind = "remove" => late'[a].c # cid'
  BY <1>1, <1>2 DEF Present, Exists
<1>5. /\ \A op \in zombies' : op.kind = "remove" => op.c # cid'
      /\ adm' = "remove" => rec'.retained # cid'
  BY DEF Present
<1> QED BY <1>2, <1>3, <1>4, <1>5 DEF Present, Survives, Exists

\* A request that lands after its T_rec removes nothing D1 names.
LEMMA PresentLate ==
  ASSUME TypeOK, Control, Sides, Present, NEW a \in Attempts, LateAnswer(a) \/ LimboEnds(a)
  PROVE  Present' /\ Survives
<1>1. NoOp.kind # "remove" /\ {"off", "settle"} \cap NThere = {}
  BY DEF NoOp, NThere
<1>2. CASE LateAnswer(a)
  <2>1. /\ late[a] # NoOp /\ DockerBy(late[a]) /\ UNCHANGED <<row, rec, plan, at, limbo, zombies, adm>>
        /\ late'[a] = NoOp /\ \A b \in Attempts \ {a} : late'[b] = late[b]
    BY <1>2, AnswerFacts DEF LateAnswer, TypeOK, EngineOK, disk, wire
  <2>2. at[a] = "settle" /\ ~limbo[a]
    BY <2>1 DEF Control, WireOrder
  <2>3. \A b \in Attempts \ {a} : at[b] = "off" /\ ~limbo[b] /\ late[b] = NoOp
    BY <2>2, Alone
  <2>4. zombies = {} /\ adm = "none" /\ ~gone
    BY <2>2, Pair
  <2>5. \A c \in Containers : c = cid /\ Exists(c) => Exists(c)'
    BY <2>1, EffectFacts DEF Present
  <2>6. CurrentExists'
    BY <2>1, <2>4, <2>5 DEF Present, CurrentExists, row, Exists
  <2> QED BY <1>1, <2>1, <2>2, <2>3, <2>4, <2>5, <2>6 DEF Present, Survives
<1>3. CASE LimboEnds(a)
  <2>1. /\ limbo[a] /\ UNCHANGED <<docker, rec, plan, at, late, zombies, adm>>
        /\ ~limbo'[a] /\ \A b \in Attempts \ {a} : limbo'[b] = limbo[b]
        /\ UNCHANGED row \/ (cid' = plan[a].n /\ gone' = gone)
    BY <1>3 DEF LimboEnds, TypeOK, WireOK, disk, engine, CommitEffect
  <2>2. /\ plan[a].n = rec.new /\ Exists(rec.new) /\ zombies = {} /\ adm = "none"
        /\ at[a] \in {"settle", "off"} /\ late[a] = NoOp
        /\ \A b \in Attempts \ {a} : at[b] = "off" /\ ~limbo[b] /\ late[b] = NoOp
    BY <2>1, LimboAlone DEF Present, Agrees
  <2>3. \A c : Exists(c)' <=> Exists(c)
    BY <2>1 DEF Exists, docker
  <2>4. CurrentExists'
    BY <2>1, <2>2, <2>3 DEF Present, CurrentExists, row, Exists, docker
  <2>5. at[a] # "begin" /\ at[a] \notin NThere
    BY <1>1, <2>2
  <2> QED BY <1>1, <2>1, <2>2, <2>3, <2>4, <2>5 DEF Present, Survives
<1> QED BY <1>2, <1>3

\* Nor does an attempt that begins.
LEMMA PresentBegin ==
  ASSUME TypeOK, Control, Sides, Present, NEW a \in Attempts,
         \/ Recreate(a, FALSE) \/ Recreate(a, TRUE) \/ RollbackToRetained(a)
         \/ BeginNotNow(a) \/ Begin(a) \/ BeginFails(a)
  PROVE  Present' /\ Survives
<1>1. NoOp.kind # "remove" /\ {"off", "begin", "prepare"} \cap NThere = {}
  BY DEF NoOp, NThere
<1>2. UNCHANGED <<docker, row, late, zombies, adm, limbo>>
  BY DEF Recreate, RollbackToRetained, Admit, BeginNotNow, Begin, BeginFails, Leave, wire,
         Control, WireOrder, TypeOK, EngineOK
<1>3. \A c : Exists(c)' <=> Exists(c)
  BY <1>2 DEF Exists, docker
<1>4. CurrentExists' /\ Survives
  BY <1>2, <1>3 DEF Present, CurrentExists, row, Exists, docker, Survives
<1>5. CASE Recreate(a, FALSE) \/ Recreate(a, TRUE) \/ RollbackToRetained(a)
  <2>1. /\ lock = 0 /\ GateOpen(rec) /\ UNCHANGED rec /\ at' = [at EXCEPT ![a] = "begin"]
        /\ \/ \E v \in BOOLEAN : plan' = [plan EXCEPT ![a] = PlanOf(cid, a + 1, v, FALSE)]
           \/ /\ plan' = [plan EXCEPT ![a] = PlanOf(cid, rec.retained, FALSE, TRUE)]
              /\ Exists(rec.retained)
    BY <1>5 DEF Recreate, RollbackToRetained, Admit, NewOf, disk
  <2>2. /\ \A b \in Attempts \ {a} : at'[b] = "off"
        /\ \A b \in Attempts : ~limbo[b] /\ late[b] = NoOp
    BY <2>1, Idle DEF TypeOK, EngineOK
  <2>3. plan'[a].reverse => Exists(plan'[a].n)
    <3>1. CASE \E v \in BOOLEAN : plan' = [plan EXCEPT ![a] = PlanOf(cid, a + 1, v, FALSE)]
      BY <3>1 DEF PlanOf, NoPlan, TypeOK, EngineOK
    <3>2. CASE plan' = [plan EXCEPT ![a] = PlanOf(cid, rec.retained, FALSE, TRUE)] /\ Exists(rec.retained)
      <4>1. plan'[a].n = rec.retained
        BY <3>2 DEF PlanOf, NoPlan, TypeOK, EngineOK
      <4> QED BY <3>2, <4>1
    <3> QED BY <2>1, <3>1, <3>2
  <2>4. at'[a] = "begin"
    BY <2>1 DEF TypeOK, EngineOK
  <2>5. \A b \in Attempts : at'[b] = "begin" /\ plan'[b].reverse => Exists(plan[b].n)'
    BY <1>2, <2>2, <2>3, <2>4 DEF Exists, docker
  <2> QED BY <1>1, <1>2, <1>4, <2>1, <2>2, <2>4, <2>5 DEF Present, row
<1>6. ASSUME at[a] = "begin", \A b \in Attempts \ {a} : at'[b] = at[b],
             at'[a] \in {"off", "prepare", "renameO"},
             at'[a] = "renameO" => plan[a].reverse,
             plan'[a].n = plan[a].n /\ plan'[a].reverse = plan[a].reverse
      PROVE  Present'
  <2>1. /\ \A b \in Attempts : ~limbo[b] /\ late[b] = NoOp
        /\ \A b \in Attempts \ {a} : at'[b] = "off"
        /\ zombies = {} /\ adm = "none"
    BY <1>6, Alone
  <2>2. at'[a] \in NThere => Exists(plan[a].n)'
    <3>1. at'[a] \in NThere => Exists(plan[a].n)
      BY <1>1, <1>6 DEF Present
    <3> QED BY <1>2, <1>6, <3>1 DEF Exists, docker
  <2>3. \A b \in Attempts : at'[b] # "begin"
    BY <1>6, <2>1
  <2> QED BY <1>1, <1>2, <1>4, <2>1, <2>2, <2>3 DEF Present
<1>7. CASE BeginNotNow(a) \/ BeginFails(a)
  BY <1>4, <1>6, <1>7 DEF BeginNotNow, BeginFails, Leave, TypeOK, EngineOK
<1>8. CASE Begin(a)
  <2>1. /\ at[a] = "begin" /\ \A b \in Attempts \ {a} : at'[b] = at[b]
        /\ at'[a] \in {"off", "prepare", "renameO"} /\ (at'[a] = "renameO" => plan[a].reverse)
    BY <1>8 DEF Begin, TypeOK, EngineOK
  <2>2. plan'[a].n = plan[a].n /\ plan'[a].reverse = plan[a].reverse
    BY <1>8 DEF Begin, TypeOK, EngineOK, Plans
  <2> QED BY <1>4, <1>6, <2>1, <2>2
<1> QED BY <1>5, <1>7, <1>8

\* What leaves the containers and the engine as they are, or empties it.
LEMMA PresentElsewhere ==
  ASSUME TypeOK, Control, Sides, Present,
         \/ \E a \in Attempts : Resolve(a) \/ Recover(a)
         \/ Approve \/ ApproveRemove \/ ApproveRecord
         \/ Start \/ Stop \/ Purge \/ Disable \/ Shutdown
         \/ \E c \in Containers : StartByHand(c) \/ ExitsByItself(c)
  PROVE  Present' /\ Survives
<1>1. NoOp.kind # "remove" /\ {"off", "begin", "read"} \cap NThere = {}
  BY DEF NoOp, NThere
\* The engine idle.
<1>2. ASSUME \A b \in Attempts : at'[b] \in {"off", "read"} /\ ~limbo'[b] /\ late'[b] = NoOp,
             UNCHANGED <<cid, gone>>, \A c \in Containers : c = cid /\ Exists(c) => Exists(c)',
             adm' \in {"none", "record"}, zombies' \subseteq zombies
      PROVE  Present' /\ Survives
  <2>1. CurrentExists'
    BY <1>2 DEF Present, CurrentExists, Exists
  <2>2. \A b \in Attempts : at'[b] \notin NThere /\ at'[b] # "begin"
    BY <1>1, <1>2
  <2> QED BY <1>1, <1>2, <2>1, <2>2 DEF Present, Survives
<1>3. ASSUME UNCHANGED docker PROVE \A c \in Containers : Exists(c) => Exists(c)'
  BY <1>3 DEF Exists, docker
<1>4. ASSUME NEW a \in Attempts, Resolve(a) PROVE Present' /\ Survives
  <2>1. /\ at[a] \notin {"off", "begin", "settle"} /\ at'[a] = "off" /\ UNCHANGED <<docker, row, adm, late, wire>>
        /\ \A b \in Attempts \ {a} : at'[b] = at[b]
    BY <1>4 DEF Resolve, RecordPoints, TypeOK, EngineOK
  <2>2. /\ adm = "none" /\ ~limbo[a] /\ late[a] = NoOp
        /\ \A b \in Attempts \ {a} : at[b] = "off" /\ ~limbo[b] /\ late[b] = NoOp
    BY <2>1, Alone DEF Control, WireOrder
  <2>3. \A b \in Attempts : at'[b] \in {"off", "read"} /\ ~limbo'[b] /\ late'[b] = NoOp
    BY <2>1, <2>2 DEF wire
  <2> QED BY <1>2, <1>3, <2>1, <2>2, <2>3 DEF row, wire
<1>5. ASSUME NEW a \in Attempts, Recover(a) PROVE Present' /\ Survives
  <2>1. /\ lock = 0 /\ \A b \in Attempts : at[b] = "off" /\ ~limbo[b] /\ late[b] = NoOp
        /\ at' = [at EXCEPT ![a] = "read"] /\ UNCHANGED <<docker, row, adm, late, wire>>
    BY <1>5 DEF Recover, Control, Calm, WireOrder, OperatorMay, Settled, Quiet
  <2>2. adm = "none"
    BY <2>1, NumberFacts DEF Control, LockHeld
  <2>3. \A b \in Attempts : at'[b] \in {"off", "read"} /\ ~limbo'[b] /\ late'[b] = NoOp
    BY <2>1 DEF wire, TypeOK, EngineOK
  <2> QED BY <1>2, <1>3, <2>1, <2>2, <2>3 DEF row, wire
<1>6. CASE Approve
  <2>1. /\ GateOpen(rec) /\ lock = 0 /\ cid # rec.retained
        /\ UNCHANGED <<docker, row, disk, plan, at, late, wire>>
    BY <1>6 DEF Approve
  <2>2. \A b \in Attempts : at'[b] \in {"off", "read"} /\ ~limbo'[b] /\ late'[b] = NoOp
    BY <2>1, Idle DEF wire
  <2>3. CurrentExists' /\ Survives
    BY <1>3, <2>1 DEF Present, CurrentExists, Exists, row, Survives
  <2>4. \A b \in Attempts : at'[b] \notin NThere /\ at'[b] # "begin"
    BY <1>1, <2>2
  <2> QED BY <1>1, <2>1, <2>2, <2>3, <2>4 DEF Present, row, disk, wire
<1>7. CASE ApproveRemove \/ ApproveRecord
  <2>1. /\ adm # "none" /\ UNCHANGED <<row, plan, at, late, wire>> /\ adm' \in {"none", "record"}
        /\ \/ adm = "remove" /\ DockerBy(RetainedOp)
           \/ UNCHANGED docker
    BY <1>7, AnswerFacts DEF ApproveRemove, ApproveRecord
  <2>2. \A b \in Attempts : at'[b] \in {"off", "read"} /\ ~limbo'[b] /\ late'[b] = NoOp
    BY <2>1, Idle DEF wire, Control, LockHeld
  <2>3. ASSUME NEW c \in Containers, c = cid, Exists(c) PROVE Exists(c)'
    <3>1. CASE adm = "remove" /\ DockerBy(RetainedOp)
      <4>1. RetainedOp.c = rec.retained
        BY DEF RetainedOp, Op
      <4>2. RetainedOp.c # c
        BY <2>3, <3>1, <4>1 DEF Present
      <4>3. \A op : DockerBy(op) /\ op.c # c => Exists(c)'
        BY <2>3, EffectFacts
      <4> QED BY <3>1, <4>2, <4>3
    <3> QED BY <1>3, <2>1, <2>3, <3>1
  <2> QED BY <1>2, <2>1, <2>2, <2>3 DEF row, wire
<1>8. CASE Start \/ Stop \/ Disable \/ Shutdown \/ \E c \in Containers : StartByHand(c) \/ ExitsByItself(c)
  <2>1. /\ UNCHANGED <<cid, gone, rec, at, plan, late, adm, limbo, zombies>>
    BY <1>8 DEF Start, Stop, Disable, Shutdown, StartByHand, ExitsByItself, row, disk, engine, wire
  <2>2. \A c \in Containers : Exists(c) => Exists(c)'
    BY <1>8 DEF Start, Stop, Disable, Shutdown, StartByHand, ExitsByItself, docker, Exists, TypeOK, DockerOK
  <2> QED BY <2>1, <2>2, PresentFrame
<1>9. CASE Purge
  <2>1. /\ gone' /\ GateOpen(rec) /\ rec.retained = 0 /\ lock = 0 /\ UNCHANGED <<at, plan, late, adm, wire>>
    BY <1>9 DEF Purge, Gate, DeleteGateOpen, engine
  <2>2. \A b \in Attempts : at'[b] = "off" /\ ~limbo'[b] /\ late'[b] = NoOp
    BY <2>1, Idle DEF wire
  <2>3. adm' = "none" /\ zombies' = {}
    BY <2>1, NumberFacts DEF Control, LockHeld, WireOrder, wire
  <2>4. \A b \in Attempts : at'[b] \notin NThere /\ at'[b] # "begin"
    BY <1>1, <2>2
  <2> QED BY <1>1, <2>1, <2>2, <2>3, <2>4 DEF Present, CurrentExists, Survives
<1> QED BY <1>4, <1>5, <1>6, <1>7, <1>8, <1>9

\* A death leaves nothing out that is aimed at the current container, and
\* the boot sweeps neither that one nor the one a statement may make it.
LEMMA PresentProcess ==
  ASSUME TypeOK, Control, Sides, Kept, Present, Crash \/ Boot \/ ZombieEnds
  PROVE  Present' /\ Survives
<1>1. NoOp.kind # "remove" /\ "off" \notin NThere
  BY DEF NoOp, NThere
<1>2. CASE Crash
  <2>1. /\ UNCHANGED <<docker, row, rec>> /\ adm' = "none"
        /\ \A b \in Attempts : /\ at'[b] = "off" /\ late'[b] = NoOp
                               /\ limbo'[b] <=> limbo[b] \/ at[b] = "cas"
    BY <1>2 DEF Crash, disk, TypeOK, WireOK
  <2>2. \A c : Exists(c)' <=> Exists(c)
    BY <2>1 DEF Exists, docker
  <2>3. CurrentExists' /\ Survives
    BY <2>1, <2>2 DEF Present, CurrentExists, row, Exists, docker, Survives
  <2>4. ASSUME NEW b \in Attempts, limbo'[b] PROVE Exists(rec.new)
    <3>1. CASE limbo[b]
      BY <3>1 DEF Present
    <3>2. CASE at[b] = "cas"
      <4>1. rec.new = plan[b].n
        BY <3>2, Pair
      <4> QED BY <3>2, <4>1 DEF Present, NThere
    <3> QED BY <2>1, <2>4, <3>1, <3>2
  <2>5. ASSUME NEW op \in zombies', op.kind = "remove" PROVE op.c # cid
    <3>1. CASE op \in zombies
      BY <2>5, <3>1 DEF Present
    <3>2. ASSUME NEW b \in Attempts, op = OpAt(b) PROVE op.c # cid
      BY <2>5, <3>2, NeverAimed
    <3>3. ASSUME NEW b \in Attempts, op = late[b] PROVE op.c # cid
      BY <2>5, <3>3 DEF Present
    <3>4. CASE adm = "remove" /\ op = RetainedOp
      BY <3>4 DEF Present, RetainedOp, Op
    <3> QED BY <1>2, <2>5, <3>1, <3>2, <3>3, <3>4 DEF Crash
  <2>6. cid' = cid
    BY <2>1 DEF row
  <2>7. \A b \in Attempts : limbo'[b] => Exists(rec.new)'
    BY <2>1, <2>2, <2>4
  <2> QED BY <1>1, <2>1, <2>3, <2>5, <2>6, <2>7 DEF Present
<1>3. CASE Boot
  <2>1. /\ UNCHANGED <<row, at, plan, late, adm, limbo, zombies>>
        /\ \A b \in Attempts : at[b] = "off"
        /\ rec' = rec \/ (~GateOpen(rec) /\ rec' = OrphanedRec(rec))
    BY <1>3 DEF Boot, engine, wire, Control, LockHeld, NeedsOrphaning
  <2>2. rec'.new = rec.new /\ rec'.retained = rec.retained
    BY <2>1 DEF OrphanedRec, TypeOK, DiskOK, Records
  <2>3. PICK swept : /\ swept = Leftovers \/ swept = {}
                     /\ cst' = [c \in Containers |-> IF c \in swept THEN "absent" ELSE cst[c]]
    BY <1>3 DEF Boot
  <2>4. \A c \in Containers : Exists(c) /\ ~(c > 1 /\ cid # c /\ OutcomeOf(c - 1) = "rolled-back") => Exists(c)'
    BY <2>3 DEF Leftovers, Exists
  <2>5. Survives
    BY <2>4 DEF Survives
  <2>6. ASSUME NEW b \in Attempts, limbo[b] PROVE Exists(rec.new)'
    <3>1. Keep(rec.new) /\ Exists(rec.new) /\ rec.new \in Containers
      BY <2>6, LimboAlone DEF Kept, Present, Exists
    <3>2. \A c \in Containers : Exists(c) /\ Keep(c) => Exists(c)'
      BY <2>4 DEF Keep
    <3> QED BY <2>2, <3>1, <3>2
  <2>7. CurrentExists'
    BY <2>1, <2>4 DEF Present, CurrentExists, row, Exists
  <2>8. \A b \in Attempts : at'[b] \notin NThere /\ at'[b] # "begin"
    BY <1>1, <2>1
  <2> QED BY <1>1, <2>1, <2>2, <2>5, <2>6, <2>7, <2>8 DEF Present, row
<1>4. CASE ZombieEnds
  <2>1. PICK op \in zombies : zombies' = zombies \ {op} /\ DockerBy(op)
    BY <1>4 DEF ZombieEnds, DockerBy, Did
  <2>2. /\ UNCHANGED <<row, rec, at, plan, late, limbo, adm>>
        /\ adm = "none" /\ \A b \in Attempts : at[b] = "off" /\ ~limbo[b]
    BY <1>4, <2>1 DEF ZombieEnds, disk, engine, Control, WireOrder
  <2>3. op.kind = "remove" => op.c # cid
    BY <2>1 DEF Present
  <2>4. \A c \in Containers : c = cid /\ Exists(c) => Exists(c)'
    BY <2>1, <2>3, EffectFacts
  <2>5. CurrentExists'
    BY <2>2, <2>4 DEF Present, CurrentExists, row, Exists
  <2>6. \A b \in Attempts : at'[b] \notin NThere /\ at'[b] # "begin"
    BY <1>1, <2>2
  <2> QED BY <1>1, <2>1, <2>2, <2>4, <2>5, <2>6 DEF Present, row, Survives
<1> QED BY <1>2, <1>3, <1>4

\* No step removes the container D1 names.
LEMMA PresentNext == TypeOK /\ Control /\ Sides /\ Kept /\ Present /\ [Next]_vars => Present' /\ Survives
<1> SUFFICES ASSUME TypeOK, Control, Sides, Kept, Present, [Next]_vars PROVE Present' /\ Survives
  OBVIOUS
<1>1. CASE UNCHANGED vars
  <2>1. UNCHANGED <<docker, cid, gone, rec, plan, at, late, limbo, zombies, adm>>
    BY <1>1 DEF vars, row, disk, engine, wire
  <2>2. \A c \in Containers : Exists(c) => Exists(c)'
    BY <2>1 DEF docker, Exists
  <2> QED BY <2>1, <2>2, PresentFrame
<1>2. ASSUME NEW a \in Attempts, Inner(a) PROVE Survives
  BY <1>2, PresentInner DEF Survives
<1> QED BY <1>1, <1>2, Steps, PresentInner, PresentBegin, PresentLate, PresentElsewhere, PresentProcess

\* D1's container is there at first.
LEMMA PresentInit == Init => Present
<1> SUFFICES ASSUME Init PROVE Present
  OBVIOUS
<1>1. 1 \in Containers /\ NoOp.kind # "remove" /\ "off" \notin NThere
  BY NumberFacts DEF Containers, NoOp, NThere
<1> QED BY <1>1 DEF Init, Present, CurrentExists, Exists

Safe == TypeOK /\ Control /\ Sides /\ Kept /\ Present

\* The first layers of the invariant hold for ever.
LEMMA SafeAlways == Calm /\ Spec => []Safe
<1>1. Calm /\ Init => Safe
  BY TypeInit, ControlInit, SidesInit, KeptInit, PresentInit DEF Safe
<1>2. Safe /\ [Next]_vars => Safe'
  BY TypeNext, ControlNext, SidesNext, KeptNext, PresentNext DEF Safe
<1> QED BY <1>1, <1>2, PTL DEF Spec

\* The container D1 names exists until the session is deleted.
THEOREM CurrentAlwaysExists == Calm /\ Spec => []CurrentExists
<1>1. Safe => CurrentExists
  BY DEF Safe, Present
<1> QED BY <1>1, SafeAlways, PTL

\* Nothing ever removes the container D1 points at, but for a hard delete of
\* the session.
THEOREM CurrentNeverRemoved == Calm /\ Spec => NeverRemovesCurrent
<1>1. Safe /\ [Next]_vars => [\A c \in Containers : Exists(c) /\ cst'[c] = "absent" => c # cid \/ gone']_vars
  <2> SUFFICES ASSUME Safe, [Next]_vars, NEW c \in Containers, Exists(c), cst'[c] = "absent"
               PROVE  c # cid \/ gone'
    OBVIOUS
  <2>1. Survives
    BY PresentNext DEF Safe
  <2> QED BY <2>1 DEF Survives, Exists
<1> QED BY <1>1, SafeAlways, PTL DEF Spec, NeverRemovesCurrent

-----------------------------------------------------------------------------
(* The refinement: the row and the record make a SessionSwap.               *)

OpenPair == IF GateOpen(rec) THEN <<>> ELSE <<rec.old, rec.new>>

\* Every step is a step of the abstract swap, or none.
LEMMA SwapStep ==
  ASSUME TypeOK, Control, Sides, [Next]_vars
  PROVE  [Swap!Next]_(Swap!svars)
<1> USE DEF Swap!Next, Swap!svars
<1>1. ASSUME UNCHANGED <<cid, OpenPair>> PROVE [Swap!Next]_(Swap!svars)
  BY <1>1 DEF OpenPair
<1>2. ASSUME GateOpen(rec') <=> GateOpen(rec), rec'.old = rec.old, rec'.new = rec.new
      PROVE  OpenPair' = OpenPair
  BY <1>2 DEF OpenPair
\* A statement that applies, at once or late, commits the open swap.
<1>3. ASSUME NEW a, Unresolved, Agrees(a), CommitApplies(a), CommitEffect(a), OpenPair' = OpenPair
      PROVE  Swap!Commit
  <2>1. OpenPair = <<rec.old, rec.new>> /\ cid = rec.old /\ cid' = rec.new
    BY <1>3 DEF Agrees, CommitApplies, CommitEffect, Unresolved, OpenPair
  <2> QED BY <1>3, <2>1 DEF Swap!Commit, OpenPair
<1>4. ASSUME NEW a \in Attempts, Inner(a) PROVE [Swap!Next]_(Swap!svars)
  <2>1. at[a] \notin {"off", "begin"} /\ Softly
    BY <1>4, InnerShift DEF Shift, Keeps
  <2>2. Unresolved /\ Agrees(a) /\ OpenPair' = OpenPair
    BY <1>2, <2>1, Alone, SoftFacts
  <2>3. UNCHANGED row \/ (CommitApplies(a) /\ CommitEffect(a))
    BY <1>4, InnerMoves DEF Touches
  <2> QED BY <1>1, <1>3, <2>2, <2>3 DEF row
<1>5. ASSUME NEW a \in Attempts, LateAnswer(a) \/ LimboEnds(a) PROVE [Swap!Next]_(Swap!svars)
  <2>1. OpenPair' = OpenPair
    BY <1>2, <1>5 DEF LateAnswer, LimboEnds, disk
  <2>2. UNCHANGED row \/ (limbo[a] /\ CommitApplies(a) /\ CommitEffect(a))
    BY <1>5 DEF LateAnswer, LimboEnds
  <2> QED BY <1>1, <1>3, <2>1, <2>2, LimboAlone DEF row
<1>6. ASSUME NEW a \in Attempts,
             \/ Recreate(a, FALSE) \/ Recreate(a, TRUE) \/ RollbackToRetained(a)
             \/ BeginNotNow(a) \/ BeginFails(a)
      PROVE  [Swap!Next]_(Swap!svars)
  <2>1. cid' = cid /\ rec' = rec
    BY <1>6 DEF Recreate, RollbackToRetained, Admit, BeginNotNow, BeginFails, Control, Calm, row, disk
  <2> QED BY <1>1, <1>2, <2>1
\* The record written opens it, on the container D1 names.
<1>7. ASSUME NEW a \in Attempts, Begin(a) PROVE [Swap!Next]_(Swap!svars)
  <2>1. at[a] = "begin" /\ cid' = cid /\ GateOpen(rec)
    BY <1>7 DEF Begin, row, MayBegin
  <2>2. cid = plan[a].o /\ Ends(a, plan[a].o, plan[a].n, plan[a].reverse)
    BY <2>1 DEF Sides, Stands, OnOld
  <2>3. /\ rec'.st = "open" /\ rec'.old = plan[a].o /\ rec'.new = plan[a].n
    BY <1>7 DEF Begin, NewRecord, BeginRec, NoRecord
  <2>4. OpenPair = <<>> /\ OpenPair' = <<cid, plan[a].n>>
    BY <2>1, <2>2, <2>3 DEF OpenPair, GateOpen
  <2>5. plan[a].n \in Containers \ {cid} /\ cid \in Containers
    BY <2>2 DEF Ends
  <2>6. Swap!Open
    BY <2>1, <2>4, <2>5 DEF Swap!Open, OpenPair
  <2> QED BY <2>6
\* and the resolution closes it.
<1>8. ASSUME NEW a \in Attempts, Resolve(a) PROVE [Swap!Next]_(Swap!svars)
  <2>1. /\ at[a] \notin {"off", "begin"} /\ cid' = cid
        /\ rec' = ResolvedRec(rec, OutcomeAt(a), RetainedAt(a), RoleAt(a))
    BY <1>8 DEF Resolve, RecordPoints, row
  <2>2. Unresolved /\ GateOpen(rec')
    BY <2>1, Alone DEF ResolvedRec, GateOpen, TypeOK, DiskOK, Records
  <2>3. OpenPair = <<rec.old, rec.new>> /\ OpenPair' = <<>>
    BY <2>2 DEF OpenPair, Unresolved
  <2>4. Swap!Close
    BY <2>1, <2>3 DEF Swap!Close, OpenPair
  <2> QED BY <2>4
<1>9. ASSUME NEW a \in Attempts, Recover(a) PROVE [Swap!Next]_(Swap!svars)
  <2>1. rec' = AdoptedRec(rec) /\ rec.st \in {"open", "uncertain"} /\ cid' = cid
    BY <1>9 DEF Recover, MayAdopt, row
  <2>2. (GateOpen(rec') <=> GateOpen(rec)) /\ rec'.old = rec.old /\ rec'.new = rec.new
    BY <2>1 DEF AdoptedRec, TypeOK, DiskOK, Records, GateOpen
  <2> QED BY <1>1, <1>2, <2>1, <2>2
<1>10. CASE \/ Approve \/ Start \/ Stop \/ Disable \/ Shutdown \/ ZombieEnds \/ ApproveRemove \/ Crash
            \/ \E c \in Containers : StartByHand(c) \/ ExitsByItself(c)
  <2>1. UNCHANGED <<cid, rec>>
    BY <1>10 DEF Approve, Start, Stop, Disable, Shutdown, ZombieEnds, ApproveRemove, Crash, StartByHand,
                 ExitsByItself, row, disk
  <2> QED BY <1>1, <1>2, <2>1
<1>11. CASE ApproveRecord \/ Boot
  <2>1. cid' = cid /\ (\/ rec' = rec \/ rec' = ApprovedRec(rec)
                       \/ (~GateOpen(rec) /\ rec' = OrphanedRec(rec)))
    BY <1>11 DEF ApproveRecord, Boot, row, NeedsOrphaning
  <2>2. (GateOpen(rec') <=> GateOpen(rec)) /\ rec'.old = rec.old /\ rec'.new = rec.new
    BY <2>1 DEF ApprovedRec, OrphanedRec, TypeOK, DiskOK, Records, GateOpen
  <2> QED BY <1>1, <1>2, <2>1, <2>2
<1>12. CASE Purge
  <2>1. cid' = 0 /\ GateOpen(rec) /\ GateOpen(rec')
    BY <1>12 DEF Purge, Gate, NoRecord, GateOpen
  <2>2. Swap!Delete
    BY <2>1 DEF Swap!Delete, OpenPair
  <2> QED BY <2>2
<1>13. CASE UNCHANGED vars
  BY <1>1, <1>2, <1>13 DEF vars, row, disk
<1> QED BY <1>4, <1>5, <1>6, <1>7, <1>8, <1>9, <1>10, <1>11, <1>12, <1>13, Steps

\* Whatever fails, the session's container is only ever moved by a swap that
\* was opened durably for it, once, to the container the swap names.
THEOREM RecreationImplementsSwap == Calm /\ Spec => ImplementsSwap
<1>1. Init => Swap!Init
  <2> SUFFICES ASSUME Init PROVE Swap!Init
    OBVIOUS
  <2>1. cid = 1 /\ GateOpen(rec) /\ 1 \in Containers
    BY NumberFacts DEF Init, NoRecord, GateOpen, Containers
  <2> QED BY <2>1 DEF Swap!Init
<1>2. Safe /\ [Next]_vars => [Swap!Next]_(Swap!svars)
  BY SwapStep DEF Safe
<1> QED BY <1>1, <1>2, SafeAlways, PTL DEF Spec, ImplementsSwap, Swap!Spec

-----------------------------------------------------------------------------
(* What a pass has seen when it gets to the record.                         *)

SeenPoints == {"nameO", "unmarkO"} \cup RecordPoints

Seen(a) ==
  /\ at[a] \in {"nameO", "unmarkO", "recordO"} => ~Exists(plan[a].n)
  /\ at[a] \in {"unmarkO", "recordO", "recordUndo"} => cname[plan[a].o] = Canonical
  /\ at[a] = "recordBack" => cname[plan[a].n] = Canonical
  /\ at[a] = "recordN" => plan[a].carry \/ ~Exists(plan[a].o)
  /\ at[a] \in {"recordN", "recordO"} => ~marker

Evidence == \A a \in Attempts : Seen(a)

\* Nothing is claimed of the evidence at the points that have not looked.
LEMMA NotThere == \A a : at[a] \notin SeenPoints => Seen(a)
BY DEF Seen, SeenPoints, RecordPoints

\* The steps that are neither an attempt's own nor the world's find an idle
\* engine, or leave its attempt at one of these points.
Lulls == {"off", "begin", "prepare", "renameO", "settle", "read"}

Lull ==
  \/ \E a \in Attempts :
       \/ Recreate(a, FALSE) \/ Recreate(a, TRUE) \/ RollbackToRetained(a)
       \/ BeginNotNow(a) \/ Begin(a) \/ BeginFails(a)
       \/ LateAnswer(a) \/ LimboEnds(a) \/ Resolve(a) \/ Recover(a)
  \/ Approve \/ ApproveRemove \/ ApproveRecord \/ Start \/ Stop \/ Purge \/ ZombieEnds \/ Crash \/ Boot

\* After such a step every attempt is at one of them.
LEMMA LullPoints ==
  ASSUME TypeOK, Control, Lull
  PROVE  \A b \in Attempts : at'[b] \in Lulls
<1> USE DEF Lulls
<1>1. ASSUME NEW a \in Attempts, Recreate(a, FALSE) \/ Recreate(a, TRUE) \/ RollbackToRetained(a)
      PROVE  \A b \in Attempts : at'[b] \in Lulls
  <2>1. lock = 0 /\ GateOpen(rec) /\ at' = [at EXCEPT ![a] = "begin"]
    BY <1>1 DEF Recreate, RollbackToRetained, Admit
  <2> QED BY <2>1, Idle DEF TypeOK, EngineOK
<1>2. ASSUME NEW a \in Attempts, BeginNotNow(a) \/ Begin(a) \/ BeginFails(a)
      PROVE  \A b \in Attempts : at'[b] \in Lulls
  <2>1. at[a] = "begin" /\ at'[a] \in Lulls /\ \A b \in Attempts \ {a} : at'[b] = at[b]
    BY <1>2 DEF BeginNotNow, Begin, BeginFails, Leave, TypeOK, EngineOK
  <2> QED BY <2>1, Alone
<1>3. ASSUME NEW a \in Attempts, LateAnswer(a) \/ LimboEnds(a)
      PROVE  \A b \in Attempts : at'[b] \in Lulls
  <2>1. at' = at /\ (late[a] # NoOp \/ limbo[a])
    BY <1>3 DEF LateAnswer, LimboEnds, engine
  <2>2. at[a] \in {"off", "settle"}
    BY <2>1 DEF Control, WireOrder
  <2> QED BY <2>1, <2>2, Alone, LimboAlone DEF Control, WireOrder
<1>4. ASSUME NEW a \in Attempts, Resolve(a) \/ Recover(a)
      PROVE  \A b \in Attempts : at'[b] \in Lulls
  <2>1. CASE Resolve(a)
    <3>1. at[a] # "off" /\ at' = [at EXCEPT ![a] = "off"]
      BY <2>1 DEF Resolve, RecordPoints
    <3> QED BY <3>1, Alone DEF TypeOK, EngineOK
  <2>2. CASE Recover(a)
    <3>1. \A b \in Attempts : at[b] = "off"
      BY <2>2 DEF Recover
    <3>2. at' = [at EXCEPT ![a] = "read"]
      BY <2>2 DEF Recover, Control, Calm
    <3> QED BY <3>1, <3>2 DEF TypeOK, EngineOK
  <2> QED BY <1>4, <2>1, <2>2
<1>5. CASE Approve \/ Start \/ Stop \/ Purge
  <2>1. lock = 0 /\ GateOpen(rec) /\ at' = at
    BY <1>5 DEF Approve, Start, Stop, Purge, Gate, engine
  <2> QED BY <2>1, Idle
<1>6. CASE ApproveRemove \/ ApproveRecord
  <2>1. adm # "none" /\ at' = at
    BY <1>6 DEF ApproveRemove, ApproveRecord
  <2> QED BY <2>1, Idle DEF Control, LockHeld
<1>7. CASE ZombieEnds \/ Crash \/ Boot
  BY <1>7 DEF ZombieEnds, Crash, Boot, Control, WireOrder, LockHeld, engine
<1> QED BY <1>1, <1>2, <1>3, <1>4, <1>5, <1>6, <1>7 DEF Lull

\* What people, exits, a disable and a shutdown change of what is seen here.
World ==
  \/ Disable \/ Shutdown \/ UNCHANGED vars
  \/ \E c \in Containers : StartByHand(c) \/ ExitsByItself(c)

\* What people and the containers themselves can change.
LEMMA WorldFacts ==
  ASSUME TypeOK, World
  PROVE  /\ UNCHANGED <<cname, cid, gone, rec, hist, marker, lock, adm, plan, at, mode, late, limbo, zombies>>
         /\ \A c \in Containers : /\ Exists(c)' <=> Exists(c)
                                  /\ Running(c)' => Running(c) \/ byHand' # byHand
         /\ byHand' = 0 => byHand = 0
<1>1. CASE Disable \/ Shutdown \/ UNCHANGED vars
  BY <1>1 DEF Disable, Shutdown, vars, docker, row, disk, engine, wire, spent, Exists, Running
<1>2. ASSUME NEW c \in Containers, StartByHand(c) \/ ExitsByItself(c)
      PROVE  /\ UNCHANGED <<cname, cid, gone, rec, hist, marker, lock, adm, plan, at, mode, late, limbo, zombies>>
             /\ \A d \in Containers : /\ Exists(d)' <=> Exists(d)
                                      /\ Running(d)' => Running(d) \/ byHand' # byHand
             /\ byHand' = 0 => byHand = 0
  <2>1. UNCHANGED <<cname, cid, gone, rec, hist, marker, lock, adm, plan, at, mode, late, limbo, zombies>>
    BY <1>2 DEF StartByHand, ExitsByItself, row, disk, engine, wire
  <2>2. \/ cst[c] = "stopped" /\ cst' = [cst EXCEPT ![c] = "running"] /\ byHand' = byHand + 1
        \/ cst[c] = "running" /\ cst' = [cst EXCEPT ![c] = "stopped"] /\ byHand' = byHand
    BY <1>2 DEF StartByHand, ExitsByItself, Running, spent
  <2>3. byHand \in Nat
    BY NumberFacts DEF TypeOK, SpentOK
  <2> QED BY <2>1, <2>2, <2>3 DEF Exists, Running, TypeOK, DockerOK
<1> QED BY <1>1, <1>2 DEF World

\* Every step is one of these.
LEMMA StepKinds ==
  ASSUME [Next]_vars
  PROVE  Lull \/ World \/ \E a \in Attempts : Inner(a)
BY Steps DEF Lull, World

\* What an attempt saw stays true while it is the one that acts.
LEMMA SeenInner ==
  ASSUME TypeOK, Control, Sides, Evidence, NEW a \in Attempts, Inner(a)
  PROVE  Seen(a)'
<1>0. /\ plan' = plan /\ Seen(a) /\ Moved(a) /\ at[a] \notin {"off", "begin"}
      /\ plan[a].o \in Containers /\ plan[a].n \in Containers /\ plan[a].o # plan[a].n
  <2>1. at[a] \notin {"off", "begin"} /\ plan' = plan
    BY InnerShift DEF Shift, Keeps, Others
  <2> QED BY <2>1, InnerMoves, Pair DEF Evidence
<1>1. CASE Stays(a)
  BY <1>0, <1>1 DEF Stays, Seen, docker, Exists
<1>2. ASSUME at'[a] \notin SeenPoints PROVE Seen(a)'
  BY <1>2 DEF Seen, SeenPoints, RecordPoints
<1>3. CASE Falls(a)
  BY <1>2, <1>3 DEF Falls, SeenPoints, RecordPoints
<1>4. ASSUME at'[a] = "recordN", ConvergedOnN(a), UNCHANGED <<docker, marker>> PROVE Seen(a)'
  BY <1>0, <1>4 DEF Seen, ConvergedOnN, docker, Exists
<1>5. CASE MainGoesOn(a)
  <2>1. CASE at'[a] # "recordN"
    BY <1>2, <1>5, <2>1 DEF MainGoesOn, NextMain, SeenPoints, RecordPoints
  <2>2. CASE at'[a] = "recordN"
    BY <1>4, <1>5, <2>2 DEF MainGoesOn, NextMain
  <2> QED BY <2>1, <2>2
<1>6. ASSUME at'[a] \in {"nameO", "unmarkO"}, ~Exists(plan[a].n)',
             at'[a] = "unmarkO" => cname'[plan[a].o] = Canonical
      PROVE  Seen(a)'
  BY <1>0, <1>6 DEF Seen
<1>7. CASE PassGoesOn(a)
  <2>1. CASE at[a] = "read" /\ at'[a] = FirstAct(a) /\ UNCHANGED docker
    <3>1. CASE at'[a] \in {"nameO", "unmarkO"}
      <4>1. ~Exists(plan[a].n) /\ at'[a] = AfterN(a)
        BY <2>1, <3>1 DEF FirstAct
      <4>2. at'[a] = "unmarkO" => cname[plan[a].o] = Canonical
        BY <4>1 DEF AfterN
      <4> QED BY <1>0, <1>6, <2>1, <3>1, <4>1, <4>2 DEF docker, Exists
    <3>2. CASE at'[a] \notin {"nameO", "unmarkO"}
      BY <1>2, <2>1, <3>2 DEF FirstAct, AfterN, SeenPoints, RecordPoints
    <3> QED BY <3>1, <3>2
  <2>2. ASSUME NEW ok \in BOOLEAN, at[a] \in PassPoints \cap RequestPoints, at'[a] = NextPass(a, ok),
               IF ok THEN Did(OpAt(a)) ELSE DockerBy(OpAt(a))
        PROVE  Seen(a)'
    <3>1. CASE at'[a] \notin {"nameO", "unmarkO"}
      BY <1>2, <2>2, <3>1 DEF NextPass, AfterN, SeenPoints, RecordPoints
    <3>2. CASE at[a] = "removeN" /\ ok /\ at'[a] = AfterN(a) /\ at'[a] \in {"nameO", "unmarkO"}
      <4>1. OpAt(a).kind = "remove" /\ OpAt(a).c = plan[a].n
        BY <3>2 DEF OpAt, Op
      <4>2. ~Exists(plan[a].n)'
        <5>1. \A c \in Containers : c = OpAt(a).c => ~Exists(c)'
          BY <1>0, <2>2, <3>2, <4>1, DidFacts
        <5> QED BY <1>0, <4>1, <5>1 DEF Exists
      <4>3. cname' = cname
        BY <2>2, <3>2, <4>1 DEF Did, Effect
      <4> QED BY <1>6, <3>2, <4>2, <4>3 DEF AfterN
    <3>3. CASE at[a] = "nameO" /\ ok /\ at'[a] = "unmarkO"
      <4>1. OpAt(a).kind = "rename" /\ OpAt(a).c = plan[a].o /\ OpAt(a).name = Canonical
        BY <3>3 DEF OpAt, Op
      <4>2. cname'[plan[a].o] = Canonical
        BY <1>0, <2>2, <3>3, <4>1, DidFacts
      <4>3. ~Exists(plan[a].n)'
        BY <1>0, <2>2, <3>3, <4>1, EffectFacts DEF Seen, DockerBy
      <4> QED BY <1>6, <3>3, <4>2, <4>3
    <3>4. at[a] \in {"stopN", "removeN", "nameO", "dropO", "parkN", "nameBack", "parkO", "nameN"}
      BY <2>2 DEF PassPoints, RequestPoints, ToOPoints, ToNPoints, ReversePoints, RecordPoints
    <3>5. \/ at'[a] \notin {"nameO", "unmarkO"}
          \/ at[a] = "removeN" /\ ok /\ at'[a] = AfterN(a)
          \/ at[a] = "nameO" /\ ok /\ at'[a] = "unmarkO"
      <4>1. CASE at[a] \in {"parkN", "nameBack", "parkO", "nameN"}
        <5>1. NextPass(a, ok) \in {"nameBack", "recheckBack", "nameN", "recheckUndo"}
          BY <4>1 DEF NextPass
        <5> QED BY <2>2, <5>1
      <4>2. CASE at[a] \in {"stopN", "dropO"}
        <5>1. NextPass(a, ok) \in {"retry", "removeN", "convergeN", "stuck"}
          BY <4>2 DEF NextPass
        <5> QED BY <2>2, <5>1
      <4>3. CASE at[a] = "removeN"
        <5>1. NextPass(a, ok) = IF ok THEN AfterN(a) ELSE "retry"
          BY <4>3 DEF NextPass
        <5> QED BY <2>2, <4>3, <5>1
      <4>4. CASE at[a] = "nameO"
        <5>1. NextPass(a, ok) = IF ok THEN "unmarkO" ELSE "retry"
          BY <4>4 DEF NextPass
        <5> QED BY <2>2, <4>4, <5>1
      <4> QED BY <3>4, <4>1, <4>2, <4>3, <4>4
    <3> QED BY <3>1, <3>2, <3>3, <3>5
  <2>3. CASE at[a] = "unmarkO" /\ at'[a] = "recordO" /\ marker' = FALSE /\ UNCHANGED docker
    BY <1>0, <2>3 DEF Seen, docker, Exists
  <2>4. CASE at'[a] = "recheckN"
    BY <1>2, <2>4 DEF SeenPoints, RecordPoints
  <2>5. CASE at'[a] = "recordBack" /\ cname[plan[a].n] = Canonical /\ UNCHANGED docker
    BY <1>0, <2>5 DEF Seen, docker
  <2>6. CASE at'[a] = "recordUndo" /\ cname[plan[a].o] = Canonical /\ UNCHANGED docker
    BY <1>0, <2>6 DEF Seen, docker
  <2>7. CASE \/ at'[a] = NextPass(a, TRUE) /\ Did(OpAt(a)) /\ at[a] \in PassPoints \cap RequestPoints
             \/ at'[a] = NextPass(a, FALSE) /\ DockerBy(OpAt(a)) /\ at[a] \in PassPoints \cap RequestPoints
    BY <2>2, <2>7
  <2> QED BY <1>4, <1>7, <2>1, <2>3, <2>4, <2>5, <2>6, <2>7 DEF PassGoesOn
<1> QED BY <1>0, <1>1, <1>3, <1>5, <1>7 DEF Moved

\* Every step keeps Evidence.
LEMMA EvidenceNext == TypeOK /\ Control /\ Sides /\ Evidence /\ [Next]_vars => Evidence'
<1> SUFFICES ASSUME TypeOK, Control, Sides, Evidence, [Next]_vars PROVE Evidence'
  OBVIOUS
<1>1. ASSUME NEW b, at'[b] \in Lulls PROVE Seen(b)'
  BY <1>1 DEF Lulls, Seen
<1>2. CASE Lull
  BY <1>1, <1>2, LullPoints DEF Evidence
<1>3. CASE World
  <2>1. \A c : Exists(c)' <=> Exists(c)
    BY <1>3, WorldFacts DEF Exists
  <2> QED BY <1>3, <2>1, WorldFacts DEF Evidence, Seen
<1>4. ASSUME NEW a \in Attempts, Inner(a) PROVE Evidence'
  <2>1. \A b \in Attempts \ {a} : at'[b] = "off"
    BY <1>4, InnerShift, Alone DEF Shift, Keeps, Others
  <2> QED BY <1>1, <1>4, <2>1, SeenInner DEF Evidence, Lulls
<1> QED BY <1>2, <1>3, <1>4, StepKinds

\* Evidence holds at first.
LEMMA EvidenceInit == Init => Evidence
BY NotThere DEF Init, Evidence, SeenPoints, RecordPoints

\* A record turns resolved only on evidence.
THEOREM AlwaysResolvedOnEvidence == Calm /\ Spec => ResolvedOnEvidence
<1>1. Calm /\ Init => Safe /\ Evidence
  BY TypeInit, ControlInit, SidesInit, KeptInit, PresentInit, EvidenceInit DEF Safe
<1>2. Safe /\ Evidence /\ [Next]_vars => (Safe /\ Evidence)'
  BY TypeNext, ControlNext, SidesNext, KeptNext, PresentNext, EvidenceNext DEF Safe
<1>3. Safe /\ Evidence /\ [Next]_vars =>
        [(~GateOpen(rec) /\ rec'.st = "resolved") =>
           /\ late[rec.att] = NoOp /\ ~limbo[rec.att]
           /\ \A op \in zombies : op.att # rec.att
           /\ rec'.out = "committed" => cid = rec.new /\ Exists(cid)
           /\ rec'.out = "rolled-back" =>
                /\ cid = rec.old /\ cname[cid] = Canonical
                /\ ~rec.reverse => ~Exists(rec.new)]_vars
  <2> SUFFICES ASSUME Safe, Evidence, [Next]_vars, ~GateOpen(rec), rec'.st = "resolved"
               PROVE  /\ late[rec.att] = NoOp /\ ~limbo[rec.att]
                      /\ \A op \in zombies : op.att # rec.att
                      /\ rec'.out = "committed" => cid = rec.new /\ Exists(cid)
                      /\ rec'.out = "rolled-back" =>
                           /\ cid = rec.old /\ cname[cid] = Canonical
                           /\ ~rec.reverse => ~Exists(rec.new)
    OBVIOUS
  <2> USE DEF Safe
  <2>1. PICK a \in Attempts : Resolve(a)
    <3>1. GateOpen(rec')
      BY DEF GateOpen
    <3>2. ASSUME NEW a \in Attempts, Inner(a) PROVE FALSE
      <4>1. Softly
        BY <3>2, InnerShift DEF Shift
      <4> QED BY <3>1, <4>1, SoftFacts
    <3>3. ASSUME NEW a \in Attempts,
                 \/ Recreate(a, FALSE) \/ Recreate(a, TRUE) \/ RollbackToRetained(a)
                 \/ BeginNotNow(a) \/ Begin(a) \/ BeginFails(a)
                 \/ LateAnswer(a) \/ LimboEnds(a) \/ Recover(a)
          PROVE  FALSE
      <4>1. rec' = rec \/ GateOpen(rec) \/ rec' = AdoptedRec(rec)
        BY <3>3 DEF Recreate, RollbackToRetained, Admit, BeginNotNow, Begin, BeginFails, LateAnswer, LimboEnds,
                    Recover, disk, MayBegin
      <4> QED BY <3>1, <4>1 DEF AdoptedRec, GateOpen, TypeOK, DiskOK, Records
    <3>4. CASE \/ Approve \/ ApproveRemove \/ ApproveRecord \/ Start \/ Stop \/ Purge \/ ZombieEnds \/ Crash
               \/ Boot \/ World
      <4>1. rec' = rec \/ GateOpen(rec) \/ rec' = OrphanedRec(rec) \/ adm = "record"
        BY <3>4, WorldFacts DEF Approve, ApproveRemove, ApproveRecord, Start, Stop, Purge, Gate, ZombieEnds, Crash,
                    Boot, disk
      <4> QED BY <3>1, <4>1 DEF OrphanedRec, GateOpen, TypeOK, DiskOK, Records, Control, LockHeld
    <3> QED BY <3>2, <3>3, <3>4, StepKinds DEF Lull
  <2>2. at[a] \in RecordPoints /\ rec' = ResolvedRec(rec, OutcomeAt(a), RetainedAt(a), RoleAt(a))
    BY <2>1 DEF Resolve
  <2>3. rec'.out = OutcomeAt(a)
    BY <2>2 DEF ResolvedRec, TypeOK, DiskOK, Records
  <2>4. /\ rec.att = a /\ zombies = {} /\ late[a] = NoOp /\ ~limbo[a]
        /\ rec.old = plan[a].o /\ rec.new = plan[a].n /\ rec.reverse = plan[a].reverse /\ ~gone
    BY <2>2, Pair DEF RecordPoints, Control, WireOrder
  <2>5. CASE at[a] \in {"recordN", "recordBack"}
    <3>1. cid = rec.new /\ Exists(cid)
      BY <2>4, <2>5 DEF Sides, Stands, OnNew, Present, CurrentExists
    <3> QED BY <2>3, <2>4, <2>5, <3>1 DEF OutcomeAt
  <2>6. CASE at[a] \in {"recordO", "recordUndo"}
    <3>1. cid = rec.old /\ cname[cid] = Canonical
      BY <2>4, <2>6 DEF Sides, Stands, OnOld, Evidence, Seen
    <3>2. ~rec.reverse => ~Exists(rec.new)
      BY <2>4, <2>6 DEF Sides, Stands, Backward, Evidence, Seen
    <3> QED BY <2>3, <2>4, <2>6, <3>1, <3>2 DEF OutcomeAt
  <2> QED BY <2>2, <2>5, <2>6 DEF RecordPoints
<1> QED BY <1>1, <1>2, <1>3, PTL DEF Spec, ResolvedOnEvidence

-----------------------------------------------------------------------------
(* What the steps beside the engine's own do.                               *)

SameRecord ==
  /\ rec'.att = rec.att /\ rec'.old = rec.old /\ rec'.new = rec.new
  /\ rec'.carry = rec.carry /\ rec'.reverse = rec.reverse /\ rec'.retained = rec.retained
  /\ GateOpen(rec') <=> GateOpen(rec)

\* The engine does not get on.
HoldsOn ==
  /\ SameRecord
  /\ \A b \in Attempts : /\ at'[b] \in {at[b], "off", "read"}
                         /\ at'[b] \notin {"off", "read"} => plan'[b] = plan[b]
                         /\ late'[b] \in {late[b], NoOp}
                         /\ limbo'[b] => limbo[b] \/ at[b] = "cas"
  /\ \A op \in zombies' : \/ op \in zombies \/ (adm = "remove" /\ op = RetainedOp)
                          \/ \E b \in Attempts : op = OpAt(b) \/ op = late[b]
  /\ marker' => marker
  /\ marker /\ ~marker' => GateOpen(rec) /\ \A b \in Attempts : at'[b] = "off"
  /\ byHand' = 0 => byHand = 0

\* Nothing is added to what is in Docker but what people start,
Still ==
  /\ UNCHANGED <<cname, cid, gone>>
  /\ \A c \in Containers : /\ Exists(c)' => Exists(c)
                           /\ Running(c)' => Running(c) \/ byHand' # byHand
  /\ adm' = "record" => adm = "record" \/ ~Exists(rec.retained)'

\* or a request out takes effect, or a statement in limbo does.
Lands(op) ==
  /\ DockerBy(op) /\ UNCHANGED <<cid, gone, byHand>>
  /\ \/ op \in zombies \/ (\E b \in Attempts : op = late[b]) \/ (adm = "remove" /\ op = RetainedOp)
  /\ adm' = "record" => adm = "record" \/ (adm = "remove" /\ op = RetainedOp /\ Did(op))
Commutes == (\E a \in Attempts : limbo[a]) /\ cid' = rec.new /\ UNCHANGED <<docker, gone, byHand, adm, zombies, late, at>>

Aside ==
  \/ \E a \in Attempts : BeginNotNow(a) \/ BeginFails(a) \/ LateAnswer(a) \/ LimboEnds(a) \/ Recover(a)
  \/ Approve \/ ApproveRemove \/ Stop \/ ZombieEnds \/ Crash \/ Boot \/ World

\* What may happen beside an attempt: nothing, or an old request landing.
LEMMA AsideFacts ==
  ASSUME TypeOK, Control, Aside
  PROVE  HoldsOn /\ (Still \/ Commutes \/ \E op : Lands(op))
<1>0. /\ \A op : op = NoOp \/ op # NoOp
      /\ rec \in Records
  BY DEF TypeOK, DiskOK
<1>1. ASSUME UNCHANGED docker PROVE \A c : (Exists(c)' <=> Exists(c)) /\ (Running(c)' <=> Running(c))
  BY <1>1 DEF Exists, Running, docker
<1>2. ASSUME rec' = rec PROVE SameRecord
  BY <1>2 DEF SameRecord
<1>3. ASSUME NEW a \in Attempts, BeginNotNow(a) \/ BeginFails(a) PROVE HoldsOn /\ Still
  <2>1. /\ UNCHANGED <<docker, row, rec, marker, plan, zombies, limbo, adm, byHand>>
        /\ \A b \in Attempts : at'[b] \in {at[b], "off"} /\ late'[b] \in {late[b], NoOp}
    BY <1>3 DEF BeginNotNow, BeginFails, Leave, Control, Calm, TypeOK, EngineOK, disk, wire, spent, Fault
  <2> QED BY <1>1, <1>2, <2>1 DEF HoldsOn, Still, docker, row
<1>4. ASSUME NEW a \in Attempts, LateAnswer(a) PROVE HoldsOn /\ \E op : Lands(op)
  <2>1. /\ DockerBy(late[a]) /\ UNCHANGED <<row, rec, marker, plan, at, limbo, zombies, adm, byHand>>
        /\ \A b \in Attempts : late'[b] \in {late[b], NoOp}
    BY <1>4, AnswerFacts DEF LateAnswer, TypeOK, EngineOK, disk, wire
  <2>2. HoldsOn
    BY <1>2, <2>1 DEF HoldsOn
  <2>3. \A op : op = late[a] => Lands(op)
    BY <2>1 DEF Lands, row
  <2> QED BY <2>2, <2>3
<1>5. ASSUME NEW a \in Attempts, LimboEnds(a) PROVE HoldsOn /\ (Still \/ Commutes)
  <2>1. /\ limbo[a] /\ UNCHANGED <<docker, rec, marker, plan, at, late, zombies, adm, byHand>>
        /\ \A b \in Attempts : limbo'[b] => limbo[b]
        /\ UNCHANGED row \/ (cid' = plan[a].n /\ gone' = gone)
    BY <1>5 DEF LimboEnds, TypeOK, WireOK, disk, engine, CommitEffect, spent
  <2>2. plan[a].n = rec.new
    BY <2>1, LimboAlone DEF Agrees
  <2>3. HoldsOn
    BY <1>2, <2>1 DEF HoldsOn
  <2>4. CASE UNCHANGED row
    BY <1>1, <2>1, <2>3, <2>4 DEF Still, docker, row
  <2> QED BY <2>1, <2>2, <2>3, <2>4 DEF Commutes
<1>6. ASSUME NEW a \in Attempts, Recover(a) PROVE HoldsOn /\ Still
  <2>1. /\ UNCHANGED <<docker, row, marker, zombies, limbo, late, adm, byHand>>
        /\ rec' = AdoptedRec(rec) /\ rec.st \in {"open", "uncertain"}
        /\ at' = [at EXCEPT ![a] = "read"] /\ \A b \in Attempts : at[b] = "off"
    BY <1>6 DEF Recover, Control, Calm, MayAdopt, wire, spent, NoFault
  <2>2. SameRecord
    BY <1>0, <2>1 DEF SameRecord, AdoptedRec, Records, GateOpen
  <2>3. \A b \in Attempts : at'[b] \in {"off", "read"}
    BY <2>1 DEF TypeOK, EngineOK
  <2> QED BY <1>1, <2>1, <2>2, <2>3 DEF HoldsOn, Still, docker, row
<1>7. CASE Approve
  <2>1. /\ UNCHANGED <<docker, row, rec, marker, plan, at, late, zombies, limbo, byHand>>
        /\ adm' = IF Exists(rec.retained) THEN "remove" ELSE "record"
    BY <1>7 DEF Approve, disk, wire, spent
  <2>2. adm' = "record" => ~Exists(rec.retained)'
    BY <1>1, <2>1
  <2> QED BY <1>1, <1>2, <2>1, <2>2 DEF HoldsOn, Still, docker, row
<1>8. CASE ApproveRemove
  <2>1. /\ UNCHANGED <<row, rec, marker, plan, at, late, zombies, limbo, byHand>> /\ adm = "remove"
        /\ DockerBy(RetainedOp) /\ (adm' = "record" => Did(RetainedOp))
    BY <1>8, AnswerFacts DEF ApproveRemove, disk, wire
  <2>2. HoldsOn
    BY <1>2, <2>1 DEF HoldsOn
  <2>3. \A op : op = RetainedOp => Lands(op)
    BY <2>1 DEF Lands, row
  <2> QED BY <2>2, <2>3
<1>9. CASE Stop
  <2>1. /\ UNCHANGED <<cname, row, rec, marker, plan, at, late, zombies, limbo, adm, byHand>>
        /\ cst' = [cst EXCEPT ![cid] = "stopped"] /\ Running(cid)
    BY <1>9 DEF Stop, disk, wire, engine, spent
  <2>2. \A c \in Containers : (Exists(c)' => Exists(c)) /\ (Running(c)' => Running(c))
    BY <2>1 DEF Exists, Running, TypeOK, DockerOK
  <2> QED BY <1>2, <2>1, <2>2 DEF HoldsOn, Still, row
<1>10. CASE ZombieEnds
  <2>1. PICK op \in zombies : zombies' = zombies \ {op} /\ DockerBy(op)
    BY <1>10 DEF ZombieEnds, DockerBy, Did
  <2>2. /\ UNCHANGED <<row, rec, marker, at, plan, late, limbo, adm, byHand>>
    BY <1>10 DEF ZombieEnds, disk, engine, spent
  <2>3. HoldsOn
    BY <1>2, <2>1, <2>2 DEF HoldsOn
  <2>4. Lands(op)
    BY <2>1, <2>2 DEF Lands, row
  <2> QED BY <2>3, <2>4
<1>11. CASE Crash
  <2>1. /\ UNCHANGED <<docker, row, rec, marker, plan, byHand>> /\ adm' = "none"
        /\ \A b \in Attempts : /\ at'[b] = "off" /\ late'[b] = NoOp
                               /\ limbo'[b] <=> limbo[b] \/ at[b] = "cas"
        /\ \A op \in zombies' : \/ op \in zombies \/ (adm = "remove" /\ op = RetainedOp)
                                \/ \E b \in Attempts : op = OpAt(b) \/ op = late[b]
    BY <1>11 DEF Crash, disk, TypeOK, WireOK
  <2> QED BY <1>1, <1>2, <2>1 DEF HoldsOn, Still, docker, row
<1>12. CASE Boot
  <2>1. /\ UNCHANGED <<cname, row, plan, at, late, zombies, limbo, adm>>
        /\ rec' = rec \/ (~GateOpen(rec) /\ rec' = OrphanedRec(rec))
        /\ marker' \in {marker, marker /\ ~SeedDue} /\ byHand' = byHand
        /\ \A b \in Attempts : at[b] = "off"
    BY <1>12 DEF Boot, engine, wire, NeedsOrphaning, Fault, NoFault, spent, Control, LockHeld
  <2>2. SameRecord
    BY <1>0, <2>1 DEF SameRecord, OrphanedRec, Records, GateOpen
  <2>3. (marker' => marker) /\ (marker /\ ~marker' => GateOpen(rec))
    <3>1. CASE marker' = marker
      BY <3>1
    <3>2. CASE marker' = (marker /\ ~SeedDue)
      BY <3>2 DEF SeedDue, GateOpen
    <3> QED BY <2>1, <3>1, <3>2
  <2>4. PICK swept : cst' = [c \in Containers |-> IF c \in swept THEN "absent" ELSE cst[c]]
    BY <1>12 DEF Boot
  <2>5. \A c \in Containers : (Exists(c)' => Exists(c)) /\ (Running(c)' => Running(c))
    BY <2>4 DEF Exists, Running
  <2> QED BY <2>1, <2>2, <2>3, <2>5 DEF HoldsOn, Still, row
<1>13. CASE World
  BY <1>2, <1>13, WorldFacts DEF HoldsOn, Still, World
<1> QED BY <1>3, <1>4, <1>5, <1>6, <1>7, <1>8, <1>9, <1>10, <1>11, <1>12, <1>13 DEF Aside

\* Every step is one of these.
LEMMA StepsAside ==
  ASSUME [Next]_vars
  PROVE  \/ \E a \in Attempts :
              \/ Recreate(a, FALSE) \/ Recreate(a, TRUE) \/ RollbackToRetained(a)
              \/ Begin(a) \/ Resolve(a) \/ Inner(a)
         \/ ApproveRecord \/ Start \/ Purge \/ Aside
BY Steps DEF Aside, World

-----------------------------------------------------------------------------
(* What the requests nobody waits for are about: a container is only made,  *)
(* started or renamed for the attempt that is still unresolved.             *)

Aimed(op) ==
  /\ op.kind \in {"create", "start", "rename"} => Unresolved
  /\ op.kind \in {"create", "start"} => ~rec.reverse /\ op.c = rec.new
  /\ op.kind = "rename" => (~rec.reverse /\ op.c = rec.new => op.name = Canonical)

Aims ==
  /\ \A op \in zombies : Aimed(op)
  /\ \A a \in Attempts : Aimed(late[a])

\* Neither no request nor the retained name's is aimed at anything.
LEMMA NoAim == Aimed(NoOp) /\ Aimed(RetainedOp)
BY DEF Aimed, NoOp, RetainedOp, Op

\* The request of a point is aimed at that attempt's containers.
LEMMA AimedAt ==
  ASSUME TypeOK, Control, Sides, NEW a \in Attempts
  PROVE  Aimed(OpAt(a))
<1>1. CASE OpAt(a).kind \in {"create", "start", "rename"}
  <2>1. at[a] \in {"create", "startN", "renameO", "parkN", "renameN", "nameBack", "nameO", "nameN", "parkO"}
    BY <1>1, RequestAt
  <2>2. /\ Unresolved /\ rec.new = plan[a].n /\ rec.reverse = plan[a].reverse /\ plan[a].o # plan[a].n
    BY <2>1, Pair
  <2>3. at[a] \in {"create", "startN"} => ~plan[a].reverse
    BY DEF Sides, Stands, Forward
  <2>4. at[a] = "parkO" => plan[a].reverse
    BY DEF Sides, Stands, Backward, ReversePoints
  <2> QED BY <1>1, <2>2, <2>3, <2>4, RequestAt DEF Aimed
<1> QED BY <1>1 DEF Aimed

\* As long as the record says the same, the aims stay what they are.
LEMMA SameAims ==
  ASSUME SameRecord
  PROVE  \A op : Aimed(op) => Aimed(op)'
BY DEF SameRecord, Aimed, Unresolved

\* Every step keeps Aims.
LEMMA AimsNext == TypeOK /\ Control /\ Sides /\ Aims /\ [Next]_vars => Aims'
<1> SUFFICES ASSUME TypeOK, Control, Sides, Aims, [Next]_vars PROVE Aims'
  OBVIOUS
<1>1. ASSUME SameRecord,
             \A op \in zombies' : \/ op \in zombies \/ (adm = "remove" /\ op = RetainedOp)
                                  \/ \E b \in Attempts : op = OpAt(b) \/ op = late[b],
             \A b \in Attempts : late'[b] \in {late[b], NoOp, OpAt(b)}
      PROVE  Aims'
  <2>1. \A op \in zombies' : Aimed(op)
    BY <1>1, NoAim, AimedAt DEF Aims
  <2>2. \A b \in Attempts : Aimed(late[b]) /\ Aimed(OpAt(b)) /\ Aimed(NoOp)
    BY NoAim, AimedAt DEF Aims
  <2>3. \A op \in zombies' : Aimed(op)'
    BY <1>1, <2>1, SameAims
  <2>4. \A b \in Attempts : \A op : op = late'[b] => Aimed(op)'
    BY <1>1, <2>2, SameAims
  <2> QED BY <2>3, <2>4 DEF Aims, Aimed
\* No request is out.
<1>2. ASSUME \A b \in Attempts : late'[b] = NoOp, zombies' = {} PROVE Aims'
  BY <1>2 DEF Aims, Aimed, NoOp
<1>3. ASSUME UNCHANGED <<late, zombies>>, rec' = rec PROVE Aims'
  BY <1>3 DEF Aims, Aimed, Unresolved
<1>4. CASE Aside
  BY <1>1, <1>4, AsideFacts DEF HoldsOn
<1>5. ASSUME NEW a \in Attempts, Inner(a) PROVE Aims'
  <2>1. /\ Softly /\ zombies' = zombies /\ \A b \in Attempts \ {a} : late'[b] = late[b]
    BY <1>5, InnerShift DEF Shift, Others
  <2>2. SameRecord
    BY <2>1, SoftFacts DEF SameRecord
  <2>3. late'[a] \in {late[a], NoOp, OpAt(a)}
    BY <1>5, InnerMoves DEF Touches
  <2> QED BY <1>1, <2>1, <2>2, <2>3
<1>6. ASSUME NEW a \in Attempts, Recreate(a, FALSE) \/ Recreate(a, TRUE) \/ RollbackToRetained(a) PROVE Aims'
  BY <1>3, <1>6 DEF Recreate, RollbackToRetained, Admit, disk, wire
<1>7. ASSUME NEW a \in Attempts, Begin(a) \/ Resolve(a) PROVE Aims'
  <2>1. at[a] \notin {"off", "settle"} /\ UNCHANGED <<late, wire>>
    BY <1>7 DEF Begin, Resolve, RecordPoints
  <2>2. zombies = {} /\ late[a] = NoOp /\ \A b \in Attempts \ {a} : late[b] = NoOp
    BY <2>1, Alone DEF Control, WireOrder
  <2> QED BY <1>2, <2>1, <2>2 DEF wire
<1>8. CASE Start
  BY <1>3, <1>8 DEF Start, disk, engine, wire
<1>9. CASE ApproveRecord \/ Purge
  <2>1. /\ UNCHANGED <<late, wire>> /\ lock \in {0, Admin} /\ GateOpen(rec)
        /\ rec.retained = 0 \/ adm # "none"
    BY <1>9 DEF ApproveRecord, Purge, Gate, DeleteGateOpen, engine, Control, LockHeld
  <2>2. zombies = {} /\ \A b \in Attempts : late[b] = NoOp
    BY <2>1, Idle DEF Control, WireOrder
  <2> QED BY <1>2, <2>1, <2>2 DEF wire
<1> QED BY <1>4, <1>5, <1>6, <1>7, <1>8, <1>9, StepsAside

\* Aims holds at first.
LEMMA AimsInit == Init => Aims
BY NoAim DEF Init, Aims

-----------------------------------------------------------------------------
(* The defer marker is in place whenever N may start.                       *)

Seeded == {"create", "furnish", "renameO", "renameN", "startN", "ready", "cas"}

Deferred(op) == op.kind = "start" => marker \/ op.c = cid

Seeds ==
  /\ GateOpen(rec) \/ rec.reverse => ~marker
  /\ \A a \in Attempts : at[a] \in Seeded /\ ~plan[a].reverse => marker
  /\ \A op \in zombies : Deferred(op)
  /\ \A a \in Attempts : Deferred(late[a])

\* The request of a point starts nothing without the marker.
LEMMA DeferredAt ==
  ASSUME Sides, Seeds, NEW a \in Attempts
  PROVE  Deferred(OpAt(a)) /\ Deferred(NoOp) /\ Deferred(RetainedOp)
BY RequestAt DEF Seeds, Seeded, Sides, Stands, Forward, Deferred, NoOp, RetainedOp, Op

\* Steps under the lock keep the marker for as long as it is needed.
LEMMA SeedsInner ==
  ASSUME TypeOK, Control, Sides, Seeds, NEW a \in Attempts, Inner(a)
  PROVE  Seeds'
<1>1. /\ at[a] \notin {"off", "begin"} /\ plan' = plan /\ Softly /\ zombies' = zombies
      /\ \A b \in Attempts \ {a} : at'[b] = at[b] /\ late'[b] = late[b]
  BY InnerShift DEF Shift, Keeps, Others
<1>2. /\ rec.att = a /\ Unresolved /\ rec.reverse = plan[a].reverse /\ zombies = {}
      /\ \A b \in Attempts \ {a} : at[b] = "off" /\ late[b] = NoOp
  BY <1>1, Pair
<1>3. (GateOpen(rec') <=> GateOpen(rec)) /\ rec'.reverse = rec.reverse
  BY <1>1, SoftFacts
<1>4. Touches(a) /\ Moved(a) /\ Stands(a)
  BY InnerMoves DEF Sides
<1>5. ~GateOpen(rec') /\ (rec'.reverse => ~marker')
  <2>1. at[a] = "prepare" => ~rec.reverse
    BY <1>2, <1>4 DEF Stands, Forward
  <2> QED BY <1>2, <1>3, <1>4, <2>1 DEF Touches, Seeds, Unresolved
<1>6. at'[a] \in Seeded /\ ~plan[a].reverse => marker'
  <2>1. CASE Stays(a)
    BY <2>1 DEF Stays, Seeds
  <2>2. CASE Falls(a)
    BY <2>2 DEF Falls, Seeded
  <2>3. CASE MainGoesOn(a)
    BY <2>3 DEF MainGoesOn, Seeds, Seeded, NextMain
  <2>4. CASE PassGoesOn(a)
    <3>1. \A ok : FirstAct(a) \notin Seeded /\ NextPass(a, ok) \notin Seeded
      BY DEF FirstAct, NextPass, AfterN, Seeded
    <3> QED BY <2>4, <3>1 DEF PassGoesOn, Seeded
  <2> QED BY <1>4, <2>1, <2>2, <2>3, <2>4 DEF Moved
<1>7. late'[a].kind = "start" => marker' \/ late'[a].c = cid'
  <2>1. CASE late'[a] = NoOp
    BY <2>1 DEF Deferred, NoOp
  <2>2. CASE late'[a] = late[a] /\ late[a] # NoOp
    <3>1. at[a] = "settle"
      BY <2>2 DEF Control, WireOrder
    <3> QED BY <1>4, <2>2, <3>1 DEF Touches, Deferred, Seeds, row
  <2>3. CASE late'[a] = OpAt(a) /\ UNCHANGED row
    <3>1. OpAt(a).kind = "start" => at[a] = "startN" /\ marker
      BY <1>4, RequestAt DEF Stands, Forward, Seeds, Seeded
    <3>2. at[a] = "startN" => marker' = marker
      BY <1>4 DEF Touches
    <3>3. late'[a].kind = "start" => marker'
      BY <2>3, <3>1, <3>2
    <3> QED BY <3>3
  <2> QED BY <1>4, <2>1, <2>2, <2>3 DEF Touches
<1>8. \A b \in Attempts \ {a} : at'[b] = "off" /\ late'[b] = NoOp
  BY <1>1, <1>2
<1> QED BY <1>1, <1>2, <1>5, <1>6, <1>7, <1>8 DEF Seeds, Seeded, Deferred, NoOp

\* Every step keeps Seeds.
LEMMA SeedsNext ==
  TypeOK /\ Control /\ Sides /\ Evidence /\ Aims /\ Seeds /\ [Next]_vars => Seeds'
<1> SUFFICES ASSUME TypeOK, Control, Sides, Evidence, Aims, Seeds, [Next]_vars PROVE Seeds'
  OBVIOUS
<1> "off" \notin Seeded /\ "begin" \notin Seeded /\ "read" \notin Seeded /\ "prepare" \notin Seeded
  BY DEF Seeded
\* No request is out.
<1>1. ASSUME \A b \in Attempts : late'[b] = NoOp, zombies' = {},
             \A b \in Attempts : at'[b] \in Seeded => plan'[b].reverse,
             GateOpen(rec') \/ rec'.reverse => ~marker'
      PROVE  Seeds'
  BY <1>1 DEF Seeds, Deferred, NoOp
<1>2. CASE Aside
  <2>1. HoldsOn /\ (Still \/ Commutes \/ \E op : Lands(op))
    BY <1>2, AsideFacts
  <2>2. GateOpen(rec') \/ rec'.reverse => ~marker'
    BY <2>1 DEF HoldsOn, SameRecord, Seeds
  <2>3. \A b \in Attempts : at'[b] \in Seeded /\ ~plan'[b].reverse => marker'
    BY <2>1 DEF HoldsOn, Seeds
  <2>4. CASE Commutes
    <3>1. zombies' = {} /\ \A b \in Attempts : late'[b] = NoOp
      BY <2>4, LimboAlone DEF Commutes
    <3> QED BY <2>2, <2>3, <3>1 DEF Seeds, Deferred, NoOp
  <2>5. CASE cid' = cid
    <3>1. ASSUME NEW op, op \in zombies' \/ \E b \in Attempts : op = late'[b]
          PROVE  Deferred(op) /\ Aimed(op)
      <4>1. \/ op \in zombies \/ (\E b \in Attempts : op = OpAt(b) \/ op = late[b]) \/ op \in {NoOp, RetainedOp}
        BY <2>1, <3>1 DEF HoldsOn
      <4>2. \A b \in Attempts : Deferred(OpAt(b)) /\ Aimed(OpAt(b)) /\ Deferred(late[b]) /\ Aimed(late[b])
        BY DeferredAt, AimedAt DEF Seeds, Aims
      <4>3. 1 \in Attempts
        BY NumberFacts DEF Attempts
      <4> QED BY <4>1, <4>2, <4>3, DeferredAt, NoAim DEF Seeds, Aims
    <3>2. \A op : Deferred(op) /\ Aimed(op) => Deferred(op)'
      BY <2>1, <2>5 DEF HoldsOn, Deferred, Aimed, Unresolved
    <3>3. \A op \in zombies' : Deferred(op)'
      BY <3>1, <3>2
    <3>4. \A b \in Attempts : \A op : op = late'[b] => Deferred(op)'
      BY <3>1, <3>2
    <3> QED BY <2>2, <2>3, <3>3, <3>4 DEF Seeds, Deferred
  <2> QED BY <2>1, <2>4, <2>5 DEF Still, Lands
<1>3. ASSUME NEW a \in Attempts, Recreate(a, FALSE) \/ Recreate(a, TRUE) \/ RollbackToRetained(a) PROVE Seeds'
  <2>1. lock = 0 /\ GateOpen(rec) /\ UNCHANGED <<row, disk, late, wire>> /\ at' = [at EXCEPT ![a] = "begin"]
    BY <1>3 DEF Recreate, RollbackToRetained, Admit
  <2>2. \A b \in Attempts : at'[b] \in {"off", "begin"}
    BY <2>1, Idle DEF TypeOK, EngineOK
  <2> QED BY <2>1, <2>2 DEF Seeds, Deferred, row, disk, wire
<1>4. ASSUME NEW a \in Attempts, Begin(a) PROVE Seeds'
  <2>1. /\ at[a] = "begin" /\ UNCHANGED <<late, wire, marker>> /\ GateOpen(rec)
        /\ \A b \in Attempts \ {a} : at'[b] = at[b]
        /\ at'[a] \in {"off", "prepare", "renameO"} /\ (at'[a] = "renameO" => plan[a].reverse)
    BY <1>4 DEF Begin, MayBegin, TypeOK, EngineOK
  <2>2. plan'[a].reverse = plan[a].reverse
    BY <1>4 DEF Begin, TypeOK, EngineOK, Plans
  <2>3. zombies = {} /\ \A b \in Attempts : late[b] = NoOp /\ (b # a => at[b] = "off")
    BY <2>1, Alone
  <2> QED BY <1>1, <2>1, <2>2, <2>3 DEF wire, Seeds
<1>5. ASSUME NEW a \in Attempts, Resolve(a) PROVE Seeds'
  <2>1. /\ at[a] \in RecordPoints /\ at' = [at EXCEPT ![a] = "off"] /\ UNCHANGED <<late, wire, marker>>
    BY <1>5 DEF Resolve
  <2>2. /\ zombies = {} /\ rec.reverse = plan[a].reverse /\ late[a] = NoOp
        /\ \A b \in Attempts \ {a} : at[b] = "off" /\ late[b] = NoOp
    BY <2>1, Pair DEF RecordPoints, Control, WireOrder
  <2>3. ~marker
    <3>1. CASE at[a] \in {"recordN", "recordO"}
      BY <3>1 DEF Evidence, Seen
    <3>2. CASE at[a] \in {"recordBack", "recordUndo"}
      BY <2>2, <3>2 DEF Sides, Stands, Backward, Seeds
    <3> QED BY <2>1, <3>1, <3>2 DEF RecordPoints
  <2>4. \A b \in Attempts : at'[b] = "off"
    BY <2>1, <2>2 DEF TypeOK, EngineOK
  <2> QED BY <1>1, <2>1, <2>2, <2>3, <2>4 DEF wire
<1>6. CASE Start
  BY <1>6 DEF Start, row, disk, engine, wire, Seeds, Deferred
<1>7. CASE ApproveRecord \/ Purge
  <2>1. /\ UNCHANGED <<late, wire, at>> /\ lock \in {0, Admin} /\ GateOpen(rec)
        /\ rec.retained = 0 \/ adm # "none"
        /\ marker' \in {marker, FALSE}
    BY <1>7 DEF ApproveRecord, Purge, Gate, DeleteGateOpen, engine, Control, LockHeld
  <2>2. zombies = {} /\ \A b \in Attempts : late[b] = NoOp /\ at[b] = "off"
    BY <2>1, Idle DEF Control, WireOrder
  <2>3. ~marker'
    BY <2>1 DEF Seeds
  <2> QED BY <1>1, <2>1, <2>2, <2>3 DEF wire
<1> QED BY <1>2, <1>3, <1>4, <1>5, <1>6, <1>7, SeedsInner, StepsAside

\* Seeds holds at first.
LEMMA SeedsInit == Init => Seeds
BY DEF Init, Seeds, Seeded, Deferred, NoOp

\* The layers so far.
Sound == Safe /\ Evidence /\ Aims /\ Seeds

\* All the layers hold for ever.
LEMMA SoundAlways == Calm /\ Spec => []Sound
<1>1. Calm /\ Init => Sound
  BY TypeInit, ControlInit, SidesInit, KeptInit, PresentInit, EvidenceInit, AimsInit, SeedsInit DEF Sound, Safe
<1>2. Sound /\ [Next]_vars => Sound'
  BY TypeNext, ControlNext, SidesNext, KeptNext, PresentNext, EvidenceNext, AimsNext, SeedsNext DEF Sound, Safe
<1> QED BY <1>1, <1>2, PTL DEF Spec

\* The engine, or what it left out, starts only N, and for an attempt that is
\* still unresolved;
LEMMA OwnStarts ==
  ASSUME Sound, Aside \/ (\E a \in Attempts : Inner(a)),
         NEW c \in Containers, ~Running(c), Running(c)', byHand' = byHand
  PROVE  Unresolved /\ ~rec.reverse /\ c = rec.new /\ (marker \/ c = cid)
<1> USE DEF Sound, Safe
<1>1. ASSUME NEW op, DockerBy(op), Aimed(op), Deferred(op)
      PROVE  Unresolved /\ ~rec.reverse /\ c = rec.new /\ (marker \/ c = cid)
  <2>1. op.kind = "start" /\ op.c = c
    BY <1>1, EffectFacts
  <2> QED BY <1>1, <2>1 DEF Aimed, Deferred
<1>2. CASE Aside
  <2>1. Still \/ Commutes \/ \E op : Lands(op)
    BY <1>2, AsideFacts
  <2>2. ASSUME NEW op, Lands(op) PROVE DockerBy(op) /\ Aimed(op) /\ Deferred(op)
    <3>1. 1 \in Attempts
      BY NumberFacts DEF Attempts
    <3> QED BY <2>2, <3>1, NoAim, DeferredAt DEF Lands, Aims, Seeds
  <2>3. ~Still
    BY DEF Still
  <2>4. ~Commutes
    BY DEF Commutes, docker, Running
  <2> QED BY <1>1, <2>1, <2>2, <2>3, <2>4
<1>3. ASSUME NEW a \in Attempts, Inner(a)
      PROVE  Unresolved /\ ~rec.reverse /\ c = rec.new /\ (marker \/ c = cid)
  <2>1. \A op : op = OpAt(a) => DockerBy(op) /\ Aimed(op) /\ Deferred(op)
    BY <1>3, InnerMoves, AimedAt, DeferredAt DEF Touches
  <2> QED BY <1>1, <2>1
<1> QED BY <1>2, <1>3

\* the other steps start D1's container, by the verb, or none.
LEMMA OtherStarts ==
  ASSUME TypeOK, NEW c \in Containers, Running(c)',
         \/ ApproveRecord \/ Start \/ Purge
         \/ \E a \in Attempts : \/ Recreate(a, FALSE) \/ Recreate(a, TRUE) \/ RollbackToRetained(a)
                                \/ Begin(a) \/ Resolve(a)
  PROVE  Running(c) \/ (c = cid /\ Start)
<1>1. CASE Start
  BY <1>1 DEF Start, Running, TypeOK, DockerOK
<1>2. CASE Purge
  <2>1. \A d \in Containers : cst'[d] \in {cst[d], "absent"}
    BY <1>2 DEF Purge, TypeOK, DockerOK
  <2> QED BY <2>1 DEF Running
<1>3. CASE ApproveRecord \/ \E a \in Attempts :
              \/ Recreate(a, FALSE) \/ Recreate(a, TRUE) \/ RollbackToRetained(a)
              \/ Begin(a) \/ Resolve(a)
  BY <1>3 DEF ApproveRecord, Recreate, RollbackToRetained, Admit, Begin, Resolve, docker, Running
<1> QED BY <1>1, <1>2, <1>3

\* No container but D1's is started by the program without the defer marker
\* in place: N cannot seed the workspace before the commit.
THEOREM SeedAlwaysDeferred == Calm /\ Spec => SeedOnlyAfterCommit
<1>1. Sound /\ [Next]_vars =>
        [\A c \in Containers :
           (~Running(c) /\ cst'[c] = "running" /\ byHand' = byHand) => marker \/ c = cid]_vars
  <2> SUFFICES ASSUME Sound, [Next]_vars, NEW c \in Containers, ~Running(c), Running(c)', byHand' = byHand
               PROVE  marker \/ c = cid
    BY DEF Running
  <2> QED BY StepsAside, OwnStarts, OtherStarts DEF Sound, Safe
<1> QED BY <1>1, SoundAlways, PTL DEF Spec, SeedOnlyAfterCommit

-----------------------------------------------------------------------------
(* Unless a person starts one, only the current container runs, or the one  *)
(* about to replace it.                                                     *)

Writers ==
  byHand = 0 =>
    /\ \A c \in Containers : Running(c) => c = cid \/ (Unresolved /\ ~rec.reverse /\ c = rec.new)
    /\ Unresolved => ~Running(rec.old)
    /\ \A a \in Attempts : at[a] = "begin" => ~Running(plan[a].o)

\* What the admission of an attempt leaves: everything outside the engine as
\* it is, and the pair of the attempt, with O stopped.
LEMMA AdmitFacts ==
  ASSUME TypeOK, Control, NEW a \in Attempts,
         Recreate(a, FALSE) \/ Recreate(a, TRUE) \/ RollbackToRetained(a)
  PROVE  /\ lock = 0 /\ GateOpen(rec) /\ ~Running(cid) /\ ~gone
         /\ UNCHANGED <<docker, row, rec, marker, late, limbo, zombies, adm, byHand>>
         /\ at'[a] = "begin" /\ \A b \in Attempts \ {a} : at'[b] = "off"
         /\ plan'[a].o = cid
         /\ \/ plan'[a].n = a + 1 /\ ~plan'[a].reverse /\ rec.retained = 0
            \/ plan'[a].n = rec.retained /\ plan'[a].reverse /\ rec.retained # 0 /\ cid # rec.retained
<1>1. /\ lock = 0 /\ GateOpen(rec) /\ ~gone
      /\ UNCHANGED <<docker, row, rec, marker, late, limbo, zombies, adm, byHand>>
      /\ at' = [at EXCEPT ![a] = "begin"]
  BY DEF Recreate, RollbackToRetained, Admit, disk, wire, spent
<1>2. ~Running(cid)
  BY DEF Recreate, RollbackToRetained
<1>3. \/ plan' = [plan EXCEPT ![a] = PlanOf(cid, a + 1, FALSE, FALSE)] /\ rec.retained = 0
      \/ plan' = [plan EXCEPT ![a] = PlanOf(cid, a + 1, TRUE, FALSE)] /\ rec.retained = 0
      \/ /\ plan' = [plan EXCEPT ![a] = PlanOf(cid, rec.retained, FALSE, TRUE)]
         /\ rec.retained # 0 /\ cid # rec.retained
  BY DEF Recreate, RollbackToRetained, NewOf
<1>4. /\ plan'[a].o = cid
      /\ \/ plan'[a].n = a + 1 /\ ~plan'[a].reverse /\ rec.retained = 0
         \/ plan'[a].n = rec.retained /\ plan'[a].reverse /\ rec.retained # 0 /\ cid # rec.retained
  <2>1. PICK n, c, v : /\ plan' = [plan EXCEPT ![a] = PlanOf(cid, n, c, v)]
                       /\ \/ n = a + 1 /\ v = FALSE /\ rec.retained = 0
                          \/ n = rec.retained /\ v = TRUE /\ rec.retained # 0 /\ cid # rec.retained
    BY <1>3
  <2>2. plan'[a] = PlanOf(cid, n, c, v)
    BY <2>1 DEF TypeOK, EngineOK
  <2>3. plan'[a].o = cid /\ plan'[a].n = n /\ plan'[a].reverse = v
    BY <2>2 DEF PlanOf, NoPlan
  <2> QED BY <2>1, <2>3
<1>5. at'[a] = "begin" /\ \A b \in Attempts \ {a} : at'[b] = "off"
  BY <1>1, Idle DEF TypeOK, EngineOK
<1> QED BY <1>1, <1>2, <1>4, <1>5

\* A step that leaves the record's attempt as it is, and D1 on a container of
\* its pair.
LEMMA WritersFrame ==
  ASSUME Sound, Writers, SameRecord, byHand' = 0, byHand = 0,
         Aside \/ (\E a \in Attempts : Inner(a)),
         cid' = cid \/ (Unresolved /\ cid' = rec.new),
         \A b \in Attempts : at'[b] = "begin" => at[b] = "begin" /\ plan'[b] = plan[b]
  PROVE  Writers'
<1>1. \A c \in Containers : Running(c)' => Running(c) \/ (Unresolved /\ ~rec.reverse /\ c = rec.new)
  BY OwnStarts
<1>2. Unresolved => rec.old # rec.new /\ rec.old \in Containers /\ cid \in {rec.old, rec.new}
  BY DEF Sound, Safe, Sides, Ends
<1>3. Unresolved' <=> Unresolved
  BY DEF SameRecord, Unresolved
<1>4. ASSUME NEW c \in Containers, Running(c)'
      PROVE  c = cid' \/ (Unresolved /\ ~rec.reverse /\ c = rec.new)
  BY <1>1, <1>2, <1>4 DEF Writers
<1>5. Unresolved => ~Running(rec.old)'
  BY <1>1, <1>2 DEF Writers, SameRecord, Running
<1>6. ASSUME NEW b \in Attempts, at'[b] = "begin" PROVE ~Running(plan[b].o)'
  <2>1. at[b] = "begin" /\ plan'[b] = plan[b]
    BY <1>6
  <2>2. ~Running(plan[b].o) /\ ~Unresolved /\ plan[b].o \in Containers
    BY <2>1, Alone DEF Writers, Sound, Safe, Sides, Ends, Unresolved
  <2> QED BY <1>1, <2>1, <2>2 DEF Running
<1> QED BY <1>3, <1>4, <1>5, <1>6 DEF Writers, SameRecord

\* Every step keeps Writers.
LEMMA WritersNext == Sound /\ Writers /\ [Next]_vars => Writers'
<1> SUFFICES ASSUME Sound, Writers, [Next]_vars, byHand' = 0 PROVE Writers'
  BY DEF Writers
<1> USE DEF Sound, Safe
<1>0. byHand \in Nat
  BY NumberFacts DEF TypeOK, SpentOK
<1>1. CASE Aside
  <2>1. HoldsOn /\ (Still \/ Commutes \/ \E op : Lands(op))
    BY <1>1, AsideFacts
  <2>2. cid' = cid \/ (Unresolved /\ cid' = rec.new)
    BY <2>1, LimboAlone DEF Still, Commutes, Lands
  <2>3. \A b \in Attempts : at'[b] = "begin" => at[b] = "begin" /\ plan'[b] = plan[b]
    BY <2>1 DEF HoldsOn
  <2> QED BY <1>1, <2>1, <2>2, <2>3, WritersFrame DEF HoldsOn
<1>2. ASSUME NEW a \in Attempts, Inner(a) PROVE Writers'
  <2>1. /\ at[a] \notin {"off", "begin"} /\ Softly /\ at'[a] # "begin"
        /\ \A b \in Attempts \ {a} : at'[b] = at[b]
    BY <1>2, InnerShift DEF Shift, Keeps, Others
  <2>2. SameRecord /\ Unresolved /\ plan[a].n = rec.new /\ \A b \in Attempts \ {a} : at[b] = "off"
    BY <2>1, SoftFacts, Pair DEF SameRecord
  <2>3. (cid' = cid \/ cid' = plan[a].n) /\ byHand' = byHand
    BY <1>2, InnerMoves DEF Touches, row, CommitEffect
  <2>4. \A b \in Attempts : at'[b] # "begin"
    BY <2>1, <2>2
  <2> QED BY <1>2, <2>2, <2>3, <2>4, WritersFrame
<1>3. ASSUME NEW a \in Attempts, Recreate(a, FALSE) \/ Recreate(a, TRUE) \/ RollbackToRetained(a) PROVE Writers'
  BY <1>3, AdmitFacts DEF Writers, Unresolved, Running, docker, row
<1>4. ASSUME NEW a \in Attempts, Begin(a) PROVE Writers'
  <2>1. /\ at[a] = "begin" /\ UNCHANGED <<docker, row, byHand>> /\ rec' = NewRecord(a)
        /\ at'[a] # "begin" /\ \A b \in Attempts \ {a} : at'[b] = at[b]
    BY <1>4 DEF Begin, TypeOK, EngineOK, spent
  <2>2. /\ GateOpen(rec) /\ cid = plan[a].o /\ plan[a].o \in Containers
        /\ \A b \in Attempts \ {a} : at[b] = "off"
    BY <2>1, Alone DEF Sides, Stands, OnOld, Ends
  <2>3. \A c : ~Running(c)
    BY <1>0, <2>1, <2>2 DEF Writers, Unresolved, Running
  <2>4. \A c : ~Running(c)'
    BY <2>1, <2>3 DEF Running, docker
  <2>5. \A b \in Attempts : at'[b] # "begin"
    BY <2>1, <2>2
  <2> QED BY <2>4, <2>5 DEF Writers
<1>5. ASSUME NEW a \in Attempts, Resolve(a) PROVE Writers'
  <2>1. /\ at[a] \in RecordPoints /\ at' = [at EXCEPT ![a] = "off"] /\ UNCHANGED <<docker, row, byHand>>
        /\ rec' = ResolvedRec(rec, OutcomeAt(a), RetainedAt(a), RoleAt(a))
    BY <1>5 DEF Resolve, spent
  <2>2. /\ Unresolved /\ rec.new = plan[a].n /\ rec.old = plan[a].o /\ rec.reverse = plan[a].reverse
        /\ \A b \in Attempts \ {a} : at[b] = "off"
    BY <2>1, Pair DEF RecordPoints
  <2>3. GateOpen(rec')
    BY <2>1 DEF ResolvedRec, GateOpen, TypeOK, DiskOK, Records
  <2>4. ASSUME NEW c \in Containers, Running(c) PROVE c = cid
    <3>1. c = cid \/ (~rec.reverse /\ c = rec.new)
      BY <2>1, <2>4 DEF Writers
    <3>2. CASE at[a] \in {"recordN", "recordBack"}
      BY <2>2, <3>1, <3>2 DEF Sides, Stands, OnNew
    <3>3. CASE at[a] = "recordUndo"
      BY <2>2, <3>1, <3>3 DEF Sides, Stands, Backward
    <3>4. CASE at[a] = "recordO"
      <4>1. ~Exists(rec.new)
        BY <2>2, <3>4 DEF Evidence, Seen
      <4> QED BY <2>4, <3>1, <4>1 DEF Exists, Running
    <3> QED BY <2>1, <3>2, <3>3, <3>4 DEF RecordPoints
  <2>5. \A b \in Attempts : at'[b] = "off"
    BY <2>1, <2>2 DEF TypeOK, EngineOK
  <2> QED BY <2>1, <2>3, <2>4, <2>5 DEF Writers, Unresolved, Running, docker, row
<1>6. CASE ApproveRecord
  <2>1. /\ adm # "none" /\ UNCHANGED <<docker, row, at>>
        /\ rec' = rec \/ rec' = ApprovedRec(rec)
    BY <1>6 DEF ApproveRecord
  <2>2. GateOpen(rec) /\ \A b \in Attempts : at[b] = "off"
    BY <2>1, Idle DEF Control, LockHeld
  <2>3. GateOpen(rec')
    BY <2>1, <2>2 DEF ApprovedRec, GateOpen, TypeOK, DiskOK, Records
  <2>4. byHand' = byHand
    BY <1>6 DEF ApproveRecord, NoFault, Fault, spent
  <2> QED BY <2>1, <2>2, <2>3, <2>4 DEF Writers, Unresolved, Running, docker, row
<1>7. CASE Start \/ Purge
  <2>1. /\ GateOpen(rec) /\ lock = 0 /\ UNCHANGED <<at, byHand>> /\ GateOpen(rec')
    BY <1>7 DEF Start, Purge, Gate, engine, spent, disk, NoRecord, GateOpen
  <2>2. \A b \in Attempts : at'[b] = "off"
    BY <2>1, Idle
  <2>3. CASE Start
    <3>1. \A c \in Containers : Running(c)' => c = cid
      BY <2>1, <2>3, OtherStarts DEF Writers, Unresolved
    <3> QED BY <2>1, <2>2, <2>3, <3>1 DEF Writers, Unresolved, Start, row
  <2>4. CASE Purge
    <3>1. \A c \in Containers : Running(c) => c = cid
      BY <2>1 DEF Writers, Unresolved
    <3>2. \A c \in Containers : ~Running(c)'
      BY <2>4, <3>1 DEF Purge, Running, Exists, TypeOK, DockerOK
    <3> QED BY <2>1, <2>2, <3>2 DEF Writers, Unresolved
  <2> QED BY <1>7, <2>3, <2>4
<1> QED BY <1>1, <1>2, <1>3, <1>4, <1>5, <1>6, <1>7, StepsAside

\* Writers holds at first.
LEMMA WritersInit == Init => Writers
BY DEF Init, Writers, Running

\* Two containers of the session never run at once over its workspace, unless
\* a person started one.
THEOREM AlwaysOneWriter == Calm /\ Spec => []OneWriter
<1>1. Calm /\ Init => Writers
  BY WritersInit
<1>2. Sound /\ Writers => OneWriter
  <2> SUFFICES ASSUME Sound, Writers, byHand = 0, NEW c \in Containers, NEW d \in Containers,
                      Running(c), Running(d)
               PROVE  c = d
    BY DEF OneWriter
  <2>1. Unresolved => cid \in {rec.old, rec.new} /\ ~Running(rec.old)
    BY DEF Sound, Safe, Sides, Writers
  <2> QED BY <2>1 DEF Writers
<1> QED BY <1>1, <1>2, SoundAlways, WritersNext, PTL DEF Spec

-----------------------------------------------------------------------------
(* Every container is one that D1 or the record names.                      *)

Remains ==
  /\ \A c \in Containers :
       Exists(c) => c \in {cid, rec.retained} \/ (Unresolved /\ c \in {rec.old, rec.new})
  /\ adm = "record" => ~Exists(rec.retained)
  /\ \A a \in Attempts : at[a] = "begin" =>
       rec.retained = 0 \/ (plan[a].reverse /\ plan[a].n = rec.retained)

\* The engine, or what it left out, makes only N, and for an attempt that is
\* still unresolved.
LEMMA OwnMakes ==
  ASSUME Sound, Aside \/ (\E a \in Attempts : Inner(a)), NEW c \in Containers, Exists(c)'
  PROVE  Exists(c) \/ (Unresolved /\ c = rec.new)
<1> USE DEF Sound, Safe
<1>1. ASSUME NEW op, DockerBy(op), Aimed(op) PROVE Exists(c) \/ (Unresolved /\ c = rec.new)
  BY <1>1, EffectFacts DEF Aimed
<1>2. CASE Aside
  <2>1. Still \/ Commutes \/ \E op : Lands(op)
    BY <1>2, AsideFacts
  <2>2. CASE Still
    BY <2>2 DEF Still
  <2>3. CASE Commutes
    BY <2>3 DEF Commutes, docker, Exists
  <2>4. ASSUME NEW op, Lands(op) PROVE Exists(c) \/ (Unresolved /\ c = rec.new)
    <3>1. DockerBy(op) /\ Aimed(op)
      BY <2>4, NoAim DEF Lands, Aims
    <3> QED BY <1>1, <3>1
  <2> QED BY <2>1, <2>2, <2>3, <2>4
<1>3. ASSUME NEW a \in Attempts, Inner(a) PROVE Exists(c) \/ (Unresolved /\ c = rec.new)
  <2>1. DockerBy(OpAt(a)) /\ Aimed(OpAt(a))
    BY <1>3, InnerMoves, AimedAt DEF Touches
  <2> QED BY <1>1, <2>1
<1> QED BY <1>2, <1>3

\* What such a step does to the row: at most the commit.
LEMMA OwnCommits ==
  ASSUME Sound, Aside \/ (\E a \in Attempts : Inner(a))
  PROVE  /\ SameRecord /\ gone' = gone
         /\ cid' = cid \/ (Unresolved /\ cid' = rec.new)
         /\ \A b \in Attempts : at'[b] = "begin" => at[b] = "begin" /\ plan'[b] = plan[b]
<1> USE DEF Sound, Safe
<1>1. CASE Aside
  <2>1. HoldsOn /\ (Still \/ Commutes \/ \E op : Lands(op))
    BY <1>1, AsideFacts
  <2>2. gone' = gone /\ (cid' = cid \/ (Unresolved /\ cid' = rec.new))
    BY <2>1, LimboAlone DEF Still, Commutes, Lands
  <2> QED BY <2>1, <2>2 DEF HoldsOn
<1>2. ASSUME NEW a \in Attempts, Inner(a)
      PROVE  /\ SameRecord /\ gone' = gone
             /\ cid' = cid \/ (Unresolved /\ cid' = rec.new)
             /\ \A b \in Attempts : at'[b] = "begin" => at[b] = "begin" /\ plan'[b] = plan[b]
  <2>1. /\ at[a] \notin {"off", "begin"} /\ Softly /\ at'[a] # "begin"
        /\ \A b \in Attempts \ {a} : at'[b] = at[b]
    BY <1>2, InnerShift DEF Shift, Keeps, Others
  <2>2. SameRecord /\ Unresolved /\ plan[a].n = rec.new /\ \A b \in Attempts \ {a} : at[b] = "off"
    BY <2>1, SoftFacts, Pair DEF SameRecord
  <2>3. gone' = gone /\ (cid' = cid \/ cid' = plan[a].n)
    BY <1>2, InnerMoves DEF Touches, row, CommitEffect
  <2> QED BY <2>1, <2>2, <2>3
<1> QED BY <1>1, <1>2

\* An approval gets to its record write once the retained container is gone.
LEMMA OwnApproves ==
  ASSUME Sound, Aside \/ (\E a \in Attempts : Inner(a)), adm' = "record"
  PROVE  /\ GateOpen(rec) /\ rec.retained \in Containers
         /\ adm = "record" \/ ~Exists(rec.retained)'
<1> USE DEF Sound, Safe
<1>1. ASSUME adm # "none" PROVE GateOpen(rec) /\ rec.retained \in Containers
  BY <1>1 DEF Control, LockHeld, TypeOK, DiskOK, Records, Containers
<1>2. CASE Aside
  <2>1. CASE Approve
    <3>1. GateOpen(rec) /\ rec.retained \in Containers
      BY <2>1 DEF Approve, TypeOK, DiskOK, Records, Containers
    <3>2. UNCHANGED <<docker, rec>> /\ ~Exists(rec.retained)
      BY <2>1 DEF Approve, disk
    <3> QED BY <3>1, <3>2 DEF Exists, docker
  <2>2. CASE ~Approve
    <3>1. adm = "record" \/ (adm = "remove" /\ \E op : op = RetainedOp /\ Did(op))
      <4>1. CASE ApproveRemove
        BY <4>1, AnswerFacts DEF ApproveRemove
      <4>2. CASE ~ApproveRemove
        <5>1. adm' \in {adm, "none"}
          BY <1>2, <2>2, <4>2, WorldFacts
             DEF Aside, BeginNotNow, BeginFails, Leave, LateAnswer, LimboEnds, Recover, Stop, ZombieEnds, Crash, Boot,
                 engine
        <5> QED BY <5>1
      <4> QED BY <4>1, <4>2
    <3>2. GateOpen(rec) /\ rec.retained \in Containers
      BY <1>1, <3>1
    <3>3. ASSUME NEW op, op = RetainedOp, Did(op) PROVE ~Exists(rec.retained)'
      <4>1. op.kind = "remove" /\ op.c = rec.retained
        BY <3>3 DEF RetainedOp, Op
      <4>2. ~Exists(op.c)'
        BY <3>2, <3>3, <4>1, DidFacts
      <4>3. SameRecord
        BY OwnCommits
      <4> QED BY <4>1, <4>2, <4>3 DEF SameRecord, Exists
    <3> QED BY <3>1, <3>2, <3>3
  <2> QED BY <2>1, <2>2
<1>3. ASSUME NEW a \in Attempts, Inner(a) PROVE adm = "record"
  BY <1>3, InnerShift DEF Shift, Others
<1> QED BY <1>1, <1>2, <1>3

\* An attempt's own steps leave remains only where the record says so.
LEMMA RemainsOwn ==
  ASSUME Sound, Remains, Aside \/ (\E a \in Attempts : Inner(a))
  PROVE  Remains'
<1>1. /\ SameRecord /\ (Unresolved' <=> Unresolved)
      /\ cid' = cid \/ (Unresolved /\ cid' = rec.new)
      /\ \A b \in Attempts : at'[b] = "begin" => at[b] = "begin" /\ plan'[b] = plan[b]
  BY OwnCommits DEF SameRecord, Unresolved
<1>2. Unresolved => cid \in {rec.old, rec.new}
  BY DEF Sound, Safe, Sides
<1>3. ASSUME NEW c \in Containers, Exists(c)'
      PROVE  c \in {cid', rec'.retained} \/ (Unresolved' /\ c \in {rec'.old, rec'.new})
  <2>1. Exists(c) \/ (Unresolved /\ c = rec.new)
    BY <1>3, OwnMakes
  <2> QED BY <1>1, <1>2, <2>1 DEF Remains, SameRecord
<1>4. ASSUME adm' = "record" PROVE ~Exists(rec.retained)'
  <2>1. GateOpen(rec) /\ rec.retained \in Containers /\ (adm = "record" \/ ~Exists(rec.retained)')
    BY <1>4, OwnApproves
  <2>2. CASE adm = "record"
    <3>1. ~Exists(rec.retained)
      BY <2>2 DEF Remains
    <3>2. \A c \in Containers : c = rec.retained => ~Exists(c)'
      BY <2>1, <3>1, OwnMakes DEF Unresolved
    <3>3. \A c : c = rec.retained => ~Exists(c)'
      BY <2>1, <3>2
    <3> QED BY <1>1, <3>3 DEF SameRecord
  <2> QED BY <2>1, <2>2
<1>5. \A b \in Attempts : at'[b] = "begin" =>
         rec'.retained = 0 \/ (plan'[b].reverse /\ plan'[b].n = rec'.retained)
  BY <1>1 DEF Remains, SameRecord
<1> QED BY <1>3, <1>4, <1>5 DEF Remains

\* Every step keeps Remains.
LEMMA RemainsNext == Sound /\ Remains /\ [Next]_vars => Remains'
<1> SUFFICES ASSUME Sound, Remains, [Next]_vars PROVE Remains'
  OBVIOUS
<1> USE DEF Sound, Safe
\* Nothing is made, and no attempt is about to begin.
<1>1. ASSUME \A c \in Containers : Exists(c)' => c \in {cid', rec'.retained} \/ (Unresolved' /\ c \in {rec'.old, rec'.new}),
             adm' = "none", \A b \in Attempts : at'[b] # "begin"
      PROVE  Remains'
  BY <1>1 DEF Remains
<1>2. ASSUME UNCHANGED docker PROVE \A c : Exists(c)' <=> Exists(c)
  BY <1>2 DEF Exists, docker
<1>3. ASSUME NEW a \in Attempts, Recreate(a, FALSE) \/ Recreate(a, TRUE) \/ RollbackToRetained(a) PROVE Remains'
  <2>1. adm = "none"
    <3>1. lock = 0
      BY <1>3, AdmitFacts
    <3> QED BY <3>1, NumberFacts DEF Control, LockHeld
  <2>2. UNCHANGED <<docker, cid, rec, adm>> /\ \A b \in Attempts : at'[b] = "begin" => b = a
    BY <1>3, AdmitFacts DEF row
  <2>3. rec.retained = 0 \/ (plan'[a].reverse /\ plan'[a].n = rec.retained)
    BY <1>3, AdmitFacts
  <2> QED BY <1>2, <2>1, <2>2, <2>3 DEF Remains, Unresolved
<1>4. ASSUME NEW a \in Attempts, Begin(a) PROVE Remains'
  <2>1. /\ at[a] = "begin" /\ UNCHANGED <<docker, cid, adm>> /\ rec' = NewRecord(a)
        /\ at'[a] # "begin" /\ \A b \in Attempts \ {a} : at'[b] = at[b]
    BY <1>4 DEF Begin, TypeOK, EngineOK, row
  <2>2. /\ GateOpen(rec) /\ cid = plan[a].o /\ adm = "none" /\ \A b \in Attempts \ {a} : at[b] = "off"
    BY <2>1, Alone DEF Sides, Stands, OnOld
  <2>3. rec'.new = plan[a].n /\ rec'.retained = 0 /\ Unresolved'
    BY <2>1 DEF NewRecord, BeginRec, NoRecord, Unresolved, GateOpen
  <2>4. \A c \in Containers : Exists(c) => c \in {cid, plan[a].n}
    <3>1. \A c \in Containers : c # 0
      BY NumberFacts DEF Containers
    <3> QED BY <2>1, <2>2, <3>1 DEF Remains, Unresolved
  <2> QED BY <1>1, <1>2, <2>1, <2>2, <2>3, <2>4
<1>5. ASSUME NEW a \in Attempts, Resolve(a) PROVE Remains'
  <2>1. /\ at[a] \in RecordPoints /\ at' = [at EXCEPT ![a] = "off"] /\ UNCHANGED <<docker, cid, adm>>
        /\ rec' = ResolvedRec(rec, OutcomeAt(a), RetainedAt(a), RoleAt(a))
    BY <1>5 DEF Resolve, row
  <2>2. /\ rec.new = plan[a].n /\ rec.old = plan[a].o /\ adm = "none" /\ rec.retained = 0
        /\ \A b \in Attempts \ {a} : at[b] = "off"
        /\ plan[a].o # 0 /\ plan[a].n # 0
    <3>1. at[a] \notin {"off", "begin"}
      BY <2>1 DEF RecordPoints
    <3>2. \A c \in Containers : c # 0
      BY NumberFacts DEF Containers
    <3> QED BY <3>1, <3>2, Pair DEF Control, RecordIsIts
  <2>3. rec'.retained = RetainedAt(a)
    BY <2>1, <2>2 DEF ResolvedRec, TypeOK, DiskOK, Records
  <2>4. \A c \in Containers : Exists(c) => c \in {cid, plan[a].o, plan[a].n}
    <3>1. \A c \in Containers : c # 0
      BY NumberFacts DEF Containers
    <3> QED BY <2>2, <3>1 DEF Remains
  <2>5. ASSUME NEW c \in Containers, Exists(c) PROVE c \in {cid, RetainedAt(a)}
    <3>1. CASE at[a] = "recordN"
      <4>1. cid = plan[a].n /\ (plan[a].carry \/ ~Exists(plan[a].o))
        BY <3>1 DEF Sides, Stands, OnNew, Evidence, Seen
      <4> QED BY <2>4, <2>5, <3>1, <4>1 DEF RetainedAt
    <3>2. CASE at[a] = "recordBack"
      <4>1. cid = plan[a].n
        BY <3>2 DEF Sides, Stands, OnNew
      <4> QED BY <2>4, <2>5, <3>2, <4>1 DEF RetainedAt
    <3>3. CASE at[a] = "recordUndo"
      <4>1. cid = plan[a].o
        BY <3>3 DEF Sides, Stands, OnOld
      <4> QED BY <2>4, <2>5, <3>3, <4>1 DEF RetainedAt
    <3>4. CASE at[a] = "recordO"
      <4>1. cid = plan[a].o /\ ~Exists(plan[a].n)
        BY <3>4 DEF Sides, Stands, OnOld, Evidence, Seen
      <4> QED BY <2>4, <2>5, <4>1
    <3> QED BY <2>1, <3>1, <3>2, <3>3, <3>4 DEF RecordPoints
  <2>6. \A b \in Attempts : at'[b] # "begin"
    BY <2>1, <2>2 DEF TypeOK, EngineOK
  <2> QED BY <1>1, <1>2, <2>1, <2>2, <2>3, <2>5, <2>6
<1>6. CASE ApproveRecord
  <2>1. /\ adm = "record" /\ adm' = "none" /\ UNCHANGED <<docker, cid, at>>
        /\ rec' = rec \/ rec' = ApprovedRec(rec)
    BY <1>6 DEF ApproveRecord, row
  <2>2. GateOpen(rec) /\ \A b \in Attempts : at[b] = "off"
    BY <2>1, Idle DEF Control, LockHeld
  <2>3. \A c \in Containers : Exists(c) => c = cid
    BY <2>1, <2>2 DEF Remains, Unresolved
  <2> QED BY <1>1, <1>2, <2>1, <2>2, <2>3
<1>7. CASE Start
  <2>1. /\ UNCHANGED <<cid, rec, adm, at>> /\ GateOpen(rec) /\ lock = 0
        /\ cst[cid] = "stopped" /\ cst' = [cst EXCEPT ![cid] = "running"]
    BY <1>7 DEF Start, Gate, row, disk, engine
  <2>2. \A c \in Containers : Exists(c)' <=> Exists(c)
    BY <2>1 DEF Exists, TypeOK, DockerOK
  <2>3. (\A b \in Attempts : at[b] = "off") /\ adm = "none"
    BY <2>1, Idle, NumberFacts DEF Control, LockHeld
  <2> QED BY <1>1, <2>1, <2>2, <2>3 DEF Remains, Unresolved
<1>8. CASE Purge
  <2>1. /\ UNCHANGED <<adm, at>> /\ GateOpen(rec) /\ rec.retained = 0 /\ lock = 0
        /\ cst' = IF Exists(cid) THEN [cst EXCEPT ![cid] = "absent"] ELSE cst
    BY <1>8 DEF Purge, Gate, DeleteGateOpen, engine
  <2>2. (\A b \in Attempts : at[b] = "off") /\ adm = "none"
    BY <2>1, Idle, NumberFacts DEF Control, LockHeld
  <2>3. \A c \in Containers : Exists(c) => c = cid
    <3>1. \A c \in Containers : c # 0
      BY NumberFacts DEF Containers
    <3> QED BY <2>1, <3>1 DEF Remains, Unresolved
  <2>4. \A c \in Containers : ~Exists(c)'
    BY <2>1, <2>3 DEF Exists, TypeOK, DockerOK
  <2> QED BY <1>1, <2>1, <2>2, <2>4
<1>9. CASE Aside \/ \E a \in Attempts : Inner(a)
  BY <1>9, RemainsOwn
<1> QED BY <1>3, <1>4, <1>5, <1>6, <1>7, <1>8, <1>9, StepsAside

\* Remains holds at first.
LEMMA RemainsInit == Init => Remains
BY DEF Init, Remains, Exists

\* At rest nothing of the session is left in Docker that neither D1 nor the
\* record names.
THEOREM NeverForgotten == Calm /\ Spec => []NothingForgotten
<1>1. Calm /\ Init => Remains
  BY RemainsInit
<1>2. Remains => NothingForgotten
  BY DEF Remains, NothingForgotten, AtRest, Unresolved
<1> QED BY <1>1, <1>2, SoundAlways, RemainsNext, PTL DEF Spec

-----------------------------------------------------------------------------
(* Names: Docker keeps them apart, and the canonical one is N's from the    *)
(* moment a commit to it can be under way.                                  *)

Apart == \A c, d \in Containers : Exists(c) /\ Exists(d) /\ cname[c] = cname[d] => c = d

\* A forward attempt is past the renames, or D1 is, or may yet be.
Named ==
  \/ cid = rec.new \/ limbo[rec.att] \/ at[rec.att] \in {"startN", "ready", "cas"}

NamesKept ==
  /\ Apart
  /\ GateOpen(rec) /\ ~gone => cname[cid] = Canonical
  /\ Unresolved /\ ~rec.reverse /\ Named => cname[rec.new] = Canonical

\* A request gives a container a name nobody has.
LEMMA ApartEffect ==
  ASSUME TypeOK, Apart, NEW op, DockerBy(op)
  PROVE  Apart'
<1>1. CASE UNCHANGED docker
  BY <1>1 DEF Apart, Exists, docker
<1>2. CASE Did(op)
  <2>1. /\ cname' = IF op.kind \in {"create", "rename"} THEN [cname EXCEPT ![op.c] = op.name] ELSE cname
        /\ op.kind \in {"create", "rename"} => \A d \in Containers : Exists(d) => cname[d] # op.name
    BY <1>2 DEF Did, Effect, Accepts
  <2>2. SUFFICES ASSUME NEW c \in Containers, NEW d \in Containers, Exists(c)', Exists(d)', cname'[c] = cname'[d],
                        c # d
                 PROVE  FALSE
    BY DEF Apart
  <2>3. /\ Exists(c) \/ (op.kind = "create" /\ op.c = c)
        /\ Exists(d) \/ (op.kind = "create" /\ op.c = d)
    BY <2>2, EffectFacts
  <2>4. CASE op.kind \notin {"create", "rename"}
    BY <2>1, <2>2, <2>3, <2>4 DEF Apart
  <2>5. CASE op.kind \in {"create", "rename"}
    <3>1. \A x \in Containers : cname'[x] = IF x = op.c THEN op.name ELSE cname[x]
      BY <2>1, <2>5 DEF TypeOK, DockerOK
    <3> QED BY <2>1, <2>2, <2>3, <2>5, <3>1 DEF Apart
  <2> QED BY <2>4, <2>5
<1> QED BY <1>1, <1>2 DEF DockerBy

\* A container is renamed for an attempt that is still unresolved, and a
\* forward attempt's N that is there only to the canonical name.
LEMMA OwnRenames ==
  ASSUME Sound, Apart, Aside \/ (\E a \in Attempts : Inner(a))
  PROVE  /\ Apart'
         /\ \A c \in Containers : cname'[c] # cname[c] =>
              Unresolved /\ (~rec.reverse /\ c = rec.new /\ Exists(c) => cname'[c] = Canonical)
<1> USE DEF Sound, Safe
<1>1. ASSUME NEW op, DockerBy(op), Aimed(op)
      PROVE  /\ Apart'
             /\ \A c \in Containers : cname'[c] # cname[c] =>
                  Unresolved /\ (~rec.reverse /\ c = rec.new /\ Exists(c) => cname'[c] = Canonical)
  <2>1. Apart'
    BY <1>1, ApartEffect
  <2>2. ASSUME NEW c \in Containers, cname'[c] # cname[c]
        PROVE  Unresolved /\ (~rec.reverse /\ c = rec.new /\ Exists(c) => cname'[c] = Canonical)
    <3>1. /\ op.kind \in {"create", "rename"} /\ op.c = c /\ cname'[c] = op.name
          /\ op.kind = "create" => ~Exists(c)
      BY <1>1, <2>2, EffectFacts
    <3> QED BY <1>1, <3>1 DEF Aimed
  <2> QED BY <2>1, <2>2
<1>2. CASE Aside
  <2>1. Still \/ Commutes \/ \E op : Lands(op)
    BY <1>2, AsideFacts
  <2>2. CASE Still
    BY <2>2 DEF Still, Apart
  <2>3. CASE Commutes
    BY <2>3 DEF Commutes, docker, Exists, Apart
  <2>4. ASSUME NEW op, Lands(op) PROVE DockerBy(op) /\ Aimed(op)
    BY <2>4, NoAim DEF Lands, Aims
  <2> QED BY <1>1, <2>1, <2>2, <2>3, <2>4
<1>3. ASSUME NEW a \in Attempts, Inner(a) PROVE DockerBy(OpAt(a)) /\ Aimed(OpAt(a))
  BY <1>3, InnerMoves, AimedAt DEF Touches
<1> QED BY <1>1, <1>2, <1>3

\* An attempt is past its renames only once N has the canonical name.
LEMMA NamedInner ==
  ASSUME Sound, NEW a \in Attempts, Inner(a), ~rec.reverse, Named'
  PROVE  Named \/ cname'[rec.new] = Canonical
<1> USE DEF Sound, Safe
<1>1. at[a] \notin {"off", "begin"} /\ Softly
  BY InnerShift DEF Shift, Keeps
<1>2. rec.att = a /\ rec.new = plan[a].n /\ plan[a].n \in Containers /\ ~plan[a].reverse
  BY <1>1, Pair
<1>3. rec'.att = a /\ rec'.new = rec.new
  BY <1>1, <1>2, SoftFacts
<1>4. Moved(a) /\ Touches(a)
  BY InnerMoves
<1>5. CASE cid' = rec.new
  BY <1>2, <1>4, <1>5 DEF Touches, row, Named
<1>6. CASE limbo'[a]
  BY <1>2, <1>4, <1>6 DEF Touches, Named
<1>7. CASE at'[a] \in {"startN", "ready", "cas"}
  <2>1. CASE Stays(a)
    BY <1>2, <1>7, <2>1 DEF Stays, Named
  <2>2. CASE MainGoesOn(a)
    <3>1. CASE at[a] = "renameN" /\ Did(OpAt(a))
      <4>1. OpAt(a).kind = "rename" /\ OpAt(a).c = plan[a].n /\ OpAt(a).name = Canonical
        BY <3>1 DEF OpAt, Op
      <4>2. cname'[OpAt(a).c] = OpAt(a).name
        BY <1>2, <3>1, <4>1, DidFacts
      <4> QED BY <1>2, <4>1, <4>2
    <3>2. CASE ~(at[a] = "renameN" /\ Did(OpAt(a)))
      <4>1. at[a] \in {"startN", "ready"}
        BY <1>7, <2>2, <3>2 DEF MainGoesOn, NextMain
      <4> QED BY <1>2, <4>1 DEF Named
    <3> QED BY <3>1, <3>2
  <2>3. CASE PassGoesOn(a)
    <3>1. FirstAct(a) \notin {"startN", "ready", "cas"}
      BY DEF FirstAct, AfterN
    <3>2. \A ok \in BOOLEAN : NextPass(a, ok) \notin {"startN", "ready", "cas"}
      BY DEF NextPass, AfterN
    <3> QED BY <1>7, <2>3, <3>1, <3>2 DEF PassGoesOn
  <2>4. CASE Falls(a)
    BY <1>7, <2>4 DEF Falls
  <2> QED BY <1>4, <2>1, <2>2, <2>3, <2>4 DEF Moved
<1> QED BY <1>3, <1>5, <1>6, <1>7 DEF Named

\* Nothing beside an attempt gives a container a name.
LEMMA NamedAside ==
  ASSUME Sound, Aside, Unresolved, Named'
  PROVE  Named
<1> USE DEF Sound, Safe
<1>1. HoldsOn /\ (Still \/ Commutes \/ \E op : Lands(op))
  BY AsideFacts
<1>2. rec'.att = rec.att /\ rec'.new = rec.new /\ rec.att \in Attempts
  BY <1>1 DEF HoldsOn, SameRecord, Control, RecordIsIts
<1>3. ASSUME cid' = rec.new PROVE Named
  BY <1>1, <1>3, LimboAlone DEF Still, Commutes, Lands, Named
<1>4. ASSUME limbo'[rec.att] PROVE Named
  BY <1>1, <1>2, <1>4 DEF HoldsOn, Named
<1>5. ASSUME at'[rec.att] \in {"startN", "ready", "cas"} PROVE Named
  BY <1>1, <1>2, <1>5 DEF HoldsOn, Named
<1> QED BY <1>2, <1>3, <1>4, <1>5 DEF Named

\* An attempt's own steps keep the names in order.
LEMMA NamesOwn ==
  ASSUME Sound, NamesKept, Aside \/ (\E a \in Attempts : Inner(a))
  PROVE  NamesKept'
<1> USE DEF Sound, Safe
<1>1. /\ SameRecord /\ gone' = gone /\ (cid' = cid \/ (Unresolved /\ cid' = rec.new))
      /\ (Unresolved' <=> Unresolved)
  BY OwnCommits DEF SameRecord, Unresolved
<1>2. Apart'
  BY OwnRenames DEF NamesKept
<1>3. ASSUME GateOpen(rec'), ~gone' PROVE cname'[cid'] = Canonical
  <2>1. ~Unresolved /\ cid' = cid /\ cid \in Containers
    BY <1>1, <1>3 DEF Unresolved, Sides
  <2>2. cname'[cid] = cname[cid]
    BY <2>1, OwnRenames DEF NamesKept
  <2> QED BY <1>1, <1>3, <2>1, <2>2 DEF NamesKept, Unresolved
<1>4. ASSUME Unresolved', ~rec'.reverse, Named' PROVE cname'[rec'.new] = Canonical
  <2>1. Unresolved /\ ~rec.reverse /\ rec'.new = rec.new /\ rec.new \in Containers /\ ~gone
    <3>1. Unresolved /\ ~rec.reverse /\ rec'.new = rec.new
      BY <1>1, <1>4 DEF SameRecord
    <3> QED BY <3>1 DEF Sides, Ends, Unresolved
  <2>2. Named \/ cname'[rec.new] = Canonical
    BY <1>4, <2>1, NamedInner, NamedAside
  <2>3. ASSUME Named PROVE cname'[rec.new] = Canonical
    <3>1. cname[rec.new] = Canonical
      BY <2>1, <2>3 DEF NamesKept
    <3>2. rec.att \in Attempts /\ rec.new = plan[rec.att].n
      BY <2>1 DEF Control, RecordIsIts, Agrees
    <3>3. Exists(rec.new)
      BY <2>1, <2>3, <3>2 DEF Named, Present, CurrentExists, NThere
    <3> QED BY <2>1, <3>1, <3>3, OwnRenames DEF NamesKept
  <2> QED BY <2>1, <2>2, <2>3
<1> QED BY <1>2, <1>3, <1>4 DEF NamesKept

\* Every step keeps NamesKept.
LEMMA NamesNext == Sound /\ NamesKept /\ [Next]_vars => NamesKept'
<1> SUFFICES ASSUME Sound, NamesKept, [Next]_vars PROVE NamesKept'
  OBVIOUS
<1> USE DEF Sound, Safe
<1>1. ASSUME UNCHANGED docker PROVE Apart'
  BY <1>1 DEF Apart, Exists, docker, NamesKept
\* The gate was open and is.
<1>2. ASSUME GateOpen(rec), GateOpen(rec'), UNCHANGED <<docker, cid, gone>> PROVE NamesKept'
  BY <1>1, <1>2 DEF NamesKept, Unresolved, docker
<1>3. ASSUME NEW a \in Attempts, Recreate(a, FALSE) \/ Recreate(a, TRUE) \/ RollbackToRetained(a) PROVE NamesKept'
  <2>1. GateOpen(rec) /\ UNCHANGED <<docker, row, rec>>
    BY <1>3, AdmitFacts
  <2> QED BY <1>2, <2>1 DEF row
<1>4. ASSUME NEW a \in Attempts, Begin(a) PROVE NamesKept'
  <2>1. /\ at[a] = "begin" /\ UNCHANGED <<docker, row, limbo>> /\ rec' = NewRecord(a)
        /\ at'[a] \in {"off", "renameO", "prepare"}
    BY <1>4 DEF Begin, TypeOK, EngineOK, wire
  <2>2. cid = plan[a].o /\ plan[a].o # plan[a].n /\ ~limbo[a]
    BY <2>1, Alone DEF Sides, Stands, OnOld, Ends
  <2>3. rec'.att = a /\ rec'.new = plan[a].n /\ ~GateOpen(rec')
    BY <2>1 DEF NewRecord, BeginRec, NoRecord, GateOpen
  <2>4. ~Named'
    BY <2>1, <2>2, <2>3 DEF Named, row
  <2> QED BY <1>1, <2>1, <2>3, <2>4 DEF NamesKept
<1>5. ASSUME NEW a \in Attempts, Resolve(a) PROVE NamesKept'
  <2>1. /\ at[a] \in RecordPoints /\ UNCHANGED <<docker, row>>
        /\ rec' = ResolvedRec(rec, OutcomeAt(a), RetainedAt(a), RoleAt(a))
    BY <1>5 DEF Resolve
  <2>2. /\ rec.att = a /\ Unresolved /\ rec.new = plan[a].n /\ rec.reverse = plan[a].reverse
    BY <2>1, Pair DEF RecordPoints
  <2>3. GateOpen(rec')
    BY <2>1 DEF ResolvedRec, GateOpen, TypeOK, DiskOK, Records
  <2>4. cname[cid] = Canonical
    <3>1. CASE at[a] = "recordN"
      <4>1. cid = plan[a].n /\ ~plan[a].reverse
        BY <3>1 DEF Sides, Stands, OnNew, Forward
      <4> QED BY <2>2, <4>1 DEF NamesKept, Named
    <3>2. CASE at[a] = "recordBack"
      BY <3>2 DEF Sides, Stands, OnNew, Evidence, Seen
    <3>3. CASE at[a] \in {"recordUndo", "recordO"}
      BY <3>3 DEF Sides, Stands, OnOld, Evidence, Seen
    <3> QED BY <2>1, <3>1, <3>2, <3>3 DEF RecordPoints
  <2> QED BY <1>1, <2>1, <2>3, <2>4 DEF NamesKept, Unresolved, docker, row
<1>6. CASE ApproveRecord
  <2>1. /\ adm = "record" /\ UNCHANGED <<docker, row>>
        /\ rec' = rec \/ rec' = ApprovedRec(rec)
    BY <1>6 DEF ApproveRecord
  <2>2. GateOpen(rec)
    BY <2>1 DEF Control, LockHeld
  <2>3. GateOpen(rec')
    BY <2>1, <2>2 DEF ApprovedRec, GateOpen, TypeOK, DiskOK, Records
  <2> QED BY <1>2, <2>1, <2>2, <2>3 DEF row
<1>7. CASE Start
  <2>1. /\ UNCHANGED <<cname, row, rec>> /\ GateOpen(rec)
        /\ cst[cid] = "stopped" /\ cst' = [cst EXCEPT ![cid] = "running"]
    BY <1>7 DEF Start, Gate, disk
  <2>2. \A c \in Containers : Exists(c)' <=> Exists(c)
    BY <2>1 DEF Exists, TypeOK, DockerOK
  <2> QED BY <2>1, <2>2 DEF NamesKept, Apart, Unresolved, row
<1>8. CASE Purge
  <2>1. UNCHANGED cname /\ gone' /\ rec' = NoRecord
        /\ cst' = IF Exists(cid) THEN [cst EXCEPT ![cid] = "absent"] ELSE cst
    BY <1>8 DEF Purge
  <2>2. \A c \in Containers : Exists(c)' => Exists(c)
    BY <2>1 DEF Exists, TypeOK, DockerOK
  <2>3. GateOpen(rec')
    BY <2>1 DEF NoRecord, GateOpen
  <2> QED BY <2>1, <2>2, <2>3 DEF NamesKept, Apart, Unresolved
<1>9. CASE Aside \/ \E a \in Attempts : Inner(a)
  BY <1>9, NamesOwn
<1> QED BY <1>3, <1>4, <1>5, <1>6, <1>7, <1>8, <1>9, StepsAside

\* NamesKept holds at first.
LEMMA NamesInit == Init => NamesKept
<1> SUFFICES ASSUME Init PROVE NamesKept
  OBVIOUS
<1>1. 1 \in Containers /\ \A c \in Containers : Exists(c) => c = 1
  BY NumberFacts DEF Init, Exists, Containers
<1>2. GateOpen(rec) /\ cname[cid] = Canonical
  BY <1>1 DEF Init, NoRecord, GateOpen
<1> QED BY <1>1, <1>2 DEF NamesKept, Apart, Unresolved

\* At rest D1's container has the canonical name, no other has it, and the
\* defer marker is gone.
THEOREM AlwaysCleanAtRest == Calm /\ Spec => []CleanAtRest
<1>1. Calm /\ Init => NamesKept
  BY NamesInit
<1>2. Sound /\ NamesKept => CleanAtRest
  <2> SUFFICES ASSUME Sound, NamesKept, GateOpen(rec)
               PROVE  ~marker /\ (~gone => \A c \in Containers : Exists(c) => (cname[c] = Canonical <=> c = cid))
    BY DEF CleanAtRest, AtRest
  <2>1. ~marker
    BY DEF Sound, Seeds
  <2>2. ~gone => cid \in Containers /\ Exists(cid) /\ cname[cid] = Canonical
    BY DEF Sound, Safe, Sides, Present, CurrentExists, NamesKept
  <2> QED BY <2>1, <2>2 DEF NamesKept, Apart
<1> QED BY <1>1, <1>2, SoundAlways, NamesNext, PTL DEF Spec

=============================================================================
