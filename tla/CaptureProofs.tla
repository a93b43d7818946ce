--------------------------- MODULE CaptureProofs ---------------------------
(***************************************************************************)
(* Proofs about Capture, for any set of disables and any bounds on         *)
(* operations, hooks and failures: the types, and the four properties of   *)
(* the run capture. CaptureInv is inductive: it says of every place of the *)
(* holder of the lock, and of every disable at work, what it still has to  *)
(* undo, so that nothing is left once all of them are at rest.             *)
(***************************************************************************)
EXTENDS Capture, TLAPS

\* The places of an enable before it re-reads its facts, of a spawn, of the
\* shared write procedure, and of an enable that takes its grant back.
Early   == {"global", "facts", "write", "recheck", "lift", "retired"}
OfSpawn == {"spawn", "spawn2", "hash", "clear", "unhash", "create", "plain"}
Writing == {"marker", "row", "rev", "hooks"}
Undoing == {"reread", "reapply"}

\* Which body may be where; a spawn runs only while there is no container,
\* and a reconcile only after a failure or a crash.
OpShape ==
  /\ op.pc = "idle" => op.kind = "none"
  /\ op.pc \in Early \cup Undoing => op.kind = "enable"
  /\ op.pc \in OfSpawn => op.kind = "spawn"
  /\ op.pc \in {"reconcile", "marked"} => op.kind = "reconcile"
  /\ op.pc \in {"facts2", "facts3", "probe"} => op.kind \in {"enable", "reconcile"}
  /\ op.pc \in Writing \cup {"withdraw", "withdraw2"} => op.kind # "none"
  /\ op.pc \in {"withdraw", "withdraw2"} =>
       IF op.kind = "spawn" THEN op.next \in {"plain", "clear", "unhash"} ELSE op.next = "idle"
  /\ op.kind = "spawn" => ~ctr.exists
  /\ op.pc = "reconcile" => dirty

\* Where a disable is, and what became of it meanwhile: its marker is found
\* put aside only by an enable it overlapped.
DisShape ==
  \A d \in Disables :
    /\ dis[d].pc \in DisPcs
    /\ dis[d].pc = "idle" => dis[d].kind = "none" /\ stands[d] = "none"
    /\ dis[d].pc # "idle" => dis[d].kind # "none"
    /\ dis[d].pc \in {"check", "check2", "again"} => dis[d].kind # "all"
    /\ dis[d].pc \in {"d1", "hooks", "relay", "check", "check2"} => stands[d] \in {"stands", "overlapped"}
    /\ dis[d].pc = "again" => stands[d] = "overlapped"
    /\ stands[d] = "rewritten" => dis[d].pc = "done" /\ dis[d].kind # "all"
    /\ dis[d].pc = "check2" /\ stands[d] = "stands" => revoked.id # dis[d].lift

\* Identities handed out are never handed out again.
IdsOld ==
  /\ revoked.id < ids /\ lifted < ids
  /\ row.hash < ids /\ row.suspended < ids /\ ctr.token < ids
  /\ op.seen < ids /\ op.token < ids /\ hook.lift < ids
  /\ \A d \in Disables : dis[d].lift < ids

\* A disable nothing answered yet has its marker in place, and no enable in
\* flight saw that marker.
Marked ==
  \A d \in Disables : stands[d] \in {"stands", "rewritten"} =>
    IF dis[d].kind = "all" THEN global
    ELSE InEffect(lifted) /\ (op.pc \in Early => op.seen # revoked.id)

\* A hook cut off by a revocation has read, or will read, what refuses it: one
\* that found no REVOKED_ALL is not cut off by it, and what it read in LIFTED
\* does not name the marker in place.
HookCut ==
  /\ \A source \in cut : InForce(source)
  /\ "global" \in cut => hook.pc \notin {"lifted", "read"}
  /\ "session" \in cut /\ hook.pc = "read" => InEffect(hook.lift)

\* A disable that passed its D1 write has won there, or what the lock's holder
\* does next undoes the grant; in particular the hash a spawn wrote later is of
\* a token no container will be given.
PastRow == {"hooks", "relay", "check", "check2", "again", "done"}
D1Clear ==
  /\ ~row.requested /\ ~Match(row)
  /\ op.kind = "spawn" /\ op.token # 0 /\ row.hash = op.token =>
       op.pc \in {"withdraw", "withdraw2", "plain", "clear", "unhash"}
       \/ (op.pc \in {"row", "rev"} /\ op.stage = 0)
D1Held(d) ==
  \/ op.pc \in {"marked", "recheck"} \cup Undoing
  \/ op.pc \in {"lift", "retired"} /\ dis[d].kind # "all"
  \/ D1Clear
D1Wins ==
  ~dirty => \A d \in Disables : stands[d] = "stands" /\ dis[d].pc \in PastRow => D1Held(d)

\* The authorization of the container; a disable that will still remove the
\* hooks file, or the marker; one that had to put its marker back.
Auth == row.requested /\ ~Revoked /\ Match(row)
PendH == \E d \in Disables : dis[d].pc \in {"d1", "hooks"}
PendE == \E d \in Disables : dis[d].pc \in {"d1", "hooks", "relay"}
Redone == ~global /\ \E d \in Disables : stands[d] = "rewritten"
\* An enable that may still grant: the marker in place is the one it lifts.
Excused ==
  /\ op.pc \in Early /\ ~global
  /\ op.pc = "write" => row.seq = op.seq
  /\ op.pc = "retired" => ~InEffect(lifted)
  /\ revoked.id = op.seen \/ (op.seen = 0 /\ ~InEffect(lifted))

\* What the write procedure was told still matches D1, or D1 refuses.
Kept ==
  /\ op.pc \in Writing \cup {"probe"} /\ op.kind # "spawn" => (row.requested => Match(row))
  /\ op.pc = "facts3" /\ op.allowed => (row.requested => Match(row))
  /\ op.pc \in Writing \cup {"create"} /\ op.kind = "spawn" =>
       op.token # 0 /\ (row.requested => row.hash = op.token)

\* A capture file exists only where its authorization does, or where a disable
\* at work, or the re-check the holder still has to make, will remove it.
Held(file, pend) ==
  file =>
    /\ op.pc = "facts3" /\ op.allowed => row.requested \/ pend
    /\ op.pc = "rev" /\ op.allowed => row.requested \/ pend
    /\ op.pc \in Undoing /\ ctr.exists => pend \/ Redone
    /\ op.pc \in Early /\ ctr.exists => Auth \/ pend \/ Redone \/ Excused
    /\ op.pc = "idle" /\ ctr.exists => Auth \/ pend \/ Redone
    /\ op.pc \notin {"clear", "unhash", "plain"}
    /\ op.pc = "create" => (row.requested /\ ~Revoked) \/ pend \/ Redone
HeldH == Held(hooksFile, PendH)
         /\ (op.pc = "withdraw2" => ~hooksFile)
         /\ (op.pc = "probe" /\ hooksFile => Auth \/ PendH \/ Redone)
HeldE == Held(enabledFile, PendE)
Files == ~dirty => Kept /\ HeldH /\ HeldE

\* An enable that saw a marker in effect finds that its own lift is still to do.
SeenOld == op.pc \in Early \ {"retired"} /\ op.seen # 0 => InEffect(lifted)

\* The types the steps below need.
Typed == /\ revoked \in Markers /\ lifted \in Nat /\ row \in Row /\ ctr \in Containers
         /\ op \in OpRecords /\ dis \in [Disables -> DisRecords] /\ hook \in HookRecords
         /\ ids \in Nat
DisTyped == /\ dis \in [Disables -> DisRecords]
            /\ stands \in [Disables -> {"none", "stands", "overlapped", "rewritten", "lifted"}]
            /\ revoked \in Markers /\ lifted \in Nat /\ ids \in Nat

\* A step that moves the body and keeps what it read.
SameBody == /\ op'.kind = op.kind /\ op'.token = op.token
            /\ op'.seen = op.seen /\ op'.allowed = op.allowed

\* The inductive invariant.
CaptureInv ==
  /\ TypeOK /\ OpShape /\ DisShape /\ IdsOld /\ Marked /\ SeenOld
  /\ HookCut /\ D1Wins /\ Files

-----------------------------------------------------------------------------
\* What a step may change

\* What a step of the lock's holder, of a crash or of the boot may change.
LEMMA OpFrame ==
  ASSUME OpStep
  PROVE  /\ UNCHANGED <<revoked, global>>
         /\ UNCHANGED dis \/ Crash
         /\ UNCHANGED stands \/ EnableBegin
         /\ UNCHANGED lifted \/ EnableLift \/ OpFails
         /\ ids' = ids \/ ids' = ids + 1
         /\ hook' \in {hook, IdleHook}
BY DEF OpStep, marks, files, used, WriteRelayEnabled, StillRow, StillRevocation, Identify,
     WriteHooksFile, WithdrawHooks, WithdrawMarker, EnableBegin, EnableGlobal, EnableFacts,
     EnableWrite, EnableRecheckGlobal, EnableLift, EnableRetired, ReapplyReads, EnableReapply, FactsRow,
     FactsDecide, SpawnBegin, SpawnRow, SpawnDecide, SpawnHash, SpawnClear, CreateContainer,
     Lifecycle, OpFails, ReconcileCheck, ReconcileRevokes, Listen, Crash

\* What a step of a disable or of the emergency command may change,
LEMMA DisableFrame ==
  ASSUME DisableStep
  PROVE  /\ UNCHANGED <<lifted, ctr, backend, op, hook, ops, hooks>>
         /\ dirty => dirty'
<1>1. UNCHANGED <<lifted, ctr, backend, op, hook, ops, hooks>>
  BY DEF DisableStep, marks, files, used, EnableAll, DisableMark, DisableRow, DisableHooks,
       DisableRelay, DisableCheckLifted, DisableCheckRevoked, DisableAgain, DisableFails
<1>2. dirty => dirty'
  BY DEF DisableStep, EnableAll, DisableMark, DisableRow, DisableHooks, DisableRelay,
       DisableCheckLifted, DisableCheckRevoked, DisableAgain, DisableFails
<1> QED BY <1>1, <1>2

\* and a step of a hook: only the capture files.
LEMMA HookFrame ==
  ASSUME HookStep
  PROVE  UNCHANGED <<revoked, lifted, global, row, ctr, backend, op, dis, dirty, stands, ids, ops, faults>>
BY DEF HookStep, marks, files, used, HookArrives, HookStats, HookReadsLifted, HookAdmitted, HookRefused,
     HookDropsMarker

\* What ending a body, moving it and sending it to withdraw do to it.
LEMMA Carried ==
  ASSUME op \in OpRecords
  PROVE  /\ Done => /\ op'.pc = "idle" /\ op'.kind = "none" /\ op'.seen = 0 /\ op'.token = 0
                    /\ op'.allowed = FALSE /\ op'.stage = 0
         /\ \A pc : Goto(pc) => /\ op'.pc = pc /\ op'.kind = op.kind /\ op'.seen = op.seen /\ op'.token = op.token
                                /\ op'.seq = op.seq /\ op'.allowed = op.allowed /\ op'.stage = op.stage
                                /\ op'.next = op.next /\ op'.restore = op.restore
         /\ \A next : Withdraw(next) => /\ op'.pc = "withdraw" /\ op'.kind = op.kind /\ op'.seen = op.seen
                                        /\ op'.token = op.token /\ op'.stage = op.stage /\ op'.next = next
                                        /\ op'.allowed = op.allowed /\ op'.seq = op.seq
<1>1. ASSUME Done
      PROVE  /\ op'.pc = "idle" /\ op'.kind = "none" /\ op'.seen = 0 /\ op'.token = 0
             /\ op'.allowed = FALSE /\ op'.stage = 0
  BY <1>1 DEF Done, IdleOp
<1>2. ASSUME NEW pc, Goto(pc)
      PROVE  /\ op'.pc = pc /\ op'.kind = op.kind /\ op'.seen = op.seen /\ op'.token = op.token
             /\ op'.seq = op.seq /\ op'.allowed = op.allowed /\ op'.stage = op.stage
             /\ op'.next = op.next /\ op'.restore = op.restore
  BY <1>2 DEF Goto, OpRecords
<1>3. ASSUME NEW next, Withdraw(next)
      PROVE  /\ op'.pc = "withdraw" /\ op'.kind = op.kind /\ op'.seen = op.seen
             /\ op'.token = op.token /\ op'.stage = op.stage /\ op'.next = next
             /\ op'.allowed = op.allowed /\ op'.seq = op.seq
  BY <1>3 DEF Withdraw, OpRecords
<1> QED BY <1>1, <1>2, <1>3

-----------------------------------------------------------------------------
\* Types

\* The places of a body, and the stages of its re-checks.
LEMMA Places ==
  /\ {"global", "facts", "write", "recheck", "lift", "retired", "reread", "reapply"} \subseteq OpPcs
  /\ {"facts2", "facts3", "marker", "row", "rev", "probe", "hooks"} \subseteq OpPcs
  /\ {"withdraw", "withdraw2", "spawn", "spawn2", "hash", "clear", "unhash"} \subseteq OpPcs
  /\ {"create", "plain", "reconcile", "marked", "idle"} \subseteq OpPcs
  /\ 0 \in 0..2 /\ 1 \in 0..2 /\ 2 \in 0..2
BY DEF OpPcs

\* Nothing under way is a state of the body, of a disable and of a hook.
LEMMA IdleTyped == IdleOp \in OpRecords /\ IdleDis \in DisRecords /\ IdleHook \in HookRecords
<1>1. "idle" \in OpPcs /\ 0 \in 0..2
  BY DEF OpPcs
<1>2. IdleOp \in OpRecords
  BY <1>1 DEF IdleOp, OpRecords
<1> QED BY <1>2 DEF IdleDis, DisRecords, DisPcs, IdleHook, HookRecords

\* So are its steps,
LEMMA OpTyped ==
  ASSUME op \in OpRecords
  PROVE  /\ Done => op' \in OpRecords
         /\ \A pc \in OpPcs : Goto(pc) => op' \in OpRecords
         /\ \A next \in {"idle", "plain", "clear", "unhash"} : Withdraw(next) => op' \in OpRecords
         /\ Lost => op' \in OpRecords
<1>1. Done => op' \in OpRecords
  BY IdleTyped DEF Done
<1>2. \A pc \in OpPcs : Goto(pc) => op' \in OpRecords
  BY DEF Goto, OpRecords
<1>3. \A next \in {"idle", "plain", "clear", "unhash"} : Withdraw(next) => op' \in OpRecords
  BY Places DEF Withdraw, OpRecords
<1> QED BY <1>1, <1>2, <1>3 DEF Lost

\* and the statements on the row.
LEMMA RowTyped ==
  ASSUME NEW r \in Row
  PROVE  /\ Suspended(r) \in Row /\ RevokedRow(r) \in Row
         /\ \A b \in BOOLEAN, n \in Nat : EnableRow(r, b, n) \in Row
         /\ \A n \in Nat : [r EXCEPT !.hash = n] \in Row
<1>1. Suspended(r) \in Row
  BY DEF Row, Suspended
<1>2. RevokedRow(r) \in Row
  BY DEF Row, RevokedRow
<1>3. \A b \in BOOLEAN : RestoreOrRequest(r, b) \in Row
  BY DEF Row, RestoreOrRequest
<1>4. \A n \in Nat : [r EXCEPT !.hash = n] \in Row
  BY DEF Row
<1> QED BY <1>1, <1>2, <1>3, <1>4 DEF EnableRow

\* What an operation that takes the lock starts with.
LEMMA StartTyped ==
  ASSUME TypeOK, NEW kind \in {"enable", "spawn"}, NEW pc \in OpPcs, Start(kind, pc)
  PROVE  op' \in OpRecords /\ ops' \in 0..MaxOps
<1>1. ops' \in 0..MaxOps
  BY CaptureAssumption DEF TypeOK, Start
<1>2. (IF InEffect(lifted) THEN revoked.id ELSE 0) \in Nat
  BY DEF TypeOK, Markers
<1>3. op' \in OpRecords
  BY <1>2, IdleTyped DEF Start, OpRecords
<1> QED BY <1>1, <1>3

\* Every step keeps the types.
LEMMA TypeStep ==
  ASSUME TypeOK, DisShape, Next
  PROVE  TypeOK'
<1> USE DEF TypeOK, marks, files, used
<1>0. cut' \in SUBSET Sources
  BY DEF Next
<1>1. CASE WriteRelayEnabled
  BY <1>1, <1>0, Places, OpTyped DEF WriteRelayEnabled, OpRecords
<1>2. CASE StillRow
  BY <1>2, <1>0, Places, OpTyped DEF StillRow, OpRecords, Row
<1>3. CASE StillRevocation
  <2>1. AfterRecheck \in OpPcs
    BY Places DEF OpRecords, AfterRecheck
  <2> QED BY <1>3, <1>0, <2>1, OpTyped DEF StillRevocation
<1>4. CASE Identify
  BY <1>4, <1>0, Places, OpTyped DEF Identify
<1>5. CASE WriteHooksFile
  BY <1>5, <1>0, Places, OpTyped DEF WriteHooksFile, OpRecords
<1>6. CASE WithdrawHooks
  BY <1>6, <1>0, Places, OpTyped DEF WithdrawHooks
<1>7. CASE WithdrawMarker
  <2>1. op.next \in OpPcs
    BY Places DEF OpRecords
  <2> QED BY <1>7, <1>0, <2>1, OpTyped DEF WithdrawMarker
<1>8. CASE EnableBegin
  BY <1>8, <1>0, Places, OpTyped, StartTyped DEF EnableBegin, Overlap
<1>9. CASE EnableGlobal
  BY <1>9, <1>0, Places, OpTyped DEF EnableGlobal
<1>10. CASE EnableFacts
  <2>1. row.seq \in Nat /\ IsSuspended(row) \in BOOLEAN /\ "write" \in OpPcs
    BY Places DEF Row, IsSuspended
  <2>2. op' \in OpRecords
    BY <1>10, <2>1 DEF EnableFacts, OpRecords
  <2> QED BY <1>10, <1>0, <2>2 DEF EnableFacts
<1>11. CASE EnableWrite
  BY <1>11, <1>0, Places, OpTyped, RowTyped DEF EnableWrite, OpRecords
<1>12. CASE EnableRecheckGlobal
  BY <1>12, <1>0, Places, OpTyped DEF EnableRecheckGlobal
<1>13. CASE EnableLift
  BY <1>13, <1>0, Places, OpTyped DEF EnableLift, OpRecords
<1>14. CASE EnableRetired
  BY <1>14, <1>0, Places, OpTyped DEF EnableRetired
<1>44. CASE ReapplyReads
  <2>1. op' \in OpRecords
    <3>1. (IF InEffect(lifted) THEN revoked.by ELSE "none") \in {"none", "api", "cli"} /\ "reapply" \in OpPcs
      BY Places DEF Markers
    <3> QED BY <1>44, <3>1 DEF ReapplyReads, OpRecords
  <2> QED BY <1>44, <1>0, <2>1 DEF ReapplyReads
<1>15. CASE EnableReapply
  BY <1>15, <1>0, Places, OpTyped, RowTyped DEF EnableReapply
<1>16. CASE FactsRow
  BY <1>16, <1>0, Places, OpTyped DEF FactsRow, OpRecords, Row
<1>17. CASE FactsDecide
  BY <1>17, <1>0, Places, OpTyped DEF FactsDecide
<1>18. CASE SpawnBegin
  BY <1>18, <1>0, Places, OpTyped, StartTyped DEF SpawnBegin
<1>19. CASE SpawnRow
  BY <1>19, <1>0, Places, OpTyped, ZenonT(40) DEF SpawnRow, OpRecords, Row
<1>20. ASSUME NEW capable \in BOOLEAN, SpawnDecide(capable) PROVE TypeOK'
  BY <1>20, <1>0, Places, OpTyped DEF SpawnDecide
<1>21. CASE SpawnHash
  <2>1. op' \in OpRecords
    BY <1>21, Places DEF SpawnHash, OpRecords
  <2>2. row' \in Row
    BY <1>21, RowTyped DEF SpawnHash
  <2> QED BY <1>21, <1>0, <2>1, <2>2 DEF SpawnHash
<1>22. CASE SpawnClear
  BY <1>22, <1>0, Places, OpTyped, RowTyped DEF SpawnClear
<1>23. CASE CreateContainer
  BY <1>23, <1>0, Places, OpTyped DEF CreateContainer, Containers, OpRecords
<1>24. CASE Lifecycle
  <2>1. ops' \in 0..MaxOps
    BY <1>24, CaptureAssumption DEF Lifecycle
  <2>2. ctr' \in Containers
    <3>1. /\ \A b \in BOOLEAN : [ctr EXCEPT !.running = b] \in Containers
          /\ [exists |-> FALSE, running |-> FALSE, token |-> 0] \in Containers
      BY DEF Containers
    <3> QED BY <1>24, <3>1 DEF Lifecycle
  <2> QED BY <1>24, <1>0, <2>1, <2>2, IdleTyped DEF Lifecycle
<1>25. CASE OpFails
  <2>1. faults' \in 0..MaxFaults
    BY <1>25, CaptureAssumption DEF OpFails
  <2>2. row' \in Row
    <3>1. EnableRow(row, op.restore, op.seq) \in Row /\ [row EXCEPT !.hash = ids] \in Row
      BY RowTyped DEF OpRecords
    <3> QED BY <1>25, <3>1 DEF OpFails
  <2>3. lifted' \in Nat
    BY <1>25 DEF OpFails, OpRecords
  <2>4. op' \in OpRecords
    BY <1>25, Places, OpTyped DEF OpFails
  <2> QED BY <1>25, <1>0, <2>1, <2>2, <2>3, <2>4 DEF OpFails
<1>26. CASE ReconcileCheck
  BY <1>26, <1>0, Places, OpTyped DEF ReconcileCheck
<1>27. CASE ReconcileRevokes
  BY <1>27, <1>0, Places, OpTyped, RowTyped DEF ReconcileRevokes
<1>28. CASE Listen
  BY <1>28, <1>0 DEF Listen
<1>29. CASE Crash
  <2>1. op' \in OpRecords
    BY <1>29, Places, IdleTyped DEF Crash, OpRecords
  <2>2. dis' \in [Disables -> DisRecords]
    BY <1>29 DEF Crash, DisRecords, DisPcs
  <2>3. faults' \in 0..MaxFaults
    BY <1>29, CaptureAssumption DEF Crash
  <2> QED BY <1>29, <1>0, <2>1, <2>2, <2>3, IdleTyped DEF Crash
<1>30. CASE EnableAll
  BY <1>30, <1>0 DEF EnableAll
<1>31. ASSUME NEW d \in Disables, NEW kind \in KindsOf[d], DisableMark(d, kind) PROVE TypeOK'
  <2>1. kind \in {"api", "cli", "all"}
    BY <1>31, CaptureAssumption
  <2>2. dis' \in [Disables -> DisRecords]
    BY <1>31, <2>1 DEF DisableMark, DisRecords, DisPcs
  <2>3. revoked' \in Markers /\ ids' \in Nat /\ global' \in BOOLEAN
    <3>1. CASE kind = "all"
      BY <1>31, <3>1 DEF DisableMark
    <3>2. CASE kind # "all"
      BY <1>31, <2>1, <3>2 DEF DisableMark, Markers
    <3> QED BY <3>1, <3>2
  <2>4. stands' \in [Disables -> {"none", "stands", "overlapped", "rewritten", "lifted"}]
    BY <1>31 DEF DisableMark
  <2> QED BY <1>31, <1>0, <2>2, <2>3, <2>4 DEF DisableMark
<1>32. ASSUME NEW d \in Disables, DisableRow(d) PROVE TypeOK'
  BY <1>32, <1>0, RowTyped DEF DisableRow, DisRecords, DisPcs
<1>33. ASSUME NEW d \in Disables, DisableHooks(d) PROVE TypeOK'
  BY <1>33, <1>0 DEF DisableHooks, DisRecords, DisPcs
<1>34. ASSUME NEW d \in Disables, DisableRelay(d) PROVE TypeOK'
  <2>1. PICK p \in DisPcs : dis' = [dis EXCEPT ![d].pc = p]
    BY <1>34 DEF DisableRelay, DisPcs
  <2>2. dis[d] \in DisRecords
    OBVIOUS
  <2>3. [dis[d] EXCEPT !.pc = p] \in DisRecords
    BY <2>2 DEF DisRecords
  <2>4. dis' \in [Disables -> DisRecords]
    BY <2>1, <2>3
  <2> QED BY <1>34, <1>0, <2>4 DEF DisableRelay
<1>35. ASSUME NEW d \in Disables, DisableCheckLifted(d) PROVE TypeOK'
  BY <1>35, <1>0, ZenonT(40) DEF DisableCheckLifted, DisRecords, DisPcs
<1>36. ASSUME NEW d \in Disables, DisableCheckRevoked(d) PROVE TypeOK'
  BY <1>36, <1>0 DEF DisableCheckRevoked, DisRecords, DisPcs
<1>37. ASSUME NEW d \in Disables, DisableAgain(d) PROVE TypeOK'
  BY <1>37, <1>0 DEF DisableAgain, DisRecords, DisPcs, Markers, DisShape
<1>38. ASSUME NEW d \in Disables, DisableFails(d) PROVE TypeOK'
  BY <1>38, <1>0, CaptureAssumption DEF DisableFails, DisRecords, DisPcs
<1>39. CASE HookArrives
  BY <1>39, <1>0, IdleTyped, CaptureAssumption DEF HookArrives, HookRecords
<1>40. CASE HookStats \/ HookReadsLifted
  BY <1>40, <1>0, ZenonT(40) DEF HookStats, HookReadsLifted, HookRecords
<1>41. CASE HookAdmitted
  BY <1>41, <1>0, IdleTyped DEF HookAdmitted, HookRecords
<1>42. CASE HookRefused
  BY <1>42, <1>0 DEF HookRefused, HookRecords
<1>43. CASE HookDropsMarker
  BY <1>43, <1>0, IdleTyped DEF HookDropsMarker, HookRecords
<1> QED
  BY <1>1, <1>2, <1>3, <1>4, <1>5, <1>6, <1>7, <1>8, <1>9, <1>10, <1>11, <1>12, <1>13, <1>14, <1>15,
       <1>16, <1>17, <1>18, <1>19, <1>20, <1>21, <1>22, <1>23, <1>24, <1>25, <1>26, <1>27, <1>28,
       <1>29, <1>30, <1>31, <1>32, <1>33, <1>34, <1>35, <1>36, <1>37, <1>38, <1>39, <1>40, <1>41,
       <1>42, <1>43, <1>44
  DEF Next, OpStep, DisableStep, HookStep

-----------------------------------------------------------------------------
\* Shapes and identities

\* The body keeps its shape.
LEMMA OpShapeStep ==
  ASSUME op \in OpRecords, OpShape, OpStep
  PROVE  OpShape'
<1>0. /\ \A p : Goto(p) => op'.pc = p /\ op'.kind = op.kind /\ op'.next = op.next
      /\ \A n : Withdraw(n) => op'.pc = "withdraw" /\ op'.kind = op.kind /\ op'.next = n
  BY DEF Goto, Withdraw, OpRecords
<1> USE DEF OpShape, Early, OfSpawn, Writing, Undoing, marks, files, used
<1>1. CASE WriteRelayEnabled
  BY <1>1 DEF WriteRelayEnabled, OpRecords
<1>2. CASE StillRow
  BY <1>2 DEF StillRow, OpRecords
<1>3. CASE StillRevocation
  <2>1. CASE ~op.allowed \/ Revoked
    <3>1. op.pc = "rev" /\ UNCHANGED <<ctr, dirty>> /\ Lost
      BY <1>3, <2>1 DEF StillRevocation
    <3> QED BY <1>0, <3>1 DEF Lost
  <2>2. CASE op.allowed /\ ~Revoked
    BY <1>3, <2>2 DEF StillRevocation, AfterRecheck, OpRecords, Goto, Done, IdleOp
  <2> QED BY <2>1, <2>2 DEF OpRecords
<1>4. CASE Identify
  BY <1>4 DEF Identify, OpRecords, Goto, Done, IdleOp
<1>5. CASE WriteHooksFile
  BY <1>5 DEF WriteHooksFile, OpRecords
<1>6. CASE WithdrawHooks
  BY <1>6 DEF WithdrawHooks, OpRecords, Goto, Withdraw
<1>7. CASE WithdrawMarker
  BY <1>7 DEF WithdrawMarker, OpRecords, Goto, Done, Withdraw, IdleOp
<1>8. CASE EnableBegin
  BY <1>8 DEF EnableBegin, OpRecords, Start, IdleOp
<1>9. CASE EnableGlobal
  BY <1>9 DEF EnableGlobal, OpRecords, Goto, Done, IdleOp
<1>10. CASE EnableFacts
  BY <1>10 DEF EnableFacts, OpRecords
<1>11. CASE EnableWrite
  BY <1>11 DEF EnableWrite, OpRecords, Goto, Done, IdleOp
<1>12. CASE EnableRecheckGlobal
  BY <1>12 DEF EnableRecheckGlobal, OpRecords, Goto
<1>13. CASE EnableLift
  BY <1>13 DEF EnableLift, OpRecords, Goto
<1>14. CASE EnableRetired
  BY <1>14 DEF EnableRetired, OpRecords, Goto
<1>30. CASE ReapplyReads
  BY <1>30 DEF ReapplyReads, OpRecords
<1>15. CASE EnableReapply
  BY <1>15 DEF EnableReapply, OpRecords, Done, IdleOp
<1>16. CASE FactsRow
  BY <1>16 DEF FactsRow, OpRecords
<1>17. CASE FactsDecide
  <2>1. (Done \/ Goto("marker") \/ Withdraw("idle")) /\ op.pc = "facts3" /\ UNCHANGED <<ctr, dirty>>
    BY <1>17 DEF FactsDecide
  <2>2. CASE Done
    BY <2>1, <2>2 DEF Done, IdleOp
  <2>3. CASE Goto("marker")
    BY <2>1, <2>3 DEF Goto, OpRecords
  <2>4. CASE Withdraw("idle")
    BY <2>1, <2>4 DEF Withdraw, OpRecords
  <2> QED BY <2>1, <2>2, <2>3, <2>4
<1>18. CASE SpawnBegin
  BY <1>18 DEF SpawnBegin, OpRecords, Start, IdleOp
<1>19. CASE SpawnRow
  BY <1>19 DEF SpawnRow, OpRecords
<1>20. ASSUME NEW capable \in BOOLEAN, SpawnDecide(capable) PROVE OpShape'
  <2>1. /\ op.pc = "spawn2" /\ UNCHANGED <<ctr, dirty>>
        /\ Goto("hash") \/ \E n \in {"clear", "plain"} : Withdraw(n)
    BY <1>20 DEF SpawnDecide
  <2> QED BY <1>0, <2>1
<1>21. CASE SpawnHash
  BY <1>21 DEF SpawnHash, OpRecords
<1>22. CASE SpawnClear
  BY <1>22 DEF SpawnClear, OpRecords, Goto
<1>23. CASE CreateContainer
  BY <1>23 DEF CreateContainer, OpRecords, Done, IdleOp
<1>24. CASE Lifecycle
  BY <1>24 DEF Lifecycle, OpRecords, IdleOp
<1>25. CASE OpFails
  <2>0. UNCHANGED ctr /\ dirty'
    BY <1>25 DEF OpFails
  <2>1. CASE Done
    BY <2>0, <2>1 DEF Done, IdleOp
  <2>2. CASE Goto("plain") /\ op.kind = "spawn"
    BY <2>0, <2>2 DEF Goto, OpRecords
  <2>3. CASE Lost /\ op.kind # "none"
    <3>1. op'.kind = op.kind /\ op'.pc = "withdraw" /\ op'.next = IF op.kind = "spawn" THEN "plain" ELSE "idle"
      BY <2>3 DEF Lost, Withdraw, OpRecords
    <3> QED BY <2>0, <2>3, <3>1
  <2>4. CASE op.kind = "enable" /\ op'.kind = op.kind /\ op'.pc \in Undoing
    BY <2>0, <2>4 DEF OpRecords
  <2>5. CASE Withdraw(IF op.kind = "spawn" THEN "unhash" ELSE "idle") /\ op.kind # "none"
    BY <2>0, <2>5 DEF Withdraw, OpRecords
  <2>6. CASE op.pc \in {"lift", "retired", "reread"}
    <3>1. Goto("reread") \/ Goto("reapply") \/ Done
      BY <1>25, <2>6 DEF OpFails
    <3> QED BY <1>0, <2>1, <2>4, <2>6, <3>1
  <2>7. CASE op.pc \notin {"lift", "retired", "reread"}
    BY <1>25, <2>1, <2>2, <2>3, <2>5, <2>7 DEF OpFails
  <2> QED BY <2>6, <2>7
<1>26. CASE ReconcileCheck
  BY <1>26 DEF ReconcileCheck, OpRecords, Goto, Done, IdleOp
<1>27. CASE ReconcileRevokes
  BY <1>27 DEF ReconcileRevokes, OpRecords, Withdraw
<1>28. CASE Listen
  BY <1>28 DEF Listen, OpRecords, IdleOp
<1>29. CASE Crash
  BY <1>29 DEF Crash, OpRecords, IdleOp
<1> QED
  BY <1>1, <1>2, <1>3, <1>4, <1>5, <1>6, <1>7, <1>8, <1>9, <1>10, <1>11, <1>12, <1>13, <1>14, <1>15,
       <1>16, <1>17, <1>18, <1>19, <1>20, <1>21, <1>22, <1>23, <1>24, <1>25, <1>26, <1>27, <1>28,
       <1>29, <1>30
  DEF OpStep

\* The disables keep theirs under the steps of the holder,
LEMMA DisOp ==
  ASSUME DisTyped, DisShape, OpStep
  PROVE  DisShape'
<1>1. CASE UNCHANGED <<dis, stands>>
  BY <1>1, OpFrame DEF DisShape, DisPcs
<1>2. CASE EnableBegin
  BY <1>2 DEF EnableBegin, Overlap, DisShape, DisPcs, DisTyped, marks
<1>3. CASE Crash
  BY <1>3 DEF Crash, DisShape, DisTyped, DisPcs, DisRecords, marks
<1> QED BY <1>1, <1>2, <1>3, OpFrame DEF EnableBegin, Crash

\* and under their own: a marker found lifted is one an enable overlapped.
LEMMA DisDis ==
  ASSUME DisTyped, DisShape, Marked, IdsOld, DisableStep
  PROVE  DisShape'
<1> USE DEF DisShape, DisTyped, DisPcs, marks
<1>1. CASE EnableAll
  BY <1>1 DEF EnableAll, DisRecords
<1>2. ASSUME NEW d \in Disables, NEW kind \in KindsOf[d], DisableMark(d, kind) PROVE DisShape'
  <2>1. kind \in {"api", "cli", "all"}
    BY CaptureAssumption
  <2>2. /\ dis' = [dis EXCEPT ![d] = [kind |-> kind, pc |-> "d1", lift |-> 0]]
        /\ stands' = [stands EXCEPT ![d] = "stands"]
        /\ revoked'.id = revoked.id \/ revoked'.id = ids
    BY <1>2 DEF DisableMark
  <2> QED BY <2>1, <2>2 DEF DisRecords, Markers, IdsOld
<1>3. ASSUME NEW d \in Disables, DisableRow(d) PROVE DisShape'
  BY <1>3 DEF DisableRow, DisRecords
<1>4. ASSUME NEW d \in Disables, DisableHooks(d) PROVE DisShape'
  BY <1>4 DEF DisableHooks, DisRecords
<1>5. ASSUME NEW d \in Disables, DisableRelay(d) PROVE DisShape'
  BY <1>5 DEF DisableRelay, DisRecords
<1>6. ASSUME NEW d \in Disables, DisableCheckLifted(d) PROVE DisShape'
  BY <1>6 DEF DisableCheckLifted, DisRecords, Marked, InEffect
<1>7. ASSUME NEW d \in Disables, DisableCheckRevoked(d) PROVE DisShape'
  BY <1>7 DEF DisableCheckRevoked, DisRecords, Marked, InEffect
<1>8. ASSUME NEW d \in Disables, DisableAgain(d) PROVE DisShape'
  BY <1>8 DEF DisableAgain, DisRecords, Markers, IdsOld
<1>9. ASSUME NEW d \in Disables, DisableFails(d) PROVE DisShape'
  BY <1>9 DEF DisableFails, DisRecords
<1> QED
  BY <1>1, <1>2, <1>3, <1>4, <1>5, <1>6, <1>7, <1>8, <1>9
  DEF DisableStep

\* Identities stay old,
LEMMA IdsOp ==
  ASSUME Typed, IdsOld, OpStep
  PROVE  IdsOld'
<1> USE DEF IdsOld, Typed, marks, files, used
<1>0. 0 < ids
  BY DEF Markers
<1>1. CASE WriteRelayEnabled
  BY <1>1, <1>0 DEF WriteRelayEnabled, OpRecords
<1>2. CASE StillRow
  BY <1>2, <1>0 DEF StillRow, OpRecords
<1>3. CASE StillRevocation
  <2>1. op'.seen \in {op.seen, 0} /\ op'.token \in {op.token, 0}
    BY <1>3, Carried DEF StillRevocation, Lost
  <2> QED BY <1>3, <1>0, <2>1 DEF StillRevocation
<1>4. CASE Identify
  BY <1>4, <1>0 DEF Identify, OpRecords, Goto, Done, IdleOp
<1>5. CASE WriteHooksFile
  BY <1>5, <1>0 DEF WriteHooksFile, OpRecords
<1>6. CASE WithdrawHooks
  BY <1>6, <1>0 DEF WithdrawHooks, OpRecords, Goto, Withdraw
<1>7. CASE WithdrawMarker
  BY <1>7, <1>0 DEF WithdrawMarker, OpRecords, Goto, Done, Withdraw, IdleOp
<1>8. CASE EnableBegin
  BY <1>8, <1>0 DEF EnableBegin, OpRecords, Markers, InEffect, Start, IdleOp
<1>9. CASE EnableGlobal
  BY <1>9, <1>0 DEF EnableGlobal, OpRecords, Goto, Done, IdleOp
<1>10. CASE EnableFacts
  BY <1>10, <1>0 DEF EnableFacts, OpRecords
<1>11. CASE EnableWrite
  BY <1>11, <1>0 DEF EnableWrite, OpRecords, Row, Goto, Done, IdleOp, EnableRow, RestoreOrRequest
<1>12. CASE EnableRecheckGlobal
  BY <1>12, <1>0 DEF EnableRecheckGlobal, OpRecords, Goto
<1>13. CASE EnableLift
  BY <1>13, <1>0 DEF EnableLift, OpRecords, Goto
<1>14. CASE EnableRetired
  BY <1>14, <1>0 DEF EnableRetired, OpRecords, Goto
<1>30. CASE ReapplyReads
  BY <1>30, <1>0 DEF ReapplyReads, OpRecords
<1>15. CASE EnableReapply
  BY <1>15, <1>0 DEF EnableReapply, OpRecords, Row, Done, IdleOp, Suspended, RevokedRow
<1>16. CASE FactsRow
  BY <1>16, <1>0 DEF FactsRow, OpRecords
<1>17. CASE FactsDecide
  <2>1. op'.seen \in {op.seen, 0} /\ op'.token \in {op.token, 0}
    BY <1>17, Carried DEF FactsDecide
  <2> QED BY <1>17, <1>0, <2>1 DEF FactsDecide
<1>18. CASE SpawnBegin
  BY <1>18, <1>0 DEF SpawnBegin, OpRecords, Markers, InEffect, Start, IdleOp
<1>19. CASE SpawnRow
  BY <1>19, <1>0 DEF SpawnRow, OpRecords
<1>20. ASSUME NEW capable \in BOOLEAN, SpawnDecide(capable) PROVE IdsOld'
  BY <1>20, <1>0 DEF SpawnDecide, OpRecords, Goto, Withdraw
<1>21. CASE SpawnHash
  <2>1. op'.seen = op.seen /\ op'.token = ids /\ row'.hash = ids /\ row'.suspended = row.suspended /\ ids < ids'
    BY <1>21 DEF SpawnHash, OpRecords, Row
  <2> QED BY <1>21, <1>0, <2>1 DEF SpawnHash, OpRecords, Row, Containers, HookRecords, DisRecords,
       Markers
<1>22. CASE SpawnClear
  BY <1>22, <1>0 DEF SpawnClear, OpRecords, Row, Goto, RevokedRow
<1>23. CASE CreateContainer
  BY <1>23, <1>0 DEF CreateContainer, OpRecords, Done, IdleOp, Containers
<1>24. CASE Lifecycle
  BY <1>24, <1>0 DEF Lifecycle, OpRecords, HookRecords, IdleOp, IdleHook, Containers
<1>25. CASE OpFails
  <2>1. op'.seen \in {op.seen, 0} /\ op'.token \in {op.token, 0}
    BY <1>25, Carried DEF OpFails, Lost, OpRecords
  <2>2. lifted' \in {lifted, op.seen} /\ row'.hash \in {row.hash, row.suspended, ids} /\ row'.suspended \in {row.suspended, 0}
    BY <1>25 DEF OpFails, Row, EnableRow, RestoreOrRequest
  <2>3. ids' = ids + 1 /\ UNCHANGED <<revoked, ctr, hook, dis>>
    BY <1>25 DEF OpFails
  <2> QED BY <1>0, <2>1, <2>2, <2>3 DEF OpRecords, Row, Containers, HookRecords, DisRecords, Markers
<1>26. CASE ReconcileCheck
  BY <1>26, <1>0 DEF ReconcileCheck, OpRecords, Goto, Done, IdleOp
<1>27. CASE ReconcileRevokes
  BY <1>27, <1>0 DEF ReconcileRevokes, OpRecords, Row, Withdraw, RevokedRow
<1>28. CASE Listen
  BY <1>28, <1>0 DEF Listen, OpRecords, IdleOp
<1>29. CASE Crash
  BY <1>29, <1>0 DEF Crash, OpRecords, HookRecords, IdleOp, IdleHook, DisRecords
<1> QED
  BY <1>1, <1>2, <1>3, <1>4, <1>5, <1>6, <1>7, <1>8, <1>9, <1>10, <1>11, <1>12, <1>13, <1>14, <1>15,
       <1>16, <1>17, <1>18, <1>19, <1>20, <1>21, <1>22, <1>23, <1>24, <1>25, <1>26, <1>27, <1>28,
       <1>29, <1>30
  DEF OpStep

\* whoever hands one out:
LEMMA IdsDis ==
  ASSUME Typed, IdsOld, DisableStep
  PROVE  IdsOld'
<1> USE DEF IdsOld, Typed, marks, files, used
<1>0. 0 < ids
  BY DEF Markers
<1>1. CASE EnableAll
  BY <1>1, <1>0 DEF EnableAll, DisRecords
<1>2. ASSUME NEW d \in Disables, NEW kind \in KindsOf[d], DisableMark(d, kind) PROVE IdsOld'
  <2>1. revoked'.id \in {revoked.id, ids} /\ ids' \in {ids, ids + 1} /\ (revoked'.id = ids => ids' = ids + 1)
    BY <1>2, <1>0 DEF DisableMark, Markers
  <2>2. \A e \in Disables : dis'[e].lift \in {dis[e].lift, 0}
    BY <1>2 DEF DisableMark, DisRecords
  <2> QED BY <1>2, <1>0, <2>1, <2>2 DEF DisableMark, OpRecords, Row, Containers, HookRecords,
       DisRecords, Markers
<1>3. ASSUME NEW d \in Disables, DisableRow(d) PROVE IdsOld'
  BY <1>3, <1>0 DEF DisableRow, DisRecords, Suspended, RevokedRow, Row
<1>4. ASSUME NEW d \in Disables, DisableHooks(d) PROVE IdsOld'
  BY <1>4, <1>0 DEF DisableHooks, DisRecords
<1>5. ASSUME NEW d \in Disables, DisableRelay(d) PROVE IdsOld'
  BY <1>5, <1>0 DEF DisableRelay, DisRecords
<1>6. ASSUME NEW d \in Disables, DisableCheckLifted(d) PROVE IdsOld'
  BY <1>6, <1>0 DEF DisableCheckLifted, DisRecords
<1>7. ASSUME NEW d \in Disables, DisableCheckRevoked(d) PROVE IdsOld'
  BY <1>7, <1>0 DEF DisableCheckRevoked, DisRecords
<1>8. ASSUME NEW d \in Disables, DisableAgain(d) PROVE IdsOld'
  <2>1. revoked'.id = ids /\ ids' = ids + 1
    BY <1>8, <1>0 DEF DisableAgain, Markers
  <2>2. \A e \in Disables : dis'[e].lift = dis[e].lift
    BY <1>8 DEF DisableAgain, DisRecords
  <2> QED BY <1>8, <1>0, <2>1, <2>2 DEF DisableAgain, OpRecords, Row, Containers, HookRecords,
       DisRecords, Markers
<1>9. ASSUME NEW d \in Disables, DisableFails(d) PROVE IdsOld'
  BY <1>9, <1>0 DEF DisableFails, DisRecords
<1> QED
  BY <1>1, <1>2, <1>3, <1>4, <1>5, <1>6, <1>7, <1>8, <1>9
  DEF DisableStep

\* a hook hands out none.
LEMMA IdsHook ==
  ASSUME Typed, IdsOld, HookStep
  PROVE  IdsOld'
<1> USE DEF IdsOld, Typed, marks, files, used
<1>0. 0 < ids
  BY DEF Markers
<1>1. CASE HookArrives
  BY <1>1, <1>0 DEF HookArrives, HookRecords, IdleHook
<1>2. CASE HookStats \/ HookReadsLifted
  BY <1>2, <1>0 DEF HookStats, HookReadsLifted, HookRecords, IdleHook
<1>3. CASE HookAdmitted
  BY <1>3, <1>0 DEF HookAdmitted, HookRecords, IdleHook
<1>4. CASE HookRefused
  BY <1>4, <1>0 DEF HookRefused, HookRecords, IdleHook
<1>5. CASE HookDropsMarker
  BY <1>5, <1>0 DEF HookDropsMarker, HookRecords, IdleHook
<1> QED
  BY <1>1, <1>2, <1>3, <1>4, <1>5
  DEF HookStep

-----------------------------------------------------------------------------
\* Markers and hooks

\* An enable gets further only from an earlier place of its own, and keeps
\* the marker it saw.
LEMMA EarlyStep ==
  ASSUME op \in OpRecords, OpStep
  PROVE  EnableBegin \/ (op'.pc \in Early => op.pc \in Early /\ op'.seen = op.seen /\ op.pc # "retired")
<1> USE DEF Early
<1>1. CASE WriteRelayEnabled
  BY <1>1, Carried DEF WriteRelayEnabled, OpRecords
<1>2. CASE StillRow
  BY <1>2, Carried DEF StillRow, OpRecords
<1>3. CASE StillRevocation
  <2>1. AfterRecheck \in {"marker", "hooks", "probe", "create", "idle"}
    BY DEF AfterRecheck, OpRecords
  <2> QED BY <1>3, <2>1, Carried DEF StillRevocation, Lost
<1>4. CASE Identify
  BY <1>4, Carried DEF Identify, IdleOp
<1>5. CASE WriteHooksFile
  BY <1>5, Carried DEF WriteHooksFile, OpRecords
<1>6. CASE WithdrawHooks
  BY <1>6, Carried DEF WithdrawHooks
<1>7. CASE WithdrawMarker
  BY <1>7, Carried DEF WithdrawMarker, OpRecords
<1>8. CASE EnableBegin
  BY <1>8
<1>9. CASE EnableGlobal
  BY <1>9, Carried DEF EnableGlobal, IdleOp
<1>10. CASE EnableFacts
  BY <1>10, Carried DEF EnableFacts, OpRecords
<1>11. CASE EnableWrite
  BY <1>11, Carried DEF EnableWrite, IdleOp
<1>12. CASE EnableRecheckGlobal
  BY <1>12, Carried DEF EnableRecheckGlobal
<1>13. CASE EnableLift
  BY <1>13, Carried DEF EnableLift
<1>14. CASE EnableRetired
  BY <1>14, Carried DEF EnableRetired
<1>30. CASE ReapplyReads
  BY <1>30 DEF ReapplyReads, OpRecords
<1>15. CASE EnableReapply
  BY <1>15, Carried DEF EnableReapply, IdleOp
<1>16. CASE FactsRow
  BY <1>16, Carried DEF FactsRow, OpRecords
<1>17. CASE FactsDecide
  BY <1>17, Carried DEF FactsDecide, IdleOp
<1>18. CASE SpawnBegin
  BY <1>18, Carried DEF SpawnBegin, Start, IdleOp, OpRecords
<1>19. CASE SpawnRow
  BY <1>19, Carried DEF SpawnRow, OpRecords
<1>20. ASSUME NEW capable \in BOOLEAN, SpawnDecide(capable)
       PROVE  EnableBegin \/ (op'.pc \in Early => op.pc \in Early /\ op'.seen = op.seen /\ op.pc # "retired")
  BY <1>20, Carried DEF SpawnDecide
<1>21. CASE SpawnHash
  BY <1>21, Carried DEF SpawnHash, OpRecords
<1>22. CASE SpawnClear
  BY <1>22, Carried DEF SpawnClear
<1>23. CASE CreateContainer
  BY <1>23, Carried DEF CreateContainer, IdleOp
<1>24. CASE Lifecycle
  BY <1>24, Carried DEF Lifecycle, IdleOp, OpRecords
<1>25. CASE OpFails
  <2>1. Done \/ Lost \/ (\E pc \in {"reread", "reapply", "plain"} : Goto(pc)) \/ (\E next : Withdraw(next))
    BY <1>25 DEF OpFails
  <2> QED BY <2>1, Carried DEF Lost
<1>26. CASE ReconcileCheck
  BY <1>26, Carried DEF ReconcileCheck, IdleOp
<1>27. CASE ReconcileRevokes
  BY <1>27, Carried DEF ReconcileRevokes
<1>28. CASE Listen
  BY <1>28, Carried DEF Listen, IdleOp, OpRecords
<1>29. CASE Crash
  BY <1>29, Carried DEF Crash, IdleOp, OpRecords
<1> QED
  BY <1>1, <1>2, <1>3, <1>4, <1>5, <1>6, <1>7, <1>8, <1>9, <1>10, <1>11, <1>12, <1>13, <1>14, <1>15,
       <1>16, <1>17, <1>18, <1>19, <1>20, <1>21, <1>22, <1>23, <1>24, <1>25, <1>26, <1>27, <1>28,
       <1>29, <1>30
  DEF OpStep

\* No step of the holder lifts a marker it did not see,
LEMMA MarkedOp ==
  ASSUME Typed, DisTyped, DisShape, Marked, OpStep
  PROVE  Marked'
<1>1. CASE EnableBegin
  BY <1>1 DEF EnableBegin, Overlap, Marked, DisShape, DisTyped, marks
<1>2. CASE lifted' = lifted /\ ~EnableBegin
  <2>1. \A d \in Disables : dis'[d].kind = dis[d].kind
    <3>1. CASE Crash
      BY <3>1 DEF Crash, DisTyped, DisRecords
    <3> QED BY <3>1, OpFrame
  <2> QED BY <1>2, <2>1, OpFrame, EarlyStep DEF Marked, InEffect, Typed
<1>3. CASE op.pc = "lift" /\ lifted' \in {lifted, op.seen} /\ UNCHANGED <<dis, stands, revoked, global>> /\ ~EnableBegin
  <2>1. op.pc \in Early
    BY <1>3 DEF Early
  <2> QED BY <1>3, <2>1, EarlyStep DEF Marked, InEffect, Typed
<1>4. ASSUME EnableLift
      PROVE  lifted' \in {lifted, op.seen} /\ op.pc = "lift" /\ UNCHANGED <<dis, stands, revoked, global>> /\ ~EnableBegin
  BY <1>4 DEF EnableLift, EnableBegin, Start, IdleOp
<1>5. ASSUME OpFails PROVE lifted' = lifted \/ (op.pc = "lift" /\ lifted' \in {lifted, op.seen})
  BY <1>5 DEF OpFails
<1>6. ASSUME OpFails PROVE UNCHANGED <<dis, stands, revoked, global>>
  BY <1>6 DEF OpFails
<1>7. ASSUME OpFails PROVE ~EnableBegin
  <2>1. EnableBegin => op.pc = "idle"
    BY DEF EnableBegin, Start, IdleOp
  <2>2. op.pc # "idle"
    BY <1>7 DEF OpFails
  <2> QED BY <2>1, <2>2
<1> QED BY <1>1, <1>2, <1>3, <1>4, <1>5, <1>6, <1>7, OpFrame

\* so no disable undoes another one.
LEMMA MarkedDis ==
  ASSUME Typed, DisTyped, IdsOld, DisShape, Marked, DisableStep
  PROVE  Marked'
<1> USE DEF Marked, DisTyped, DisRecords
<1>0. UNCHANGED <<lifted, op>>
  BY DisableFrame
<1>1. CASE EnableAll
  BY <1>1, <1>0 DEF EnableAll, DisShape, InEffect
<1>2. ASSUME NEW d \in Disables, NEW kind \in KindsOf[d], DisableMark(d, kind) PROVE Marked'
  <2>1. CASE kind = "all"
    BY <1>2, <1>0, <2>1 DEF DisableMark, InEffect
  <2>2. CASE kind # "all"
    <3>1. revoked'.id = ids /\ ids # 0 /\ ids # lifted /\ ids # op.seen
      BY <1>2, <2>2 DEF DisableMark, IdsOld, Typed, Markers, OpRecords
    <3> QED BY <1>2, <1>0, <2>2, <3>1 DEF DisableMark, InEffect
  <2> QED BY <2>1, <2>2
<1>3. ASSUME NEW d \in Disables, DisableAgain(d) PROVE Marked'
  <2>1. revoked'.id = ids /\ ids # 0 /\ ids # lifted /\ ids # op.seen
    BY <1>3 DEF DisableAgain, IdsOld, Typed, Markers, OpRecords
  <2> QED BY <1>3, <1>0, <2>1 DEF DisableAgain, InEffect, DisShape
<1>4. ASSUME NEW d \in Disables, DisableRow(d) PROVE Marked'
  BY <1>4, <1>0 DEF DisableRow, InEffect, marks
<1>5. ASSUME NEW d \in Disables, DisableHooks(d) PROVE Marked'
  BY <1>5, <1>0 DEF DisableHooks, InEffect, marks
<1>6. ASSUME NEW d \in Disables, DisableRelay(d) PROVE Marked'
  BY <1>6, <1>0 DEF DisableRelay, InEffect, marks
<1>7. ASSUME NEW d \in Disables, DisableCheckLifted(d) PROVE Marked'
  BY <1>7, <1>0 DEF DisableCheckLifted, InEffect, marks
<1>8. ASSUME NEW d \in Disables, DisableCheckRevoked(d) PROVE Marked'
  BY <1>8, <1>0 DEF DisableCheckRevoked, InEffect, marks
<1>9. ASSUME NEW d \in Disables, DisableFails(d) PROVE Marked'
  BY <1>9, <1>0 DEF DisableFails, InEffect, marks
<1> QED BY <1>1, <1>2, <1>3, <1>4, <1>5, <1>6, <1>7, <1>8, <1>9 DEF DisableStep

\* a disable writes a new marker or none,
LEMMA RevokedDis ==
  ASSUME revoked \in Markers, DisableStep
  PROVE  revoked'.id \in {revoked.id, ids}
<1>1. ASSUME NEW d \in Disables, DisableAgain(d) PROVE revoked'.id = ids
  BY <1>1 DEF DisableAgain
<1>2. ASSUME NEW d \in Disables, NEW kind \in KindsOf[d], DisableMark(d, kind)
      PROVE  revoked'.id \in {revoked.id, ids}
  BY <1>2 DEF DisableMark
<1>3. CASE UNCHANGED revoked
  BY <1>3
<1> QED BY <1>1, <1>2, <1>3 DEF DisableStep, marks, EnableAll, DisableRow, DisableHooks,
     DisableRelay, DisableCheckLifted, DisableCheckRevoked, DisableFails

\* Nor does a hook.
LEMMA MarkedHook ==
  ASSUME Marked, HookStep
  PROVE  Marked'
BY HookFrame DEF Marked, InEffect

\* The order of the hook's reads keeps each cut visible.
LEMMA HookCutStep ==
  ASSUME cut \in SUBSET Sources, Typed, IdsOld, HookCut, Next
  PROVE  HookCut'
<1>0. cut' = {source \in Sources : InForce(source)' /\ (source \in cut \/ CheckBegins)}
  BY DEF Next
<1>1. \A source \in cut' : InForce(source)'
  BY <1>0
<1>2. ASSUME ~HookStats PROVE cut' \subseteq cut
  <2>1. ~CheckBegins
    <3>1. CASE OpStep
      BY <3>1, OpFrame DEF CheckBegins, IdleHook
    <3>2. CASE DisableStep
      BY <3>2, DisableFrame DEF CheckBegins
    <3>3. CASE HookStep
      BY <1>2, <3>3 DEF HookStep, HookArrives, HookReadsLifted, HookAdmitted, HookRefused,
           HookDropsMarker, CheckBegins, IdleHook, Typed, HookRecords
    <3> QED BY <3>1, <3>2, <3>3 DEF Next
  <2> QED BY <1>0, <2>1
<1>3. ASSUME "global" \in cut' PROVE hook'.pc \notin {"lifted", "read"}
  <2>1. CASE HookStats
    <3>1. global
      BY <1>1, <1>3, <2>1, HookFrame DEF InForce, HookStep
    <3> QED BY <2>1, <3>1 DEF HookStats, Typed, HookRecords
  <2>2. CASE ~HookStats
    <3>1. hook.pc \notin {"lifted", "read"}
      BY <1>2, <1>3, <2>2 DEF HookCut
    <3>2. CASE OpStep
      BY <3>1, <3>2, OpFrame DEF IdleHook
    <3>3. CASE DisableStep
      BY <3>1, <3>3, DisableFrame
    <3>4. CASE HookStep
      BY <2>2, <3>1, <3>4 DEF HookStep, HookArrives, HookReadsLifted, HookAdmitted, HookRefused,
           HookDropsMarker, IdleHook, Typed, HookRecords
    <3> QED BY <3>2, <3>3, <3>4 DEF Next
  <2> QED BY <2>1, <2>2
<1>4. ASSUME "session" \in cut', hook'.pc = "read" PROVE InEffect(hook.lift)'
  <2>1. CASE HookReadsLifted
    <3>1. hook'.lift = lifted /\ lifted' = lifted
      BY <2>1 DEF HookReadsLifted, Typed, HookRecords, marks
    <3>2. InEffect(lifted)'
      BY <1>1, <1>4 DEF InForce
    <3> QED BY <3>1, <3>2 DEF InEffect
  <2>2. CASE ~HookReadsLifted
    <3>1. hook' = hook
      <4>1. CASE OpStep
        BY <1>4, <4>1, OpFrame DEF IdleHook
      <4>2. CASE HookStep
        BY <1>4, <2>2, <4>2 DEF HookStep, HookArrives, HookStats, HookAdmitted, HookRefused,
             HookDropsMarker, IdleHook, Typed, HookRecords
      <4> QED BY <4>1, <4>2, DisableFrame DEF Next
    <3>2. hook.pc = "read" /\ InEffect(hook.lift)
      BY <1>2, <1>4, <3>1 DEF HookCut, HookStats, Typed, HookRecords
    <3>3. revoked'.id \in {revoked.id, ids}
      BY OpFrame, RevokedDis, HookFrame DEF Next, Typed
    <3>4. ids # 0 /\ ids # hook.lift
      BY DEF IdsOld, Typed, Markers, HookRecords
    <3> QED BY <3>1, <3>2, <3>3, <3>4 DEF InEffect
  <2> QED BY <2>1, <2>2
<1> QED BY <1>1, <1>3, <1>4 DEF HookCut

\* The marker an enable saw stays the one it has to lift,
LEMMA SeenOldOp ==
  ASSUME Typed, SeenOld, OpStep
  PROVE  SeenOld'
<1>1. CASE EnableBegin
  BY <1>1 DEF EnableBegin, Start, IdleOp, SeenOld, InEffect, marks
<1>2. CASE ~EnableBegin
  <2>0. op'.pc \in Early => op.pc \in Early /\ op'.seen = op.seen /\ op.pc # "retired"
    BY <1>2, EarlyStep DEF Typed
  <2>1. CASE UNCHANGED lifted
    BY <2>0, <2>1, OpFrame DEF SeenOld, InEffect
  <2>2. CASE EnableLift
    BY <2>2, Carried DEF EnableLift, SeenOld, Typed
  <2>3. CASE OpFails /\ ~UNCHANGED lifted
    <3>1. Goto("reread")
      BY <2>3 DEF OpFails
    <3> QED BY <3>1, Carried DEF SeenOld, Typed, Early
  <2> QED BY <2>1, <2>2, <2>3, OpFrame
<1> QED BY <1>1, <1>2

\* also when a newer one is written.
LEMMA SeenOldDis ==
  ASSUME Typed, IdsOld, SeenOld, DisableStep
  PROVE  SeenOld'
<1>1. UNCHANGED <<op, lifted>>
  BY DisableFrame
<1>2. revoked'.id \in {revoked.id, ids}
  BY RevokedDis DEF Typed
<1> QED BY <1>1, <1>2 DEF SeenOld, InEffect, IdsOld, Typed, Markers

-----------------------------------------------------------------------------
\* D1

\* Once a disable won in D1, no step of the holder grants again.
LEMMA D1Op ==
  ASSUME Typed, OpShape, NEW x \in Disables, D1Held(x), ~EnableBegin, ~dirty', UNCHANGED dis,
         IF dis[x].kind = "all" THEN global ELSE InEffect(lifted), OpStep
  PROVE  D1Held(x)'
<1> USE DEF D1Held, D1Clear, Match, OpShape, Early, OfSpawn, Writing, Undoing, Typed, marks, files, used
<1>1. CASE WriteRelayEnabled
  BY <1>1, Carried DEF WriteRelayEnabled, OpRecords
<1>2. CASE StillRow
  BY <1>2, Carried DEF StillRow, OpRecords
<1>3. CASE StillRevocation
  BY <1>3, Carried DEF StillRevocation, Lost, Revoked, AfterRecheck
<1>4. CASE Identify
  BY <1>4, Carried DEF Identify
<1>5. CASE WriteHooksFile
  BY <1>5, Carried DEF WriteHooksFile, OpRecords
<1>6. CASE WithdrawHooks
  BY <1>6, Carried DEF WithdrawHooks
<1>7. CASE WithdrawMarker
  BY <1>7, Carried DEF WithdrawMarker
<1>8. CASE EnableBegin
  BY <1>8 DEF EnableBegin
<1>9. CASE EnableGlobal
  BY <1>9, Carried DEF EnableGlobal
<1>10. CASE EnableFacts
  BY <1>10, Carried DEF EnableFacts, OpRecords
<1>11. CASE EnableWrite
  BY <1>11, Carried DEF EnableWrite, EnableRow, RestoreOrRequest, Row
<1>12. CASE EnableRecheckGlobal
  BY <1>12, Carried DEF EnableRecheckGlobal
<1>13. CASE EnableLift
  BY <1>13, Carried DEF EnableLift
<1>14. CASE EnableRetired
  BY <1>14, Carried DEF EnableRetired
<1>30. CASE ReapplyReads
  BY <1>30 DEF ReapplyReads, OpRecords
<1>15. CASE EnableReapply
  BY <1>15, Carried DEF EnableReapply, Suspended, RevokedRow, Row
<1>16. CASE FactsRow
  BY <1>16, Carried DEF FactsRow, OpRecords
<1>17. CASE FactsDecide
  BY <1>17, Carried DEF FactsDecide
<1>18. CASE SpawnBegin
  BY <1>18, Carried DEF SpawnBegin, Start, IdleOp
<1>19. CASE SpawnRow
  BY <1>19, Carried DEF SpawnRow, OpRecords
<1>20. ASSUME NEW capable \in BOOLEAN, SpawnDecide(capable) PROVE D1Held(x)'
  BY <1>20, Carried DEF SpawnDecide
<1>21. CASE SpawnHash
  BY <1>21, Carried DEF SpawnHash, OpRecords, Row
<1>22. CASE SpawnClear
  BY <1>22, Carried DEF SpawnClear, RevokedRow, Row
<1>23. CASE CreateContainer
  BY <1>23, Carried DEF CreateContainer, Containers
<1>24. CASE Lifecycle
  BY <1>24, Carried DEF Lifecycle, OpRecords, Containers, IdleOp
<1>25. CASE OpFails
  BY <1>25 DEF OpFails
<1>26. CASE ReconcileCheck
  BY <1>26, Carried DEF ReconcileCheck, Revoked, InEffect
<1>27. CASE ReconcileRevokes
  BY <1>27, Carried DEF ReconcileRevokes, RevokedRow, Row
<1>28. CASE Listen
  BY <1>28, Carried DEF Listen, OpRecords
<1>29. CASE Crash
  BY <1>29 DEF Crash
<1> QED
  BY <1>1, <1>2, <1>3, <1>4, <1>5, <1>6, <1>7, <1>8, <1>9, <1>10, <1>11, <1>12, <1>13, <1>14, <1>15,
       <1>16, <1>17, <1>18, <1>19, <1>20, <1>21, <1>22, <1>23, <1>24, <1>25, <1>26, <1>27, <1>28,
       <1>29, <1>30
  DEF OpStep

\* No disable undoes another one's row,
LEMMA D1Dis ==
  ASSUME Typed, DisTyped, D1Wins, DisableStep
  PROVE  D1Wins'
<1> USE DEF D1Wins, PastRow, DisTyped, DisRecords
<1>0. UNCHANGED <<op, ctr>> /\ (dirty => dirty')
  BY DisableFrame
<1>1. CASE EnableAll
  BY <1>1, <1>0 DEF EnableAll, D1Held, D1Clear, Match
<1>2. ASSUME NEW d \in Disables, NEW kind \in KindsOf[d], DisableMark(d, kind) PROVE D1Wins'
  BY <1>2, <1>0 DEF DisableMark, D1Held, D1Clear, Match
<1>3. ASSUME NEW d \in Disables, DisableRow(d) PROVE D1Wins'
  <2>1. ~row'.requested /\ row'.hash = 0
    BY <1>3 DEF DisableRow, Suspended, RevokedRow
  <2> QED BY <1>0, <2>1 DEF D1Held, D1Clear, Match
<1>4. ASSUME NEW d \in Disables, DisableHooks(d) PROVE D1Wins'
  BY <1>4, <1>0 DEF DisableHooks, D1Held, D1Clear, Match, marks
<1>5. ASSUME NEW d \in Disables, DisableRelay(d) PROVE D1Wins'
  BY <1>5, <1>0 DEF DisableRelay, D1Held, D1Clear, Match, marks
<1>6. ASSUME NEW d \in Disables, DisableCheckLifted(d) PROVE D1Wins'
  BY <1>6, <1>0 DEF DisableCheckLifted, D1Held, D1Clear, Match, marks
<1>7. ASSUME NEW d \in Disables, DisableCheckRevoked(d) PROVE D1Wins'
  BY <1>7, <1>0 DEF DisableCheckRevoked, D1Held, D1Clear, Match, marks
<1>8. ASSUME NEW d \in Disables, DisableFails(d) PROVE D1Wins'
  BY <1>8, <1>0 DEF DisableFails, D1Held, D1Clear, Match, marks
<1>9. ASSUME NEW d \in Disables, DisableAgain(d) PROVE D1Wins'
  BY <1>9, <1>0 DEF DisableAgain, D1Held, D1Clear, Match, marks
<1> QED BY <1>1, <1>2, <1>3, <1>4, <1>5, <1>6, <1>7, <1>8, <1>9 DEF DisableStep

\* and so the invariant on D1 is kept.
LEMMA D1Step ==
  ASSUME Typed, DisTyped, dirty \in BOOLEAN, OpShape, DisShape, Marked, D1Wins, Next
  PROVE  D1Wins'
<1>1. CASE OpStep
  <2> SUFFICES ASSUME ~dirty', NEW x \in Disables, stands'[x] = "stands", dis'[x].pc \in PastRow
               PROVE  D1Held(x)'
    BY DEF D1Wins
  <2>1. UNCHANGED dis
    BY <1>1, OpFrame DEF Crash
  <2>2. ~EnableBegin
    BY <2>1 DEF EnableBegin, Overlap, DisTyped, PastRow
  <2>3. stands[x] = "stands"
    BY <1>1, <2>2, OpFrame
  <2>4. IF dis[x].kind = "all" THEN global ELSE InEffect(lifted)
    BY <2>3 DEF Marked
  <2>5. CASE ~dirty
    BY <1>1, <2>1, <2>2, <2>3, <2>4, <2>5, D1Op DEF D1Wins
  <2>6. CASE dirty
    <3>1. ReconcileCheck
      BY <1>1, <2>6, <2>2 DEF OpStep, OpFails, Crash, WriteRelayEnabled, StillRow, StillRevocation,
           Identify, WriteHooksFile, WithdrawHooks, WithdrawMarker, EnableGlobal, EnableFacts,
           EnableWrite, EnableRecheckGlobal, EnableLift, EnableRetired, ReapplyReads, EnableReapply, FactsRow,
           FactsDecide, SpawnBegin, SpawnRow, SpawnDecide, SpawnHash, SpawnClear, CreateContainer,
           Lifecycle, ReconcileRevokes, Listen
    <3>2. op'.pc = "marked"
      BY <3>1, <2>4, <2>6, Carried DEF ReconcileCheck, Revoked, Typed
    <3> QED BY <3>2 DEF D1Held
  <2> QED BY <2>5, <2>6
<1>2. CASE DisableStep
  BY <1>2, D1Dis
<1>3. CASE HookStep
  BY <1>3, HookFrame DEF D1Wins, D1Held, D1Clear, Match
<1> QED BY <1>1, <1>2, <1>3 DEF Next

-----------------------------------------------------------------------------
\* Capture files

\* The write procedure keeps what it was told.
LEMMA KeptOp ==
  ASSUME Typed, OpShape, 0 < ids, Kept, ~dirty', OpStep
  PROVE  Kept'
<1> USE DEF SameBody, Kept, Match, OpShape, Early, OfSpawn, Writing, Undoing, Typed, marks, files, used
<1>1. CASE WriteRelayEnabled
  BY <1>1, Carried DEF WriteRelayEnabled, OpRecords
<1>2. CASE StillRow
  BY <1>2, Carried DEF StillRow, OpRecords
<1>3. CASE StillRevocation
  <2>0. op.pc = "rev" /\ UNCHANGED <<revoked, lifted, global, row, ctr, enabledFile, hooksFile>>
    BY <1>3 DEF StillRevocation
  <2>1. CASE ~op.allowed \/ Revoked
    <3>1. op'.pc = "withdraw" /\ SameBody
      BY <1>3, <2>1, Carried DEF StillRevocation, Lost
    <3> QED BY <2>0, <3>1
  <2>2. CASE op.allowed /\ ~Revoked
    <3>1. CASE op.stage = 2 /\ op.kind # "spawn"
      <4>1. op'.pc = "idle" /\ op'.kind = "none"
        BY <1>3, <2>2, <3>1, Carried DEF StillRevocation, AfterRecheck
      <4> QED BY <2>0, <2>2, <3>1, <4>1
    <3>2. CASE ~(op.stage = 2 /\ op.kind # "spawn")
      <4>1. /\ op'.pc \in {"marker", "hooks", "probe", "create"} /\ SameBody
            /\ op'.pc = "create" <=> (op.kind = "spawn" /\ op.stage = 2)
            /\ op'.pc = "probe" => op.kind # "spawn"
        <5>1. /\ AfterRecheck \in {"marker", "hooks", "probe", "create"}
              /\ AfterRecheck = "create" <=> (op.kind = "spawn" /\ op.stage = 2)
              /\ AfterRecheck = "probe" => op.kind # "spawn"
          BY <3>2 DEF AfterRecheck, OpRecords
        <5>2. Goto(AfterRecheck)
          BY <1>3, <2>2, <5>1 DEF StillRevocation
        <5> QED BY <5>1, <5>2, Carried
      <4> QED BY <2>0, <2>2, <3>2, <4>1
    <3> QED BY <3>1, <3>2
  <2> QED BY <2>1, <2>2
<1>4. CASE Identify
  BY <1>4, Carried DEF Identify
<1>5. CASE WriteHooksFile
  BY <1>5, Carried DEF WriteHooksFile, OpRecords
<1>6. CASE WithdrawHooks
  BY <1>6, Carried DEF WithdrawHooks
<1>7. CASE WithdrawMarker
  BY <1>7, Carried DEF WithdrawMarker
<1>8. CASE EnableBegin
  BY <1>8, Carried DEF EnableBegin, Start, IdleOp
<1>9. CASE EnableGlobal
  <2>0. op.pc = "global" /\ UNCHANGED <<revoked, lifted, global, row, ctr, enabledFile, hooksFile>>
    BY <1>9 DEF EnableGlobal
  <2>1. CASE global
    <3>1. op'.pc = "idle" /\ op'.kind = "none"
      BY <1>9, <2>1, Carried DEF EnableGlobal
    <3> QED BY <2>0, <2>1, <3>1
  <2>2. CASE ~global
    <3>1. op'.pc = "facts" /\ SameBody
      BY <1>9, <2>2, Carried DEF EnableGlobal
    <3> QED BY <2>0, <2>2, <3>1
  <2> QED BY <2>1, <2>2
<1>10. CASE EnableFacts
  BY <1>10, Carried DEF EnableFacts, OpRecords
<1>11. CASE EnableWrite
  <2>0. op.pc = "write" /\ UNCHANGED <<revoked, lifted, global, ctr, enabledFile, hooksFile>>
    BY <1>11 DEF EnableWrite
  <2>1. CASE row.seq = op.seq
    <3>1. op'.pc = "recheck" /\ SameBody
      BY <1>11, <2>1, Carried DEF EnableWrite
    <3>2. row'.requested /\ (row.hash # 0 => row'.hash = row.hash)
      BY <1>11, <2>1 DEF EnableWrite, EnableRow, RestoreOrRequest, Row
    <3> QED BY <2>0, <2>1, <3>1, <3>2
  <2>2. CASE row.seq # op.seq
    <3>1. op'.pc = "idle" /\ op'.kind = "none" /\ row' = row
      BY <1>11, <2>2, Carried DEF EnableWrite, EnableRow
    <3> QED BY <2>0, <2>2, <3>1
  <2> QED BY <2>1, <2>2
<1>12. CASE EnableRecheckGlobal
  BY <1>12, Carried DEF EnableRecheckGlobal
<1>13. CASE EnableLift
  BY <1>13, Carried DEF EnableLift
<1>14. CASE EnableRetired
  <2>0. op.pc = "retired" /\ UNCHANGED <<revoked, lifted, global, row, ctr, enabledFile, hooksFile>>
    BY <1>14 DEF EnableRetired
  <2>1. CASE InEffect(lifted)
    <3>1. op'.pc = "reread" /\ SameBody
      BY <1>14, <2>1, Carried DEF EnableRetired
    <3> QED BY <2>0, <2>1, <3>1
  <2>2. CASE ~InEffect(lifted)
    <3>1. op'.pc = "facts2" /\ SameBody
      BY <1>14, <2>2, Carried DEF EnableRetired
    <3> QED BY <2>0, <2>2, <3>1
  <2> QED BY <2>1, <2>2
<1>30. CASE ReapplyReads
  <2>1. op.pc = "reread" /\ UNCHANGED <<revoked, lifted, global, row, ctr, enabledFile, hooksFile>>
    BY <1>30 DEF ReapplyReads
  <2>2. op'.pc = "reapply" /\ SameBody
    BY <1>30 DEF ReapplyReads, OpRecords
  <2> QED BY <2>1, <2>2
<1>15. CASE EnableReapply
  BY <1>15, Carried DEF EnableReapply, Suspended, RevokedRow, Row
<1>16. CASE FactsRow
  BY <1>16, Carried DEF FactsRow, OpRecords
<1>17. CASE FactsDecide
  BY <1>17, Carried DEF FactsDecide
<1>18. CASE SpawnBegin
  BY <1>18, Carried DEF SpawnBegin, Start, IdleOp
<1>19. CASE SpawnRow
  BY <1>19, Carried DEF SpawnRow, OpRecords
<1>20. ASSUME NEW capable \in BOOLEAN, SpawnDecide(capable) PROVE Kept'
  BY <1>20, Carried DEF SpawnDecide
<1>21. CASE SpawnHash
  BY <1>21, Carried DEF SpawnHash, OpRecords, Row, IdsOld
<1>22. CASE SpawnClear
  BY <1>22, Carried DEF SpawnClear, RevokedRow, Row
<1>23. CASE CreateContainer
  BY <1>23, Carried DEF CreateContainer, Containers
<1>24. CASE Lifecycle
  BY <1>24, Carried DEF Lifecycle, OpRecords, Containers, IdleOp
<1>25. CASE OpFails
  BY <1>25 DEF OpFails
<1>26. CASE ReconcileCheck
  <2>1. op'.pc \in {"idle", "marked", "facts2"}
    BY <1>26, Carried DEF ReconcileCheck
  <2>2. op.pc = "reconcile" /\ UNCHANGED <<revoked, lifted, global, row, ctr, enabledFile, hooksFile>>
    BY <1>26 DEF ReconcileCheck
  <2> QED BY <1>26, <2>1, <2>2
<1>27. CASE ReconcileRevokes
  BY <1>27, Carried DEF ReconcileRevokes, RevokedRow, Row
<1>28. CASE Listen
  BY <1>28, Carried DEF Listen, OpRecords
<1>29. CASE Crash
  BY <1>29 DEF Crash
<1> QED
  BY <1>1, <1>2, <1>3, <1>4, <1>5, <1>6, <1>7, <1>8, <1>9, <1>10, <1>11, <1>12, <1>13, <1>14, <1>15,
       <1>16, <1>17, <1>18, <1>19, <1>20, <1>21, <1>22, <1>23, <1>24, <1>25, <1>26, <1>27, <1>28,
       <1>29, <1>30
  DEF OpStep

\* The hooks file is written and kept under its authorization,
LEMMA HeldHOp ==
  ASSUME Typed, OpShape, Kept, SeenOld, HeldH, ~EnableBegin, ~dirty', UNCHANGED <<revoked, global>>,
         PendH' <=> PendH, Redone' <=> Redone, Redone => ~global, OpStep
  PROVE  HeldH'
<1> USE DEF SameBody, Kept, Held, HeldH, Auth, Excused, SeenOld, Match, OpShape, Early, OfSpawn, Writing, Undoing, Typed, marks, files, used
<1>1. CASE WriteRelayEnabled
  BY <1>1, Carried DEF WriteRelayEnabled, OpRecords
<1>2. CASE StillRow
  BY <1>2, Carried DEF StillRow, OpRecords, Revoked, InEffect
<1>3. CASE StillRevocation
  <2>0. op.pc = "rev" /\ UNCHANGED <<revoked, lifted, global, row, ctr, enabledFile, hooksFile>>
    BY <1>3 DEF StillRevocation
  <2>1. CASE ~op.allowed \/ Revoked
    <3>1. op'.pc = "withdraw" /\ SameBody
      BY <1>3, <2>1, Carried DEF StillRevocation, Lost
    <3> QED BY <2>0, <3>1
  <2>2. CASE op.allowed /\ ~Revoked
    <3>1. CASE op.stage = 2 /\ op.kind # "spawn"
      <4>1. op'.pc = "idle" /\ op'.kind = "none"
        BY <1>3, <2>2, <3>1, Carried DEF StillRevocation, AfterRecheck
      <4> QED BY <2>0, <2>2, <3>1, <4>1 DEF Revoked, InEffect
    <3>2. CASE ~(op.stage = 2 /\ op.kind # "spawn")
      <4>1. /\ op'.pc \in {"marker", "hooks", "probe", "create"} /\ SameBody
            /\ op'.pc = "create" <=> (op.kind = "spawn" /\ op.stage = 2)
            /\ op'.pc = "probe" => op.kind # "spawn"
        <5>1. /\ AfterRecheck \in {"marker", "hooks", "probe", "create"}
              /\ AfterRecheck = "create" <=> (op.kind = "spawn" /\ op.stage = 2)
              /\ AfterRecheck = "probe" => op.kind # "spawn"
          BY <3>2 DEF AfterRecheck, OpRecords
        <5>2. Goto(AfterRecheck)
          BY <1>3, <2>2, <5>1 DEF StillRevocation
        <5> QED BY <5>1, <5>2, Carried
      <4> QED BY <2>0, <2>2, <3>2, <4>1 DEF Revoked, InEffect
    <3> QED BY <3>1, <3>2
  <2> QED BY <2>1, <2>2
<1>4. CASE Identify
  <2>0. op.pc = "probe" /\ UNCHANGED <<revoked, lifted, global, row, ctr, hooksFile>>
    BY <1>4 DEF Identify
  <2>1. CASE Goto("hooks") /\ UNCHANGED enabledFile
    <3>1. op'.pc = "hooks" /\ SameBody
      BY <2>1, Carried
    <3> QED BY <2>0, <2>1, <3>1 DEF Revoked, InEffect
  <2>2. CASE Done /\ enabledFile' = FALSE
    <3>1. op'.pc = "idle" /\ op'.kind = "none"
      BY <2>2, Carried
    <3> QED BY <2>0, <2>2, <3>1 DEF Revoked, InEffect
  <2> QED BY <1>4, <2>1, <2>2 DEF Identify
<1>5. CASE WriteHooksFile
  BY <1>5, Carried DEF WriteHooksFile, OpRecords
<1>6. CASE WithdrawHooks
  BY <1>6, Carried DEF WithdrawHooks
<1>7. CASE WithdrawMarker
  BY <1>7, Carried DEF WithdrawMarker
<1>8. CASE EnableBegin
  BY <1>8, Carried DEF EnableBegin
<1>9. CASE EnableGlobal
  <2>0. op.pc = "global" /\ UNCHANGED <<revoked, lifted, global, row, ctr, enabledFile, hooksFile>>
    BY <1>9 DEF EnableGlobal
  <2>1. CASE global
    <3>1. op'.pc = "idle" /\ op'.kind = "none"
      BY <1>9, <2>1, Carried DEF EnableGlobal
    <3> QED BY <2>0, <2>1, <3>1 DEF Revoked, InEffect
  <2>2. CASE ~global
    <3>1. op'.pc = "facts" /\ SameBody
      BY <1>9, <2>2, Carried DEF EnableGlobal
    <3> QED BY <2>0, <2>2, <3>1 DEF Revoked, InEffect
  <2> QED BY <2>1, <2>2
<1>10. CASE EnableFacts
  BY <1>10, Carried DEF EnableFacts, OpRecords, Revoked, InEffect
<1>11. CASE EnableWrite
  <2>0. op.pc = "write" /\ UNCHANGED <<revoked, lifted, global, ctr, enabledFile, hooksFile>>
    BY <1>11 DEF EnableWrite
  <2>1. CASE row.seq = op.seq
    <3>1. op'.pc = "recheck" /\ SameBody
      BY <1>11, <2>1, Carried DEF EnableWrite
    <3>2. row'.requested /\ (row.hash # 0 => row'.hash = row.hash)
      BY <1>11, <2>1 DEF EnableWrite, EnableRow, RestoreOrRequest, Row
    <3> QED BY <2>0, <2>1, <3>1, <3>2 DEF Revoked, InEffect
  <2>2. CASE row.seq # op.seq
    <3>1. op'.pc = "idle" /\ op'.kind = "none" /\ row' = row
      BY <1>11, <2>2, Carried DEF EnableWrite, EnableRow
    <3> QED BY <2>0, <2>2, <3>1 DEF Revoked, InEffect
  <2> QED BY <2>1, <2>2
<1>12. CASE EnableRecheckGlobal
  BY <1>12, Carried DEF EnableRecheckGlobal, Revoked, InEffect
<1>13. CASE EnableLift
  BY <1>13, Carried DEF EnableLift, Revoked, InEffect
<1>14. CASE EnableRetired
  <2>0. op.pc = "retired" /\ UNCHANGED <<revoked, lifted, global, row, ctr, enabledFile, hooksFile>>
    BY <1>14 DEF EnableRetired
  <2>1. CASE InEffect(lifted)
    <3>1. op'.pc = "reread" /\ SameBody
      BY <1>14, <2>1, Carried DEF EnableRetired
    <3> QED BY <2>0, <2>1, <3>1 DEF Revoked, InEffect
  <2>2. CASE ~InEffect(lifted)
    <3>1. op'.pc = "facts2" /\ SameBody
      BY <1>14, <2>2, Carried DEF EnableRetired
    <3> QED BY <2>0, <2>2, <3>1
  <2> QED BY <2>1, <2>2
<1>30. CASE ReapplyReads
  <2>1. op.pc = "reread" /\ UNCHANGED <<revoked, lifted, global, row, ctr, enabledFile, hooksFile>>
    BY <1>30 DEF ReapplyReads
  <2>2. op'.pc = "reapply" /\ SameBody
    BY <1>30 DEF ReapplyReads, OpRecords
  <2> QED BY <2>1, <2>2
<1>15. CASE EnableReapply
  BY <1>15, Carried DEF EnableReapply, Suspended, RevokedRow, Row
<1>16. CASE FactsRow
  BY <1>16, Carried DEF FactsRow, OpRecords, Revoked, InEffect
<1>17. CASE FactsDecide
  <2>0. op.pc = "facts3" /\ UNCHANGED <<revoked, lifted, global, row, ctr, enabledFile, hooksFile>>
    BY <1>17 DEF FactsDecide
  <2>1. CASE Done
    <3>1. op'.pc = "idle" /\ op'.kind = "none"
      BY <2>1, Carried
    <3>2. CASE op.allowed /\ ~Revoked
      BY <2>0, <3>1, <3>2 DEF Revoked, InEffect
    <3>3. CASE ~enabledFile /\ ~hooksFile
      BY <2>0, <3>1, <3>3
    <3>4. CASE ~(op.allowed /\ ~Revoked) /\ (enabledFile \/ hooksFile)
      <4>1. Withdraw("idle")
        BY <1>17, <3>4 DEF FactsDecide
      <4> QED BY <3>1, <4>1, Carried
    <3> QED BY <3>2, <3>3, <3>4
  <2>2. CASE op'.pc = "marker"
    <3>1. op.allowed /\ SameBody
      BY <1>17, <2>2, Carried DEF FactsDecide
    <3> QED BY <2>0, <2>2, <3>1
  <2>3. CASE Withdraw("idle")
    <3>1. op'.pc = "withdraw" /\ SameBody
      BY <2>3, Carried
    <3> QED BY <2>0, <3>1
  <2>4. Goto("marker") => op'.pc = "marker"
    BY Carried
  <2>5. Done \/ Goto("marker") \/ Withdraw("idle")
    BY <1>17 DEF FactsDecide
  <2> QED BY <2>1, <2>2, <2>3, <2>4, <2>5
<1>18. CASE SpawnBegin
  BY <1>18, Carried DEF SpawnBegin, Start, IdleOp
<1>19. CASE SpawnRow
  BY <1>19, Carried DEF SpawnRow, OpRecords
<1>20. ASSUME NEW capable \in BOOLEAN, SpawnDecide(capable) PROVE HeldH'
  BY <1>20, Carried DEF SpawnDecide
<1>21. CASE SpawnHash
  BY <1>21, Carried DEF SpawnHash, OpRecords, Row, IdsOld
<1>22. CASE SpawnClear
  BY <1>22, Carried DEF SpawnClear, RevokedRow, Row
<1>23. CASE CreateContainer
  BY <1>23, Carried DEF CreateContainer, Containers, Revoked, InEffect
<1>24. CASE Lifecycle
  BY <1>24, Carried DEF Lifecycle, OpRecords, Containers, IdleOp, Revoked, InEffect
<1>25. CASE OpFails
  BY <1>25 DEF OpFails
<1>26. CASE ReconcileCheck
  BY <1>26, Carried DEF ReconcileCheck
<1>27. CASE ReconcileRevokes
  BY <1>27, Carried DEF ReconcileRevokes, RevokedRow, Row
<1>28. CASE Listen
  <2>1. UNCHANGED <<revoked, lifted, global, row, ctr, op, enabledFile, hooksFile>>
    BY <1>28 DEF Listen
  <2> QED BY <2>1 DEF Revoked, InEffect
<1>29. CASE Crash
  BY <1>29, SMTT(30) DEF Crash
<1> QED
  BY <1>1, <1>2, <1>3, <1>4, <1>5, <1>6, <1>7, <1>8, <1>9, <1>10, <1>11, <1>12, <1>13, <1>14, <1>15,
       <1>16, <1>17, <1>18, <1>19, <1>20, <1>21, <1>22, <1>23, <1>24, <1>25, <1>26, <1>27, <1>28,
       <1>29, <1>30
  DEF OpStep

\* and so is the relay's marker.
LEMMA HeldEOp ==
  ASSUME Typed, OpShape, Kept, SeenOld, HeldE, ~EnableBegin, ~dirty', UNCHANGED <<revoked, global>>,
         PendE' <=> PendE, Redone' <=> Redone, Redone => ~global, OpStep
  PROVE  HeldE'
<1> USE DEF SameBody, Kept, Held, HeldE, Auth, Excused, SeenOld, Match, OpShape, Early, OfSpawn, Writing, Undoing, Typed, marks, files, used
<1>1. CASE WriteRelayEnabled
  BY <1>1, Carried DEF WriteRelayEnabled, OpRecords
<1>2. CASE StillRow
  BY <1>2, Carried DEF StillRow, OpRecords, Revoked, InEffect
<1>3. CASE StillRevocation
  <2>0. op.pc = "rev" /\ UNCHANGED <<revoked, lifted, global, row, ctr, enabledFile, hooksFile>>
    BY <1>3 DEF StillRevocation
  <2>1. CASE ~op.allowed \/ Revoked
    <3>1. op'.pc = "withdraw" /\ SameBody
      BY <1>3, <2>1, Carried DEF StillRevocation, Lost
    <3> QED BY <2>0, <3>1
  <2>2. CASE op.allowed /\ ~Revoked
    <3>1. CASE op.stage = 2 /\ op.kind # "spawn"
      <4>1. op'.pc = "idle" /\ op'.kind = "none"
        BY <1>3, <2>2, <3>1, Carried DEF StillRevocation, AfterRecheck
      <4> QED BY <2>0, <2>2, <3>1, <4>1 DEF Revoked, InEffect
    <3>2. CASE ~(op.stage = 2 /\ op.kind # "spawn")
      <4>1. /\ op'.pc \in {"marker", "hooks", "probe", "create"} /\ SameBody
            /\ op'.pc = "create" <=> (op.kind = "spawn" /\ op.stage = 2)
            /\ op'.pc = "probe" => op.kind # "spawn"
        <5>1. /\ AfterRecheck \in {"marker", "hooks", "probe", "create"}
              /\ AfterRecheck = "create" <=> (op.kind = "spawn" /\ op.stage = 2)
              /\ AfterRecheck = "probe" => op.kind # "spawn"
          BY <3>2 DEF AfterRecheck, OpRecords
        <5>2. Goto(AfterRecheck)
          BY <1>3, <2>2, <5>1 DEF StillRevocation
        <5> QED BY <5>1, <5>2, Carried
      <4> QED BY <2>0, <2>2, <3>2, <4>1 DEF Revoked, InEffect
    <3> QED BY <3>1, <3>2
  <2> QED BY <2>1, <2>2
<1>4. CASE Identify
  BY <1>4, Carried DEF Identify, Revoked, InEffect
<1>5. CASE WriteHooksFile
  BY <1>5, Carried DEF WriteHooksFile, OpRecords
<1>6. CASE WithdrawHooks
  BY <1>6, Carried DEF WithdrawHooks
<1>7. CASE WithdrawMarker
  BY <1>7, Carried DEF WithdrawMarker
<1>8. CASE EnableBegin
  BY <1>8, Carried DEF EnableBegin
<1>9. CASE EnableGlobal
  <2>0. op.pc = "global" /\ UNCHANGED <<revoked, lifted, global, row, ctr, enabledFile, hooksFile>>
    BY <1>9 DEF EnableGlobal
  <2>1. CASE global
    <3>1. op'.pc = "idle" /\ op'.kind = "none"
      BY <1>9, <2>1, Carried DEF EnableGlobal
    <3> QED BY <2>0, <2>1, <3>1 DEF Revoked, InEffect
  <2>2. CASE ~global
    <3>1. op'.pc = "facts" /\ SameBody
      BY <1>9, <2>2, Carried DEF EnableGlobal
    <3> QED BY <2>0, <2>2, <3>1 DEF Revoked, InEffect
  <2> QED BY <2>1, <2>2
<1>10. CASE EnableFacts
  BY <1>10, Carried DEF EnableFacts, OpRecords, Revoked, InEffect
<1>11. CASE EnableWrite
  <2>0. op.pc = "write" /\ UNCHANGED <<revoked, lifted, global, ctr, enabledFile, hooksFile>>
    BY <1>11 DEF EnableWrite
  <2>1. CASE row.seq = op.seq
    <3>1. op'.pc = "recheck" /\ SameBody
      BY <1>11, <2>1, Carried DEF EnableWrite
    <3>2. row'.requested /\ (row.hash # 0 => row'.hash = row.hash)
      BY <1>11, <2>1 DEF EnableWrite, EnableRow, RestoreOrRequest, Row
    <3> QED BY <2>0, <2>1, <3>1, <3>2 DEF Revoked, InEffect
  <2>2. CASE row.seq # op.seq
    <3>1. op'.pc = "idle" /\ op'.kind = "none" /\ row' = row
      BY <1>11, <2>2, Carried DEF EnableWrite, EnableRow
    <3> QED BY <2>0, <2>2, <3>1 DEF Revoked, InEffect
  <2> QED BY <2>1, <2>2
<1>12. CASE EnableRecheckGlobal
  BY <1>12, Carried DEF EnableRecheckGlobal, Revoked, InEffect
<1>13. CASE EnableLift
  BY <1>13, Carried DEF EnableLift, Revoked, InEffect
<1>14. CASE EnableRetired
  <2>0. op.pc = "retired" /\ UNCHANGED <<revoked, lifted, global, row, ctr, enabledFile, hooksFile>>
    BY <1>14 DEF EnableRetired
  <2>1. CASE InEffect(lifted)
    <3>1. op'.pc = "reread" /\ SameBody
      BY <1>14, <2>1, Carried DEF EnableRetired
    <3> QED BY <2>0, <2>1, <3>1 DEF Revoked, InEffect
  <2>2. CASE ~InEffect(lifted)
    <3>1. op'.pc = "facts2" /\ SameBody
      BY <1>14, <2>2, Carried DEF EnableRetired
    <3> QED BY <2>0, <2>2, <3>1
  <2> QED BY <2>1, <2>2
<1>30. CASE ReapplyReads
  <2>1. op.pc = "reread" /\ UNCHANGED <<revoked, lifted, global, row, ctr, enabledFile, hooksFile>>
    BY <1>30 DEF ReapplyReads
  <2>2. op'.pc = "reapply" /\ SameBody
    BY <1>30 DEF ReapplyReads, OpRecords
  <2> QED BY <2>1, <2>2
<1>15. CASE EnableReapply
  BY <1>15, Carried DEF EnableReapply, Suspended, RevokedRow, Row
<1>16. CASE FactsRow
  BY <1>16, Carried DEF FactsRow, OpRecords, Revoked, InEffect
<1>17. CASE FactsDecide
  <2>0. op.pc = "facts3" /\ UNCHANGED <<revoked, lifted, global, row, ctr, enabledFile, hooksFile>>
    BY <1>17 DEF FactsDecide
  <2>1. CASE Done
    <3>1. op'.pc = "idle" /\ op'.kind = "none"
      BY <2>1, Carried
    <3>2. CASE op.allowed /\ ~Revoked
      BY <2>0, <3>1, <3>2 DEF Revoked, InEffect
    <3>3. CASE ~enabledFile /\ ~hooksFile
      BY <2>0, <3>1, <3>3
    <3>4. CASE ~(op.allowed /\ ~Revoked) /\ (enabledFile \/ hooksFile)
      <4>1. Withdraw("idle")
        BY <1>17, <3>4 DEF FactsDecide
      <4> QED BY <3>1, <4>1, Carried
    <3> QED BY <3>2, <3>3, <3>4
  <2>2. CASE op'.pc = "marker"
    <3>1. op.allowed /\ SameBody
      BY <1>17, <2>2, Carried DEF FactsDecide
    <3> QED BY <2>0, <2>2, <3>1
  <2>3. CASE Withdraw("idle")
    <3>1. op'.pc = "withdraw" /\ SameBody
      BY <2>3, Carried
    <3> QED BY <2>0, <3>1
  <2>4. Goto("marker") => op'.pc = "marker"
    BY Carried
  <2>5. Done \/ Goto("marker") \/ Withdraw("idle")
    BY <1>17 DEF FactsDecide
  <2> QED BY <2>1, <2>2, <2>3, <2>4, <2>5
<1>18. CASE SpawnBegin
  BY <1>18, Carried DEF SpawnBegin, Start, IdleOp
<1>19. CASE SpawnRow
  BY <1>19, Carried DEF SpawnRow, OpRecords
<1>20. ASSUME NEW capable \in BOOLEAN, SpawnDecide(capable) PROVE HeldE'
  BY <1>20, Carried DEF SpawnDecide
<1>21. CASE SpawnHash
  BY <1>21, Carried DEF SpawnHash, OpRecords, Row, IdsOld
<1>22. CASE SpawnClear
  BY <1>22, Carried DEF SpawnClear, RevokedRow, Row
<1>23. CASE CreateContainer
  BY <1>23, Carried DEF CreateContainer, Containers, Revoked, InEffect
<1>24. CASE Lifecycle
  BY <1>24, Carried DEF Lifecycle, OpRecords, Containers, IdleOp, Revoked, InEffect
<1>25. CASE OpFails
  BY <1>25 DEF OpFails
<1>26. CASE ReconcileCheck
  BY <1>26, Carried DEF ReconcileCheck
<1>27. CASE ReconcileRevokes
  BY <1>27, Carried DEF ReconcileRevokes, RevokedRow, Row
<1>28. CASE Listen
  <2>1. UNCHANGED <<revoked, lifted, global, row, ctr, op, enabledFile, hooksFile>>
    BY <1>28 DEF Listen
  <2> QED BY <2>1 DEF Revoked, InEffect
<1>29. CASE Crash
  BY <1>29 DEF Crash
<1> QED
  BY <1>1, <1>2, <1>3, <1>4, <1>5, <1>6, <1>7, <1>8, <1>9, <1>10, <1>11, <1>12, <1>13, <1>14, <1>15,
       <1>16, <1>17, <1>18, <1>19, <1>20, <1>21, <1>22, <1>23, <1>24, <1>25, <1>26, <1>27, <1>28,
       <1>29, <1>30
  DEF OpStep

\* Removing files, or putting a marker back, keeps the rest;
LEMMA FilesMono ==
  ASSUME Kept, HeldH, HeldE, UNCHANGED <<op, ctr, row, revoked, lifted, global>>,
         hooksFile' => hooksFile, enabledFile' => enabledFile,
         hooksFile' /\ PendH => PendH', enabledFile' /\ PendE => PendE', Redone => Redone'
  PROVE  Kept' /\ HeldH' /\ HeldE'
<1>1. Kept'
  BY DEF Kept, Match
<1>2. HeldH'
  BY DEF HeldH, Held, Auth, Match, Excused, Revoked, InEffect
<1>3. HeldE'
  BY DEF HeldE, Held, Auth, Match, Excused, Revoked, InEffect
<1> QED BY <1>1, <1>2, <1>3

\* a disable that has yet to remove the files covers them;
LEMMA FilesPend ==
  ASSUME Kept, HeldH, HeldE, UNCHANGED <<op, ctr, enabledFile, hooksFile>>,
         PendH', PendE', row' = row \/ ~row'.requested
  PROVE  Kept' /\ HeldH' /\ HeldE'
<1>1. Kept'
  BY DEF Kept, Match
<1>2. HeldH'
  BY DEF HeldH, Held
<1>3. HeldE'
  BY DEF HeldE, Held
<1> QED BY <1>1, <1>2, <1>3

\* so every step of a disable keeps the invariant.
LEMMA FilesDis ==
  ASSUME DisTyped, DisShape, Kept, HeldH, HeldE, DisableStep, ~dirty'
  PROVE  Kept' /\ HeldH' /\ HeldE'
<1>0. UNCHANGED <<op, ctr, lifted>>
  BY DisableFrame
<1>1. CASE EnableAll
  <2>1. (PendH' <=> PendH) /\ (PendE' <=> PendE)
    BY <1>1 DEF EnableAll, PendH, PendE
  <2>2. global /\ UNCHANGED <<row, enabledFile, hooksFile>>
    BY <1>1 DEF EnableAll, files
  <2>3. Kept'
    BY <1>0, <2>2 DEF Kept, Match
  <2>4. HeldH'
    BY <1>0, <2>1, <2>2 DEF HeldH, Held, Auth, Redone, Excused, Revoked
  <2>5. HeldE'
    BY <1>0, <2>1, <2>2 DEF HeldE, Held, Auth, Redone, Excused, Revoked
  <2> QED BY <2>3, <2>4, <2>5
<1>2. ASSUME NEW d \in Disables, NEW kind \in KindsOf[d], DisableMark(d, kind)
      PROVE  Kept' /\ HeldH' /\ HeldE'
  <2>1. PendH' /\ PendE'
    BY <1>2 DEF DisableMark, PendH, PendE, DisTyped
  <2>2. UNCHANGED <<row, enabledFile, hooksFile>>
    BY <1>2 DEF DisableMark, files
  <2> QED BY <1>0, <2>1, <2>2, FilesPend
<1>3. ASSUME NEW d \in Disables, DisableRow(d) PROVE Kept' /\ HeldH' /\ HeldE'
  <2>1. PendH' /\ PendE'
    BY <1>3 DEF DisableRow, PendH, PendE, DisTyped, DisRecords
  <2>2. ~row'.requested /\ UNCHANGED <<enabledFile, hooksFile>>
    BY <1>3 DEF DisableRow, files, Suspended, RevokedRow
  <2> QED BY <1>0, <2>1, <2>2, FilesPend
<1>4. ASSUME NEW d \in Disables, DisableHooks(d) PROVE Kept' /\ HeldH' /\ HeldE'
  <2>1. PendE'
    BY <1>4 DEF DisableHooks, PendE, DisTyped, DisRecords
  <2>2. hooksFile' = FALSE /\ UNCHANGED <<row, enabledFile, revoked, global>> /\ (Redone => Redone')
    BY <1>4 DEF DisableHooks, marks, Redone
  <2> QED BY <1>0, <2>1, <2>2, FilesMono
<1>5. ASSUME NEW d \in Disables, DisableRelay(d) PROVE Kept' /\ HeldH' /\ HeldE'
  <2>1. PendH => PendH'
    BY <1>5 DEF DisableRelay, PendH, DisTyped, DisRecords
  <2>2. enabledFile' = FALSE /\ UNCHANGED <<row, hooksFile, revoked, global>> /\ (Redone => Redone')
    BY <1>5 DEF DisableRelay, marks, Redone
  <2> QED BY <1>0, <2>1, <2>2, FilesMono
<1>6. ASSUME NEW d \in Disables, DisableCheckLifted(d) \/ DisableCheckRevoked(d)
      PROVE  Kept' /\ HeldH' /\ HeldE'
  <2>1. (PendH => PendH') /\ (PendE => PendE')
    BY <1>6 DEF DisableCheckLifted, DisableCheckRevoked, PendH, PendE, DisTyped, DisRecords
  <2>2. UNCHANGED <<row, enabledFile, hooksFile, revoked, global>> /\ (Redone => Redone')
    BY <1>6 DEF DisableCheckLifted, DisableCheckRevoked, marks, files, Redone
  <2> QED BY <1>0, <2>1, <2>2, FilesMono
<1>7. ASSUME NEW d \in Disables, DisableAgain(d) PROVE Kept' /\ HeldH' /\ HeldE'
  <2>1. (PendH => PendH') /\ (PendE => PendE')
    BY <1>7 DEF DisableAgain, PendH, PendE, DisTyped, DisRecords
  <2>2. UNCHANGED <<row, enabledFile, hooksFile, global>>
    BY <1>7 DEF DisableAgain, files
  <2>3. global \/ Redone'
    BY <1>7 DEF DisableAgain, Redone, DisTyped, DisShape
  <2>4. Kept'
    BY <1>0, <2>2 DEF Kept, Match
  <2>5. HeldH'
    BY <1>0, <2>1, <2>2, <2>3 DEF HeldH, Held, Auth, Redone, Excused, Revoked
  <2>6. HeldE'
    BY <1>0, <2>1, <2>2, <2>3 DEF HeldE, Held, Auth, Redone, Excused, Revoked
  <2> QED BY <2>4, <2>5, <2>6
<1>8. ASSUME NEW d \in Disables, DisableFails(d) PROVE FALSE
  BY <1>8 DEF DisableFails
<1> QED BY <1>1, <1>2, <1>3, <1>4, <1>5, <1>6, <1>7, <1>8 DEF DisableStep

\* An enable that begins may excuse only what it is about to lift.
LEMMA FilesBegin ==
  ASSUME Typed, DisTyped, DisShape, Marked, Kept, HeldH, HeldE, EnableBegin
  PROVE  Kept' /\ HeldH' /\ HeldE'
<1>1. op.pc = "idle" /\ op'.pc = "global" /\ op'.seen = IF InEffect(lifted) THEN revoked.id ELSE 0
  BY DEF EnableBegin, Start, IdleOp
<1>2. UNCHANGED <<revoked, lifted, global, row, ctr, enabledFile, hooksFile>> /\ (PendH' <=> PendH) /\ (PendE' <=> PendE)
  BY DEF EnableBegin, marks, files, PendH, PendE
<1>3. Redone => ~global /\ InEffect(lifted)
  BY DEF Redone, Marked, DisShape, DisTyped
<1>4. Kept'
  BY <1>1 DEF Kept, Writing
<1>5. HeldH'
  BY <1>1, <1>2, <1>3 DEF HeldH, Held, Auth, Match, Excused, Revoked, InEffect, Early, Undoing
<1>6. HeldE'
  BY <1>1, <1>2, <1>3 DEF HeldE, Held, Auth, Match, Excused, Revoked, InEffect, Early, Undoing
<1> QED BY <1>4, <1>5, <1>6

\* Every step keeps the files under their authorization.
LEMMA FilesStep ==
  ASSUME Typed, DisTyped, dirty \in BOOLEAN, OpShape, DisShape, IdsOld, Marked, SeenOld, Files, Next
  PROVE  Files'
<1> SUFFICES ASSUME ~dirty' PROVE Kept' /\ HeldH' /\ HeldE'
  BY DEF Files
<1>1. CASE OpStep
  <2>1. CASE dirty
    <3>1. ~EnableBegin
      BY <2>1 DEF EnableBegin
    <3>2. ReconcileCheck
      BY <1>1, <2>1, <3>1 DEF OpStep, OpFails, Crash, WriteRelayEnabled, StillRow, StillRevocation,
           Identify, WriteHooksFile, WithdrawHooks, WithdrawMarker, EnableGlobal, EnableFacts,
           EnableWrite, EnableRecheckGlobal, EnableLift, EnableRetired, ReapplyReads, EnableReapply, FactsRow,
           FactsDecide, SpawnBegin, SpawnRow, SpawnDecide, SpawnHash, SpawnClear, CreateContainer,
           Lifecycle, ReconcileRevokes, Listen
    <3>3. op'.pc \in {"marked", "facts2"}
      <4>1. ~(~ctr.running /\ ~enabledFile /\ ~hooksFile)
        BY <2>1, <3>2 DEF ReconcileCheck
      <4>2. Goto("marked") \/ Goto("facts2")
        BY <3>2, <4>1 DEF ReconcileCheck
      <4> QED BY <4>2, Carried DEF Typed
    <3> QED BY <3>3 DEF Kept, HeldH, HeldE, Held, Writing, Early, Undoing
  <2>2. CASE EnableBegin
    BY <2>1, <2>2, FilesBegin DEF Files
  <2>3. CASE ~dirty /\ ~EnableBegin
    <3>1. UNCHANGED <<dis, stands, revoked, global>>
      BY <1>1, <2>3, OpFrame DEF Crash
    <3>2. (PendH' <=> PendH) /\ (PendE' <=> PendE) /\ (Redone' <=> Redone) /\ (Redone => ~global)
      BY <3>1 DEF PendH, PendE, Redone
    <3>3. 0 < ids
      BY DEF Typed, IdsOld
    <3>4. Kept'
      BY <1>1, <2>3, <3>3, KeptOp DEF Files
    <3>5. HeldH'
      BY <1>1, <2>3, <3>1, <3>2, HeldHOp DEF Files
    <3>6. HeldE'
      BY <1>1, <2>3, <3>1, <3>2, HeldEOp DEF Files
    <3> QED BY <3>4, <3>5, <3>6
  <2> QED BY <2>1, <2>2, <2>3
<1>2. CASE DisableStep
  <2>1. ~dirty
    BY <1>2, DisableFrame
  <2> QED BY <1>2, <2>1, FilesDis DEF Files
<1>3. CASE HookStep
  <2>1. UNCHANGED <<revoked, lifted, global, row, ctr, op, dis, dirty, stands>>
    BY <1>3, HookFrame
  <2>2. (hooksFile' => hooksFile) /\ (enabledFile' => enabledFile)
    BY <1>3 DEF HookStep, files, HookArrives, HookStats, HookReadsLifted, HookAdmitted, HookRefused, HookDropsMarker
  <2>3. (PendH => PendH') /\ (PendE => PendE') /\ (Redone => Redone')
    BY <2>1 DEF PendH, PendE, Redone
  <2> QED BY <2>1, <2>2, <2>3, FilesMono DEF Files
<1> QED BY <1>1, <1>2, <1>3 DEF Next

-----------------------------------------------------------------------------
\* A session without a container and one that captures satisfy the invariant.
LEMMA CaptureInvInit == Init => CaptureInv
<1> SUFFICES ASSUME Init PROVE CaptureInv
  OBVIOUS
<1>0. PICK captures \in BOOLEAN :
        LET token == IF captures THEN 1 ELSE 0 IN
        /\ row = [requested |-> captures, hash |-> token, suspended |-> 0, seq |-> 0]
        /\ enabledFile = captures /\ hooksFile = captures
        /\ ctr = [exists |-> captures, running |-> captures, token |-> token]
        /\ ids = token + 1
  BY DEF Init
<1>1. /\ revoked = NoMarker /\ lifted = 0 /\ global = FALSE /\ backend = "up" /\ op = IdleOp
      /\ dis = [d \in Disables |-> IdleDis] /\ hook = IdleHook /\ dirty = FALSE /\ cut = {}
      /\ stands = [d \in Disables |-> "none"] /\ ops = 0 /\ hooks = 0 /\ faults = 0
  BY DEF Init
<1>2. TypeOK
  <2>1. row \in Row /\ ctr \in Containers /\ ids \in Nat /\ enabledFile \in BOOLEAN /\ hooksFile \in BOOLEAN
    BY <1>0 DEF Row, Containers
  <2>2. revoked \in Markers
    BY <1>1 DEF Markers, NoMarker
  <2>3. 0 \in 0..MaxOps /\ 0 \in 0..MaxHooks /\ 0 \in 0..MaxFaults
    BY CaptureAssumption
  <2> QED BY <1>1, <2>1, <2>2, <2>3, IdleTyped DEF TypeOK
<1>3. op.pc = "idle" /\ op.kind = "none" /\ op.seen = 0 /\ op.token = 0 /\ hook.pc = "idle" /\ hook.lift = 0
  BY <1>1 DEF IdleOp, IdleHook
<1>4. \A d \in Disables : dis[d].pc = "idle" /\ dis[d].kind = "none" /\ dis[d].lift = 0 /\ stands[d] = "none"
  BY <1>1 DEF IdleDis
<1>5. OpShape /\ SeenOld
  BY <1>3 DEF OpShape, SeenOld, Early, OfSpawn, Writing, Undoing
<1>6. DisShape /\ Marked /\ HookCut /\ D1Wins
  BY <1>1, <1>4 DEF DisShape, DisPcs, Marked, HookCut, D1Wins
<1>7. IdsOld
  BY <1>0, <1>1, <1>3, <1>4 DEF IdsOld, NoMarker
<1>8. Auth \/ (~ctr.exists /\ ~hooksFile /\ ~enabledFile)
  <2>1. ~Revoked
    BY <1>1 DEF Revoked, InEffect, NoMarker
  <2>2. CASE captures
    <3>1. row.requested /\ row.hash = 1 /\ ctr.exists /\ ctr.token = 1
      BY <1>0, <2>2
    <3> QED BY <2>1, <3>1 DEF Auth, Match
  <2>3. CASE ~captures
    BY <1>0, <2>3
  <2> QED BY <2>2, <2>3
<1>9. Files
  BY <1>3, <1>8 DEF Files, Kept, HeldH, HeldE, Held, Writing, Early, Undoing
<1> QED BY <1>2, <1>5, <1>6, <1>7, <1>9 DEF CaptureInv

\* Every step keeps the invariant, and so does a stutter.
LEMMA CaptureInvNext == CaptureInv /\ [Next]_cvars => CaptureInv'
<1> SUFFICES ASSUME CaptureInv, [Next]_cvars PROVE CaptureInv'
  OBVIOUS
<1>1. Typed /\ DisTyped /\ dirty \in BOOLEAN /\ cut \in SUBSET Sources
  BY DEF CaptureInv, TypeOK, Typed, DisTyped
<1>2. CASE Next
  <2>1. TypeOK'
    BY <1>2, TypeStep DEF CaptureInv
  <2>2. OpShape'
    <3>1. CASE OpStep
      BY <1>1, <3>1, OpShapeStep DEF CaptureInv, Typed
    <3>2. CASE DisableStep
      BY <3>2, DisableFrame DEF CaptureInv, OpShape
    <3>3. CASE HookStep
      BY <3>3, HookFrame DEF CaptureInv, OpShape
    <3> QED BY <1>2, <3>1, <3>2, <3>3 DEF Next
  <2>3. DisShape'
    <3>1. CASE HookStep
      BY <3>1, HookFrame DEF CaptureInv, DisShape
    <3> QED BY <1>1, <1>2, <3>1, DisOp, DisDis DEF CaptureInv, Next
  <2>4. IdsOld'
    BY <1>1, <1>2, IdsOp, IdsDis, IdsHook DEF CaptureInv, Next
  <2>5. Marked'
    BY <1>1, <1>2, MarkedOp, MarkedDis, MarkedHook DEF CaptureInv, Next
  <2>6. SeenOld'
    <3>1. CASE HookStep
      BY <3>1, HookFrame DEF CaptureInv, SeenOld, InEffect
    <3> QED BY <1>1, <1>2, <3>1, SeenOldOp, SeenOldDis DEF CaptureInv, Next
  <2>7. HookCut'
    BY <1>1, <1>2, HookCutStep DEF CaptureInv
  <2>8. D1Wins'
    BY <1>1, <1>2, D1Step DEF CaptureInv
  <2>9. Files'
    BY <1>1, <1>2, FilesStep DEF CaptureInv
  <2> QED BY <2>1, <2>2, <2>3, <2>4, <2>5, <2>6, <2>7, <2>8, <2>9 DEF CaptureInv
<1>3. CASE UNCHANGED cvars
  <2>1. UNCHANGED <<revoked, lifted, global, row, enabledFile, hooksFile, ctr, backend, op, dis, hook>>
    BY <1>3 DEF cvars, marks, files
  <2>2. UNCHANGED <<dirty, stands, cut, ops, hooks, faults, ids>>
    BY <1>3 DEF cvars, used
  <2>3. (TypeOK /\ OpShape /\ DisShape /\ IdsOld)'
    BY <2>1, <2>2 DEF CaptureInv, TypeOK, OpShape, DisShape, IdsOld
  <2>4. (Marked /\ SeenOld /\ HookCut)'
    BY <2>1, <2>2 DEF CaptureInv, Marked, SeenOld, HookCut, InForce, InEffect
  <2>5. D1Wins'
    BY <2>1, <2>2 DEF CaptureInv, D1Wins, D1Held, D1Clear, Match
  <2>6. (PendH => PendH') /\ (PendE => PendE') /\ (Redone => Redone')
    BY <2>1, <2>2 DEF PendH, PendE, Redone
  <2>7. Files'
    BY <2>1, <2>2, <2>6, FilesMono DEF CaptureInv, Files
  <2> QED BY <2>3, <2>4, <2>5, <2>7 DEF CaptureInv
<1> QED BY <1>2, <1>3

\* The invariant holds for ever.
LEMMA CaptureInvHolds == Spec => []CaptureInv
BY CaptureInvInit, CaptureInvNext, PTL DEF Spec

\* Every variable keeps its type, for any number of disables, operations,
\* hooks and failures.
THEOREM CaptureTypes == Spec => []TypeOK
<1>1. CaptureInv => TypeOK
  BY DEF CaptureInv
<1> QED BY <1>1, CaptureInvHolds, PTL

\* From its marker on, a revocation stands until an enable that began after it
\* answered lifts it: none already in flight does, whatever fails.
THEOREM RevocationAlwaysStands == Spec => []RevocationStands
<1>1. CaptureInv => RevocationStands
  BY DEF CaptureInv, Marked, RevocationStands, Revoked
<1> QED BY <1>1, CaptureInvHolds, PTL

\* Once everything settled, a revocation no later enable answered has won in D1.
THEOREM RevocationAlwaysWins == Spec => []RevocationWinsInD1
<1>1. CaptureInv => RevocationWinsInD1
  <2> SUFFICES ASSUME CaptureInv, Quiet, NEW d \in Disables, stands[d] = "stands", dis[d].pc = "done"
               PROVE  ~row.requested /\ ~Match(row)
    BY DEF RevocationWinsInD1, Match
  <2>1. ~dirty /\ op.pc = "idle"
    BY DEF Quiet, IdleOp
  <2> QED BY <2>1 DEF CaptureInv, D1Wins, D1Held, D1Clear, Undoing, PastRow
<1> QED BY <1>1, CaptureInvHolds, PTL

\* Once everything settled, the capture files exist for a container only under
\* its authorization, unless a disable had to put its marker back.
THEOREM FilesAlwaysAuthorized == Spec => []FilesOnlyIfAuthorized
<1>1. CaptureInv => FilesOnlyIfAuthorized
  <2> SUFFICES ASSUME CaptureInv, Quiet, ctr.exists, enabledFile \/ hooksFile,
                      \A d \in Disables : stands[d] # "rewritten"
               PROVE  row.requested /\ ~Revoked /\ Match(row)
    BY DEF FilesOnlyIfAuthorized
  <2>1. ~dirty /\ op.pc = "idle" /\ ~PendH /\ ~PendE /\ ~Redone
    BY DEF Quiet, IdleOp, PendH, PendE, Redone
  <2> QED BY <2>1 DEF CaptureInv, Files, HeldH, HeldE, Held, Auth
<1> QED BY <1>1, CaptureInvHolds, PTL

\* A revocation in force from before a hook's check until its answer, the global
\* one or the session's, never lets the hook in: each is read once the check has
\* begun, LIFTED before REVOKED, whatever is written or lifted in between.
THEOREM NeverAdmittedAfterCut == Spec => NoAdmissionAfterCut
<1>1. CaptureInv /\ [Next]_cvars => [HookAdmitted => cut = {}]_cvars
  <2> SUFFICES ASSUME CaptureInv, HookAdmitted PROVE cut = {}
    OBVIOUS
  <2>1. hook.pc = "read" /\ ~InEffect(hook.lift)
    BY DEF HookAdmitted, Refused
  <2>2. "global" \notin cut /\ "session" \notin cut
    BY <2>1 DEF CaptureInv, HookCut
  <2> QED BY <2>2 DEF CaptureInv, TypeOK, Sources
<1> QED BY <1>1, CaptureInvHolds, PTL DEF Spec, NoAdmissionAfterCut
=============================================================================
