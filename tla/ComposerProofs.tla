--------------------------- MODULE ComposerProofs ---------------------------
(***************************************************************************)
(* Proofs about Composer, for any set of requests and of message ids, any  *)
(* number of execs in a delivery and any number of troubles: the types,    *)
(* and the three invariants of the run composer.                           *)
(*                                                                         *)
(* IInv is inductive where a creation is not rejected after its operation  *)
(* was cancelled (Regular). Its core is who may still write the pane's     *)
(* record: whoever may has it on disk as its own, or was released and      *)
(* removed, or a shutdown found nothing unreleased (Holds). From it: a     *)
(* record says of each exec what is so (Truth); what acted and was not     *)
(* released is on disk (Traced); what is released has no exec that may act *)
(* (Released); and of one message id a single request has a claim to the   *)
(* pane, the lock, the record or the index (Single).                       *)
(***************************************************************************)
EXTENDS Composer, TLAPS

PcStates ==
  {"idle", "recover", "recovering", "check", "resending", "precond", "prepare", "event",
   "stop", "withdraw", "create", "writing", "landed", "waiting", "seen", "close", "late",
   "release", "ackwait", "conclude", "done"}
JobRecord ==
  [by : {"none", "late", "release", "conclude", "resolve", "recover", "resend"},
   op : Obj \union {"none"},
   pc : {"idle", "adopt", "declare", "late", "settle", "derive", "ack", "conclude",
         "release", "mark", "remove"},
   req : Requests \union {"none"},
   declare : BOOLEAN]

\* The types, in parts: the records, who holds what, where each operation
\* is, and the rest.
Shape ==
  /\ disk \in Record /\ mem \in [Obj -> Record]
  /\ \A r \in Requests : mem[r].req \in {r, "none"}
Held ==
  /\ live \in Obj \union {"none"}
  /\ lock \in Requests \union {"none", "job"}
  /\ job \in JobRecord
  /\ lock = "job" <=> job.by \notin {"none", "resend"}
  /\ job.op = "none" <=> job.by = "none"
  /\ job.by = "none" <=> job.pc = "idle"
  /\ job.by \in {"resend", "recover"} => job.req \in Requests
Places ==
  /\ pc \in [Obj -> PcStates]
  /\ pc["adopted"] \in {"idle", "ackwait", "conclude", "done"}
Rest ==
  /\ step \in [Requests -> Step] /\ canc \subseteq Requests
  /\ heard \in [Obj -> {"off", "on", "yes"}]
  /\ id \in [Requests -> Ids]
  /\ answer \in [Requests -> {"none", "refused", "uncertain", "failed",
                              "delivered", "unconfirmed", "resolved"}]
  /\ x \in [Requests -> [Step -> {"none", "created", "running", "acted", "ok",
                                  "err", "dead"}]]
  /\ typed \in [Requests -> SUBSET Step] /\ prompted \subseteq Requests
  /\ window \subseteq Requests
  /\ on \in [Requests -> Nat] /\ cont \in Nat
  /\ logged \in [Requests -> {"none", "failed", "delivered", "unconfirmed", "resolved"}]
  /\ recovered \in BOOLEAN /\ stopping \in BOOLEAN

Before  == {"idle", "recover", "recovering", "check", "resending", "precond"}
Opening == {"prepare", "event", "stop", "withdraw"}
\* Until it is announced an operation keeps the lock, and is not cancelled; a
\* request waits for the procedure it began.
Turns ==
  /\ \A r \in Requests : pc[r] \in {"resending", "precond"} \union Opening => lock = r
  /\ \A r \in Requests : pc[r] \in Before => r \notin canc
  /\ \A r \in Requests : pc[r] = "resending" <=> job.by = "resend" /\ job.req = r
  /\ \A r \in Requests : pc[r] = "recovering" <=> job.by = "recover" /\ job.req = r
  /\ job.by = "resend" => job.pc \in {"release", "mark", "remove"}
  /\ job.by = "recover" => job.op = "adopted"
  /\ job.pc \in {"conclude", "late"} => job.by = job.pc
After == {"close", "late", "release", "ackwait", "conclude"}
Busy  == Opening \union Announced \union After
\* A record is blank or names its request; whoever is at work has one.
Whole(rec) == rec # NoRecord => rec.req # "none" /\ rec.result # "none"
Named ==
  /\ Whole(disk) /\ \A o \in Obj : Whole(mem[o])
  /\ \A o \in Obj : pc[o] \in Busy => mem[o].req # "none"
  /\ live # "none" => mem[live].req # "none"
  /\ job.op # "none" => mem[job.op].req # "none"
\* An exec is seen to end only if another follows.
Further == \A r \in Requests : pc[r] = "seen" => step[r] # Enter
Types == Shape /\ Held /\ Places /\ Turns /\ Named /\ Rest /\ Further

Exs == [Step -> {"none", "pending", "ok", "err", "gone"}]

\* The sentinels are no request, and no object.
LEMMA Names ==
  /\ "adopted" \in Obj /\ Requests \subseteq Obj
  /\ \A r \in Requests : r # "adopted" /\ r # "none" /\ r # "job"
BY ComposerAssumption DEF Obj

\* The steps of a delivery are numbers up to the Enter's.
LEMMA Steps == Enter \in Step /\ Enter \in Nat /\ \A s \in Step : s \in Nat /\ s <= Enter
BY ComposerAssumption DEF Step

\* The fields of a record have their types.
LEMMA RecFields ==
  ASSUME NEW rec \in Record
  PROVE  /\ rec.req \in Requests \union {"none"}
         /\ rec.phase \in {"none", "active", "completed", "cancelled"}
         /\ rec.state \in {"none", "prepared", "uncertain", "entered", "final", "released"}
         /\ rec.result \in {"none", "pending", "failed", "delivered", "unconfirmed", "resolved"}
         /\ rec.ex \in Exs
BY DEF Record, Exs

\* What a cancellation makes of a record (toCancelled).
LEMMA CancelledFields ==
  ASSUME NEW rec \in Record
  PROVE  /\ Cancelled(rec) \in Record
         /\ Cancelled(rec).req = rec.req /\ Cancelled(rec).ex = rec.ex
         /\ Cancelled(rec).result = rec.result /\ Cancelled(rec).phase = "cancelled"
         /\ Cancelled(rec).state = IF rec.state = "prepared" THEN "uncertain" ELSE rec.state
BY DEF Record, Cancelled

\* What a failure makes of a record (toFailed).
LEMMA FailedFields ==
  ASSUME NEW rec \in Record
  PROVE  /\ Failed(rec) \in Record
         /\ Failed(rec).req = rec.req /\ Failed(rec).ex = rec.ex
         /\ Failed(rec).result = "failed" /\ Failed(rec).phase = "completed"
         /\ Failed(rec).state = "final"
BY DEF Record, Failed

\* What an unknown outcome makes of a record (toUncertain).
LEMMA UncertainFields ==
  ASSUME NEW rec \in Record
  PROVE  /\ Uncertain(rec) \in Record
         /\ Uncertain(rec).req = rec.req /\ Uncertain(rec).ex = rec.ex
         /\ Uncertain(rec).result = rec.result /\ Uncertain(rec).phase = "cancelled"
         /\ Uncertain(rec).state = "uncertain"
BY DEF Record, Uncertain

\* The record a send prepares.
LEMMA PreparedFields ==
  ASSUME NEW r \in Requests
  PROVE  /\ Prepared(r) \in Record
         /\ Prepared(r).req = r /\ Prepared(r).ex = [s \in Step |-> "none"]
         /\ Prepared(r).result = "pending" /\ Prepared(r).phase = "active"
         /\ Prepared(r).state = "prepared"
BY DEF Record, Prepared

\* The blank record.
LEMMA NoRecordFields ==
  /\ NoRecord \in Record
  /\ NoRecord.req = "none" /\ NoRecord.ex = [s \in Step |-> "none"]
  /\ NoRecord.result = "none" /\ NoRecord.phase = "none" /\ NoRecord.state = "none"
BY DEF Record, NoRecord

\* What the decision on an ack makes of a record (decideResult).
LEMMA DecidedFields ==
  ASSUME NEW rec \in Record, NEW ack \in BOOLEAN
  PROVE  /\ Decided(rec, ack) \in Record
         /\ Decided(rec, ack).req = rec.req /\ Decided(rec, ack).ex = rec.ex
         /\ Decided(rec, ack).result \in {"delivered", "unconfirmed"}
         /\ Decided(rec, ack).phase = rec.phase /\ Decided(rec, ack).state = "final"
BY DEF Record, Decided

SetEx(rec, e) == [rec EXCEPT !.ex = e]

\* A record that learns of its execs keeps the rest.
LEMMA SetExFields ==
  ASSUME NEW rec \in Record, NEW e \in Exs
  PROVE  /\ SetEx(rec, e) \in Record
         /\ SetEx(rec, e).req = rec.req /\ SetEx(rec, e).ex = e
         /\ SetEx(rec, e).result = rec.result /\ SetEx(rec, e).phase = rec.phase
         /\ SetEx(rec, e).state = rec.state
BY DEF Record, SetEx, Exs

\* One exec's entry of a record is set.
LEMMA ExStep ==
  ASSUME NEW rec \in Record, NEW s \in Step, NEW v \in {"none", "pending", "ok", "err", "gone"}
  PROVE  /\ [rec EXCEPT !.ex[s] = v] = SetEx(rec, [rec.ex EXCEPT ![s] = v])
         /\ [rec.ex EXCEPT ![s] = v] \in Exs
         /\ [rec.ex EXCEPT ![s] = v][s] = v
         /\ \A t \in Step : t # s => [rec.ex EXCEPT ![s] = v][t] = rec.ex[t]
BY DEF Record, SetEx, Exs

\* The record of a delivery that was entered.
LEMMA EnteredFields ==
  ASSUME NEW rec \in Record, NEW new, new = [rec EXCEPT !.phase = "completed", !.state = "entered"]
  PROVE  /\ new \in Record /\ new.req = rec.req /\ new.ex = rec.ex /\ new.result = rec.result
         /\ new.phase = "completed" /\ new.state = "entered"
BY DEF Record

\* What the effects, once settled, make of a cancelled record.
LEMMA DerivedFields ==
  ASSUME NEW rec \in Record
  PROVE  /\ Derived(rec) \in Record
         /\ Derived(rec).req = rec.req /\ Derived(rec).ex = rec.ex /\ Derived(rec).phase = rec.phase
         /\ Derived(rec) = rec
            \/ /\ rec.phase = "cancelled" /\ rec.result = "pending" /\ rec.state # "entered" /\ Settled(rec)
               /\ \/ rec.ex[Enter] = "ok" /\ Derived(rec).state = "entered" /\ Derived(rec).result = rec.result
                  \/ rec.ex[Enter] # "ok" /\ Derived(rec).state = "final" /\ Derived(rec).result = "failed"
BY ZenonT(40) DEF Record, Derived, Final

\* Setting the entries of one object's record.
LEMMA ExAt ==
  ASSUME mem \in [Obj -> Record], NEW o \in Obj, NEW e \in Exs, mem' = [mem EXCEPT ![o].ex = e]
  PROVE  mem' = [mem EXCEPT ![o] = SetEx(mem[o], e)]
BY DEF SetEx

\* A write that was late carries the record or its active form.
LEMMA OlderFields ==
  ASSUME NEW rec \in Record, NEW old \in Older(rec)
  PROVE  /\ old \in Record /\ old.req = rec.req /\ old.ex = rec.ex /\ old.result = rec.result
         /\ old = rec \/ (old.phase = "active" /\ old.state = "prepared")
<1>1. CASE old = rec
  BY <1>1
<1>2. CASE old = [rec EXCEPT !.phase = "active", !.state = "prepared"]
  BY <1>2 DEF Record
<1> QED BY <1>1, <1>2 DEF Older

\* A write leaves the record that was on disk, or the new one.
LEMMA SaveFacts ==
  ASSUME NEW rec, NEW ok, Save(rec, ok)
  PROVE  disk' \in {disk, rec} /\ (ok => disk' = rec)
BY DEF Save

\* What the types say, one variable at a time.
LEMMA TypeFacts ==
  ASSUME Types
  PROVE  /\ disk \in Record /\ mem \in [Obj -> Record]
         /\ \A o \in Obj : mem[o] \in Record
         /\ live \in Obj \union {"none"} /\ lock \in Requests \union {"none", "job"}
         /\ pc \in [Obj -> PcStates] /\ step \in [Requests -> Step]
         /\ job \in JobRecord /\ canc \subseteq Requests
         /\ x \in [Requests -> [Step -> {"none", "created", "running", "acted", "ok", "err", "dead"}]]
BY DEF Types, Shape, Held, Places, Rest

\* The fields of a procedure.
LEMMA JobFields ==
  ASSUME job \in JobRecord, NEW p \in {"adopt", "declare", "late", "settle", "derive", "ack",
                                     "conclude", "release", "mark", "remove"}
  PROVE  LET j == [job EXCEPT !.pc = p] IN
         /\ j \in JobRecord /\ j.pc = p
         /\ j.by = job.by /\ j.op = job.op /\ j.req = job.req /\ j.declare = job.declare
BY DEF JobRecord

\* The fields when no procedure runs.
LEMMA NoJobFields ==
  /\ NoJob \in JobRecord
  /\ NoJob.by = "none" /\ NoJob.op = "none" /\ NoJob.pc = "idle" /\ NoJob.req = "none"
BY DEF NoJob, JobRecord

\* The fields of a procedure that begins.
LEMMA NewJobFields ==
  ASSUME NEW b \in {"late", "release", "conclude", "resolve", "recover", "resend"}, NEW o \in Obj,
         NEW p \in {"adopt", "late", "conclude", "release"}, NEW r \in Requests \union {"none"},
         NEW d \in BOOLEAN, NEW j, j = [by |-> b, op |-> o, pc |-> p, req |-> r, declare |-> d]
  PROVE  j \in JobRecord /\ j.by = b /\ j.op = o /\ j.pc = p /\ j.req = r /\ j.declare = d
BY DEF JobRecord

\* The invariant's first part has the types a run checks.
LEMMA TypesImply == Types => TypeOK
BY DEF Types, TypeOK, Shape, Held, Places, Rest, JobRecord

\* A step that changes one record.
LEMMA MemStep ==
  ASSUME Shape, NEW o \in Obj, NEW rec \in Record, rec.req = mem[o].req \/ (o \in Requests => rec.req = o),
         mem' = [mem EXCEPT ![o] = rec]
  PROVE  /\ mem' \in [Obj -> Record] /\ \A r \in Requests : mem'[r].req \in {r, "none"}
         /\ mem'[o] = rec /\ \A p \in Obj \ {o} : mem'[p] = mem[p]
BY Names DEF Shape

\* An outcome sets one object's record and place.
LEMMA OutcomeFacts ==
  ASSUME Types, NEW r \in Requests, NEW rec \in Record, NEW act \in Record, Outcome(r, rec, act)
  PROVE  /\ mem[r].phase = "active" => mem' = [mem EXCEPT ![r] = act] /\ pc' = [pc EXCEPT ![r] = "close"]
         /\ mem[r].phase # "active" => mem' = [mem EXCEPT ![r] = rec] /\ pc' = [pc EXCEPT ![r] = "late"]
BY DEF Outcome

\* A refusal is a failure when every exec is settled, else it is uncertain.
LEMMA RefusedFields ==
  ASSUME NEW rec \in Record
  PROVE  /\ Refused(rec) \in {Failed(rec), Uncertain(rec)}
         /\ Refused(rec) = Failed(rec) => \A s \in Step : rec.ex[s] # "pending"
BY FailedFields, UncertainFields DEF Refused, Settled

\* What the executor makes of a record: another that names the same request.
Heir(rec, old) == rec \in Record /\ rec.req = old.req

\* An object's record is replaced by an heir of it.
LEMMA HeirStep ==
  ASSUME Shape, NEW o \in Obj, NEW rec, Heir(rec, mem[o]), mem' = [mem EXCEPT ![o] = rec]
  PROVE  /\ mem' \in [Obj -> Record] /\ \A r \in Requests : mem'[r].req \in {r, "none"}
BY MemStep DEF Heir

-----------------------------------------------------------------------------
(* Types.                                                                   *)

\* The types hold at first.
LEMMA InitTypes == Init => Types
<1> SUFFICES ASSUME Init PROVE Types
  OBVIOUS
<1>1. Shape
  BY NoRecordFields, Names DEF Init, Shape
<1>2. Held
  BY NoJobFields DEF Init, Held
<1>3. Places
  BY Names DEF Init, Places, PcStates
<1>4. Rest
  <2>1. 1 \in Step
    BY ComposerAssumption DEF Step
  <2> QED BY <2>1 DEF Init, Rest
<1>5. Turns
  BY NoJobFields, Names DEF Init, Turns, Opening
<1>6. Named
  BY NoJobFields, Names DEF Init, Named, Whole, Busy, Opening, Announced, After
<1>7. Further
  BY Names DEF Init, Further
<1> QED BY <1>1, <1>2, <1>3, <1>4, <1>5, <1>6, <1>7 DEF Types

\* An outcome keeps the shape of the records.
LEMMA OutcomeShape ==
  ASSUME Types, NEW r \in Requests, NEW rec, NEW act, Heir(rec, mem[r]), Heir(act, mem[r]),
         disk' \in Record, Outcome(r, rec, act)
  PROVE  Shape'
BY Names, HeirStep DEF Outcome, Types, Shape

\* A procedure under the lock changes only its operation's record, and the
\* record on disk to what it made of it.
LEMMA JobShape == Types /\ Job => Shape'
<1> SUFFICES ASSUME Types, Job PROVE Shape'
  OBVIOUS
<1> USE TypeFacts, Names
<1>1. job.pc # "idle" => job.op \in Obj
  BY DEF Types, Held, JobRecord
<1>2. Op \in Record \/ job.op \notin Obj
  BY DEF Op
<1>3. CASE JobReleases
  <2>1. CASE mem' = [mem EXCEPT ![job.op].state = "released"]
    <3>1. Op \in Record /\ [Op EXCEPT !.state = "released"] \in Record
          /\ [Op EXCEPT !.state = "released"].req = Op.req
      BY <1>1, <1>2, <1>3 DEF JobReleases, Record
    <3>2. mem' = [mem EXCEPT ![job.op] = [Op EXCEPT !.state = "released"]]
      BY <2>1 DEF Op
    <3> QED BY <1>1, <1>3, <3>1, <3>2, HeirStep DEF JobReleases, Types, Shape, Heir, Op
  <2>2. CASE UNCHANGED mem
    BY <1>3, <2>2 DEF JobReleases, Types, Shape
  <2> QED BY <1>3, <2>1, <2>2 DEF JobReleases
<1>4. ASSUME NEW ok \in BOOLEAN, NEW rec, Save(mem'[job.op], ok), job.pc # "idle",
             Heir(rec, Op), mem' = [mem EXCEPT ![job.op] = rec]
      PROVE  Shape'
  BY <1>1, <1>4, SaveFacts, HeirStep DEF Types, Shape, Heir, Op
<1>5. ASSUME UNCHANGED <<disk, mem>> PROVE Shape'
  BY <1>5 DEF Types, Shape
<1>6. ASSUME NEW ok \in BOOLEAN, JobAdopts(ok) PROVE Shape'
  <2>1. CASE Op.phase = "active"
    BY <1>1, <1>2, <1>4, <1>6, <2>1, CancelledFields DEF JobAdopts, Heir, Op
  <2> QED BY <1>5, <1>6, <2>1 DEF JobAdopts
<1>7. ASSUME NEW ok \in BOOLEAN, JobDeclares(ok) PROVE Shape'
  <2>1. CASE ~Final(Op)
    <3> DEFINE rec == [Op EXCEPT !.result = "resolved", !.state = "final"]
    <3>1. Heir(rec, Op)
      BY <1>1, <1>2, <1>7, ZenonT(40) DEF JobDeclares, Heir, Record
    <3>2. mem' = [mem EXCEPT ![job.op] = rec]
      <4>1. mem' = [mem EXCEPT ![job.op].result = "resolved", ![job.op].state = "final"]
        BY <1>7, <2>1 DEF JobDeclares
      <4>2. mem[job.op] \in Record
        BY <1>1, <1>2, <1>7 DEF JobDeclares
      <4> QED BY <4>1, <4>2, ZenonT(40) DEF Op, Record
    <3>3. Save(mem'[job.op], ok) /\ job.pc # "idle"
      BY <1>7, <2>1 DEF JobDeclares
    <3> HIDE DEF rec
    <3> QED BY <1>4, <3>1, <3>2, <3>3
  <2> QED BY <1>5, <1>7, <2>1 DEF JobDeclares
<1>8. ASSUME NEW ok \in BOOLEAN, JobLate(ok) \/ JobMarks(ok) PROVE Shape'
  BY <1>1, <1>2, <1>8, SaveFacts DEF JobLate, JobMarks, Types, Shape
<1>9. ASSUME NEW ok \in BOOLEAN, JobSettles(ok) PROVE Shape'
  <2>1. PICK inspected \in SUBSET Step, sees \in BOOLEAN :
          \/ UNCHANGED <<disk, mem>>
          \/ mem' = [mem EXCEPT ![job.op].ex = Evidence(inspected, sees)] /\ Save(mem'[job.op], ok)
    BY <1>9 DEF JobSettles
  <2>2. CASE mem' = [mem EXCEPT ![job.op].ex = Evidence(inspected, sees)] /\ Save(mem'[job.op], ok)
    <3>1. Op \in Record /\ job.pc # "idle"
      BY <1>1, <1>2, <1>9 DEF JobSettles
    <3>2. Evidence(inspected, sees) \in Exs
      BY <3>1, RecFields DEF Evidence, Exs
    <3>3. mem' = [mem EXCEPT ![job.op] = SetEx(Op, Evidence(inspected, sees))]
      BY <1>1, <3>1, <3>2, <2>2, ExAt DEF Op
    <3>4. Heir(SetEx(Op, Evidence(inspected, sees)), Op)
      BY <3>1, <3>2, SetExFields DEF Heir
    <3>5. Save(mem'[job.op], ok)
      BY <2>2
    <3> QED BY <1>4, <3>1, <3>3, <3>4, <3>5
  <2> QED BY <1>5, <2>1, <2>2
<1>10. ASSUME NEW ok \in BOOLEAN, JobDerives(ok) PROVE Shape'
  <2>1. CASE mem' = [mem EXCEPT ![job.op] = Derived(@)] /\ Save(mem'[job.op], ok)
    <3>1. Op \in Record /\ job.pc # "idle"
      BY <1>1, <1>2, <1>10 DEF JobDerives
    <3>2. Heir(Derived(Op), Op)
      BY <3>1, DerivedFields DEF Heir
    <3> QED BY <1>4, <2>1, <3>1, <3>2 DEF Op
  <2> QED BY <1>5, <1>10, <2>1 DEF JobDerives
<1>11. ASSUME NEW ok \in BOOLEAN, JobAcks(ok) PROVE Shape'
  <2> DEFINE ack == Op.req \in prompted \/ heard[job.op] = "yes"
  <2>1. CASE mem' = [mem EXCEPT ![job.op] = Decided(@, ack)] /\ Save(mem'[job.op], ok)
    <3>1. Op \in Record /\ job.pc # "idle" /\ ack \in BOOLEAN
      BY <1>1, <1>2, <1>11 DEF JobAcks
    <3> HIDE DEF ack
    <3> QED BY <1>4, <2>1, <3>1, DecidedFields DEF Heir, Op
  <2> QED BY <1>5, <1>11, <2>1 DEF JobAcks
<1>12. ASSUME NEW ok \in BOOLEAN, JobConcludes(ok) PROVE Shape'
  <2> DEFINE ack == heard[job.op] = "yes"
             d == Decided(Op, ack)
  <2>1. CASE mem' = [mem EXCEPT ![job.op] = d] /\ Save(d, ok)
    <3>1. Op \in Record /\ job.pc # "idle" /\ ack \in BOOLEAN /\ job.op \in Obj
      BY <1>1, <1>2, <1>12 DEF JobConcludes
    <3>2. Heir(d, Op)
      BY <3>1, DecidedFields DEF Heir
    <3> HIDE DEF d
    <3>3. mem'[job.op] = d
      BY <2>1, <3>1
    <3> QED BY <1>4, <2>1, <3>1, <3>2, <3>3
  <2> QED BY <1>5, <1>12, <2>1 DEF JobConcludes
<1>13. ASSUME NEW ok \in BOOLEAN, JobRemoves(ok) PROVE Shape'
  BY <1>13, NoRecordFields DEF JobRemoves, Without, Types, Shape
<1> QED
  BY <1>3, <1>6, <1>7, <1>8, <1>9, <1>10, <1>11, <1>12, <1>13 DEF Job

\* The records keep their shape.
LEMMA ShapeKept ==
  ASSUME Types, Next
  PROVE  Shape'
<1> USE TypeFacts, Names
<1>1. ASSUME NEW r \in Requests, Arrive(r) PROVE Shape'
  BY <1>1 DEF Arrive, Types, Shape
<1>2. ASSUME NEW r \in Requests, Recover(r) PROVE Shape'
  <2>1. CASE mem' = [mem EXCEPT !["adopted"] = disk]
    BY <1>2, <2>1 DEF Recover, Types, Shape
  <2>2. CASE UNCHANGED mem
    BY <1>2, <2>2 DEF Recover, Types, Shape
  <2> QED BY <1>2, <2>1, <2>2 DEF Recover
<1>3. ASSUME NEW r \in Requests, Check(r) PROVE Shape'
  BY <1>3 DEF Check, Types, Shape
<1>4. ASSUME NEW r \in Requests, Refuse(r) PROVE Shape'
  BY <1>4 DEF Refuse, Types, Shape
<1>5. ASSUME NEW r \in Requests, Prepare(r) PROVE Shape'
  BY <1>5, PreparedFields, MemStep DEF Prepare, Types, Shape
<1>6. ASSUME NEW r \in Requests, NEW ok \in BOOLEAN, PreparedLands(r, ok) PROVE Shape'
  <2>1. PICK rec \in Older(mem[r]) : Save(rec, ok)
    BY <1>6 DEF PreparedLands
  <2> QED BY <1>6, <2>1, OlderFields, SaveFacts DEF PreparedLands, Types, Shape
<1>7. ASSUME NEW r \in Requests, PreparedConfirmed(r) PROVE Shape'
  BY <1>7, CancelledFields, HeirStep DEF PreparedConfirmed, Types, Shape, Heir
<1>8. ASSUME NEW r \in Requests, NEW ok \in BOOLEAN, StoppedAtPrepared(r, ok) PROVE Shape'
  BY <1>8, SaveFacts DEF StoppedAtPrepared, Types, Shape
<1>9. ASSUME NEW r \in Requests, NEW ok \in BOOLEAN, WithdrawPrepared(r, ok) PROVE Shape'
  BY <1>9, NoRecordFields DEF WithdrawPrepared, Without, Types, Shape
<1>10. ASSUME NEW r \in Requests, CreateExec(r) PROVE Shape'
  <2>1. step[r] \in Step /\ Heir(mem[r], mem[r]) /\ disk' = disk
    BY <1>10 DEF CreateExec, Heir
  <2>2. CASE mem' = [mem EXCEPT ![r].ex[step[r]] = "pending"]
    <3>0. [mem[r].ex EXCEPT ![step[r]] = "pending"] \in Exs
      BY <2>1, ExStep
    <3>1. mem' = [mem EXCEPT ![r] = SetEx(mem[r], [mem[r].ex EXCEPT ![step[r]] = "pending"])]
      <4>2. mem' = [mem EXCEPT ![r].ex = [mem[r].ex EXCEPT ![step[r]] = "pending"]]
        BY <2>2
      <4> QED BY <3>0, <4>2, ExAt
    <3>2. Heir(SetEx(mem[r], [mem[r].ex EXCEPT ![step[r]] = "pending"]), mem[r])
      BY <3>0, SetExFields DEF Heir
    <3> QED BY <2>1, <3>1, <3>2, HeirStep DEF Types, Shape
  <2>3. CASE Outcome(r, mem[r], Refused(mem[r]))
    BY <2>1, <2>3, RefusedFields, FailedFields, UncertainFields, OutcomeFacts, HeirStep DEF Types, Shape, Heir
  <2>4. CASE mem' = [mem EXCEPT ![r] = Failed(@)]
    BY <2>1, <2>4, FailedFields, HeirStep DEF Types, Shape, Heir
  <2> QED BY <1>10, <2>2, <2>3, <2>4 DEF CreateExec
<1>11. ASSUME NEW r \in Requests, ExecRecorded(r) PROVE Shape'
  <2>1. PICK rec \in Older(mem[r]) :
          \/ Save(rec, TRUE) /\ UNCHANGED mem
          \/ Save(rec, FALSE) /\ Outcome(r, mem[r], Uncertain(mem[r]))
    BY <1>11 DEF ExecRecorded
  <2>2. disk' \in Record
    BY <2>1, SaveFacts, OlderFields
  <2>3. CASE UNCHANGED mem
    BY <2>2, <2>3 DEF Types, Shape
  <2>4. CASE Outcome(r, mem[r], Uncertain(mem[r]))
    <3>1. Heir(mem[r], mem[r]) /\ Heir(Uncertain(mem[r]), mem[r])
      BY UncertainFields DEF Heir
    <3> QED BY <2>2, <2>4, <3>1, OutcomeShape
  <2> QED BY <2>1, <2>3, <2>4
<1>12. ASSUME NEW r \in Requests, StartExec(r) PROVE Shape'
  <2> DEFINE without == [mem[r] EXCEPT !.ex[step[r]] = "none"]
  <2>0. step[r] \in Step /\ mem[r] \in Record
    OBVIOUS
  <2>1. without \in Record /\ without.req = mem[r].req /\ disk' = disk
    <3>1. without = SetEx(mem[r], [mem[r].ex EXCEPT ![step[r]] = "none"])
      BY <2>0 DEF SetEx, Record, Exs
    <3> HIDE DEF without
    <3>2. [mem[r].ex EXCEPT ![step[r]] = "none"] \in Exs
      BY <2>0, ExStep
    <3> QED BY <1>12, <2>0, <3>1, <3>2, SetExFields DEF StartExec
  <2>2. UNCHANGED mem \/ Outcome(r, without, Refused(without))
    BY <1>12 DEF StartExec
  <2> HIDE DEF without
  <2>3. CASE UNCHANGED mem
    BY <2>1, <2>3 DEF Types, Shape
  <2>4. CASE Outcome(r, without, Refused(without))
    <3>1. Refused(without) \in Record /\ Refused(without).req = without.req
      BY <2>1, RefusedFields, FailedFields, UncertainFields
    <3>2. Heir(without, mem[r]) /\ Heir(Refused(without), mem[r])
      BY <2>1, <3>1 DEF Heir
    <3>3. disk' \in Record
      BY <2>1
    <3> QED BY <2>4, <3>2, <3>3, OutcomeShape
  <2> QED BY <2>2, <2>3, <2>4
<1>13. ASSUME NEW r \in Requests, ExecAnswers(r) PROVE Shape'
  <2> DEFINE rec(e) == [mem[r] EXCEPT !.ex[step[r]] = e]
  <2>1. ASSUME NEW e \in {"ok", "err"} PROVE rec(e) \in Record /\ rec(e).req = mem[r].req
    <3>1. rec(e) = SetEx(mem[r], [mem[r].ex EXCEPT ![step[r]] = e]) /\ step[r] \in Step
      BY DEF SetEx, Record, Exs
    <3> HIDE DEF rec
    <3>2. [mem[r].ex EXCEPT ![step[r]] = e] \in Exs
      BY <3>1, ExStep
    <3> QED BY <3>1, <3>2, SetExFields
  <2>2. disk' = disk
    BY <1>13 DEF ExecAnswers
  <2>3. \/ Outcome(r, mem[r], Uncertain(mem[r]))
        \/ Outcome(r, rec("err"), Failed(rec("err")))
        \/ Outcome(r, rec("ok"), [rec("ok") EXCEPT !.phase = "completed", !.state = "entered"])
        \/ mem' = [mem EXCEPT ![r] = rec("ok")]
    BY <1>13 DEF ExecAnswers
  <2> HIDE DEF rec
  <2>4. CASE Outcome(r, mem[r], Uncertain(mem[r]))
    BY <2>2, <2>4, OutcomeFacts, UncertainFields, HeirStep DEF Types, Shape, Heir
  <2>5. CASE Outcome(r, rec("err"), Failed(rec("err")))
    BY <2>1, <2>2, <2>5, OutcomeFacts, FailedFields, HeirStep DEF Types, Shape, Heir
  <2>6. CASE Outcome(r, rec("ok"), [rec("ok") EXCEPT !.phase = "completed", !.state = "entered"])
    <3> DEFINE entered == [rec("ok") EXCEPT !.phase = "completed", !.state = "entered"]
    <3>1. rec("ok") \in Record /\ rec("ok").req = mem[r].req
      BY <2>1
    <3>2. entered \in Record /\ entered.req = mem[r].req
      BY <3>1, EnteredFields, ZenonT(40)
    <3>3. Outcome(r, rec("ok"), entered)
      BY <2>6
    <3> HIDE DEF entered
    <3> QED BY <2>2, <3>3, <3>1, <3>2, OutcomeFacts, HeirStep DEF Types, Shape, Heir
  <2>7. CASE mem' = [mem EXCEPT ![r] = rec("ok")]
    BY <2>1, <2>2, <2>7, HeirStep DEF Types, Shape, Heir
  <2> QED BY <2>3, <2>4, <2>5, <2>6, <2>7
<1>14. ASSUME NEW r \in Requests, Proceed(r) PROVE Shape'
  BY <1>14, OutcomeFacts, FailedFields, HeirStep DEF Proceed, Types, Shape, Heir
<1>15. ASSUME NEW r \in Requests, NEW ok \in BOOLEAN, Close(r, ok) PROVE Shape'
  BY <1>15, SaveFacts DEF Close, Types, Shape
<1>16. ASSUME NEW r \in Requests, THttpAnswers(r) PROVE Shape'
  BY <1>16 DEF THttpAnswers, ops, Types, Shape
<1>17. ASSUME NEW r \in Requests, CancelActive(r) PROVE Shape'
  BY <1>17, CancelledFields, HeirStep DEF CancelActive, Types, Shape, Heir
<1>18. ASSUME NEW r \in Requests, NEW ok \in BOOLEAN, CancelWritten(r, ok) PROVE Shape'
  BY <1>18, SaveFacts DEF CancelWritten, Types, Shape
<1>19. ASSUME UNCHANGED <<disk, mem>> PROVE Shape'
  BY <1>19 DEF Types, Shape
<1>20. ASSUME NEW r \in Requests, NEW s \in Step, ExecActs(r, s) \/ ExecEnds(r, s) PROVE Shape'
  BY <1>19, <1>20 DEF ExecActs, ExecEnds, ops
<1>21. ASSUME NEW r \in Requests, PromptPersisted(r) PROVE Shape'
  BY <1>19, <1>21 DEF PromptPersisted
<1>22. ASSUME NEW o \in Obj, AckWindowEnds(o) \/ TakeLock(o) PROVE Shape'
  BY <1>19, <1>22 DEF AckWindowEnds, TakeLock
<1>23. CASE Job
  BY <1>23, JobShape
<1>24. ASSUME NEW declare \in BOOLEAN, Resolve(declare) PROVE Shape'
  <2>1. CASE mem' = [mem EXCEPT !["adopted"] = disk]
    BY <1>24, <2>1 DEF Resolve, Types, Shape
  <2>2. CASE UNCHANGED mem
    BY <1>19, <1>24, <2>2 DEF Resolve
  <2> QED BY <1>24, <2>1, <2>2 DEF Resolve
<1>25. CASE Shutdown \/ ContainerReplaced
  BY <1>19, <1>25 DEF Shutdown, ContainerReplaced, ops
<1>26. CASE Crash
  BY <1>26, NoRecordFields DEF Crash, Types, Shape
<1> QED
  BY <1>1, <1>2, <1>3, <1>4, <1>5, <1>6, <1>7, <1>8, <1>9, <1>10, <1>11, <1>12, <1>13, <1>14,
     <1>15, <1>16, <1>17, <1>18, <1>20, <1>21, <1>22, <1>23, <1>24, <1>25, <1>26
  DEF Next, Executor

\* A procedure that goes on, and one that ends.
LEMMA GotoFacts ==
  ASSUME Types, NEW p, Goto(p),
         p \in {"adopt", "declare", "late", "settle", "derive", "ack", "conclude", "release", "mark", "remove"}
  PROVE  /\ job' \in JobRecord /\ job'.pc = p
         /\ job'.by = job.by /\ job'.op = job.op /\ job'.req = job.req /\ job'.declare = job.declare
         /\ UNCHANGED <<lock, pc, answer>>
BY JobFields DEF Goto, Types, Held

\* Whose the lock is and where everybody is once a procedure ended.
Ended(released) ==
  /\ job' = NoJob
  /\ job.by \notin {"resend", "recover"} => lock' = "none" /\ pc' = pc
  /\ job.by = "recover" => lock' = "none" /\ pc' = [pc EXCEPT ![job.req] = "check"]
  /\ job.by = "resend" /\ released => lock' = lock /\ pc' = [pc EXCEPT ![job.req] = "precond"]
  /\ job.by = "resend" /\ ~released => lock' = "none" /\ pc' = [pc EXCEPT ![job.req] = "done"]

\* A procedure that ends frees the lock, or leaves it to its send.
LEMMA EndFacts ==
  ASSUME NEW released \in BOOLEAN, EndJob(released)
  PROVE  Ended(released)
BY DEF EndJob, Ended

\* The end of a procedure keeps who holds what.
LEMMA EndHeld ==
  ASSUME Types, NEW released \in BOOLEAN, EndJob(released), live' \in Obj \union {"none"}
  PROVE  Held' /\ Places'
<1> USE Names
<1>1. Ended(released)
  BY EndFacts
<1>2. job' \in JobRecord /\ job'.by = "none" /\ job'.op = "none" /\ job'.pc = "idle"
  BY <1>1, NoJobFields DEF Ended
<1>3. lock' \in Requests \union {"none"}
  BY <1>1 DEF Ended, Types, Held, JobRecord
<1>4. Places'
  BY <1>1 DEF Ended, Types, Held, Places, PcStates, JobRecord
<1> QED BY <1>2, <1>3, <1>4 DEF Held

\* A procedure that goes on keeps who holds what.
LEMMA GotoHeld ==
  ASSUME Types, NEW p, Goto(p), job.pc # "idle", live' \in Obj \union {"none"},
         p \in {"adopt", "declare", "late", "settle", "derive", "ack", "conclude", "release", "mark", "remove"}
  PROVE  Held' /\ Places'
BY GotoFacts DEF Types, Held, Places

\* A procedure keeps who holds what, and the places.
LEMMA JobHeld == Types /\ Job => Held' /\ Places'
<1> SUFFICES ASSUME Types, Job PROVE Held' /\ Places'
  OBVIOUS
<1> USE Names
<1>0. live \in Obj \union {"none"} /\ (job.pc # "idle" => job.op \in Obj)
  BY DEF Types, Held, JobRecord
<1>1. CASE JobReleases
  <2>1. live' \in Obj \union {"none"} /\ job.pc # "idle"
    BY <1>0, <1>1 DEF JobReleases
  <2>2. EndJob(FALSE) \/ Goto("remove") \/ Goto("mark")
    BY <1>1 DEF JobReleases
  <2> QED BY <2>1, <2>2, EndHeld, GotoHeld
<1>2. ASSUME NEW ok \in BOOLEAN, JobAdopts(ok) PROVE Held' /\ Places'
  <2>1. live' \in Obj \union {"none"} /\ job.pc # "idle"
    BY <1>0, <1>2 DEF JobAdopts
  <2>2. EndJob(FALSE) \/ Goto("declare") \/ Goto("settle")
    BY <1>2 DEF JobAdopts
  <2> QED BY <2>1, <2>2, EndHeld, GotoHeld
<1>3. ASSUME NEW ok \in BOOLEAN, JobDeclares(ok) \/ JobLate(ok) PROVE Held' /\ Places'
  <2>1. live' \in Obj \union {"none"} /\ job.pc # "idle"
    BY <1>0, <1>3 DEF JobDeclares, JobLate
  <2>2. EndJob(FALSE) \/ Goto("settle")
    BY <1>3 DEF JobDeclares, JobLate
  <2> QED BY <2>1, <2>2, EndHeld, GotoHeld
<1>4. ASSUME NEW ok \in BOOLEAN, JobSettles(ok) \/ JobDerives(ok) \/ JobMarks(ok) PROVE Held' /\ Places'
  <2>1. live' \in Obj \union {"none"} /\ job.pc # "idle"
    BY <1>0, <1>4 DEF JobSettles, JobDerives, JobMarks
  <2>2. Goto("derive") \/ Goto("ack") \/ Goto("release") \/ Goto("remove")
    BY <1>4 DEF JobSettles, JobDerives, JobMarks
  <2> QED BY <2>1, <2>2, GotoHeld
<1>5. ASSUME NEW ok \in BOOLEAN, JobAcks(ok) PROVE Held' /\ Places'
  <2>1. job.pc = "ack" /\ live' \in Obj \union {"none"}
    BY <1>0, <1>5 DEF JobAcks
  <2>2. CASE EndJob(FALSE) \/ Goto("release")
    BY <2>1, <2>2, EndHeld, GotoHeld
  <2>3. CASE ~(EndJob(FALSE) \/ Goto("release"))
    <3>1. /\ live' = job.op /\ job' = NoJob /\ lock' = "none"
          /\ pc' = [o \in Obj |->
                     CASE o = job.op -> "ackwait"
                       [] o = job.req /\ job.by = "recover" -> "check"
                       [] OTHER -> pc[o]]
      BY <1>5, <2>3 DEF JobAcks
    <3>2. \A o \in Obj : pc'[o] \in {"ackwait", "check", pc[o]}
      BY <3>1
    <3>3. job.by = "recover" => job.req \in Requests
      BY DEF Types, Held
    <3>4. pc'["adopted"] \in {"ackwait", pc["adopted"]}
      BY <3>1, <3>3
    <3>5. Places'
      BY <3>1, <3>2, <3>4 DEF Types, Places, PcStates
    <3>6. Held'
      BY <2>1, <3>1, NoJobFields DEF Held
    <3> QED BY <3>5, <3>6
  <2> QED BY <2>2, <2>3
<1>6. ASSUME NEW ok \in BOOLEAN, JobConcludes(ok) PROVE Held' /\ Places'
  <2>1. CASE live # job.op
    BY <1>6, <2>1, NoJobFields DEF JobConcludes, Types, Held, Places
  <2>2. CASE live = job.op
    <3>1. job' = [job EXCEPT !.pc = "release"] /\ UNCHANGED <<lock, pc, live>> /\ job.pc # "idle"
      BY <1>6, <2>2 DEF JobConcludes
    <3>2. job \in JobRecord
      BY DEF Types, Held
    <3> QED BY <3>1, <3>2, JobFields DEF Types, Held, Places
  <2> QED BY <2>1, <2>2
<1>7. ASSUME NEW ok \in BOOLEAN, JobRemoves(ok) PROVE Held' /\ Places'
  <2>1. live' \in Obj \union {"none"} /\ job.pc # "idle"
    BY <1>0, <1>7 DEF JobRemoves
  <2>2. EndJob(disk' = NoRecord) /\ (disk' = NoRecord) \in BOOLEAN
    BY <1>7 DEF JobRemoves
  <2> QED BY <2>1, <2>2, EndHeld
<1> QED BY <1>1, <1>2, <1>3, <1>4, <1>5, <1>6, <1>7 DEF Job

\* An operation's step takes it to one of its points.
LEMMA PcStep ==
  ASSUME Types, NEW r \in Requests, NEW p \in PcStates, pc' = [pc EXCEPT ![r] = p]
  PROVE  Places'
BY Names DEF Types, Places

\* A procedure begins with the object and the place given.
LEMMA StartFacts ==
  ASSUME NEW o \in Obj, NEW p \in {"late", "release", "conclude"}, StartJob(p, o, p)
  PROVE  /\ lock = "none" /\ lock' = "job" /\ job' \in JobRecord
         /\ job'.by = p /\ job'.op = o /\ job'.pc = p /\ job'.op # "none"
<1>1. job' \in JobRecord /\ job'.by = p /\ job'.op = o /\ job'.pc = p
  BY DEF StartJob, NoJob, JobRecord
<1>2. o # "none"
  BY ComposerAssumption DEF Obj
<1> QED BY <1>1, <1>2 DEF StartJob

\* Every step keeps who holds what, and the places.
LEMMA HeldKept ==
  ASSUME Types, Next
  PROVE  Held' /\ Places'
<1> USE Names
<1>0. ASSUME UNCHANGED <<live, lock, job>> PROVE Held'
  BY <1>0 DEF Types, Held
<1>1. ASSUME UNCHANGED pc PROVE Places'
  BY <1>1 DEF Types, Places
<1>2. ASSUME NEW r \in Requests, Arrive(r) PROVE Held' /\ Places'
  BY <1>0, <1>2, PcStep DEF Arrive, PcStates
<1>3. ASSUME NEW r \in Requests, Recover(r) PROVE Held' /\ Places'
  <2>1. live' = live /\ Places'
    BY <1>3, PcStep DEF Recover, PcStates
  <2>2. CASE lock' = "job" /\ job' = [NoJob EXCEPT !.by = "recover", !.op = "adopted", !.pc = "adopt", !.req = r]
    <3>1. job' \in JobRecord /\ job'.by = "recover" /\ job'.op = "adopted" /\ job'.pc = "adopt" /\ job'.req = r
      BY <2>2 DEF NoJob, JobRecord
    <3> QED BY <2>1, <2>2, <3>1 DEF Types, Held
  <2>3. CASE UNCHANGED <<lock, job>>
    BY <1>0, <2>1, <2>3
  <2> QED BY <1>3, <2>2, <2>3 DEF Recover
<1>4. ASSUME NEW r \in Requests, Check(r) PROVE Held' /\ Places'
  <2>1. live' = live /\ Places'
    BY <1>4, PcStep DEF Check, PcStates
  <2>2. CASE UNCHANGED <<lock, job>>
    BY <1>0, <2>1, <2>2
  <2>3. CASE lock' = r /\ lock = "none" /\ UNCHANGED job
    BY <2>1, <2>3 DEF Types, Held
  <2>4. CASE /\ lock' = r /\ OwnFinal
             /\ job' = [NoJob EXCEPT !.by = "resend", !.op = live, !.pc = "release", !.req = r]
    <3>1. live \in Obj
      BY <2>4 DEF OwnFinal, Types, Held
    <3>2. /\ job' \in JobRecord /\ job'.by = "resend" /\ job'.op \in Obj /\ job'.pc = "release"
          /\ job'.req = r
      BY <2>4, <3>1 DEF NoJob, JobRecord
    <3>3. job'.op # "none"
      BY <3>2, ComposerAssumption DEF Obj
    <3> QED BY <2>1, <2>4, <3>2, <3>3 DEF Types, Held
  <2> QED BY <1>4, <2>2, <2>3, <2>4 DEF Check
<1>5. ASSUME NEW r \in Requests, Refuse(r) PROVE Held' /\ Places'
  <2>1. lock = r /\ lock' = "none" /\ UNCHANGED <<live, job>>
    BY <1>5 DEF Refuse, Types, Turns
  <2> QED BY <1>5, <2>1, PcStep DEF Refuse, Types, Held, PcStates
<1>6. ASSUME NEW r \in Requests, Prepare(r) PROVE Held' /\ Places'
  BY <1>6, PcStep DEF Prepare, Types, Held, PcStates
<1>7. ASSUME NEW r \in Requests, NEW ok \in BOOLEAN, PreparedLands(r, ok) PROVE Held' /\ Places'
  BY <1>0, <1>7, PcStep DEF PreparedLands, PcStates
<1>8. ASSUME NEW r \in Requests, PreparedConfirmed(r) PROVE Held' /\ Places'
  BY <1>0, <1>8, PcStep DEF PreparedConfirmed, PcStates
<1>9. ASSUME NEW r \in Requests, NEW ok \in BOOLEAN, StoppedAtPrepared(r, ok) PROVE Held' /\ Places'
  <2>1. lock = r /\ lock' = "none" /\ UNCHANGED <<live, job>>
    BY <1>9 DEF StoppedAtPrepared, Types, Turns, Opening
  <2> QED BY <1>9, <2>1, PcStep DEF StoppedAtPrepared, Types, Held, PcStates
<1>10. ASSUME NEW r \in Requests, NEW ok \in BOOLEAN, WithdrawPrepared(r, ok) PROVE Held' /\ Places'
  <2>1. lock = r /\ lock' = "none" /\ live' \in {live, "none"} /\ UNCHANGED job
    BY <1>10 DEF WithdrawPrepared, Types, Turns, Opening
  <2> QED BY <1>10, <2>1, PcStep DEF WithdrawPrepared, Types, Held, PcStates
<1>11. ASSUME NEW r \in Requests, NEW rec, NEW act, Outcome(r, rec, act) PROVE Places'
  BY <1>11, PcStep DEF Outcome, PcStates
<1>12. ASSUME NEW r \in Requests, CreateExec(r) PROVE Held' /\ Places'
  BY <1>0, <1>11, <1>12, PcStep DEF CreateExec, PcStates
<1>13. ASSUME NEW r \in Requests, ExecRecorded(r) PROVE Held' /\ Places'
  BY <1>0, <1>11, <1>13, PcStep DEF ExecRecorded, PcStates
<1>14. ASSUME NEW r \in Requests, StartExec(r) PROVE Held' /\ Places'
  BY <1>0, <1>11, <1>14, PcStep DEF StartExec, PcStates
<1>15. ASSUME NEW r \in Requests, ExecAnswers(r) PROVE Held' /\ Places'
  BY <1>0, <1>11, <1>15, PcStep DEF ExecAnswers, PcStates
<1>16. ASSUME NEW r \in Requests, Proceed(r) PROVE Held' /\ Places'
  BY <1>0, <1>11, <1>16, PcStep DEF Proceed, PcStates
<1>17. ASSUME NEW r \in Requests, NEW ok \in BOOLEAN, Close(r, ok) PROVE Held' /\ Places'
  <2>1. Places'
    BY <1>17, PcStep DEF Close, PcStates
  <2> QED BY <1>17, <2>1 DEF Close, Types, Held
<1>18. ASSUME NEW r \in Requests, THttpAnswers(r) \/ CancelActive(r) PROVE Held' /\ Places'
  BY <1>0, <1>1, <1>18 DEF THttpAnswers, CancelActive, ops
<1>19. ASSUME NEW r \in Requests, NEW ok \in BOOLEAN, CancelWritten(r, ok) PROVE Held' /\ Places'
  BY <1>1, <1>19 DEF CancelWritten, Types, Held
<1>20. ASSUME NEW r \in Requests, NEW s \in Step, ExecActs(r, s) \/ ExecEnds(r, s) PROVE Held' /\ Places'
  BY <1>0, <1>1, <1>20 DEF ExecActs, ExecEnds, ops
<1>21. ASSUME NEW r \in Requests, PromptPersisted(r) PROVE Held' /\ Places'
  BY <1>0, <1>1, <1>21 DEF PromptPersisted
<1>22. ASSUME NEW o \in Obj, AckWindowEnds(o) PROVE Held' /\ Places'
  BY <1>0, <1>22 DEF AckWindowEnds, Types, Places, PcStates
<1>23. ASSUME NEW o \in Obj, TakeLock(o) PROVE Held' /\ Places'
  <2>1. Places' /\ live' = live
    BY <1>23 DEF TakeLock, Types, Places, PcStates
  <2>2. CASE UNCHANGED <<lock, job>>
    BY <1>0, <2>1, <2>2
  <2>3. CASE StartJob(pc[o], o, pc[o])
    <3>1. pc[o] \in {"late", "release", "conclude"}
      BY <1>23 DEF TakeLock
    <3>2. lock' = "job" /\ job' \in JobRecord /\ job'.by = pc[o] /\ job'.pc = pc[o] /\ job'.op # "none"
      BY <2>3, <3>1, StartFacts
    <3> QED BY <2>1, <3>1, <3>2 DEF Types, Held
  <2> QED BY <1>23, <2>2, <2>3 DEF TakeLock
<1>24. ASSUME NEW declare \in BOOLEAN, Resolve(declare) PROVE Held' /\ Places'
  <2> DEFINE o == IF live # "none" THEN live ELSE "adopted"
  <2>1. o \in Obj /\ UNCHANGED <<live, pc>> /\ lock' = "job"
    BY <1>24 DEF Resolve, Types, Held
  <2>2. job' = [NoJob EXCEPT !.by = "resolve", !.op = o, !.pc = "adopt", !.declare = declare]
    BY <1>24 DEF Resolve
  <2> HIDE DEF o
  <2>3. job' \in JobRecord /\ job'.by = "resolve" /\ job'.op = o /\ job'.pc = "adopt"
    BY <2>1, <2>2 DEF NoJob, JobRecord
  <2>4. o # "none"
    BY <2>1, ComposerAssumption DEF Obj
  <2> QED BY <1>1, <2>1, <2>3, <2>4 DEF Types, Held
<1>25. CASE Job
  BY <1>25, JobHeld
<1>26. CASE Shutdown \/ ContainerReplaced
  BY <1>0, <1>1, <1>26 DEF Shutdown, ContainerReplaced, ops
<1>27. CASE Crash
  <2>1. Places'
    BY <1>27 DEF Crash, Types, Places, PcStates
  <2> QED BY <1>27, <2>1, NoJobFields DEF Crash, Held
<1> QED
  BY <1>2, <1>3, <1>4, <1>5, <1>6, <1>7, <1>8, <1>9, <1>10, <1>12, <1>13, <1>14, <1>15, <1>16,
     <1>17, <1>18, <1>19, <1>20, <1>21, <1>22, <1>23, <1>24, <1>25, <1>26, <1>27
  DEF Next, Executor

\* The end of a procedure keeps the turns.
LEMMA EndTurns ==
  ASSUME Types, NEW released \in BOOLEAN, EndJob(released), canc' = canc, job.pc # "idle"
  PROVE  Turns'
<1>1. Ended(released)
  BY EndFacts
<1> USE Names
<1>2. pc \in [Obj -> PcStates] /\ job'.by = "none" /\ job'.pc = "idle"
  BY <1>1, NoJobFields DEF Ended, Types, Places
<1>3. CASE job.by \notin {"resend", "recover"}
  <2>1. pc' = pc /\ lock = "job" /\ lock' = "none"
    BY <1>1, <1>3 DEF Ended, Types, Held
  <2> QED BY <1>2, <1>3, <2>1 DEF Turns, Types
<1>4. CASE job.by = "recover"
  <2>1. /\ pc' = [pc EXCEPT ![job.req] = "check"] /\ lock = "job" /\ lock' = "none"
        /\ job.req \in Requests /\ pc[job.req] = "recovering"
    BY <1>1, <1>4 DEF Ended, Types, Held, Turns
  <2> QED BY <1>2, <1>4, <2>1 DEF Turns, Types, Before, Opening
<1>5. CASE job.by = "resend"
  <2>1. /\ job.req \in Requests /\ pc[job.req] = "resending" /\ lock = job.req
        /\ pc' = [pc EXCEPT ![job.req] = IF released THEN "precond" ELSE "done"]
        /\ lock' = IF released THEN lock ELSE "none"
    BY <1>1, <1>5 DEF Ended, Types, Held, Turns
  <2> QED BY <1>2, <1>5, <2>1 DEF Turns, Types, Before, Opening
<1> QED BY <1>3, <1>4, <1>5

\* A procedure keeps the turns.
LEMMA JobTurns == Types /\ Job => Turns'
<1> SUFFICES ASSUME Types, Job PROVE Turns'
  OBVIOUS
<1> USE Names
<1>1. ASSUME NEW p \in {"declare", "settle", "derive", "ack", "release", "mark", "remove"}, Goto(p),
             job.by = "resend" => p \in {"mark", "remove"}, canc' = canc
      PROVE  Turns'
  BY <1>1, GotoFacts DEF Types, Turns
<1>2. job.by = "resend" => job.pc \in {"release", "mark", "remove"}
  BY DEF Types, Turns
<1>3. CASE JobReleases
  <2>1. (EndJob(FALSE) \/ Goto("remove") \/ Goto("mark")) /\ canc' = canc /\ job.pc # "idle"
    BY <1>3 DEF JobReleases
  <2> QED BY <1>1, <2>1, EndTurns
<1>4. ASSUME NEW ok \in BOOLEAN, JobAdopts(ok) \/ JobDeclares(ok) \/ JobLate(ok) PROVE Turns'
  <2>1. (EndJob(FALSE) \/ Goto("declare") \/ Goto("settle")) /\ canc' = canc
        /\ job.pc \in {"adopt", "declare", "late"}
    BY <1>4 DEF JobAdopts, JobDeclares, JobLate
  <2> QED BY <1>1, <1>2, <2>1, EndTurns
<1>5. ASSUME NEW ok \in BOOLEAN, JobSettles(ok) \/ JobDerives(ok) PROVE Turns'
  <2>1. (Goto("derive") \/ Goto("ack") \/ Goto("release")) /\ canc' = canc
        /\ job.pc \in {"settle", "derive"}
    BY <1>5 DEF JobSettles, JobDerives
  <2> QED BY <1>1, <1>2, <2>1
<1>6. ASSUME NEW ok \in BOOLEAN, JobMarks(ok) PROVE Turns'
  BY <1>1, <1>6 DEF JobMarks
<1>7. ASSUME NEW ok \in BOOLEAN, JobAcks(ok) PROVE Turns'
  <2>1. job.pc = "ack" /\ canc' = canc /\ job.by # "resend"
    BY <1>2, <1>7 DEF JobAcks
  <2>2. CASE EndJob(FALSE) \/ Goto("release")
    BY <1>1, <2>1, <2>2, EndTurns
  <2>3. CASE ~(EndJob(FALSE) \/ Goto("release"))
    <3>1. /\ job' = NoJob /\ lock' = "none"
          /\ pc' = [o \in Obj |->
                     CASE o = job.op -> "ackwait"
                       [] o = job.req /\ job.by = "recover" -> "check"
                       [] OTHER -> pc[o]]
      BY <1>7, <2>3 DEF JobAcks
    <3>2. job.by = "recover" => job.op = "adopted" /\ job.req \in Requests /\ pc[job.req] = "recovering"
      BY DEF Types, Held, Turns
    <3>3. lock = "job"
      BY <2>1 DEF Types, Held
    <3>4. ASSUME NEW r \in Requests
          PROVE  /\ pc'[r] \notin {"resending", "recovering", "precond"} \union Opening
                 /\ pc'[r] \in Before => pc[r] \in Before
      <4>1. r \in Obj /\ pc[r] \notin {"resending", "precond"} \union Opening
        BY <2>1, <3>3 DEF Types, Turns
      <4>2. pc[r] = "recovering" => job.by = "recover" /\ job.req = r /\ r # job.op
        BY <3>2 DEF Types, Turns
      <4>3. CASE r = job.op
        BY <3>1, <3>2, <4>1, <4>3 DEF Before, Opening
      <4>4. CASE r # job.op /\ r = job.req /\ job.by = "recover"
        BY <3>1, <3>2, <4>1, <4>4 DEF Before, Opening
      <4>5. CASE r # job.op /\ ~(r = job.req /\ job.by = "recover")
        BY <3>1, <4>1, <4>2, <4>5
      <4> QED BY <4>3, <4>4, <4>5
    <3> QED BY <2>1, <3>1, <3>4, NoJobFields DEF Types, Turns
  <2> QED BY <2>2, <2>3
<1>8. ASSUME NEW ok \in BOOLEAN, JobConcludes(ok) PROVE Turns'
  <2>1. job.pc = "conclude" /\ canc' = canc /\ job.by # "resend" /\ pc' = pc
    BY <1>2, <1>8 DEF JobConcludes
  <2>2. job.by # "recover"
    BY <2>1 DEF Types, Turns
  <2>3. lock = "job"
    BY <2>1 DEF Types, Held
  <2>4. CASE live # job.op
    BY <1>8, <2>1, <2>3, <2>4, NoJobFields DEF JobConcludes, Types, Turns
  <2>5. CASE live = job.op
    <3>1. job' = [job EXCEPT !.pc = "release"] /\ lock' = lock /\ job \in JobRecord
      BY <1>8, <2>5 DEF JobConcludes, Types, Held
    <3> QED BY <2>1, <3>1, JobFields DEF Types, Turns
  <2> QED BY <2>4, <2>5
<1>9. ASSUME NEW ok \in BOOLEAN, JobRemoves(ok) PROVE Turns'
  <2>1. EndJob(disk' = NoRecord) /\ (disk' = NoRecord) \in BOOLEAN /\ canc' = canc /\ job.pc # "idle"
    BY <1>9 DEF JobRemoves
  <2> QED BY <2>1, EndTurns
<1> QED BY <1>3, <1>4, <1>5, <1>6, <1>7, <1>8, <1>9 DEF Job

\* Every step keeps the turns.
LEMMA TurnsKept ==
  ASSUME Types, Next
  PROVE  Turns'
<1> USE Names
<1>0. ASSUME UNCHANGED <<pc, lock, job, canc>> PROVE Turns'
  BY <1>0 DEF Types, Turns
\* An operation's own step that leaves the lock and the procedure alone.
<1>1. ASSUME NEW r \in Requests, NEW p \in PcStates, pc' = [pc EXCEPT ![r] = p],
             UNCHANGED <<lock, job>>, canc' = canc, pc[r] \notin {"resending", "recovering"},
             p \notin {"resending", "recovering"}, p \in {"precond"} \union Opening => lock = r,
             p \in Before => r \notin canc
      PROVE  Turns'
  BY <1>1 DEF Types, Places, Turns
<1>2. ASSUME NEW r \in Requests, Arrive(r) PROVE Turns'
  BY <1>1, <1>2 DEF Arrive, PcStates, Opening, Before, Types, Turns
<1>3. ASSUME NEW r \in Requests, Recover(r) PROVE Turns'
  <2>1. canc' = canc /\ pc[r] = "recover" /\ r \notin canc
    BY <1>3 DEF Recover, Types, Turns, Before
  <2>2. CASE /\ lock' = "job" /\ job' = [NoJob EXCEPT !.by = "recover", !.op = "adopted", !.pc = "adopt", !.req = r]
             /\ pc' = [pc EXCEPT ![r] = "recovering"] /\ lock = "none"
    <3>1. job'.by = "recover" /\ job'.op = "adopted" /\ job'.pc = "adopt" /\ job'.req = r
      BY <2>2 DEF NoJob
    <3>2. \A q \in Requests : pc[q] \notin {"resending", "precond", "recovering"} \union Opening
      BY <2>2 DEF Types, Held, Turns
    <3> QED BY <2>1, <2>2, <3>1, <3>2 DEF Types, Places, Turns, Before, Opening
  <2>3. CASE UNCHANGED <<lock, job>> /\ pc' = [pc EXCEPT ![r] = "check"]
    BY <1>1, <2>1, <2>3 DEF PcStates, Opening
  <2> QED BY <1>3, <2>2, <2>3 DEF Recover
<1>4. ASSUME NEW r \in Requests, Check(r) PROVE Turns'
  <2>1. canc' = canc /\ pc[r] = "check" /\ r \notin canc
    BY <1>4 DEF Check, Types, Turns, Before
  <2>2. CASE UNCHANGED <<lock, job>> /\ pc' = [pc EXCEPT ![r] = "done"]
    BY <1>1, <2>1, <2>2 DEF PcStates, Opening, Before
  <2>3. CASE lock = "none" /\ lock' = r
    <3>1. /\ \A q \in Requests : pc[q] \notin {"resending", "precond", "recovering"} \union Opening
          /\ job.by = "none"
      BY <2>3 DEF Types, Held, Turns
    <3>2. CASE pc' = [pc EXCEPT ![r] = "precond"] /\ UNCHANGED job
      BY <2>1, <2>3, <3>1, <3>2 DEF Types, Places, Turns, Before, Opening
    <3>3. CASE /\ pc' = [pc EXCEPT ![r] = "resending"]
               /\ job' = [NoJob EXCEPT !.by = "resend", !.op = live, !.pc = "release", !.req = r]
      <4>1. job'.by = "resend" /\ job'.pc = "release" /\ job'.req = r
        BY <3>3 DEF NoJob
      <4> QED BY <2>1, <2>3, <3>1, <3>3, <4>1 DEF Types, Places, Turns, Before, Opening
    <3> QED BY <1>4, <2>3, <3>2, <3>3 DEF Check, Types, Held
  <2> QED BY <1>4, <2>2, <2>3 DEF Check
<1>5. ASSUME NEW r \in Requests, pc[r] \in {"precond", "stop", "withdraw"}, lock' = "none",
             pc' = [pc EXCEPT ![r] = "done"], UNCHANGED <<job, canc>>
      PROVE  Turns'
  <2>1. lock = r
    BY <1>5 DEF Types, Turns, Opening
  <2> QED BY <1>5, <2>1 DEF Types, Places, Turns, Before, Opening
<1>6. ASSUME NEW r \in Requests,
             Refuse(r) \/ \E ok \in BOOLEAN : StoppedAtPrepared(r, ok) \/ WithdrawPrepared(r, ok)
      PROVE  Turns'
  BY <1>5, <1>6 DEF Refuse, StoppedAtPrepared, WithdrawPrepared
<1>7. ASSUME NEW r \in Requests,
             Prepare(r) \/ PreparedConfirmed(r) \/ \E ok \in BOOLEAN : PreparedLands(r, ok)
      PROVE Turns'
  <2>1. lock = r
    BY <1>7 DEF Prepare, PreparedLands, PreparedConfirmed, Types, Turns, Opening
  <2> QED BY <1>1, <1>7, <2>1 DEF Prepare, PreparedLands, PreparedConfirmed, PcStates, Opening, Before
<1>8. ASSUME NEW r \in Requests, NEW p \in {"create", "writing", "landed", "waiting", "seen", "close", "late"},
             pc[r] \in Announced, pc' = [pc EXCEPT ![r] = p], UNCHANGED <<lock, job, canc>>
      PROVE  Turns'
  BY <1>1, <1>8 DEF Announced, PcStates, Opening, Before
<1>9. ASSUME NEW r \in Requests, NEW rec, NEW act, pc[r] \in Announced, Outcome(r, rec, act),
             UNCHANGED <<lock, job, canc>>
      PROVE  Turns'
  BY <1>8, <1>9 DEF Outcome
<1>10. ASSUME NEW r \in Requests, CreateExec(r) PROVE Turns'
  BY <1>8, <1>9, <1>10 DEF CreateExec, Announced
<1>11. ASSUME NEW r \in Requests, ExecRecorded(r) PROVE Turns'
  <2>1. /\ pc[r] \in Announced /\ UNCHANGED <<lock, job, canc>>
        /\ pc' = [pc EXCEPT ![r] = "landed"] \/ Outcome(r, mem[r], Uncertain(mem[r]))
    BY <1>11 DEF ExecRecorded, Announced
  <2> QED BY <1>8, <1>9, <2>1
<1>12. ASSUME NEW r \in Requests, StartExec(r) PROVE Turns'
  BY <1>8, <1>9, <1>12 DEF StartExec, Announced
<1>13. ASSUME NEW r \in Requests, ExecAnswers(r) PROVE Turns'
  BY <1>8, <1>9, <1>13 DEF ExecAnswers, Announced
<1>14. ASSUME NEW r \in Requests, Proceed(r) PROVE Turns'
  BY <1>8, <1>9, <1>14 DEF Proceed, Announced
<1>15. ASSUME NEW r \in Requests, NEW ok \in BOOLEAN, Close(r, ok) PROVE Turns'
  <2>1. /\ pc[r] = "close" /\ lock' = IF lock = r THEN "none" ELSE lock
        /\ pc' = [pc EXCEPT ![r] = "release"] \/ pc' = [pc EXCEPT ![r] = "done"] \/ pc' = [pc EXCEPT ![r] = "ackwait"]
        /\ UNCHANGED <<job, canc>>
    BY <1>15 DEF Close
  <2> QED BY <2>1 DEF Types, Places, Turns, Before, Opening
<1>16. ASSUME NEW r \in Requests, THttpAnswers(r) PROVE Turns'
  BY <1>0, <1>16 DEF THttpAnswers, ops
<1>17. ASSUME NEW r \in Requests, CancelActive(r) PROVE Turns'
  BY <1>17 DEF CancelActive, Types, Turns, Announced, Before
<1>18. ASSUME NEW r \in Requests, NEW ok \in BOOLEAN, CancelWritten(r, ok) PROVE Turns'
  <2>1. r \in canc /\ canc' = canc \ {r} /\ UNCHANGED <<pc, job>>
        /\ (lock' = lock \/ (lock = r /\ pc[r] \notin Opening))
    BY <1>18 DEF CancelWritten, Opening
  <2>2. pc[r] \notin {"resending", "precond"}
    BY <2>1 DEF Types, Turns, Before
  <2> QED BY <2>1, <2>2 DEF Types, Turns
<1>19. ASSUME NEW r \in Requests,
              PromptPersisted(r) \/ \E s \in Step : ExecActs(r, s) \/ ExecEnds(r, s) PROVE Turns'
  BY <1>0, <1>19 DEF ExecActs, ExecEnds, PromptPersisted, ops
<1>20. ASSUME NEW o \in Obj, AckWindowEnds(o) PROVE Turns'
  BY <1>20 DEF AckWindowEnds, Types, Places, Turns, Before, Opening
<1>21. ASSUME NEW o \in Obj, TakeLock(o) PROVE Turns'
  <2>1. canc' = canc /\ pc[o] \in {"late", "release", "conclude"} /\ pc' = [pc EXCEPT ![o] = "done"]
    BY <1>21 DEF TakeLock
  <2>2. CASE UNCHANGED <<lock, job>>
    BY <2>1, <2>2 DEF Types, Places, Turns, Before, Opening
  <2>3. CASE StartJob(pc[o], o, pc[o])
    <3>1. lock = "none" /\ job'.by = pc[o] /\ job'.pc = pc[o]
      BY <2>1, <2>3, StartFacts
    <3>2. \A q \in Requests : pc[q] \notin {"resending", "precond", "recovering"} \union Opening
      BY <3>1 DEF Types, Held, Turns
    <3> QED BY <2>1, <3>1, <3>2 DEF Types, Places, Turns, Before, Opening
  <2> QED BY <1>21, <2>2, <2>3 DEF TakeLock
<1>22. CASE Job
  BY <1>22, JobTurns
<1>23. ASSUME NEW declare \in BOOLEAN, Resolve(declare) PROVE Turns'
  <2>1. UNCHANGED <<pc, canc>> /\ lock = "none" /\ job'.by = "resolve" /\ job'.pc = "adopt"
    BY <1>23 DEF Resolve, NoJob
  <2>2. \A q \in Requests : pc[q] \notin {"resending", "precond", "recovering"} \union Opening
    BY <2>1 DEF Types, Held, Turns
  <2> QED BY <2>1, <2>2 DEF Types, Turns
<1>24. CASE Shutdown \/ ContainerReplaced
  BY <1>0, <1>24 DEF Shutdown, ContainerReplaced, ops
<1>25. CASE Crash
  <2>1. canc' = {} /\ job'.by = "none" /\ job'.pc = "idle" /\ \A r \in Requests : pc'[r] \in {"idle", "done"}
    BY <1>25, NoJobFields DEF Crash
  <2> QED BY <2>1 DEF Turns, Before, Opening
<1> QED
  BY <1>2, <1>3, <1>4, <1>6, <1>7, <1>10, <1>11, <1>12, <1>13, <1>14, <1>15, <1>16, <1>17, <1>18,
     <1>19, <1>20, <1>21, <1>22, <1>23, <1>24, <1>25
  DEF Next, Executor

-----------------------------------------------------------------------------
(* What the steps do.                                                       *)

\* A late rejection writes its record with no regard to the pane's owner:
\* then BlockerOnDisk does not hold (run composer_late).
Regular == ~LateRejects

\* A release stays logged.
Grows == \A r \in Requests : logged[r] # "none" => logged'[r] # "none"

Fate(rec) == <<rec.phase, rec.state, rec.result>>
SameFate(r) == /\ mem'[r].phase = mem[r].phase /\ mem'[r].state = mem[r].state
               /\ mem'[r].result = mem[r].result

\* Nothing but o's record and place changes,
Only(o) == \A p \in Obj \ {o} : mem'[p] = mem[p] /\ pc'[p] = pc[p]
\* and of the requests only r's execs do.
Around(r) ==
  /\ Only(r)
  /\ \A q \in Requests \ {r} : x'[q] = x[q] /\ step'[q] = step[q]
  /\ UNCHANGED <<live, lock, job, canc, id, on, typed, cont, logged, window, recovered, stopping>>

\* An announced operation goes on; or it was cancelled and only reports; or
\* it ends its active phase.
GoesOn(r) == pc'[r] \in Announced /\ SameFate(r)
Reports(r) == pc'[r] = "late" /\ mem[r].phase # "active" /\ SameFate(r)
Ends(r) ==
  /\ pc'[r] = "close" /\ mem[r].phase = "active" /\ mem'[r].phase \in {"completed", "cancelled"}
  /\ \/ mem'[r].result = "failed" /\ mem'[r].state = "final"
     \/ mem'[r].result = mem[r].result /\ mem'[r].state \in {"uncertain", "entered"}
Executes(r) ==
  /\ pc[r] \in Announced /\ Around(r)
  /\ mem'[r].req = mem[r].req
  /\ GoesOn(r) \/ Reports(r) \/ Ends(r)

\* An outcome is a report or an end.
LEMMA OutcomeEffect ==
  ASSUME Types, NEW r \in Requests, NEW rec \in Record, NEW act \in Record, Outcome(r, rec, act),
         rec.req = mem[r].req, act.req = mem[r].req, act.ex = rec.ex,
         rec.phase = mem[r].phase, rec.state = mem[r].state, rec.result = mem[r].result,
         act.phase \in {"completed", "cancelled"},
         \/ act.result = "failed" /\ act.state = "final"
         \/ act.result = mem[r].result /\ act.state \in {"uncertain", "entered"}
  PROVE  /\ Only(r) /\ mem'[r].req = mem[r].req /\ mem'[r].ex = rec.ex
         /\ Reports(r) \/ Ends(r)
         /\ pc'[r] = "close" => mem'[r] = act
         /\ pc'[r] = "late" => mem'[r] = rec
<1>1. mem \in [Obj -> Record] /\ pc \in [Obj -> PcStates] /\ r \in Obj
  BY TypeFacts, Names
<1>2. CASE mem[r].phase = "active"
  <2>1. mem'[r] = act /\ pc'[r] = "close" /\ Only(r)
    BY <1>1, <1>2 DEF Outcome, Only
  <2> QED BY <1>2, <2>1 DEF Ends
<1>3. CASE mem[r].phase # "active"
  <2>1. mem'[r] = rec /\ pc'[r] = "late" /\ Only(r)
    BY <1>1, <1>3 DEF Outcome, Only
  <2> QED BY <1>3, <2>1 DEF Reports, SameFate
<1> QED BY <1>2, <1>3

\* A record with an exec made pending is the same in all else.
LEMMA CreatedFields ==
  ASSUME NEW rec \in Record, NEW s
  PROVE  LET new == [rec EXCEPT !.ex[s] = "pending"] IN
         /\ new.ex = [rec.ex EXCEPT ![s] = "pending"] /\ new.req = rec.req
         /\ new.phase = rec.phase /\ new.state = rec.state /\ new.result = rec.result
BY DEF Record

\* What the creation of an exec does to its operation.
LEMMA CreateEffect ==
  ASSUME Types, Regular, NEW r \in Requests, CreateExec(r)
  PROVE  /\ pc[r] = "create" /\ Executes(r) /\ disk' = disk /\ step' = step
         /\ \/ /\ on[r] = cont /\ MayAct(r) /\ x'[r] = [x[r] EXCEPT ![step[r]] = "created"]
               /\ mem'[r].ex = [mem[r].ex EXCEPT ![step[r]] = "pending"] /\ pc'[r] = "writing"
            \/ /\ on[r] = cont /\ x'[r] = [x[r] EXCEPT ![step[r]] = "created"]
               /\ mem'[r].ex = mem[r].ex /\ pc'[r] \in {"close", "late"}
            \/ x' = x /\ mem'[r].ex = mem[r].ex /\ pc'[r] = "close"
<1> USE TypeFacts, Names
<1>1. /\ pc[r] = "create" /\ disk' = disk /\ step' = step /\ pc[r] \in Announced
      /\ UNCHANGED <<live, lock, job, canc, id, on, typed, cont, logged, window, recovered, stopping>>
  BY DEF CreateExec, past, Announced
<1>2. ASSUME x' = x \/ x' = [x EXCEPT ![r][step[r]] = "created"], step' = step
      PROVE  \A q \in Requests \ {r} : x'[q] = x[q] /\ step'[q] = step[q]
  BY <1>2
<1>3. CASE on[r] = cont /\ MayAct(r) /\ x' = [x EXCEPT ![r][step[r]] = "created"]
           /\ mem' = [mem EXCEPT ![r].ex[step[r]] = "pending"] /\ pc' = [pc EXCEPT ![r] = "writing"]
  <2>1. /\ mem'[r].ex = [mem[r].ex EXCEPT ![step[r]] = "pending"] /\ mem'[r].req = mem[r].req
        /\ SameFate(r) /\ Only(r) /\ pc'[r] = "writing"
    <3>1. mem \in [Obj -> Record] /\ pc \in [Obj -> PcStates] /\ mem[r] \in Record /\ r \in Obj
      OBVIOUS
    <3> DEFINE rec == [mem[r] EXCEPT !.ex[step[r]] = "pending"]
    <3>2. /\ rec.ex = [mem[r].ex EXCEPT ![step[r]] = "pending"] /\ rec.req = mem[r].req
          /\ rec.phase = mem[r].phase /\ rec.state = mem[r].state /\ rec.result = mem[r].result
      BY <3>1, CreatedFields
    <3>3. mem' = [mem EXCEPT ![r] = rec]
      BY <1>3, Zenon
    <3> HIDE DEF rec
    <3>4. mem'[r] = rec /\ pc'[r] = "writing" /\ \A p \in Obj \ {r} : mem'[p] = mem[p] /\ pc'[p] = pc[p]
      BY <1>3, <3>1, <3>3
    <3> QED BY <3>2, <3>4 DEF SameFate, Only
  <2> QED BY <1>1, <1>2, <1>3, <2>1 DEF Executes, Around, GoesOn, Announced
<1>4. CASE on[r] = cont /\ x' = [x EXCEPT ![r][step[r]] = "created"] /\ Outcome(r, mem[r], Refused(mem[r]))
  <2>1. Only(r) /\ mem'[r].req = mem[r].req /\ mem'[r].ex = mem[r].ex /\ (Reports(r) \/ Ends(r))
    <3>1. PICK act \in {Failed(mem[r]), Uncertain(mem[r])} : Refused(mem[r]) = act
      BY RefusedFields
    <3>2. /\ act \in Record /\ act.req = mem[r].req /\ act.ex = mem[r].ex
          /\ act.phase \in {"completed", "cancelled"}
          /\ \/ act.result = "failed" /\ act.state = "final"
             \/ act.result = mem[r].result /\ act.state \in {"uncertain", "entered"}
      BY <3>1, FailedFields, UncertainFields
    <3> QED BY <1>4, <3>1, <3>2, OutcomeEffect
  <2> QED BY <1>1, <1>2, <1>4, <2>1 DEF Executes, Around, Reports, Ends
<1>5. CASE mem[r].phase = "active" /\ mem' = [mem EXCEPT ![r] = Failed(@)]
           /\ pc' = [pc EXCEPT ![r] = "close"] /\ x' = x
  <2>1. mem'[r] = Failed(mem[r]) /\ Only(r) /\ pc'[r] = "close"
    BY <1>5 DEF Only
  <2> QED BY <1>1, <1>2, <1>5, <2>1, FailedFields DEF Executes, Around, Ends
<1> QED BY <1>3, <1>4, <1>5 DEF CreateExec, Regular

\* A record that says of its execs what mem[r] says.
Copy(rec, r) ==
  /\ rec \in Record /\ rec.req = mem[r].req /\ rec.ex = mem[r].ex /\ rec.result = mem[r].result
  /\ rec = mem[r] \/ (rec.phase = "active" /\ rec.state = "prepared")

\* What recording an exec does to its operation, and to the disk.
LEMMA RecordEffect ==
  ASSUME Types, NEW r \in Requests, ExecRecorded(r)
  PROVE  /\ pc[r] = "writing" /\ Executes(r) /\ x' = x /\ step' = step /\ mem'[r].ex = mem[r].ex
         /\ mem'[r].result = mem[r].result
         /\ \/ pc'[r] = "landed" /\ mem'[r] = mem[r] /\ Copy(disk', r)
            \/ pc'[r] \in {"close", "late"} /\ (disk' = disk \/ Copy(disk', r))
<1> USE TypeFacts, Names
<1>1. /\ pc[r] = "writing" /\ step' = step /\ x' = x /\ pc[r] \in Announced
      /\ UNCHANGED <<live, lock, job, canc, id, on, typed, cont, logged, window, recovered, stopping>>
  BY DEF ExecRecorded, world, past, Announced
<1>2. PICK rec \in Older(mem[r]) :
        \/ Save(rec, TRUE) /\ pc' = [pc EXCEPT ![r] = "landed"] /\ UNCHANGED mem
        \/ Save(rec, FALSE) /\ Outcome(r, mem[r], Uncertain(mem[r]))
  BY DEF ExecRecorded
<1>3. Copy(rec, r)
  BY <1>2, OlderFields DEF Copy
<1>4. CASE Save(rec, TRUE) /\ pc' = [pc EXCEPT ![r] = "landed"] /\ UNCHANGED mem
  <2>1. disk' = rec
    BY <1>4, SaveFacts
  <2>2. Only(r) /\ SameFate(r) /\ pc'[r] = "landed" /\ mem'[r] = mem[r]
    BY <1>4 DEF Only, SameFate
  <2> QED BY <1>1, <1>3, <2>1, <2>2 DEF Executes, Around, GoesOn, Announced
<1>5. CASE Save(rec, FALSE) /\ Outcome(r, mem[r], Uncertain(mem[r]))
  <2>1. disk' \in {disk, rec}
    BY <1>5, SaveFacts
  <2>2. /\ Only(r) /\ mem'[r].req = mem[r].req /\ mem'[r].ex = mem[r].ex /\ (Reports(r) \/ Ends(r))
        /\ pc'[r] = "close" => mem'[r] = Uncertain(mem[r])
        /\ pc'[r] = "late" => mem'[r] = mem[r]
    BY <1>5, OutcomeEffect, UncertainFields
  <2>3. mem'[r].result = mem[r].result
    BY <2>2, UncertainFields DEF Reports, Ends
  <2> QED BY <1>1, <1>3, <2>1, <2>2, <2>3 DEF Executes, Around, Reports, Ends
<1> QED BY <1>2, <1>4, <1>5

\* What the start of an exec does to its operation.
LEMMA StartEffect ==
  ASSUME Types, NEW r \in Requests, StartExec(r)
  PROVE  /\ pc[r] = "landed" /\ Executes(r) /\ disk' = disk /\ step' = step
         /\ \/ /\ MayAct(r) /\ mem'[r] = mem[r] /\ pc'[r] = "waiting"
               /\ x'[r] = [x[r] EXCEPT ![step[r]] = IF on[r] = cont THEN "running" ELSE "dead"]
            \/ /\ ~MayAct(r) /\ x' = x /\ pc'[r] \in {"close", "late"}
               /\ mem'[r].ex = [mem[r].ex EXCEPT ![step[r]] = "none"]
<1> USE TypeFacts, Names
<1>1. /\ pc[r] = "landed" /\ step' = step /\ disk' = disk /\ pc[r] \in Announced
      /\ UNCHANGED <<live, lock, job, canc, id, on, typed, cont, logged, window, recovered, stopping>>
  BY DEF StartExec, past, Announced
<1>2. CASE MayAct(r)
  <2>1. /\ x' = [x EXCEPT ![r][step[r]] = IF on[r] = cont THEN "running" ELSE "dead"]
        /\ pc' = [pc EXCEPT ![r] = "waiting"] /\ mem' = mem
    BY <1>2 DEF StartExec
  <2>2. /\ x'[r] = [x[r] EXCEPT ![step[r]] = IF on[r] = cont THEN "running" ELSE "dead"]
        /\ \A q \in Requests \ {r} : x'[q] = x[q]
    BY <2>1
  <2>3. Only(r) /\ SameFate(r) /\ pc'[r] = "waiting" /\ mem'[r] = mem[r]
    BY <2>1 DEF Only, SameFate
  <2> QED BY <1>1, <1>2, <2>2, <2>3 DEF Executes, Around, GoesOn, Announced
<1>3. CASE ~MayAct(r)
  <2> DEFINE without == [mem[r] EXCEPT !.ex[step[r]] = "none"]
  <2>1. Outcome(r, without, Refused(without)) /\ x' = x
    BY <1>3 DEF StartExec
  <2>2. /\ without \in Record /\ without.req = mem[r].req /\ without.phase = mem[r].phase
        /\ without.state = mem[r].state /\ without.result = mem[r].result
        /\ without.ex = [mem[r].ex EXCEPT ![step[r]] = "none"]
    <3>1. mem[r] \in Record /\ step[r] \in Step
      OBVIOUS
    <3> QED BY <3>1 DEF Record
  <2> HIDE DEF without
  <2>3. Only(r) /\ mem'[r].req = mem[r].req /\ mem'[r].ex = without.ex /\ (Reports(r) \/ Ends(r))
    <3>1. PICK act \in {Failed(without), Uncertain(without)} : Refused(without) = act
      BY <2>2, RefusedFields
    <3>2. /\ act \in Record /\ act.req = mem[r].req /\ act.ex = without.ex
          /\ act.phase \in {"completed", "cancelled"}
          /\ \/ act.result = "failed" /\ act.state = "final"
             \/ act.result = mem[r].result /\ act.state \in {"uncertain", "entered"}
      BY <2>2, <3>1, FailedFields, UncertainFields
    <3> QED BY <2>1, <2>2, <3>1, <3>2, OutcomeEffect
  <2> QED BY <1>1, <1>3, <2>1, <2>2, <2>3 DEF Executes, Around, Reports, Ends
<1> QED BY <1>2, <1>3

SetAt(rec, s, e) == [rec EXCEPT !.ex[s] = e]

\* What an exec's answer does to its operation.
LEMMA AnswerEffect ==
  ASSUME Types, NEW r \in Requests, ExecAnswers(r)
  PROVE  /\ pc[r] = "waiting" /\ Executes(r) /\ disk' = disk /\ step' = step /\ x' = x
         /\ \/ pc'[r] \in {"close", "late"} /\ mem'[r].ex = mem[r].ex /\ mem'[r].result = mem[r].result
            \/ /\ pc'[r] \in {"close", "late"} /\ x[r][step[r]] = "err"
               /\ mem'[r].ex = [mem[r].ex EXCEPT ![step[r]] = "err"]
            \/ /\ pc'[r] \in {"close", "late"} /\ x[r][step[r]] = "ok"
               /\ mem'[r].ex = [mem[r].ex EXCEPT ![step[r]] = "ok"] /\ mem'[r].result = mem[r].result
            \/ /\ pc'[r] = "seen" /\ x[r][step[r]] = "ok" /\ step[r] # Enter
               /\ mem'[r].ex = [mem[r].ex EXCEPT ![step[r]] = "ok"]
<1> USE TypeFacts, Names
<1>1. /\ pc[r] = "waiting" /\ step' = step /\ disk' = disk /\ x' = x /\ pc[r] \in Announced
      /\ UNCHANGED <<live, lock, job, canc, id, on, typed, cont, logged, window, recovered, stopping>>
  BY DEF ExecAnswers, past, world, Announced
<1> DEFINE rec(e) == [mem[r] EXCEPT !.ex[step[r]] = e]
           entered == [rec("ok") EXCEPT !.phase = "completed", !.state = "entered"]
<1>2. \/ Outcome(r, mem[r], Uncertain(mem[r]))
      \/ x[r][step[r]] = "err" /\ Outcome(r, rec("err"), Failed(rec("err")))
      \/ x[r][step[r]] = "ok" /\ Outcome(r, rec("ok"), entered)
      \/ /\ x[r][step[r]] = "ok" /\ step[r] # Enter /\ mem' = [mem EXCEPT ![r] = rec("ok")]
         /\ pc' = [pc EXCEPT ![r] = IF mem[r].phase = "active" THEN "seen" ELSE "late"]
  BY DEF ExecAnswers
<1>3. ASSUME NEW e \in {"ok", "err"}
      PROVE  /\ rec(e) \in Record /\ rec(e).req = mem[r].req /\ rec(e).phase = mem[r].phase
             /\ rec(e).state = mem[r].state /\ rec(e).result = mem[r].result
             /\ rec(e).ex = [mem[r].ex EXCEPT ![step[r]] = e]
  <2>1. mem[r] \in Record /\ step[r] \in Step
    OBVIOUS
  <2>2. rec(e) = SetAt(mem[r], step[r], e)
    BY DEF SetAt
  <2>3. ASSUME NEW old \in Record, NEW s \in Step
        PROVE  /\ SetAt(old, s, e) \in Record /\ SetAt(old, s, e).req = old.req
               /\ SetAt(old, s, e).phase = old.phase /\ SetAt(old, s, e).state = old.state
               /\ SetAt(old, s, e).result = old.result
               /\ SetAt(old, s, e).ex = [old.ex EXCEPT ![s] = e]
    BY DEF SetAt, Record
  <2>4. mem[r] \in Record /\ step[r] \in Step =>
           /\ SetAt(mem[r], step[r], e) \in Record /\ SetAt(mem[r], step[r], e).req = mem[r].req
           /\ SetAt(mem[r], step[r], e).phase = mem[r].phase /\ SetAt(mem[r], step[r], e).state = mem[r].state
           /\ SetAt(mem[r], step[r], e).result = mem[r].result
           /\ SetAt(mem[r], step[r], e).ex = [mem[r].ex EXCEPT ![step[r]] = e]
    BY <2>3
  <2> HIDE DEF rec
  <2> QED BY <2>1, <2>2, <2>4
<1>4. /\ entered \in Record /\ entered.req = mem[r].req /\ entered.ex = rec("ok").ex
      /\ entered.result = mem[r].result /\ entered.phase = "completed" /\ entered.state = "entered"
  <2>1. rec("ok") \in Record /\ rec("ok").req = mem[r].req /\ rec("ok").result = mem[r].result
    BY <1>3
  <2> HIDE DEF rec
  <2> QED BY <2>1, EnteredFields, ZenonT(40)
<1> HIDE DEF rec, entered
<1>5. CASE Outcome(r, mem[r], Uncertain(mem[r]))
  <2>1. /\ Only(r) /\ mem'[r].req = mem[r].req /\ mem'[r].ex = mem[r].ex /\ (Reports(r) \/ Ends(r))
        /\ pc'[r] = "close" => mem'[r] = Uncertain(mem[r])
        /\ pc'[r] = "late" => mem'[r] = mem[r]
    BY <1>5, OutcomeEffect, UncertainFields
  <2>2. mem'[r].result = mem[r].result
    BY <2>1, UncertainFields DEF Reports, Ends
  <2> QED BY <1>1, <2>1, <2>2 DEF Executes, Around, Reports, Ends
<1>6. CASE x[r][step[r]] = "err" /\ Outcome(r, rec("err"), Failed(rec("err")))
  <2>1. Only(r) /\ mem'[r].req = mem[r].req /\ mem'[r].ex = rec("err").ex /\ (Reports(r) \/ Ends(r))
    BY <1>3, <1>6, OutcomeEffect, FailedFields
  <2> QED BY <1>1, <1>3, <1>6, <2>1 DEF Executes, Around, Reports, Ends
<1>7. CASE x[r][step[r]] = "ok" /\ Outcome(r, rec("ok"), entered)
  <2>1. /\ Only(r) /\ mem'[r].req = mem[r].req /\ mem'[r].ex = rec("ok").ex /\ (Reports(r) \/ Ends(r))
        /\ pc'[r] = "close" => mem'[r] = entered
        /\ pc'[r] = "late" => mem'[r] = rec("ok")
    BY <1>3, <1>4, <1>7, OutcomeEffect
  <2>2. mem'[r].result = mem[r].result
    BY <1>3, <1>4, <2>1 DEF Reports, Ends
  <2> QED BY <1>1, <1>3, <1>7, <2>1, <2>2 DEF Executes, Around, Reports, Ends
<1>8. CASE /\ x[r][step[r]] = "ok" /\ step[r] # Enter /\ mem' = [mem EXCEPT ![r] = rec("ok")]
           /\ pc' = [pc EXCEPT ![r] = IF mem[r].phase = "active" THEN "seen" ELSE "late"]
  <2>1. /\ mem'[r] = rec("ok") /\ Only(r)
        /\ IF mem[r].phase = "active" THEN pc'[r] = "seen" ELSE pc'[r] = "late"
    BY <1>8 DEF Only
  <2>2. mem'[r].req = mem[r].req /\ mem'[r].ex = [mem[r].ex EXCEPT ![step[r]] = "ok"] /\ SameFate(r)
    BY <1>3, <2>1 DEF SameFate
  <2> QED BY <1>1, <1>8, <2>1, <2>2 DEF Executes, Around, Reports, GoesOn, Announced, SameFate
<1> QED BY <1>2, <1>5, <1>6, <1>7, <1>8

\* What the judgement of the pane does to its operation.
LEMMA ProceedEffect ==
  ASSUME Types, NEW r \in Requests, Proceed(r)
  PROVE  /\ pc[r] = "seen" /\ Executes(r) /\ disk' = disk /\ x' = x /\ mem'[r].ex = mem[r].ex
         /\ \/ pc'[r] \in {"close", "late"} /\ step' = step
            \/ /\ mem'[r] = mem[r] /\ mem[r].phase = "active" /\ pc'[r] = "create"
               /\ step'[r] = step[r] + 1
<1> USE TypeFacts, Names
<1>1. /\ pc[r] = "seen" /\ disk' = disk /\ x' = x /\ pc[r] \in Announced
      /\ UNCHANGED <<live, lock, job, canc, id, on, typed, cont, logged, window, recovered, stopping>>
  BY DEF Proceed, past, world, Announced
<1>2. CASE Outcome(r, mem[r], Failed(mem[r])) /\ UNCHANGED step
  <2>1. Only(r) /\ mem'[r].req = mem[r].req /\ mem'[r].ex = mem[r].ex /\ (Reports(r) \/ Ends(r))
    BY <1>2, OutcomeEffect, FailedFields
  <2> QED BY <1>1, <1>2, <2>1 DEF Executes, Around, Reports, Ends
<1>3. CASE mem[r].phase = "active" /\ step' = [step EXCEPT ![r] = @ + 1]
           /\ pc' = [pc EXCEPT ![r] = "create"] /\ UNCHANGED mem
  <2>1. /\ Only(r) /\ SameFate(r) /\ mem'[r] = mem[r] /\ pc'[r] = "create"
        /\ step'[r] = step[r] + 1 /\ \A q \in Requests \ {r} : step'[q] = step[q]
    BY <1>3 DEF Only, SameFate
  <2> QED BY <1>1, <1>3, <2>1 DEF Executes, Around, GoesOn, Announced
<1> QED BY <1>2, <1>3 DEF Proceed

\* A procedure changes nothing but its operation's record,
Procedure ==
  /\ job.pc # "idle" /\ job.op \in Obj /\ Op \in Record
  /\ \A p \in Obj \ {job.op} : mem'[p] = mem[p]
  /\ mem'[job.op] \in Record /\ mem'[job.op].req = Op.req
  /\ UNCHANGED <<step, canc, id, on, x, typed, cont, recovered, stopping>>
\* goes on,
Goes(points) ==
  /\ job'.pc \in points /\ job'.by = job.by /\ job'.op = job.op /\ job'.req = job.req
  /\ UNCHANGED <<lock, pc>>
\* and writes the record it made, if it writes.
Writes == disk' \in {disk, mem'[job.op]} /\ UNCHANGED <<live, logged, window>>

\* A step on the record of the procedure's object is one of the procedure.
LEMMA ProcedureFacts ==
  ASSUME Types, job.pc # "idle", UNCHANGED <<step, canc, id, on, x, typed, cont, recovered, stopping>>,
         mem' = mem \/ \E rec \in Record : rec.req = Op.req /\ mem' = [mem EXCEPT ![job.op] = rec]
  PROVE  Procedure
<1>1. job.op \in Obj /\ mem \in [Obj -> Record]
  BY TypeFacts DEF Types, Held, JobRecord
<1> QED BY <1>1 DEF Procedure, Op

\* A procedure that moves on goes on.
LEMMA GoesFacts ==
  ASSUME Types, NEW p, Goto(p),
         p \in {"adopt", "declare", "late", "settle", "derive", "ack", "conclude", "release", "mark", "remove"}
  PROVE  Goes({p})
BY GotoFacts DEF Goes

\* The object of a procedure, and its record.
LEMMA OpFacts ==
  ASSUME Types, job.pc # "idle"
  PROVE  job.op \in Obj /\ Op \in Record /\ mem \in [Obj -> Record]
BY TypeFacts DEF Types, Held, JobRecord, Op

\* What adopting a record does (recoverOne, resolve).
LEMMA AdoptEffect ==
  ASSUME Types, NEW ok \in BOOLEAN, JobAdopts(ok)
  PROVE  /\ job.pc = "adopt" /\ Procedure /\ Writes
         /\ \/ /\ Op.phase = "active" /\ mem'[job.op] = Cancelled(Op)
               /\ (Goes({"declare", "settle"}) /\ disk' = mem'[job.op]) \/ Ended(FALSE)
            \/ /\ Op.phase # "active" /\ mem'[job.op] = Op /\ disk' = disk /\ Goes({"declare", "settle"})
<1>1. job.pc = "adopt" /\ UNCHANGED <<live, step, canc, id, on, x, typed, cont, logged, window, recovered, stopping>>
  BY DEF JobAdopts, world, past
<1>2. job.op \in Obj /\ Op \in Record /\ mem \in [Obj -> Record]
  BY <1>1, OpFacts
<1>3. ASSUME NEW p \in {"declare", "settle"}, Goto(p) PROVE Goes({"declare", "settle"})
  BY <1>3, GoesFacts DEF Goes
<1>4. CASE Op.phase = "active"
  <2>1. /\ mem' = [mem EXCEPT ![job.op] = Cancelled(Op)] /\ Save(mem'[job.op], ok)
        /\ IF ok THEN Goto(IF job.declare THEN "declare" ELSE "settle") ELSE EndJob(FALSE)
    BY <1>4 DEF JobAdopts, Op
  <2>2. mem'[job.op] = Cancelled(Op) /\ Cancelled(Op) \in Record /\ Cancelled(Op).req = Op.req
    BY <1>2, <2>1, CancelledFields
  <2>3. Procedure
    BY <1>1, <2>1, <2>2, ProcedureFacts
  <2>4. disk' \in {disk, mem'[job.op]} /\ (ok => disk' = mem'[job.op])
    BY <2>1, SaveFacts
  <2>5. CASE ok
    BY <1>1, <1>3, <1>4, <2>1, <2>2, <2>3, <2>4, <2>5 DEF Writes
  <2>6. CASE ~ok
    BY <1>1, <1>4, <2>1, <2>2, <2>3, <2>4, <2>6, EndFacts DEF Writes
  <2> QED BY <2>5, <2>6
<1>5. CASE Op.phase # "active"
  <2>1. mem' = mem /\ disk' = disk /\ Goto(IF job.declare THEN "declare" ELSE "settle")
    BY <1>5 DEF JobAdopts
  <2>2. Procedure /\ mem'[job.op] = Op
    BY <1>1, <2>1, ProcedureFacts DEF Op
  <2> QED BY <1>1, <1>3, <1>5, <2>1, <2>2 DEF Writes
<1> QED BY <1>4, <1>5

\* What declaring a result does (resolve).
LEMMA DeclareEffect ==
  ASSUME Types, NEW ok \in BOOLEAN, JobDeclares(ok)
  PROVE  /\ job.pc = "declare" /\ Procedure /\ Writes
         /\ \/ mem'[job.op] = Op /\ disk' = disk /\ Ended(FALSE)
            \/ /\ Op.result = "pending" /\ mem'[job.op].result = "resolved" /\ mem'[job.op].state = "final"
               /\ mem'[job.op].phase = Op.phase /\ mem'[job.op].ex = Op.ex
               /\ (Goes({"settle"}) /\ disk' = mem'[job.op]) \/ Ended(FALSE)
<1>1. job.pc = "declare" /\ UNCHANGED <<live, step, canc, id, on, x, typed, cont, logged, window, recovered, stopping>>
  BY DEF JobDeclares, world, past
<1>2. job.op \in Obj /\ Op \in Record /\ mem \in [Obj -> Record]
  BY <1>1, OpFacts
<1>3. CASE Final(Op)
  <2>1. mem' = mem /\ disk' = disk /\ EndJob(FALSE)
    BY <1>3 DEF JobDeclares
  <2>2. Procedure /\ mem'[job.op] = Op
    BY <1>1, <2>1, ProcedureFacts DEF Op
  <2> QED BY <1>1, <2>1, <2>2, EndFacts DEF Writes
<1>4. CASE ~Final(Op)
  <2> DEFINE rec == [Op EXCEPT !.result = "resolved", !.state = "final"]
  <2>1. /\ rec \in Record /\ rec.req = Op.req /\ rec.result = "resolved" /\ rec.state = "final"
        /\ rec.phase = Op.phase /\ rec.ex = Op.ex
    BY <1>2 DEF Record
  <2>2. /\ mem' = [mem EXCEPT ![job.op].result = "resolved", ![job.op].state = "final"]
        /\ Save(mem'[job.op], ok) /\ (IF ok THEN Goto("settle") ELSE EndJob(FALSE))
    BY <1>4 DEF JobDeclares
  <2>3. mem' = [mem EXCEPT ![job.op] = rec]
    BY <1>2, <2>2 DEF Op, Record
  <2> HIDE DEF rec
  <2>4. mem'[job.op] = rec /\ Op.result = "pending"
    BY <1>2, <1>4, <2>3 DEF Final
  <2>5. Procedure
    BY <1>1, <2>1, <2>3, ProcedureFacts
  <2>6. disk' \in {disk, mem'[job.op]} /\ (ok => disk' = mem'[job.op])
    BY <2>2, SaveFacts
  <2>7. (ok /\ Goes({"settle"})) \/ Ended(FALSE)
    BY <2>2, GoesFacts, EndFacts
  <2> QED BY <1>1, <2>1, <2>4, <2>5, <2>6, <2>7 DEF Writes
<1> QED BY <1>3, <1>4

\* What writing after a cancellation does (afterCancelled).
LEMMA LateEffect ==
  ASSUME Types, NEW ok \in BOOLEAN, JobLate(ok)
  PROVE  /\ job.pc = "late" /\ Procedure /\ Writes /\ mem' = mem
         /\ \/ live # job.op /\ disk' = disk /\ Ended(FALSE)
            \/ live = job.op /\ Drained(job.op) /\ Goes({"settle"})
<1>1. /\ job.pc = "late" /\ mem' = mem
      /\ UNCHANGED <<live, step, canc, id, on, x, typed, cont, logged, window, recovered, stopping>>
  BY DEF JobLate, world, past
<1>2. Procedure /\ mem'[job.op] = Op
  BY <1>1, ProcedureFacts DEF Op
<1>3. CASE live # job.op
  BY <1>1, <1>2, <1>3, EndFacts DEF JobLate, Writes
<1>4. CASE live = job.op
  <2>1. Drained(job.op) /\ Save(Op, ok) /\ Goto("settle")
    BY <1>4 DEF JobLate
  <2>2. Goes({"settle"})
    BY <2>1, GoesFacts
  <2> QED BY <1>1, <1>2, <1>4, <2>1, <2>2, SaveFacts DEF Writes
<1> QED BY <1>3, <1>4

\* What may be learnt of an exec: its exit, or that its container is gone.
Learnt(r, old, new) ==
  \A s \in Step :
    \/ new[s] = old[s]
    \/ old[s] = "pending" /\ x[r][s] \in {"ok", "err"} /\ new[s] = x[r][s]
    \/ old[s] = "pending" /\ new[s] = "gone" /\ on[r] # cont

\* What Docker says of the execs is so.
LEMMA EvidenceFacts ==
  ASSUME Types, job.pc # "idle", NEW inspected \in SUBSET Step, NEW sees \in BOOLEAN
  PROVE  Evidence(inspected, sees) \in Exs /\ Learnt(Op.req, Op.ex, Evidence(inspected, sees))
BY OpFacts, RecFields DEF Evidence, Exs, Learnt

\* What reading the execs does (settleEffects).
LEMMA SettleEffect ==
  ASSUME Types, NEW ok \in BOOLEAN, JobSettles(ok)
  PROVE  /\ job.pc = "settle" /\ Drained(job.op) /\ Procedure /\ Writes /\ Goes({"derive"})
         /\ Learnt(Op.req, Op.ex, mem'[job.op].ex)
         /\ mem'[job.op].phase = Op.phase /\ mem'[job.op].state = Op.state
         /\ mem'[job.op].result = Op.result
<1>1. /\ job.pc = "settle" /\ Drained(job.op) /\ Goto("derive")
      /\ UNCHANGED <<live, step, canc, id, on, x, typed, cont, logged, window, recovered, stopping>>
  BY DEF JobSettles, world, past
<1>2. job.op \in Obj /\ Op \in Record /\ mem \in [Obj -> Record] /\ Goes({"derive"})
  BY <1>1, OpFacts, GoesFacts
<1>3. PICK inspected \in SUBSET Step, sees \in BOOLEAN :
        \/ UNCHANGED <<disk, mem>>
        \/ mem' = [mem EXCEPT ![job.op].ex = Evidence(inspected, sees)] /\ Save(mem'[job.op], ok)
  BY DEF JobSettles
<1>4. CASE UNCHANGED <<disk, mem>>
  <2>1. Procedure /\ mem'[job.op] = Op
    BY <1>1, <1>4, ProcedureFacts DEF Op
  <2> QED BY <1>1, <1>2, <1>4, <2>1 DEF Learnt, Writes
<1>5. CASE mem' = [mem EXCEPT ![job.op].ex = Evidence(inspected, sees)] /\ Save(mem'[job.op], ok)
  <2>1. Evidence(inspected, sees) \in Exs /\ Learnt(Op.req, Op.ex, Evidence(inspected, sees))
    BY <1>1, EvidenceFacts
  <2> DEFINE rec == SetEx(Op, Evidence(inspected, sees))
  <2>2. mem' = [mem EXCEPT ![job.op] = rec]
    BY <1>2, <1>5, <2>1, ExAt DEF Op
  <2>3. /\ rec \in Record /\ rec.req = Op.req /\ rec.ex = Evidence(inspected, sees)
        /\ rec.phase = Op.phase /\ rec.state = Op.state /\ rec.result = Op.result
    BY <1>2, <2>1, SetExFields
  <2> HIDE DEF rec
  <2>4. Procedure /\ mem'[job.op] = rec
    BY <1>1, <1>2, <2>2, <2>3, ProcedureFacts
  <2>5. Writes
    BY <1>1, <1>5, SaveFacts DEF Writes
  <2> QED BY <1>1, <1>2, <2>1, <2>3, <2>4, <2>5
<1> QED BY <1>3, <1>4, <1>5

\* What deriving the state from settled execs does.
LEMMA DeriveEffect ==
  ASSUME Types, NEW ok \in BOOLEAN, JobDerives(ok)
  PROVE  /\ job.pc = "derive" /\ Procedure /\ Writes /\ mem'[job.op] = Derived(Op)
         /\ \/ Goes({"ack"}) /\ Op.result = "pending" /\ mem'[job.op].state = "entered"
            \/ Goes({"release"})
<1>1. /\ job.pc = "derive" /\ Goto(IF Derived(Op).state = "entered" /\ ~Final(Op) THEN "ack" ELSE "release")
      /\ UNCHANGED <<live, step, canc, id, on, x, typed, cont, logged, window, recovered, stopping>>
  BY DEF JobDerives, world, past
<1>2. job.op \in Obj /\ Op \in Record /\ mem \in [Obj -> Record]
  BY <1>1, OpFacts
<1>3. Derived(Op) \in Record /\ Derived(Op).req = Op.req
  BY <1>2, DerivedFields
<1>4. Procedure /\ Writes /\ mem'[job.op] = Derived(Op)
  <2>1. CASE Derived(Op) = Op
    <3>1. mem' = mem /\ disk' = disk
      BY <2>1 DEF JobDerives
    <3> QED BY <1>1, <2>1, <3>1, ProcedureFacts DEF Writes, Op
  <2>2. CASE Derived(Op) # Op
    <3>1. mem' = [mem EXCEPT ![job.op] = Derived(Op)] /\ Save(mem'[job.op], ok)
      BY <2>2 DEF JobDerives, Op
    <3>2. mem'[job.op] = Derived(Op)
      BY <1>2, <3>1
    <3> QED BY <1>1, <1>3, <3>1, <3>2, ProcedureFacts, SaveFacts DEF Writes
  <2> QED BY <2>1, <2>2
<1>5. CASE Derived(Op).state = "entered" /\ ~Final(Op)
  BY <1>1, <1>4, <1>5, GoesFacts DEF Final
<1>6. CASE ~(Derived(Op).state = "entered" /\ ~Final(Op))
  BY <1>1, <1>4, <1>6, GoesFacts
<1> QED BY <1>5, <1>6

\* What the deferred ack does (deferredAck).
LEMMA AckEffect ==
  ASSUME Types, NEW ok \in BOOLEAN, JobAcks(ok)
  PROVE  /\ job.pc = "ack" /\ Procedure /\ disk' \in {disk, mem'[job.op]}
         /\ UNCHANGED <<logged, window>>
         /\ \/ /\ mem'[job.op] = Op /\ disk' = disk /\ live' = live /\ Ended(FALSE)
            \/ /\ live \in {"none", job.op} /\ pc[job.op] \notin {"ackwait", "conclude"}
               /\ mem'[job.op] = Op /\ disk' = disk /\ live' = job.op
               /\ job' = NoJob /\ lock' = "none" /\ pc'[job.op] = "ackwait"
               /\ \A p \in Obj \ {job.op} :
                    pc'[p] = IF p = job.req /\ job.by = "recover" THEN "check" ELSE pc[p]
            \/ /\ live \in {"none", job.op} /\ live' = live /\ Goes({"release"})
               /\ mem'[job.op].state = "final" /\ mem'[job.op].result \in {"delivered", "unconfirmed"}
               /\ mem'[job.op].phase = Op.phase /\ mem'[job.op].ex = Op.ex
<1>1. job.pc = "ack" /\ UNCHANGED <<step, canc, id, on, x, typed, cont, logged, window, recovered, stopping>>
  BY DEF JobAcks, world, past
<1>2. job.op \in Obj /\ Op \in Record /\ mem \in [Obj -> Record]
  BY <1>1, OpFacts
<1> DEFINE ack == Op.req \in prompted \/ heard[job.op] = "yes"
<1>3. \/ UNCHANGED <<disk, mem, live>> /\ EndJob(FALSE)
      \/ /\ live \in {"none", job.op} /\ pc[job.op] \notin {"ackwait", "conclude"}
         /\ UNCHANGED <<disk, mem>> /\ live' = job.op /\ job' = NoJob /\ lock' = "none"
         /\ pc' = [o \in Obj |->
                     CASE o = job.op -> "ackwait"
                       [] o = job.req /\ job.by = "recover" -> "check"
                       [] OTHER -> pc[o]]
      \/ /\ live \in {"none", job.op} /\ mem' = [mem EXCEPT ![job.op] = Decided(Op, ack)]
         /\ Save(mem'[job.op], ok) /\ Goto("release") /\ live' = live
  BY DEF JobAcks, Op
<1>4. ack \in BOOLEAN
  OBVIOUS
<1> HIDE DEF ack
<1>5. CASE UNCHANGED <<disk, mem, live>> /\ EndJob(FALSE)
  BY <1>1, <1>5, EndFacts, ProcedureFacts DEF Op
<1>6. CASE /\ live \in {"none", job.op} /\ pc[job.op] \notin {"ackwait", "conclude"}
           /\ UNCHANGED <<disk, mem>> /\ live' = job.op /\ job' = NoJob /\ lock' = "none"
           /\ pc' = [o \in Obj |->
                     CASE o = job.op -> "ackwait"
                       [] o = job.req /\ job.by = "recover" -> "check"
                       [] OTHER -> pc[o]]
  <2>1. job.by = "recover" => job.req # job.op
    BY Names DEF Types, Held, Turns
  <2>2. pc'[job.op] = "ackwait"
    BY <1>2, <1>6, <2>1
  <2>3. \A p \in Obj \ {job.op} : pc'[p] = IF p = job.req /\ job.by = "recover" THEN "check" ELSE pc[p]
    BY <1>6
  <2>4. Procedure /\ mem'[job.op] = Op
    BY <1>1, <1>6, ProcedureFacts DEF Op
  <2> QED BY <1>1, <1>6, <2>2, <2>3, <2>4
<1>7. CASE /\ live \in {"none", job.op} /\ mem' = [mem EXCEPT ![job.op] = Decided(Op, ack)]
           /\ Save(mem'[job.op], ok) /\ Goto("release") /\ live' = live
  <2>1. /\ Decided(Op, ack) \in Record /\ Decided(Op, ack).req = Op.req
        /\ Decided(Op, ack).state = "final" /\ Decided(Op, ack).result \in {"delivered", "unconfirmed"}
        /\ Decided(Op, ack).phase = Op.phase /\ Decided(Op, ack).ex = Op.ex
    BY <1>2, <1>4, DecidedFields
  <2>2. mem'[job.op] = Decided(Op, ack)
    BY <1>2, <1>7
  <2>3. Procedure
    BY <1>1, <1>7, <2>1, ProcedureFacts
  <2>4. disk' \in {disk, mem'[job.op]} /\ Goes({"release"})
    BY <1>7, SaveFacts, GoesFacts
  <2> QED BY <1>1, <1>7, <2>1, <2>2, <2>3, <2>4
<1> QED BY <1>3, <1>5, <1>6, <1>7

\* What the end of the ack window does (concludeAck).
LEMMA ConcludeEffect ==
  ASSUME Types, NEW ok \in BOOLEAN, JobConcludes(ok)
  PROVE  /\ job.pc = "conclude" /\ Procedure /\ Writes
         /\ \/ live # job.op /\ mem'[job.op] = Op /\ disk' = disk /\ Ended(FALSE)
            \/ live = job.op /\ mem'[job.op] = Op /\ disk' = disk /\ Goes({"release"})
            \/ /\ live = job.op /\ Op.result = "pending" /\ Goes({"release"})
               /\ mem'[job.op].state = "final" /\ mem'[job.op].result \in {"delivered", "unconfirmed"}
               /\ mem'[job.op].phase = Op.phase /\ mem'[job.op].ex = Op.ex
<1>1. job.pc = "conclude" /\ UNCHANGED <<live, step, canc, id, on, x, typed, cont, logged, window, recovered, stopping>>
  BY DEF JobConcludes, world, past
<1>2. job.op \in Obj /\ Op \in Record /\ mem \in [Obj -> Record]
  BY <1>1, OpFacts
<1>3. job.by = "conclude" /\ job \in JobRecord
  BY <1>1 DEF Types, Turns, Held
<1>4. CASE live # job.op
  <2>1. /\ UNCHANGED <<disk, mem, pc>> /\ job' = NoJob /\ lock' = "none"
    BY <1>4 DEF JobConcludes
  <2>2. Procedure /\ mem'[job.op] = Op
    BY <1>1, <2>1, ProcedureFacts DEF Op
  <2> QED BY <1>1, <1>3, <1>4, <2>1, <2>2 DEF Ended, Writes
<1>5. CASE live = job.op
  <2> DEFINE ack == heard[job.op] = "yes"
             d == Decided(Op, ack)
  <2>1. Goes({"release"})
    <3>1. job' = [job EXCEPT !.pc = "release"] /\ UNCHANGED <<lock, pc>>
      BY <1>5 DEF JobConcludes
    <3> QED BY <1>3, <3>1, JobFields DEF Goes
  <2>2. CASE Final(Op)
    <3>1. UNCHANGED <<disk, mem>>
      BY <1>5, <2>2 DEF JobConcludes
    <3> QED BY <1>1, <1>5, <2>1, <3>1, ProcedureFacts DEF Op, Writes
  <2>3. CASE ~Final(Op)
    <3>1. mem' = [mem EXCEPT ![job.op] = d] /\ Save(d, ok) /\ ack \in BOOLEAN
      BY <1>5, <2>3 DEF JobConcludes
    <3>2. /\ d \in Record /\ d.req = Op.req /\ d.state = "final" /\ d.result \in {"delivered", "unconfirmed"}
          /\ d.phase = Op.phase /\ d.ex = Op.ex
      BY <1>2, <3>1, DecidedFields
    <3> HIDE DEF d
    <3>3. mem'[job.op] = d /\ Op.result = "pending"
      BY <1>2, <2>3, <3>1 DEF Final
    <3>4. Procedure
      BY <1>1, <3>1, <3>2, ProcedureFacts
    <3>5. Writes
      BY <1>1, <3>1, <3>3, SaveFacts DEF Writes
    <3> QED BY <1>1, <1>5, <2>1, <3>2, <3>3, <3>4, <3>5
  <2> QED BY <2>2, <2>3
<1> QED BY <1>4, <1>5

\* What a release does up to its event (tryRelease).
LEMMA ReleaseEffect ==
  ASSUME Types, JobReleases
  PROVE  /\ job.pc = "release" /\ Procedure /\ disk' = disk
         /\ \/ /\ mem'[job.op] = Op /\ live' = live /\ UNCHANGED <<logged, window>> /\ Ended(FALSE)
            \/ /\ Releasable(Op) /\ Drained(job.op) /\ OnDisk /\ ~SameId(disk, Op)
               /\ mem'[job.op] = Op /\ live' = (IF live = job.op THEN "none" ELSE live)
               /\ UNCHANGED <<logged, window>> /\ Ended(FALSE)
            \/ /\ Releasable(Op) /\ Drained(job.op) /\ (OnDisk => SameId(disk, Op))
               /\ mem'[job.op].state = "released" /\ mem'[job.op].phase = Op.phase
               /\ mem'[job.op].result = Op.result /\ mem'[job.op].ex = Op.ex /\ live' = live
               /\ \/ Op.state = "released" /\ Goes({"remove"}) /\ UNCHANGED <<logged, window>>
                  \/ /\ Op.state # "released" /\ Goes({"mark"})
                     /\ logged' = [logged EXCEPT ![Op.req] = Op.result] /\ window' = window \union {Op.req}
            \/ /\ Releasable(Op) /\ Drained(job.op) /\ (OnDisk => SameId(disk, Op))
               /\ mem'[job.op] = Op /\ live' = job.op /\ UNCHANGED <<logged, window>> /\ Ended(FALSE)
<1>1. job.pc = "release" /\ UNCHANGED <<disk, step, canc, id, on, x, typed, cont, recovered, stopping>>
  BY DEF JobReleases, world
<1>2. job.op \in Obj /\ Op \in Record /\ mem \in [Obj -> Record]
  BY <1>1, OpFacts
<1>3. ASSUME mem' = mem PROVE Procedure /\ mem'[job.op] = Op
  BY <1>1, <1>3, ProcedureFacts DEF Op
<1>4. CASE EndJob(FALSE) /\ mem' = mem /\ live' = live /\ UNCHANGED past
  BY <1>1, <1>3, <1>4, EndFacts DEF past
<1>5. CASE /\ Releasable(Op) /\ Drained(job.op) /\ OnDisk /\ ~SameId(disk, Op) /\ EndJob(FALSE)
           /\ live' = (IF live = job.op THEN "none" ELSE live) /\ UNCHANGED <<mem, past>>
  BY <1>1, <1>3, <1>5, EndFacts DEF past
<1>6. CASE /\ Releasable(Op) /\ Drained(job.op) /\ (OnDisk => SameId(disk, Op)) /\ EndJob(FALSE)
           /\ live' = job.op /\ UNCHANGED <<mem, past>>
  BY <1>1, <1>3, <1>6, EndFacts DEF past
<1>7. CASE /\ Releasable(Op) /\ Drained(job.op) /\ (OnDisk => SameId(disk, Op)) /\ live' = live
           /\ Goto(IF Op.state = "released" THEN "remove" ELSE "mark")
           /\ mem' = [mem EXCEPT ![job.op].state = "released"]
           /\ IF Op.state = "released" THEN UNCHANGED past
              ELSE /\ logged' = [logged EXCEPT ![Op.req] = Op.result]
                   /\ window' = window \union {Op.req}
  <2> DEFINE rec == [Op EXCEPT !.state = "released"]
  <2>1. /\ rec \in Record /\ rec.req = Op.req /\ rec.state = "released" /\ rec.phase = Op.phase
        /\ rec.result = Op.result /\ rec.ex = Op.ex
    BY <1>2 DEF Record
  <2>2. mem' = [mem EXCEPT ![job.op] = rec]
    BY <1>7 DEF Op
  <2> HIDE DEF rec
  <2>3. Procedure /\ mem'[job.op] = rec
    BY <1>1, <1>2, <2>1, <2>2, ProcedureFacts
  <2>4. CASE Op.state = "released"
    <3>1. Goes({"remove"}) /\ UNCHANGED <<logged, window>>
      BY <1>7, <2>4, GoesFacts DEF past
    <3> QED BY <1>1, <1>7, <2>1, <2>3, <2>4, <3>1
  <2>5. CASE Op.state # "released"
    <3>1. Goes({"mark"})
      BY <1>7, <2>5, GoesFacts
    <3> QED BY <1>1, <1>7, <2>1, <2>3, <2>5, <3>1
  <2> QED BY <2>4, <2>5
<1> QED BY <1>4, <1>5, <1>6, <1>7 DEF JobReleases

\* What writing the released record does.
LEMMA MarkEffect ==
  ASSUME Types, NEW ok \in BOOLEAN, JobMarks(ok)
  PROVE  /\ job.pc = "mark" /\ Procedure /\ Writes /\ mem' = mem /\ Goes({"remove"})
         /\ OnDisk \/ disk' = disk
<1>1. /\ job.pc = "mark" /\ mem' = mem /\ Goto("remove")
      /\ UNCHANGED <<live, step, canc, id, on, x, typed, cont, logged, window, recovered, stopping>>
  BY DEF JobMarks, world, past
<1>2. Procedure /\ mem'[job.op] = Op
  BY <1>1, ProcedureFacts DEF Op
<1>3. disk' \in {disk, Op} /\ (OnDisk \/ disk' = disk)
  BY SaveFacts DEF JobMarks
<1> QED BY <1>1, <1>2, <1>3, GoesFacts DEF Writes

\* What removing the record does.
LEMMA RemoveEffect ==
  ASSUME Types, NEW ok \in BOOLEAN, JobRemoves(ok)
  PROVE  /\ job.pc = "remove" /\ Procedure /\ mem' = mem /\ UNCHANGED <<logged, window>>
         /\ \/ disk' = Without(Op) /\ live' = "none" /\ Ended(disk' = NoRecord)
            \/ OnDisk /\ disk' = disk /\ live' = job.op /\ Ended(FALSE)
<1>1. /\ job.pc = "remove" /\ mem' = mem
      /\ UNCHANGED <<step, canc, id, on, x, typed, cont, logged, window, recovered, stopping>>
  BY DEF JobRemoves, world, past
<1>2. Procedure
  BY <1>1, ProcedureFacts
<1>3. EndJob(disk' = NoRecord) /\ (disk' = NoRecord) \in BOOLEAN
  BY DEF JobRemoves
<1>4. Ended(disk' = NoRecord)
  BY <1>3, EndFacts
<1>5. CASE ok
  BY <1>1, <1>2, <1>4, <1>5 DEF JobRemoves
<1>6. CASE ~ok
  <2>1. OnDisk /\ disk' = disk /\ live' = job.op
    BY <1>6 DEF JobRemoves
  <2>2. (disk' = NoRecord) = FALSE
    BY <2>1 DEF OnDisk
  <2>3. Ended(FALSE)
    BY <1>4, <2>2
  <2> QED BY <1>1, <1>2, <2>1, <2>3
<1> QED BY <1>5, <1>6

-----------------------------------------------------------------------------
(* Whoever is at work has a record that names its request.                  *)

\* Whoever keeps a named record stays named.
LEMMA NamedStep ==
  ASSUME Types, Whole(disk'),
         \A o \in Obj : mem'[o] = mem[o] \/ (mem'[o].req # "none" /\ mem'[o].result # "none"),
         \A o \in Obj : pc'[o] \in Busy => mem'[o].req # "none",
         live' \in {live, "none"} \/ (live' = job.op /\ job.op # "none"),
         job'.op \in {job.op, "none"} \/ (job'.op \in Obj /\ mem'[job'.op].req # "none")
  PROVE  Named'
<1>1. \A o \in Obj : Whole(mem'[o])
  BY DEF Types, Named, Whole
<1>2. \A o \in Obj : mem[o].req # "none" => mem'[o].req # "none"
  OBVIOUS
<1>3. live' # "none" => mem'[live'].req # "none"
  BY <1>2, TypeFacts DEF Types, Held, Named, JobRecord
<1>4. job'.op # "none" => mem'[job'.op].req # "none"
  BY <1>2, TypeFacts DEF Types, Named, JobRecord
<1> QED BY <1>1, <1>3, <1>4 DEF Named

\* A step of one operation, that writes no record but its own.
LEMMA NamedOwn ==
  ASSUME Types, NEW r \in Requests, Only(r), pc[r] \in Busy \/ pc'[r] \notin Busy,
         mem'[r].req = mem[r].req, pc[r] \in Busy => mem'[r].result # "none",
         pc[r] \notin Busy => mem'[r] = mem[r], Whole(disk'), live' \in {live, "none"}, job' = job
  PROVE  Named'
<1>1. \A o \in Obj : mem'[o] = mem[o] \/ (mem'[o].req # "none" /\ mem'[o].result # "none")
  BY DEF Only, Types, Named
<1>2. \A o \in Obj : pc'[o] \in Busy => mem'[o].req # "none"
  BY DEF Only, Types, Named
<1>3. live = "none" \/ live # job.op \/ job.op # "none"
  OBVIOUS
<1>4. live \in Obj \union {"none"}
  BY TypeFacts
<1>5. live' # "none" => mem'[live'].req # "none"
  BY <1>1, <1>4 DEF Types, Named
<1>6. job'.op # "none" => mem'[job'.op].req # "none"
  BY <1>1, TypeFacts DEF Types, Named, JobRecord
<1>7. \A o \in Obj : Whole(mem'[o])
  BY <1>1 DEF Types, Named, Whole
<1> QED BY <1>2, <1>5, <1>6, <1>7 DEF Named

\* A record that names its request has a result.
LEMMA NamedResult ==
  ASSUME Types, NEW o \in Obj, mem[o].req # "none"
  PROVE  mem[o].result # "none"
BY NoRecordFields DEF Types, Named, Whole

\* The executor's step keeps its record named.
LEMMA ExecutesNamed ==
  ASSUME Types, NEW r \in Requests, Executes(r), disk' = disk \/ Copy(disk', r)
  PROVE  Named'
<1>1. mem[r].req # "none" /\ mem[r].result # "none" /\ pc[r] \in Busy
  BY Names, NamedResult DEF Executes, Types, Named, Busy
<1>2. Whole(disk')
  BY <1>1 DEF Copy, Whole, Types, Named
<1>3. mem'[r].result # "none" /\ mem'[r].req = mem[r].req /\ Only(r) /\ UNCHANGED <<live, job>>
  BY <1>1 DEF Executes, Around, GoesOn, Reports, Ends, SameFate
<1> QED BY <1>1, <1>2, <1>3, NamedOwn

\* What a procedure leaves: its operation's record has a result.
LEMMA ProcedureNamed ==
  ASSUME Types, Procedure, mem'[job.op].result # "none",
         disk' \in {disk, mem'[job.op]} \/ disk' = NoRecord,
         live' \in {live, job.op, "none"}, job'.op \in {job.op, "none"},
         \A p \in Obj : pc'[p] \in Busy => pc[p] \in Busy \/ p = job.op
  PROVE  Named'
<1>1. job.op \in Obj /\ Op.req # "none" /\ job.op # "none"
  BY ComposerAssumption DEF Procedure, Types, Named, Op, Obj
<1>2. Whole(disk')
  BY <1>1 DEF Procedure, Whole, Types, Named
<1>3. \A o \in Obj : mem'[o] = mem[o] \/ (mem'[o].req # "none" /\ mem'[o].result # "none")
  BY <1>1 DEF Procedure
<1>4. \A o \in Obj : pc'[o] \in Busy => mem'[o].req # "none"
  BY <1>1, <1>3 DEF Procedure, Types, Named, Op
<1> QED BY <1>1, <1>2, <1>3, <1>4, NamedStep

\* Where everybody is after a procedure's step.
LEMMA EndedPlaces ==
  ASSUME Types, job.pc # "idle", NEW released \in BOOLEAN, Ended(released)
  PROVE  /\ \A p \in Obj : pc'[p] = pc[p] \/ (p \in Requests /\ p = job.req /\ pc'[p] \in {"check", "precond", "done"})
         /\ job'.op = "none" /\ lock' \in {lock, "none"}
<1>1. pc \in [Obj -> PcStates] /\ (job.by \in {"resend", "recover"} => job.req \in Requests)
  BY DEF Types, Places, Held
<1>2. lock' \in {lock, "none"} /\ job'.op = "none"
  BY NoJobFields DEF Ended
<1> QED BY <1>1, <1>2 DEF Ended

\* A procedure keeps the records named.
LEMMA JobNamed == Types /\ Job => Named'
<1> SUFFICES ASSUME Types, Job PROVE Named'
  OBVIOUS
<1>0. ASSUME job.pc # "idle" PROVE Op.result # "none"
  BY <1>0, OpFacts, NamedResult, ComposerAssumption DEF Types, Named, Op, Obj
<1>1. ASSUME NEW points, Goes(points)
      PROVE  job'.op = job.op /\ \A p \in Obj : pc'[p] \in Busy => pc[p] \in Busy
  BY <1>1 DEF Goes
<1>2. ASSUME job.pc # "idle", NEW released \in BOOLEAN, Ended(released)
      PROVE  job'.op = "none" /\ \A p \in Obj : pc'[p] \in Busy => pc[p] \in Busy
  BY <1>2, EndedPlaces DEF Busy, Opening, Announced, After
<1>3. ASSUME NEW ok \in BOOLEAN, JobAdopts(ok) PROVE Named'
  <2>1. /\ job.pc = "adopt" /\ Procedure /\ Writes /\ (Ended(FALSE) \/ Goes({"declare", "settle"}))
        /\ mem'[job.op] \in {Op, Cancelled(Op)}
    BY <1>3, AdoptEffect
  <2>2. mem'[job.op].result # "none"
    BY <1>0, <2>1, CancelledFields DEF Procedure
  <2> QED BY <1>1, <1>2, <2>1, <2>2, ProcedureNamed DEF Writes
<1>4. ASSUME NEW ok \in BOOLEAN, JobDeclares(ok) PROVE Named'
  <2>1. /\ job.pc = "declare" /\ Procedure /\ Writes /\ (Ended(FALSE) \/ Goes({"settle"}))
        /\ mem'[job.op] = Op \/ mem'[job.op].result = "resolved"
    BY <1>4, DeclareEffect
  <2> QED BY <1>0, <1>1, <1>2, <2>1, ProcedureNamed DEF Writes
<1>5. ASSUME NEW ok \in BOOLEAN, JobLate(ok) PROVE Named'
  <2>1. /\ job.pc = "late" /\ Procedure /\ Writes /\ (Ended(FALSE) \/ Goes({"settle"}))
        /\ mem'[job.op] = Op
    BY <1>5, LateEffect DEF Op
  <2> QED BY <1>0, <1>1, <1>2, <2>1, ProcedureNamed DEF Writes
<1>6. ASSUME NEW ok \in BOOLEAN, JobSettles(ok) PROVE Named'
  <2>1. /\ job.pc = "settle" /\ Procedure /\ Writes /\ Goes({"derive"})
        /\ mem'[job.op].result = Op.result
    BY <1>6, SettleEffect
  <2> QED BY <1>0, <1>1, <2>1, ProcedureNamed DEF Writes
<1>7. ASSUME NEW ok \in BOOLEAN, JobDerives(ok) PROVE Named'
  <2>1. /\ job.pc = "derive" /\ Procedure /\ Writes /\ (Goes({"ack"}) \/ Goes({"release"}))
        /\ mem'[job.op] = Derived(Op)
    BY <1>7, DeriveEffect
  <2>2. mem'[job.op].result # "none"
    BY <1>0, <2>1, DerivedFields DEF Procedure
  <2> QED BY <1>1, <2>1, <2>2, ProcedureNamed DEF Writes
<1>8. ASSUME NEW ok \in BOOLEAN, JobAcks(ok) PROVE Named'
  <2>1. /\ job.pc = "ack" /\ Procedure /\ disk' \in {disk, mem'[job.op]} /\ live' \in {live, job.op}
        /\ mem'[job.op] = Op \/ mem'[job.op].result \in {"delivered", "unconfirmed"}
    BY <1>8, AckEffect
  <2>2. /\ job'.op \in {job.op, "none"}
        /\ \A p \in Obj : pc'[p] \in Busy => pc[p] \in Busy \/ p = job.op
    <3>1. CASE Ended(FALSE) \/ Goes({"release"})
      BY <1>1, <1>2, <2>1, <3>1
    <3>2. CASE ~(Ended(FALSE) \/ Goes({"release"}))
      <4>1. /\ job' = NoJob
            /\ \A p \in Obj \ {job.op} :
                 pc'[p] = IF p = job.req /\ job.by = "recover" THEN "check" ELSE pc[p]
        BY <1>8, <3>2, AckEffect
      <4>2. "check" \notin Busy
        BY DEF Busy, Opening, Announced, After
      <4>3. job'.op = "none"
        BY <4>1, NoJobFields
      <4> QED BY <4>1, <4>2, <4>3
    <3> QED BY <3>1, <3>2
  <2> QED BY <1>0, <2>1, <2>2, ProcedureNamed
<1>9. ASSUME NEW ok \in BOOLEAN, JobConcludes(ok) PROVE Named'
  <2>1. /\ job.pc = "conclude" /\ Procedure /\ Writes /\ (Ended(FALSE) \/ Goes({"release"}))
        /\ mem'[job.op] = Op \/ mem'[job.op].result \in {"delivered", "unconfirmed"}
    BY <1>9, ConcludeEffect
  <2> QED BY <1>0, <1>1, <1>2, <2>1, ProcedureNamed DEF Writes
<1>10. CASE JobReleases
  <2>1. /\ job.pc = "release" /\ Procedure /\ disk' = disk /\ live' \in {live, job.op, "none"}
        /\ (Ended(FALSE) \/ Goes({"remove"}) \/ Goes({"mark"}))
        /\ mem'[job.op].result = Op.result
    BY <1>10, ReleaseEffect
  <2> QED BY <1>0, <1>1, <1>2, <2>1, ProcedureNamed
<1>11. ASSUME NEW ok \in BOOLEAN, JobMarks(ok) PROVE Named'
  <2>1. job.pc = "mark" /\ Procedure /\ Writes /\ Goes({"remove"}) /\ mem'[job.op] = Op
    BY <1>11, MarkEffect DEF Op
  <2> QED BY <1>0, <1>1, <2>1, ProcedureNamed DEF Writes
<1>12. ASSUME NEW ok \in BOOLEAN, JobRemoves(ok) PROVE Named'
  <2>1. /\ job.pc = "remove" /\ Procedure /\ mem'[job.op] = Op /\ disk' \in {disk, NoRecord}
        /\ live' \in {job.op, "none"} /\ (Ended(disk' = NoRecord) \/ Ended(FALSE))
    BY <1>12, RemoveEffect DEF Op, Without
  <2>2. (disk' = NoRecord) \in BOOLEAN
    OBVIOUS
  <2> QED BY <1>0, <1>2, <2>1, <2>2, ProcedureNamed
<1> QED BY <1>3, <1>4, <1>5, <1>6, <1>7, <1>8, <1>9, <1>10, <1>11, <1>12 DEF Job

\* Every step keeps the records named.
LEMMA NamedKept ==
  ASSUME Types, Next
  PROVE  Named'
<1> USE TypeFacts, Names
<1>0. ASSUME UNCHANGED <<disk, mem, pc, live, job>> PROVE Named'
  BY <1>0 DEF Types, Named
<1>1. \A o \in Obj : mem[o].req # "none" => mem[o].result # "none"
  BY NamedResult
\* A step to a point where nobody is at work yet, or any more.
<1>2. ASSUME NEW r \in Requests, NEW p \in PcStates \ Busy, pc' = [pc EXCEPT ![r] = p],
             mem' = mem, live' \in {live, "none"}, job' = job, Whole(disk')
      PROVE  Named'
  <2>1. Only(r) /\ pc'[r] \notin Busy /\ mem'[r] = mem[r]
    BY <1>2 DEF Only
  <2>2. pc[r] \in Busy => mem[r].result # "none"
    BY <1>1 DEF Types, Named
  <2> QED BY <1>2, <2>1, <2>2, NamedOwn
<1>3. Whole(disk)
  BY DEF Types, Named
<1>4. {"idle", "recover", "recovering", "check", "resending", "precond", "done"} \subseteq PcStates \ Busy
  BY DEF PcStates, Busy, Opening, Announced, After
<1>5. ASSUME NEW r \in Requests, Arrive(r) PROVE Named'
  BY <1>2, <1>3, <1>4, <1>5 DEF Arrive
<1>6. ASSUME OnDisk, mem' = [mem EXCEPT !["adopted"] = disk], disk' = disk, live' = live,
             live = "none", job'.op = "adopted", \A o \in Obj : pc'[o] \in Busy => pc[o] \in Busy
      PROVE  Named'
  <2>1. disk.req # "none" /\ disk.result # "none"
    BY <1>3, <1>6 DEF OnDisk, Whole
  <2>2. mem'["adopted"] = disk /\ \A o \in Obj \ {"adopted"} : mem'[o] = mem[o]
    BY <1>6
  <2>3. \A o \in Obj : pc'[o] \in Busy => mem'[o].req # "none"
    BY <1>6, <2>1, <2>2 DEF Types, Named
  <2> QED BY <1>3, <1>6, <2>1, <2>2, <2>3, NamedStep
<1>7. ASSUME NEW r \in Requests, Recover(r) PROVE Named'
  <2>1. pc[r] = "recover" /\ UNCHANGED <<disk, live>>
    BY <1>7 DEF Recover
  <2>2. CASE /\ OnDisk /\ live = "none" /\ mem' = [mem EXCEPT !["adopted"] = disk]
             /\ job' = [NoJob EXCEPT !.by = "recover", !.op = "adopted", !.pc = "adopt", !.req = r]
             /\ pc' = [pc EXCEPT ![r] = "recovering"]
    <3>1. job'.op = "adopted"
      BY <2>2 DEF NoJob
    <3>2. \A o \in Obj : pc'[o] \in Busy => pc[o] \in Busy
      BY <2>2 DEF Busy, Opening, Announced, After
    <3> QED BY <1>6, <2>1, <2>2, <3>1, <3>2
  <2>3. CASE mem' = mem /\ job' = job /\ pc' = [pc EXCEPT ![r] = "check"]
    BY <1>2, <1>3, <1>4, <2>1, <2>3
  <2> QED BY <1>7, <2>2, <2>3 DEF Recover
<1>8. ASSUME NEW r \in Requests, Check(r) PROVE Named'
  <2>1. pc[r] = "check" /\ UNCHANGED <<disk, mem, live>>
    BY <1>8 DEF Check
  <2>2. CASE job' = job /\ (pc' = [pc EXCEPT ![r] = "done"] \/ pc' = [pc EXCEPT ![r] = "precond"])
    BY <1>2, <1>3, <1>4, <2>1, <2>2
  <2>3. CASE /\ OwnFinal /\ pc' = [pc EXCEPT ![r] = "resending"]
             /\ job' = [NoJob EXCEPT !.by = "resend", !.op = live, !.pc = "release", !.req = r]
    <3>1. job'.op = live /\ live \in Obj /\ mem'[live].req # "none"
      BY <2>1, <2>3 DEF NoJob, OwnFinal, Types, Named
    <3>2. \A o \in Obj : pc'[o] \in Busy => mem'[o].req # "none"
      BY <2>1, <2>3 DEF Busy, Opening, Announced, After, Types, Named
    <3> QED BY <1>3, <2>1, <3>1, <3>2, NamedStep
  <2> QED BY <1>8, <2>2, <2>3 DEF Check
<1>9. ASSUME NEW r \in Requests, Refuse(r) PROVE Named'
  BY <1>2, <1>3, <1>4, <1>9 DEF Refuse
<1>10. ASSUME NEW r \in Requests, Prepare(r) PROVE Named'
  <2>1. /\ mem'[r] = Prepared(r) /\ \A o \in Obj \ {r} : mem'[o] = mem[o] /\ pc'[o] = pc[o]
        /\ live' = r /\ UNCHANGED <<disk, job>>
    BY <1>10 DEF Prepare
  <2>2. Prepared(r).req # "none" /\ Prepared(r).result # "none"
    BY PreparedFields
  <2>3. \A o \in Obj : Whole(mem'[o])
    BY <2>1, <2>2 DEF Whole, Types, Named
  <2>4. \A o \in Obj : (pc'[o] \in Busy \/ o = r \/ mem[o].req # "none") => mem'[o].req # "none"
    BY <2>1, <2>2 DEF Types, Named
  <2> QED BY <1>3, <2>1, <2>3, <2>4 DEF Types, Named, JobRecord
<1>11. ASSUME NEW r \in Requests, NEW p, pc[r] \in Busy, pc' = [pc EXCEPT ![r] = p],
              mem'[r].req = mem[r].req, mem'[r].result = mem[r].result,
              \A o \in Obj \ {r} : mem'[o] = mem[o], Whole(disk'), live' \in {live, "none"}, job' = job
      PROVE   Named'
  <2>1. Only(r) /\ mem'[r].result # "none"
    BY <1>1, <1>11 DEF Only, Types, Named
  <2> QED BY <1>11, <2>1, NamedOwn
<1>12. ASSUME NEW r \in Requests, NEW rec \in Older(mem[r]), NEW ok, Save(rec, ok), pc[r] \in Busy
      PROVE  Whole(disk')
  BY <1>1, <1>3, <1>12, SaveFacts, OlderFields DEF Whole, Types, Named
<1>13. ASSUME NEW r \in Requests, NEW ok \in BOOLEAN, PreparedLands(r, ok) PROVE Named'
  <2>1. pc[r] \in Busy /\ Whole(disk')
    BY <1>12, <1>13 DEF PreparedLands, Busy, Opening
  <2> QED BY <1>11, <1>13, <2>1 DEF PreparedLands
<1>14. ASSUME NEW r \in Requests, PreparedConfirmed(r) PROVE Named'
  <2>1. pc[r] \in Busy /\ UNCHANGED <<disk, live, job>>
    BY <1>14 DEF PreparedConfirmed, Busy, Opening
  <2>2. \A o \in Obj \ {r} : mem'[o] = mem[o]
    BY <1>14 DEF PreparedConfirmed
  <2>3. mem'[r].req = mem[r].req /\ mem'[r].result = mem[r].result
    <3>1. mem'[r] = mem[r] \/ mem'[r] = Cancelled(mem[r])
      BY <1>14 DEF PreparedConfirmed
    <3> QED BY <3>1, CancelledFields
  <2>4. \E p \in {"create", "stop", "withdraw"} : pc' = [pc EXCEPT ![r] = p]
    BY <1>14 DEF PreparedConfirmed
  <2> QED BY <1>3, <1>11, <2>1, <2>2, <2>3, <2>4
<1>15. ASSUME NEW r \in Requests, NEW ok \in BOOLEAN, Save(mem[r], ok), mem[r].req # "none"
      PROVE  Whole(disk')
  BY <1>1, <1>3, <1>15, SaveFacts DEF Whole
<1>16. ASSUME NEW r \in Requests, NEW ok \in BOOLEAN, StoppedAtPrepared(r, ok) PROVE Named'
  <2>1. mem[r].req # "none"
    BY <1>16 DEF StoppedAtPrepared, Busy, Opening, Types, Named
  <2> QED BY <1>2, <1>4, <1>15, <1>16, <2>1 DEF StoppedAtPrepared
<1>17. ASSUME NEW r \in Requests, NEW ok \in BOOLEAN, WithdrawPrepared(r, ok) PROVE Named'
  <2>1. disk' \in {disk, NoRecord} /\ Whole(disk')
    BY <1>3, <1>17 DEF WithdrawPrepared, Without, Whole
  <2> QED BY <1>2, <1>4, <1>17, <2>1 DEF WithdrawPrepared
<1>18. ASSUME NEW r \in Requests, CreateExec(r) PROVE Named'
  <2>0. pc[r] \in Busy /\ UNCHANGED <<disk, live, job>>
    BY <1>18 DEF CreateExec, Busy, Announced
  <2>1. CASE mem' = [mem EXCEPT ![r] = Failed(@)] /\ pc' = [pc EXCEPT ![r] = "close"]
    <3>1. mem'[r] = Failed(mem[r]) /\ Only(r)
      BY <2>1 DEF Only
    <3> QED BY <1>3, <2>0, <3>1, FailedFields, NamedOwn
  <2>2. CASE mem' = [mem EXCEPT ![r].ex[step[r]] = "pending"] /\ pc' = [pc EXCEPT ![r] = "writing"]
    <3>1. mem'[r].req = mem[r].req /\ mem'[r].result = mem[r].result /\ \A o \in Obj \ {r} : mem'[o] = mem[o]
      BY <2>2 DEF Record
    <3> QED BY <1>3, <1>11, <2>0, <2>2, <3>1
  <2>3. CASE Outcome(r, mem[r], Refused(mem[r]))
    <3>1. (mem'[r] = mem[r] \/ mem'[r] = Refused(mem[r])) /\ Only(r)
      BY <2>3 DEF Outcome, Only
    <3>2. mem'[r].req = mem[r].req /\ mem'[r].result \in {mem[r].result, "failed"}
      BY <3>1, RefusedFields, FailedFields, UncertainFields
    <3>3. mem'[r].result # "none"
      BY <1>1, <2>0, <3>2 DEF Types, Named
    <3> QED BY <1>3, <2>0, <3>1, <3>2, <3>3, NamedOwn
  <2> QED BY <1>18, <2>1, <2>2, <2>3 DEF CreateExec
<1>19. ASSUME NEW r \in Requests, ExecRecorded(r) PROVE Named'
  BY <1>19, RecordEffect, ExecutesNamed
<1>20. ASSUME NEW r \in Requests, StartExec(r) PROVE Named'
  BY <1>20, StartEffect, ExecutesNamed
<1>21. ASSUME NEW r \in Requests, ExecAnswers(r) PROVE Named'
  BY <1>21, AnswerEffect, ExecutesNamed
<1>22. ASSUME NEW r \in Requests, Proceed(r) PROVE Named'
  BY <1>22, ProceedEffect, ExecutesNamed
<1>23. ASSUME NEW r \in Requests, NEW ok \in BOOLEAN, Close(r, ok) PROVE Named'
  <2>1. pc[r] \in Busy /\ mem[r].req # "none" /\ Save(mem[r], ok) /\ UNCHANGED <<mem, live, job>>
    BY <1>23 DEF Close, Busy, After, Types, Named
  <2>2. Whole(disk')
    BY <1>15, <2>1
  <2>3. \E p \in {"release", "done", "ackwait"} : pc' = [pc EXCEPT ![r] = p]
    BY <1>23 DEF Close
  <2> QED BY <1>11, <2>1, <2>2, <2>3
<1>24. ASSUME NEW r \in Requests, THttpAnswers(r) PROVE Named'
  BY <1>0, <1>24 DEF THttpAnswers, ops
<1>25. ASSUME NEW r \in Requests, CancelActive(r) PROVE Named'
  <2>1. pc[r] \in Busy /\ mem' = [mem EXCEPT ![r] = Cancelled(@)] /\ UNCHANGED <<disk, pc, live, job>>
    BY <1>25 DEF CancelActive, Busy, Opening
  <2>2. mem'[r] = Cancelled(mem[r]) /\ Only(r) /\ mem[r].req # "none"
    BY <2>1 DEF Only, Types, Named
  <2>3. Cancelled(mem[r]).req = mem[r].req /\ Cancelled(mem[r]).result # "none"
    BY <1>1, <2>2, CancelledFields
  <2> QED BY <1>3, <2>1, <2>2, <2>3, NamedOwn
<1>26. ASSUME NEW r \in Requests, NEW ok \in BOOLEAN, CancelWritten(r, ok) PROVE Named'
  <2>1. UNCHANGED <<mem, pc, live, job>> /\ Save(mem[r], ok)
    BY <1>26 DEF CancelWritten
  <2>2. disk' \in {disk, mem[r]}
    BY <2>1, SaveFacts
  <2> QED BY <2>1, <2>2 DEF Types, Named
<1>27. ASSUME NEW r \in Requests, NEW s \in Step, ExecActs(r, s) \/ ExecEnds(r, s) PROVE Named'
  BY <1>0, <1>27 DEF ExecActs, ExecEnds, ops
<1>28. ASSUME NEW r \in Requests, PromptPersisted(r) PROVE Named'
  BY <1>0, <1>28 DEF PromptPersisted
<1>29. ASSUME NEW o \in Obj, AckWindowEnds(o) PROVE Named'
  BY <1>29 DEF AckWindowEnds, Types, Named, Busy, After
<1>30. ASSUME NEW o \in Obj, TakeLock(o) PROVE Named'
  <2>1. /\ pc[o] \in {"late", "release", "conclude"} /\ UNCHANGED <<disk, mem, live>>
        /\ pc' = [pc EXCEPT ![o] = "done"]
    BY <1>30 DEF TakeLock
  <2>2. \A p \in Obj : pc'[p] \in Busy => mem'[p].req # "none"
    BY <2>1 DEF Types, Named, Busy, Opening, Announced, After
  <2>3. job' = job \/ (job'.op = o /\ mem'[o].req # "none")
    <3>1. job' = job \/ StartJob(pc[o], o, pc[o])
      BY <1>30 DEF TakeLock
    <3>2. mem[o].req # "none"
      BY <2>1 DEF Types, Named, Busy, After
    <3> QED BY <2>1, <3>1, <3>2, StartFacts
  <2> QED BY <1>3, <2>1, <2>2, <2>3, NamedStep
<1>31. ASSUME NEW declare \in BOOLEAN, Resolve(declare) PROVE Named'
  <2>1. OnDisk /\ UNCHANGED <<disk, live, pc>>
    BY <1>31 DEF Resolve
  <2>2. CASE live # "none"
    <3>1. mem' = mem /\ job'.op = live
      BY <1>31, <2>2 DEF Resolve, NoJob
    <3> QED BY <2>1, <2>2, <3>1 DEF Types, Named
  <2>3. CASE live = "none"
    <3>1. mem' = [mem EXCEPT !["adopted"] = disk] /\ job'.op = "adopted"
      BY <1>31, <2>3 DEF Resolve, NoJob
    <3> QED BY <1>6, <2>1, <2>3, <3>1
  <2> QED BY <2>2, <2>3
<1>32. CASE Job
  BY <1>32, JobNamed
<1>33. CASE Shutdown \/ ContainerReplaced
  BY <1>0, <1>33 DEF Shutdown, ContainerReplaced, ops
<1>34. CASE Crash
  BY <1>3, <1>34, NoJobFields DEF Crash, Named, Whole, Busy, Opening, Announced, After
<1> QED
  BY <1>5, <1>7, <1>8, <1>9, <1>10, <1>13, <1>14, <1>16, <1>17, <1>18, <1>19, <1>20, <1>21, <1>22,
     <1>23, <1>24, <1>25, <1>26, <1>27, <1>28, <1>29, <1>30, <1>31, <1>32, <1>33, <1>34
  DEF Next, Executor

\* A procedure keeps the remaining types.
LEMMA JobRest == Types /\ Job => Rest'
<1> SUFFICES ASSUME Types, Job PROVE Rest'
  OBVIOUS
<1> USE Names
<1>1. job.pc # "idle" => job.op \in Obj /\ Op \in Record
  BY TypeFacts DEF Types, Held, JobRecord, Op
<1> DEFINE Ans == {"none", "refused", "uncertain", "failed", "delivered", "unconfirmed", "resolved"}
<1>2. answer \in [Requests -> Ans] /\ heard \in [Obj -> {"off", "on", "yes"}] /\ logged \in [Requests -> {"none", "failed", "delivered", "unconfirmed", "resolved"}]
  BY DEF Types, Rest
<1>3. ASSUME UNCHANGED <<step, canc, heard, id, on, world, past, recovered, stopping>>,
             answer' \in [Requests -> Ans]
      PROVE  Rest'
  BY <1>3 DEF Types, Rest, world, past
<1>4. ASSUME (\E p : Goto(p)) \/ (\E released \in BOOLEAN : EndJob(released)) PROVE answer' \in [Requests -> Ans]
  BY <1>2, <1>4 DEF Goto, EndJob, Answered
<1>5. CASE JobReleases
  <2>1. answer' \in [Requests -> Ans]
    BY <1>4, <1>5 DEF JobReleases
  <2>2. UNCHANGED <<step, canc, heard, id, on, world, recovered, stopping>>
    BY <1>5 DEF JobReleases
  <2>3. CASE UNCHANGED past
    BY <1>3, <2>1, <2>2, <2>3
  <2>4. CASE ~UNCHANGED past
    <3>1. /\ logged' = [logged EXCEPT ![Op.req] = Op.result] /\ window' = window \union {Op.req}
          /\ job.pc # "idle" /\ Releasable(Op) /\ Op \in Record
      BY <1>1, <1>5, <2>4 DEF JobReleases, past
    <3>2. Op.req \in Requests /\ Op.result \in {"failed", "delivered", "unconfirmed", "resolved"}
      BY <1>1, <3>1, RecFields, NamedResult, ComposerAssumption DEF Releasable, Final, Op, Obj, Types, Named
    <3> QED BY <1>2, <2>1, <2>2, <3>1, <3>2 DEF Types, Rest, world
  <2> QED BY <2>3, <2>4
<1>6. ASSUME NEW ok \in BOOLEAN, JobAdopts(ok) \/ JobDeclares(ok) \/ JobLate(ok) \/ JobSettles(ok) PROVE Rest'
  BY <1>3, <1>4, <1>6 DEF JobAdopts, JobDeclares, JobLate, JobSettles
<1>7. ASSUME NEW ok \in BOOLEAN, JobDerives(ok) \/ JobMarks(ok) PROVE Rest'
  BY <1>3, <1>4, <1>7 DEF JobDerives, JobMarks
<1>8. ASSUME NEW ok \in BOOLEAN, JobRemoves(ok) PROVE Rest'
  <2>1. EndJob(disk' = NoRecord) /\ (disk' = NoRecord) \in BOOLEAN
    BY <1>8 DEF JobRemoves
  <2>2. answer' \in [Requests -> Ans]
    BY <1>4, <2>1
  <2> QED BY <1>3, <1>8, <2>2 DEF JobRemoves
<1>9. ASSUME NEW ok \in BOOLEAN, JobAcks(ok) PROVE Rest'
  <2>1. answer' \in [Requests -> Ans]
    BY <1>2, <1>4, <1>9 DEF JobAcks
  <2>2. UNCHANGED <<step, canc, id, on, world, past, recovered, stopping>>
    BY <1>9 DEF JobAcks
  <2>3. heard' = heard \/ heard' = [heard EXCEPT ![job.op] = "on"]
    BY <1>9 DEF JobAcks
  <2>4. heard' \in [Obj -> {"off", "on", "yes"}]
    BY <1>2, <2>3
  <2> QED BY <2>1, <2>2, <2>4 DEF Types, Rest, world, past
<1>10. ASSUME NEW ok \in BOOLEAN, JobConcludes(ok) PROVE Rest'
  <2> DEFINE ack == heard[job.op] = "yes"
             d == Decided(Op, ack)
  <2>1. Op \in Record /\ ack \in BOOLEAN
    BY <1>1, <1>10 DEF JobConcludes
  <2>2. d.result \in {"delivered", "unconfirmed"}
    BY <2>1, DecidedFields
  <2>3. \/ answer' = Answered(job.op, IF Final(Op) THEN Op.result ELSE "uncertain")
        \/ answer' = Answered(job.op, Op.result) /\ Final(Op)
        \/ answer' = Answered(job.op, d.result)
    BY <1>10 DEF JobConcludes
  <2> HIDE DEF d, ack
  <2>4. Op.result \in {"none", "pending", "failed", "delivered", "unconfirmed", "resolved"}
    BY <2>1, RecFields
  <2>5. answer' \in [Requests -> Ans]
    BY <1>2, <2>2, <2>3, <2>4 DEF Answered, Final
  <2> QED BY <1>3, <1>10, <2>5 DEF JobConcludes
<1> QED BY <1>5, <1>6, <1>7, <1>8, <1>9, <1>10 DEF Job

\* Every step keeps the remaining types.
LEMMA RestKept ==
  ASSUME Types, Next
  PROVE  Rest'
<1> USE Names DEF Types, Rest
<1>1. ASSUME NEW r \in Requests, Arrive(r) \/ Recover(r) PROVE Rest'
  BY <1>1 DEF Arrive, Recover, world, past
<1>a. ASSUME NEW o \in Obj, NEW a \in {"refused", "uncertain", "failed", "delivered", "unconfirmed", "resolved"},
             answer' = Answered(o, a)
      PROVE  answer' \in [Requests -> {"none", "refused", "uncertain", "failed",
                              "delivered", "unconfirmed", "resolved"}]
  BY <1>a DEF Answered
<1>h. ASSUME NEW o \in Obj, heard' = Unlisten(o) PROVE heard' \in [Obj -> {"off", "on", "yes"}]
  BY <1>h DEF Unlisten
<1>2. ASSUME NEW r \in Requests, Check(r) PROVE Rest'
  <2>1. UNCHANGED <<step, canc, heard, id, on, x, typed, prompted, cont, logged, window, recovered, stopping>>
    BY <1>2 DEF Check, world, past
  <2>2. ASSUME NEW q \in Known(r), answer' = Answered(r, logged[q]) PROVE answer' \in [Requests -> {"none", "refused", "uncertain", "failed",
                              "delivered", "unconfirmed", "resolved"}]
    BY <2>2 DEF Known, Answered
  <2>3. answer' \in [Requests -> {"none", "refused", "uncertain", "failed",
                              "delivered", "unconfirmed", "resolved"}]
    BY <1>2, <1>a, <2>2 DEF Check
  <2> QED BY <2>1, <2>3
<1>3. ASSUME NEW r \in Requests, Refuse(r) \/ Prepare(r) PROVE Rest'
  BY <1>3, <1>a DEF Refuse, Prepare, world, past
<1>4. ASSUME NEW r \in Requests, NEW ok \in BOOLEAN,
             PreparedLands(r, ok) \/ StoppedAtPrepared(r, ok) \/ WithdrawPrepared(r, ok) PROVE Rest'
  BY <1>4, <1>a, <1>h DEF PreparedLands, StoppedAtPrepared, WithdrawPrepared, world, past
<1>5. ASSUME NEW r \in Requests, PreparedConfirmed(r) \/ ExecRecorded(r) \/ THttpAnswers(r) PROVE Rest'
  BY <1>5, <1>a DEF PreparedConfirmed, ExecRecorded, THttpAnswers, world, past, ops
<1>6. ASSUME NEW r \in Requests, CreateExec(r) \/ StartExec(r) PROVE Rest'
  <2>1. UNCHANGED <<step, canc, heard, id, answer, on, typed, prompted, cont, logged, window, recovered, stopping>>
    BY <1>6 DEF CreateExec, StartExec, past
  <2>2. \/ x' = x
        \/ \E v \in {"created", "running", "dead"} : x' = [x EXCEPT ![r][step[r]] = v]
    BY <1>6 DEF CreateExec, StartExec
  <2>3. x' \in [Requests -> [Step -> {"none", "created", "running", "acted", "ok", "err", "dead"}]]
    BY <2>2
  <2> QED BY <2>1, <2>3
<1>7. ASSUME NEW r \in Requests, ExecAnswers(r) PROVE Rest'
  BY <1>7 DEF ExecAnswers, world, past
<1>8. ASSUME NEW r \in Requests, Proceed(r) PROVE Rest' 
  <2>1. UNCHANGED <<canc, heard, id, answer, on, x, typed, prompted, cont, logged, window, recovered, stopping>>
    BY <1>8 DEF Proceed, world, past
  <2>2. step[r] \in Step /\ step[r] # Enter
    BY <1>8 DEF Proceed, Further
  <2>3. step[r] + 1 \in Step
    BY <2>2, ComposerAssumption DEF Step
  <2>4. step' = step \/ step' = [step EXCEPT ![r] = step[r] + 1]
    BY <1>8 DEF Proceed
  <2>5. step' \in [Requests -> Step]
    BY <2>3, <2>4
  <2> QED BY <2>1, <2>5
<1>9. ASSUME NEW r \in Requests, NEW ok \in BOOLEAN, Close(r, ok) PROVE Rest'
  BY <1>9, <1>a, <1>h DEF Close, world, past
<1>10. ASSUME NEW r \in Requests, CancelActive(r) PROVE Rest'
  BY <1>10, <1>a DEF CancelActive, world, past
<1>11. ASSUME NEW r \in Requests, NEW ok \in BOOLEAN, CancelWritten(r, ok) PROVE Rest'
  BY <1>11, <1>h DEF CancelWritten, world, past
<1>12. ASSUME NEW r \in Requests, NEW s \in Step, ExecActs(r, s) \/ ExecEnds(r, s) PROVE Rest'
  <2>1. UNCHANGED <<step, canc, heard, id, answer, on, prompted, cont, logged, window, recovered, stopping>>
    BY <1>12 DEF ExecActs, ExecEnds, past, ops
  <2>2. \E v \in {"acted", "ok", "err"} : x' = [x EXCEPT ![r][s] = v]
    BY <1>12 DEF ExecActs, ExecEnds
  <2>3. typed' \in [Requests -> SUBSET Step]
    BY <1>12 DEF ExecActs, ExecEnds
  <2>4. x' \in [Requests -> [Step -> {"none", "created", "running", "acted", "ok", "err", "dead"}]]
    BY <2>2
  <2> QED BY <2>1, <2>3, <2>4
<1>13. ASSUME NEW r \in Requests, PromptPersisted(r) PROVE Rest'
  BY <1>13 DEF PromptPersisted, past
<1>14. ASSUME NEW o \in Obj, AckWindowEnds(o) PROVE Rest'
  BY <1>14, <1>h DEF AckWindowEnds, world, past
<1>15. ASSUME NEW o \in Obj, TakeLock(o) PROVE Rest'
  BY <1>15, <1>a DEF TakeLock, world, past
<1>16. CASE Job
  BY <1>16, JobRest
<1>17. ASSUME NEW declare \in BOOLEAN, Resolve(declare) PROVE Rest'
  BY <1>17 DEF Resolve, world, past
<1>18. CASE Shutdown
  BY <1>18 DEF Shutdown, world, past, ops
<1>19. CASE ContainerReplaced
  <2>1. UNCHANGED <<step, canc, heard, id, answer, on, typed, prompted, logged, window, recovered, stopping>>
    BY <1>19 DEF ContainerReplaced, past, ops
  <2>2. cont' \in Nat
    BY <1>19 DEF ContainerReplaced
  <2>3. x' \in [Requests -> [Step -> {"none", "created", "running", "acted", "ok", "err", "dead"}]]
    BY <1>19 DEF ContainerReplaced
  <2> QED BY <2>1, <2>2, <2>3
<1>20. CASE Crash
  BY <1>20 DEF Crash, Recalled, world
<1> QED
  BY <1>1, <1>2, <1>3, <1>4, <1>5, <1>6, <1>7, <1>8, <1>9, <1>10, <1>11, <1>12, <1>13, <1>14,
     <1>15, <1>16, <1>17, <1>18, <1>19, <1>20
  DEF Next, Executor

\* The last exec is answered, never merely seen.
LEMMA FurtherKept ==
  ASSUME Types, Next
  PROVE  Further'
<1> SUFFICES ASSUME NEW q \in Requests, pc'[q] = "seen" PROVE step'[q] # Enter
  BY DEF Further
<1> USE Names, TypeFacts
<1>a. pc[q] = "seen" => step[q] # Enter
  BY DEF Types, Further
<1>0. ASSUME pc' = pc, step' = step PROVE step'[q] # Enter
  BY <1>a, <1>0
<1>1. ASSUME NEW o \in Obj, NEW p, p # "seen", pc' = [pc EXCEPT ![o] = p],
             step' = step \/ \E k : step' = [step EXCEPT ![o] = k]
      PROVE  step'[q] # Enter
  <2>1. o # q /\ pc[q] = "seen"
    BY <1>1
  <2> QED BY <1>1, <1>a, <2>1
<1>2. ASSUME NEW r \in Requests, CreateExec(r) \/ ExecRecorded(r) \/ StartExec(r)
      PROVE  step'[q] # Enter
  <2>1. /\ step' = step
        /\ \E p \in {"writing", "landed", "waiting", "close", "late"} : pc' = [pc EXCEPT ![r] = p]
    BY <1>2 DEF CreateExec, ExecRecorded, StartExec, Outcome
  <2> QED BY <1>1, <2>1
<1>3. ASSUME NEW r \in Requests, ExecAnswers(r) PROVE step'[q] # Enter
  <2>1. /\ step' = step
        /\ \/ \E p \in {"close", "late"} : pc' = [pc EXCEPT ![r] = p]
           \/ pc' = [pc EXCEPT ![r] = "seen"] /\ step[r] # Enter
    BY <1>3 DEF ExecAnswers, Outcome
  <2> QED BY <1>a, <1>1, <2>1
<1>4. ASSUME NEW r \in Requests, Proceed(r) PROVE step'[q] # Enter
  <2>1. /\ \E p \in {"create", "close", "late"} : pc' = [pc EXCEPT ![r] = p]
        /\ step' = step \/ \E k : step' = [step EXCEPT ![r] = k]
    BY <1>4 DEF Proceed, Outcome
  <2> QED BY <1>1, <2>1
<1>5. ASSUME NEW r \in Requests,
             Arrive(r) \/ Recover(r) \/ Check(r) \/ Refuse(r) \/ Prepare(r) \/ PreparedConfirmed(r)
      PROVE  step'[q] # Enter
  <2>1. /\ step' = step
        /\ \E p \in {"recover", "check", "recovering", "done", "resending", "precond", "prepare",
                     "create", "stop", "withdraw"} : pc' = [pc EXCEPT ![r] = p]
    BY <1>5 DEF Arrive, Recover, Check, Refuse, Prepare, PreparedConfirmed
  <2> QED BY <1>1, <2>1
<1>6. ASSUME NEW r \in Requests, NEW ok \in BOOLEAN,
             PreparedLands(r, ok) \/ StoppedAtPrepared(r, ok) \/ WithdrawPrepared(r, ok) \/ Close(r, ok)
      PROVE  step'[q] # Enter
  <2>1. /\ step' = step
        /\ \E p \in {"event", "withdraw", "done", "release", "ackwait"} : pc' = [pc EXCEPT ![r] = p]
    BY <1>6 DEF PreparedLands, StoppedAtPrepared, WithdrawPrepared, Close
  <2> QED BY <1>1, <2>1
<1>7. ASSUME NEW r \in Requests, NEW ok \in BOOLEAN, NEW s \in Step,
             \/ THttpAnswers(r) \/ CancelActive(r) \/ CancelWritten(r, ok) \/ ExecActs(r, s) \/ ExecEnds(r, s)
             \/ PromptPersisted(r)
      PROVE  pc' = pc /\ step' = step
  BY <1>7 DEF THttpAnswers, CancelActive, CancelWritten, ExecActs, ExecEnds, PromptPersisted, ops
<1>8. ASSUME NEW o \in Obj, AckWindowEnds(o) \/ TakeLock(o) PROVE step'[q] # Enter
  <2>1. step' = step /\ \E p \in {"conclude", "done"} : pc' = [pc EXCEPT ![o] = p]
    BY <1>8 DEF AckWindowEnds, TakeLock
  <2> QED BY <1>1, <2>1
<1>9. CASE Job
  <2>0. ASSUME pc'[q] = pc[q], step' = step PROVE step'[q] # Enter
    BY <1>a, <2>0
  <2>1. ASSUME NEW points, Goes(points) PROVE pc'[q] = pc[q]
    BY <2>1 DEF Goes
  <2>2. ASSUME NEW released \in BOOLEAN, Ended(released), job.pc # "idle" PROVE pc'[q] = pc[q]
    BY <2>2, EndedPlaces
  <2>3. ASSUME NEW ok \in BOOLEAN, JobAdopts(ok) \/ JobDeclares(ok) \/ JobLate(ok) PROVE step'[q] # Enter
    BY <2>0, <2>1, <2>2, <2>3, AdoptEffect, DeclareEffect, LateEffect DEF Procedure
  <2>4. ASSUME NEW ok \in BOOLEAN, JobSettles(ok) \/ JobDerives(ok) \/ JobMarks(ok) PROVE step'[q] # Enter
    BY <2>0, <2>1, <2>2, <2>4, SettleEffect, DeriveEffect, MarkEffect DEF Procedure
  <2>5. ASSUME NEW ok \in BOOLEAN, JobConcludes(ok) PROVE step'[q] # Enter
    BY <2>0, <2>1, <2>2, <2>5, ConcludeEffect DEF Procedure
  <2>6. CASE JobReleases
    BY <2>0, <2>1, <2>2, <2>6, ReleaseEffect DEF Procedure
  <2>7. ASSUME NEW ok \in BOOLEAN, JobRemoves(ok) PROVE step'[q] # Enter
    <3>1. (disk' = NoRecord) \in BOOLEAN
      OBVIOUS
    <3> QED BY <2>0, <2>2, <2>7, <3>1, RemoveEffect DEF Procedure
  <2>8. ASSUME NEW ok \in BOOLEAN, JobAcks(ok) PROVE step'[q] # Enter
    <3>1. \/ (Ended(FALSE) /\ job.pc # "idle") \/ Goes({"release"})
          \/ /\ pc'[job.op] = "ackwait"
             /\ \A p \in Obj \ {job.op} :
                    pc'[p] = IF p = job.req /\ job.by = "recover" THEN "check" ELSE pc[p]
      BY <2>8, AckEffect
    <3>2. step' = step
      BY <2>8 DEF JobAcks
    <3> QED BY <1>a, <2>0, <2>1, <2>2, <3>1, <3>2
  <2> QED BY <1>9, <2>3, <2>4, <2>5, <2>6, <2>7, <2>8 DEF Job
<1>10. ASSUME NEW declare \in BOOLEAN, Resolve(declare) PROVE pc' = pc /\ step' = step
  BY <1>10 DEF Resolve
<1>11. CASE Shutdown \/ ContainerReplaced
  BY <1>0, <1>11 DEF Shutdown, ContainerReplaced, ops
<1>12. CASE Crash
  BY <1>12 DEF Crash
<1> QED
  BY <1>0, <1>2, <1>3, <1>4, <1>5, <1>6, <1>7, <1>8, <1>9, <1>10, <1>11, <1>12, Steps DEF Next, Executor

\* Every step keeps the types.
LEMMA TypesKept == Types /\ [Next]_vars => Types'
<1> SUFFICES ASSUME Types, [Next]_vars PROVE Types'
  OBVIOUS
<1>1. CASE Next
  BY <1>1, ShapeKept, HeldKept, TurnsKept, NamedKept, RestKept, FurtherKept DEF Types
<1>2. CASE UNCHANGED vars
  BY <1>2 DEF vars, ops, world, past, Types, Shape, Held, Places, Turns, Named, Rest, Further
<1> QED BY <1>1, <1>2

\* Every variable has its type, in every state.
THEOREM ComposerTypes == Spec => []TypeOK
<1>1. Spec => []Types
  BY InitTypes, TypesKept, PTL DEF Spec
<1> QED BY <1>1, TypesImply, PTL

-----------------------------------------------------------------------------
(* The invariant behind the safety properties.                              *)

Acting(r) == \E s \in Step : x[r][s] # "none"
\* A shutdown began, and whatever acts or will act has been released.
Quiet == stopping /\ \A r \in Requests : Acting(r) \/ pc[r] \in Announced => logged[r] # "none"

\* Who may still write the pane's record, or release it; the record on disk
\* is its own, or its own was released and removed.
Engaged(o) ==
  \/ o \in Requests /\ pc[o] \in Announced \union {"event", "stop"} \union After
  \/ job.op = o /\ (o \in Requests \/ job.pc # "conclude")
  \/ live = o /\ pc[o] \notin {"prepare", "withdraw"}
Mine(o) == disk.req = mem[o].req /\ (o \in Requests => live = o)
Gone(o) ==
  /\ o \in window /\ mem[o].state = "released" /\ disk.req # mem[o].req /\ live # o
  /\ job.op = o => job.pc \in {"late", "release", "conclude", "remove"}
HoldsAt(o) == Engaged(o) => Quiet \/ Mine(o) \/ Gone(o)
Holds == \A o \in Obj : HoldsAt(o)

SeatsAt(r) ==
  /\ pc[r] \in {"writing", "landed", "close"} => lock = r
  /\ pc[r] \in Announced /\ (mem[r].phase = "active" \/ r \in canc) => lock = r
  /\ pc[r] = "close" => r \notin canc /\ mem[r].phase # "active"
  /\ lock = r => /\ logged[r] = "none" /\ mem["adopted"].req # r
                 /\ pc[r] \notin {"idle", "recover", "recovering", "check"}
  /\ r \in canc => /\ mem[r].phase # "active"
                   /\ pc[r] \in Opening => stopping
                   /\ Quiet \/ (lock = r /\ Mine(r))
Seats == \A r \in Requests : SeatsAt(r)
Task ==
  /\ job.by = "resend" => id[Op.req] # id[job.req]
  /\ job.pc \in {"declare", "ack", "conclude"} => Op.phase # "active"
  /\ job.pc \in {"mark", "remove"} => Op.state = "released"
  /\ job.pc = "mark" => Quiet \/ disk.req = Op.req
  /\ job.pc = "remove" => Quiet \/ disk = NoRecord \/ disk.req = Op.req
Awaits(o) ==
  pc[o] \in {"ackwait", "conclude"} =>
    mem[o].phase # "active" \/ (job.op = o /\ job.pc = "adopt")
Procedures == Task /\ \A o \in Obj : Awaits(o)
\* Before its record is prepared nothing bears a request's name.
Fresh ==
  \A r \in Requests : pc[r] \in Before =>
    /\ ~Acting(r) /\ typed[r] = {} /\ disk.req # r /\ logged[r] = "none"
    /\ \A o \in Obj : mem[o].req # r
    /\ live # r /\ job.op # r
OpenedAt(r) ==
  /\ pc[r] \in Opening =>
       /\ live = r /\ ~Acting(r) /\ mem[r].result = "pending"
       /\ \A s \in Step : mem[r].ex[s] = "none"
  /\ pc[r] \in {"precond", "prepare"} => Quiet \/ disk = NoRecord
  /\ pc[r] = "withdraw" => Quiet \/ disk.req \in {r, "none"}
Opened == \A r \in Requests : OpenedAt(r)
\* The execs of an announced operation, as far as it has come.
CourseAt(r) ==
  /\ pc[r] \in Announced =>
       \A s \in Step : s > step[r] => mem[r].ex[s] = "none" /\ x[r][s] = "none"
  /\ pc[r] = "create" => mem[r].ex[step[r]] = "none" /\ x[r][step[r]] = "none"
  /\ pc[r] \in {"writing", "landed"} =>
       mem[r].ex[step[r]] = "pending" /\ x[r][step[r]] = "created" /\ mem[r].result = "pending"
  /\ pc[r] = "waiting" => mem[r].ex[step[r]] # "none"
  /\ pc[r] = "seen" => step[r] # Enter
  /\ pc[r] = "landed" /\ mem[r].phase = "active" => disk.ex = mem[r].ex
Course == \A r \in Requests : CourseAt(r)
\* A record says of each exec what is so.
TrueOf(rec, r) ==
  /\ \A s \in Step :
       /\ rec.ex[s] = "none" => x[r][s] \in {"none", "created"}
       /\ rec.ex[s] \in {"ok", "err"} => x[r][s] = rec.ex[s]
       /\ rec.ex[s] = "gone" => on[r] # cont
  /\ rec.result = "failed" /\ on[r] = cont => rec.ex[Enter] \notin {"pending", "ok"}
  /\ rec.state = "released" => logged[r] # "none"
TrueRec(rec) ==
  /\ rec.phase = "active" => rec.state = "prepared" /\ rec.result = "pending"
  /\ rec.req \in Requests => TrueOf(rec, rec.req)
Truth == TrueRec(disk) /\ \A o \in Obj : TrueRec(mem[o])
World ==
  \A r \in Requests :
    /\ on[r] <= cont
    /\ \A s \in Step :
         /\ x[r][s] \in {"running", "acted"} => on[r] = cont
         /\ x[r][s] = "dead" => on[r] # cont
         /\ s \in typed[r] => x[r][s] \in {"acted", "ok", "dead"}
Adopted ==
  /\ \A r \in Requests : mem["adopted"].req = r => pc[r] = "done" /\ live # r /\ job.op # r
  /\ ~recovered => \A r \in Requests :
       pc[r] \in {"idle", "recover", "done"} /\ live # r /\ job.op # r
Claimed(r) ==
  \/ lock = r \/ r \in canc \/ disk.req = r \/ r \in window
  \/ \E o \in Obj : Engaged(o) /\ mem[o].req = r
Single == \A r, q \in Requests : r # q /\ id[r] = id[q] => ~(Claimed(r) /\ Claimed(q))
Traced == \A r \in Requests : Acting(r) => disk.req = r \/ logged[r] # "none"
Freed == \A r \in Requests : mem[r].state = "released" => r \in window
Recalls == Reopened => \A r \in Requests : logged[r] # "none" => r \in window
Released ==
  \A r \in Requests :
    /\ logged[r] # "none" => \A s \in Step : x[r][s] \notin {"running", "acted"}
    /\ logged[r] = "failed" /\ on[r] = cont => Enter \notin typed[r]

IInv ==
  Types /\ Holds /\ Seats /\ Procedures /\ Fresh /\ Opened /\ Course /\ Truth /\ World
  /\ Adopted /\ Single /\ Traced /\ Released /\ Freed /\ Recalls

\* Who is engaged names a request, its own if it has one.
LEMMA EngagedNamed ==
  ASSUME Types, NEW o \in Obj, Engaged(o)
  PROVE  mem[o].req # "none" /\ mem[o].req \in Requests /\ (o \in Requests => mem[o].req = o)
<1>1. mem[o].req # "none"
  BY ComposerAssumption DEF Engaged, Types, Named, Busy, Opening, Obj
<1> QED BY <1>1, TypeFacts, RecFields DEF Types, Shape

\* The object of a procedure names a request.
LEMMA OpNamed ==
  ASSUME Types, job.pc # "idle"
  PROVE  /\ job.op \in Obj /\ mem[job.op] = Op /\ Op.req \in Requests
         /\ job.op \in Requests => Op.req = job.op
<1>1. job.op # "none" /\ job.op \in Obj /\ Op = mem[job.op] /\ Op \in Record
  BY OpFacts DEF Types, Held, Op
<1>2. Op.req # "none"
  BY <1>1 DEF Types, Named
<1> QED BY <1>1, <1>2, RecFields DEF Types, Shape

\* While a request has the lock no procedure runs, but the one it began.
LEMMA NoJobUnder ==
  ASSUME Types, NEW r \in Requests, lock = r, pc[r] # "resending"
  PROVE  job.by = "none" /\ job.op = "none" /\ job.pc = "idle"
<1>1. job.by = "none"
  BY Names DEF Types, Held, Turns, JobRecord
<1> QED BY <1>1 DEF Types, Held

\* Two that are engaged have records of two requests.
LEMMA EngagedUnique ==
  ASSUME Types, Adopted, NEW o \in Obj, NEW p \in Obj, Engaged(o), Engaged(p), mem[o].req = mem[p].req
  PROVE  o = p
<1>1. ASSUME NEW r \in Requests, mem["adopted"].req = r PROVE ~Engaged(r)
  BY <1>1 DEF Adopted, Engaged, Announced, After
<1> QED BY <1>1, EngagedNamed DEF Obj

\* What holds the lock in its active phase has its record on disk.
LEMMA ActiveMine ==
  ASSUME IInv, NEW r \in Requests, lock = r, pc[r] \in Announced
  PROVE  Mine(r) /\ ~Quiet
<1>1. logged[r] = "none" /\ Engaged(r) /\ r \in Obj
  BY Names DEF IInv, Seats, SeatsAt, Engaged
<1>2. ~Quiet
  BY <1>1 DEF Quiet
<1>3. mem[r].req = r /\ mem[r] \in Record
  BY <1>1, EngagedNamed, TypeFacts DEF IInv
<1>4. ~Gone(r)
  BY <1>1, <1>3 DEF IInv, Truth, TrueRec, TrueOf, Gone
<1> QED BY <1>1, <1>2, <1>4 DEF IInv, Holds, HoldsAt

\* A shutdown that meets an operation before its start finds nothing else.
LEMMA QuietOpening ==
  ASSUME IInv, stopping, NEW r \in Requests, pc[r] \in Opening \union {"precond"}
  PROVE  Quiet
<1> SUFFICES ASSUME ~Quiet PROVE FALSE
  OBVIOUS
<1> USE Names
<1>1. lock = r /\ logged[r] = "none" /\ ~Acting(r) /\ pc[r] \notin Announced
  BY DEF IInv, Types, Turns, Seats, SeatsAt, Opened, OpenedAt, Fresh, Before, Opening, Announced
<1>2. disk.req \in {r, "none"}
  <2>1. CASE pc[r] \in {"precond", "prepare", "withdraw"}
    BY <2>1, NoRecordFields DEF IInv, Opened, OpenedAt
  <2>2. CASE pc[r] \in {"event", "stop"}
    <3>1. Engaged(r) /\ mem[r].req = r
      BY <2>2, EngagedNamed DEF IInv, Engaged
    <3>2. ~Gone(r)
      BY <1>1, <3>1 DEF IInv, Truth, TrueRec, TrueOf, Gone
    <3> QED BY <3>1, <3>2 DEF IInv, Holds, HoldsAt, Mine
  <2> QED BY <2>1, <2>2 DEF Opening
<1>3. ASSUME NEW q \in Requests, Acting(q) PROVE logged[q] # "none"
  BY <1>1, <1>2, <1>3 DEF IInv, Traced
<1>4. ASSUME NEW q \in Requests, pc[q] \in Announced PROVE logged[q] # "none"
  <2>1. Engaged(q) /\ mem[q].req = q /\ q # r
    BY <1>1, <1>4, EngagedNamed DEF IInv, Engaged
  <2>2. Gone(q)
    BY <1>2, <2>1 DEF IInv, Holds, HoldsAt, Mine
  <2> QED BY <2>1, <2>2 DEF IInv, Truth, TrueRec, TrueOf, Gone
<1> QED BY <1>3, <1>4 DEF Quiet

-----------------------------------------------------------------------------
(* A shutdown that found nothing unreleased stays so.                       *)

\* A shutdown that found all released stays so if nothing begins to act.
LEMMA QuietStep ==
  ASSUME Quiet, stopping', Grows,
         \A r \in Requests : Acting(r)' => Acting(r) \/ pc[r] \in Announced,
         \A r \in Requests : pc'[r] \in Announced => pc[r] \in Announced
  PROVE  Quiet'
BY DEF Quiet, Grows

\* Who acts is told by the execs alone.
LEMMA ActingFrame ==
  ASSUME NEW r \in Requests, x'[r] = x[r]
  PROVE  Acting(r)' = Acting(r)
BY DEF Acting

\* An announced operation alone creates execs.
LEMMA ActingKept ==
  ASSUME Types, Regular, Next, NEW q \in Requests, Acting(q)'
  PROVE  Acting(q) \/ pc[q] \in Announced
<1> USE Names
<1>0. ASSUME x' = x PROVE Acting(q)
  BY <1>0 DEF Acting
<1>1. ASSUME NEW r \in Requests, Executes(r) PROVE Acting(q) \/ pc[q] \in Announced
  BY <1>1, ActingFrame DEF Executes, Around
<1>2. ASSUME NEW r \in Requests,
             CreateExec(r) \/ ExecRecorded(r) \/ StartExec(r) \/ ExecAnswers(r) \/ Proceed(r)
      PROVE  Acting(q) \/ pc[q] \in Announced
  BY <1>1, <1>2, CreateEffect, RecordEffect, StartEffect, AnswerEffect, ProceedEffect
<1>3. ASSUME NEW r \in Requests,
             \/ Arrive(r) \/ Recover(r) \/ Check(r) \/ Refuse(r) \/ Prepare(r)
             \/ PreparedConfirmed(r) \/ THttpAnswers(r) \/ CancelActive(r) \/ PromptPersisted(r)
      PROVE  x' = x
  BY <1>3 DEF Arrive, Recover, Check, Refuse, Prepare, PreparedConfirmed, THttpAnswers, CancelActive,
              PromptPersisted, world
<1>4. ASSUME NEW r \in Requests, NEW ok \in BOOLEAN,
             \/ PreparedLands(r, ok) \/ StoppedAtPrepared(r, ok) \/ WithdrawPrepared(r, ok)
             \/ Close(r, ok) \/ CancelWritten(r, ok)
      PROVE  x' = x
  BY <1>4 DEF PreparedLands, StoppedAtPrepared, WithdrawPrepared, Close, CancelWritten, world
<1>5. ASSUME NEW r \in Requests, NEW s \in Step, ExecActs(r, s) \/ ExecEnds(r, s) PROVE Acting(q)
  <2>1. x[r][s] # "none" /\ (q # r => x'[q] = x[q]) /\ (\A t \in Step : t # s => x'[r][t] = x[r][t])
    BY <1>5, TypeFacts DEF ExecActs, ExecEnds
  <2> QED BY <2>1 DEF Acting
<1>6. ASSUME NEW o \in Obj, AckWindowEnds(o) \/ TakeLock(o) PROVE x' = x
  BY <1>6 DEF AckWindowEnds, TakeLock, world
<1>7. CASE Job
  <2>1. x' = x
    BY <1>7 DEF Job, JobReleases, JobAdopts, JobDeclares, JobLate, JobSettles, JobDerives, JobAcks,
                JobConcludes, JobMarks, JobRemoves, world
  <2> QED BY <1>0, <2>1
<1>8. ASSUME NEW declare \in BOOLEAN, Resolve(declare) PROVE x' = x
  BY <1>8 DEF Resolve, world
<1>9. CASE Shutdown \/ Crash
  <2>1. x' = x
    BY <1>9 DEF Shutdown, Crash, world
  <2> QED BY <1>0, <2>1
<1>10. CASE ContainerReplaced
  <2>1. \A s \in Step : x[q][s] = "none" => x'[q][s] = "none"
    BY <1>10 DEF ContainerReplaced
  <2> QED BY <2>1 DEF Acting
<1> QED BY <1>0, <1>2, <1>3, <1>4, <1>5, <1>6, <1>7, <1>8, <1>9, <1>10 DEF Next, Executor

\* The confirmed event announces an operation.
LEMMA AnnouncedKept ==
  ASSUME Types, Regular, Next, NEW q \in Requests, pc'[q] \in Announced
  PROVE  pc[q] \in Announced \/ (PreparedConfirmed(q) /\ MayAct(q))
<1> USE Names, TypeFacts
<1>0. ASSUME pc' = pc PROVE pc[q] \in Announced
  BY <1>0
<1>1. ASSUME NEW o \in Obj, NEW p, p \notin Announced, pc' = [pc EXCEPT ![o] = p] PROVE pc[q] \in Announced
  BY <1>1
<1>2. ASSUME NEW r \in Requests,
             CreateExec(r) \/ ExecRecorded(r) \/ StartExec(r) \/ ExecAnswers(r) \/ Proceed(r)
      PROVE  pc[q] \in Announced
  <2>1. Executes(r)
    BY <1>2, CreateEffect, RecordEffect, StartEffect, AnswerEffect, ProceedEffect
  <2> QED BY <2>1 DEF Executes, Around, Only
<1>3. ASSUME NEW r \in Requests, Arrive(r) \/ Recover(r) \/ Check(r) \/ Refuse(r) \/ Prepare(r)
      PROVE  pc[q] \in Announced
  <2>1. \E p \in {"recover", "check", "recovering", "done", "resending", "precond", "prepare"} : pc' = [pc EXCEPT ![r] = p]
    BY <1>3 DEF Arrive, Recover, Check, Refuse, Prepare
  <2> QED BY <1>1, <2>1 DEF Announced
<1>4. ASSUME NEW r \in Requests, PreparedConfirmed(r)
      PROVE  pc[q] \in Announced \/ (PreparedConfirmed(q) /\ MayAct(q))
  <2>1. \/ MayAct(r) /\ pc' = [pc EXCEPT ![r] = "create"]
        \/ \E p \in {"stop", "withdraw"} : pc' = [pc EXCEPT ![r] = p]
    BY <1>4 DEF PreparedConfirmed
  <2> QED BY <1>1, <1>4, <2>1 DEF Announced
<1>5. ASSUME NEW r \in Requests, NEW ok \in BOOLEAN,
             PreparedLands(r, ok) \/ StoppedAtPrepared(r, ok) \/ WithdrawPrepared(r, ok) \/ Close(r, ok)
      PROVE  pc[q] \in Announced
  <2>1. \E p \in {"event", "withdraw", "done", "release", "ackwait"} : pc' = [pc EXCEPT ![r] = p]
    BY <1>5 DEF PreparedLands, StoppedAtPrepared, WithdrawPrepared, Close
  <2> QED BY <1>1, <2>1 DEF Announced
<1>6. ASSUME NEW r \in Requests, NEW ok \in BOOLEAN, NEW s \in Step,
             \/ THttpAnswers(r) \/ CancelActive(r) \/ CancelWritten(r, ok) \/ ExecActs(r, s) \/ ExecEnds(r, s)
             \/ PromptPersisted(r)
      PROVE  pc' = pc
  BY <1>6 DEF THttpAnswers, CancelActive, CancelWritten, ExecActs, ExecEnds, PromptPersisted, ops
<1>7. ASSUME NEW o \in Obj, AckWindowEnds(o) \/ TakeLock(o) PROVE pc[q] \in Announced
  <2>1. \E p \in {"conclude", "done"} : pc' = [pc EXCEPT ![o] = p]
    BY <1>7 DEF AckWindowEnds, TakeLock
  <2> QED BY <1>1, <2>1 DEF Announced
<1>8. CASE Job
  <2>1. ASSUME NEW points, Goes(points) PROVE pc[q] \in Announced
    BY <1>0, <2>1 DEF Goes
  <2>2. ASSUME NEW released \in BOOLEAN, Ended(released), job.pc # "idle" PROVE pc[q] \in Announced
    BY <2>2, EndedPlaces DEF Announced
  <2>3. ASSUME NEW ok \in BOOLEAN, JobAdopts(ok) \/ JobDeclares(ok) \/ JobLate(ok) PROVE pc[q] \in Announced
    BY <2>1, <2>2, <2>3, AdoptEffect, DeclareEffect, LateEffect
  <2>4. ASSUME NEW ok \in BOOLEAN, JobSettles(ok) \/ JobDerives(ok) \/ JobMarks(ok) PROVE pc[q] \in Announced
    BY <2>1, <2>2, <2>4, SettleEffect, DeriveEffect, MarkEffect
  <2>5. ASSUME NEW ok \in BOOLEAN, JobConcludes(ok) PROVE pc[q] \in Announced
    BY <2>1, <2>2, <2>5, ConcludeEffect
  <2>6. CASE JobReleases
    BY <2>1, <2>2, <2>6, ReleaseEffect
  <2>7. ASSUME NEW ok \in BOOLEAN, JobRemoves(ok) PROVE pc[q] \in Announced
    <3>1. (disk' = NoRecord) \in BOOLEAN
      OBVIOUS
    <3> QED BY <2>2, <2>7, <3>1, RemoveEffect
  <2>8. ASSUME NEW ok \in BOOLEAN, JobAcks(ok) PROVE pc[q] \in Announced
    <3>1. \/ (Ended(FALSE) /\ job.pc # "idle") \/ Goes({"release"})
          \/ /\ pc'[job.op] = "ackwait"
             /\ \A p \in Obj \ {job.op} :
                    pc'[p] = IF p = job.req /\ job.by = "recover" THEN "check" ELSE pc[p]
      BY <2>8, AckEffect
    <3> QED BY <2>1, <2>2, <3>1 DEF Announced
  <2> QED BY <1>8, <2>3, <2>4, <2>5, <2>6, <2>7, <2>8 DEF Job
<1>9. ASSUME NEW declare \in BOOLEAN, Resolve(declare) PROVE pc' = pc
  BY <1>9 DEF Resolve
<1>10. CASE Shutdown \/ ContainerReplaced
  BY <1>0, <1>10 DEF Shutdown, ContainerReplaced, ops
<1>11. CASE Crash
  BY <1>11 DEF Crash, Announced
<1> QED
  BY <1>0, <1>2, <1>3, <1>4, <1>5, <1>6, <1>7, <1>8, <1>9, <1>10, <1>11, Steps DEF Next, Executor

\* A release is logged, and can be looked up.
Marks ==
  /\ JobReleases /\ Releasable(Op) /\ (OnDisk => SameId(disk, Op)) /\ Op.state # "released"
  /\ logged' = [logged EXCEPT ![Op.req] = Op.result] /\ window' = window \union {Op.req}

\* A release logs the request of its record, and no other.
LEMMA MarksFacts ==
  ASSUME Types, Marks
  PROVE  /\ Op.req \in Requests /\ logged'[Op.req] # "none" /\ Grows
         /\ \A r \in Requests : r # Op.req => logged'[r] = logged[r]
<1>1. job.pc # "idle" /\ job.op \in Obj /\ job.op # "none" /\ Op \in Record
  BY ComposerAssumption, OpFacts DEF Marks, JobReleases, Obj
<1>2. Op.req \in Requests /\ Op.result # "none"
  BY <1>1, RecFields, NoRecordFields DEF Types, Named, Whole, Op
<1>3. logged \in [Requests -> {"none", "failed", "delivered", "unconfirmed", "resolved"}]
  BY DEF Types, Rest
<1> QED BY <1>2, <1>3 DEF Marks, Grows

\* Only a release logs; the index loses one only with the process.
LEMMA PastKept ==
  ASSUME Types, Regular, Next
  PROVE  \/ Marks
         \/ /\ UNCHANGED logged /\ window' \subseteq window
            /\ UNCHANGED window \/ (Crash /\ ~Reopened)
<1>0. ASSUME UNCHANGED <<logged, window>>
      PROVE  UNCHANGED logged /\ window' \subseteq window /\ UNCHANGED window
  BY <1>0
<1>1. ASSUME NEW r \in Requests,
             \/ Arrive(r) \/ Recover(r) \/ Check(r) \/ Refuse(r) \/ Prepare(r) \/ PreparedConfirmed(r)
             \/ CreateExec(r) \/ ExecRecorded(r) \/ StartExec(r) \/ ExecAnswers(r) \/ Proceed(r)
             \/ THttpAnswers(r) \/ CancelActive(r) \/ PromptPersisted(r)
      PROVE  UNCHANGED <<logged, window>>
  BY <1>1 DEF Arrive, Recover, Check, Refuse, Prepare, PreparedConfirmed, CreateExec, ExecRecorded, StartExec,
              ExecAnswers, Proceed, THttpAnswers, CancelActive, PromptPersisted, past
<1>2. ASSUME NEW r \in Requests, NEW ok \in BOOLEAN,
             \/ PreparedLands(r, ok) \/ StoppedAtPrepared(r, ok) \/ WithdrawPrepared(r, ok)
             \/ Close(r, ok) \/ CancelWritten(r, ok)
      PROVE  UNCHANGED <<logged, window>>
  BY <1>2 DEF PreparedLands, StoppedAtPrepared, WithdrawPrepared, Close, CancelWritten, past
<1>3. ASSUME NEW r \in Requests, NEW s \in Step, ExecActs(r, s) \/ ExecEnds(r, s)
      PROVE  UNCHANGED <<logged, window>>
  BY <1>3 DEF ExecActs, ExecEnds, past
<1>4. ASSUME NEW o \in Obj, AckWindowEnds(o) \/ TakeLock(o) PROVE UNCHANGED <<logged, window>>
  BY <1>4 DEF AckWindowEnds, TakeLock, past
<1>5. ASSUME NEW ok \in BOOLEAN,
             \/ JobAdopts(ok) \/ JobDeclares(ok) \/ JobLate(ok) \/ JobSettles(ok) \/ JobDerives(ok)
             \/ JobAcks(ok) \/ JobConcludes(ok) \/ JobMarks(ok) \/ JobRemoves(ok)
      PROVE  UNCHANGED <<logged, window>>
  BY <1>5 DEF JobAdopts, JobDeclares, JobLate, JobSettles, JobDerives, JobAcks, JobConcludes, JobMarks,
              JobRemoves, past
<1>6. CASE JobReleases
  BY <1>6, ReleaseEffect DEF Marks
<1>7. ASSUME NEW declare \in BOOLEAN, Resolve(declare) PROVE UNCHANGED <<logged, window>>
  BY <1>7 DEF Resolve, past
<1>8. CASE Shutdown \/ ContainerReplaced
  BY <1>8 DEF Shutdown, ContainerReplaced, past
<1>9. CASE Crash
  BY <1>9 DEF Crash, Recalled
<1> QED BY <1>0, <1>1, <1>2, <1>3, <1>4, <1>5, <1>6, <1>7, <1>8, <1>9 DEF Next, Executor, Job

\* The index loses a release only with the process.
LEMMA WindowGrows ==
  ASSUME Types, Regular, Next, ~Crash
  PROVE  window \subseteq window'
BY PastKept DEF Marks

\* A release stays logged.
LEMMA GrowsKept ==
  ASSUME Types, Regular, Next
  PROVE  Grows
BY PastKept, MarksFacts DEF Grows

\* A shutdown lasts until the process ends.
LEMMA StoppingKept ==
  ASSUME Next, ~Crash, stopping
  PROVE  stopping'
<1>1. ASSUME NEW r \in Requests,
             \/ Arrive(r) \/ Recover(r) \/ Check(r) \/ Refuse(r) \/ Prepare(r) \/ PreparedConfirmed(r)
             \/ CreateExec(r) \/ ExecRecorded(r) \/ StartExec(r) \/ ExecAnswers(r) \/ Proceed(r)
             \/ THttpAnswers(r) \/ CancelActive(r) \/ PromptPersisted(r)
      PROVE  stopping'
  BY <1>1 DEF Arrive, Recover, Check, Refuse, Prepare, PreparedConfirmed, CreateExec, ExecRecorded, StartExec,
              ExecAnswers, Proceed, THttpAnswers, CancelActive, PromptPersisted
<1>2. ASSUME NEW r \in Requests, NEW ok \in BOOLEAN,
             \/ PreparedLands(r, ok) \/ StoppedAtPrepared(r, ok) \/ WithdrawPrepared(r, ok)
             \/ Close(r, ok) \/ CancelWritten(r, ok)
      PROVE  stopping'
  BY <1>2 DEF PreparedLands, StoppedAtPrepared, WithdrawPrepared, Close, CancelWritten
<1>3. ASSUME NEW r \in Requests, NEW s \in Step, ExecActs(r, s) \/ ExecEnds(r, s) PROVE stopping'
  BY <1>3 DEF ExecActs, ExecEnds
<1>4. ASSUME NEW o \in Obj, AckWindowEnds(o) \/ TakeLock(o) PROVE stopping'
  BY <1>4 DEF AckWindowEnds, TakeLock
<1>5. ASSUME NEW ok \in BOOLEAN,
             \/ JobAdopts(ok) \/ JobDeclares(ok) \/ JobLate(ok) \/ JobSettles(ok) \/ JobDerives(ok)
             \/ JobAcks(ok) \/ JobConcludes(ok) \/ JobMarks(ok) \/ JobRemoves(ok) \/ JobReleases
      PROVE  stopping'
  BY <1>5 DEF JobAdopts, JobDeclares, JobLate, JobSettles, JobDerives, JobAcks, JobConcludes, JobMarks,
              JobRemoves, JobReleases
<1>6. ASSUME NEW declare \in BOOLEAN, Resolve(declare) PROVE stopping'
  BY <1>6 DEF Resolve
<1>7. CASE Shutdown \/ ContainerReplaced
  BY <1>7 DEF Shutdown, ContainerReplaced
<1> QED BY <1>1, <1>2, <1>3, <1>4, <1>5, <1>6, <1>7 DEF Next, Executor, Job

\* A shutdown that found nothing unreleased goes on so, until the process ends.
LEMMA QuietKept ==
  ASSUME Types, Regular, Next, ~Crash, Quiet
  PROVE  Quiet'
<1>1. stopping'
  BY StoppingKept DEF Quiet
<1>2. Grows
  BY GrowsKept
<1>3. \A r \in Requests : Acting(r)' => Acting(r) \/ pc[r] \in Announced
  BY ActingKept
<1>4. ASSUME NEW r \in Requests, pc'[r] \in Announced PROVE pc[r] \in Announced
  BY <1>4, AnnouncedKept DEF MayAct, Quiet
<1> QED BY <1>1, <1>2, <1>3, <1>4, QuietStep

-----------------------------------------------------------------------------
(* The execs in Docker, and what is released.                               *)

\* The execs keep to their container.
LEMMA WorldKept ==
  ASSUME IInv, Regular, Next
  PROVE  World'
<1> USE Names, TypeFacts DEF IInv
<1>a. on \in [Requests -> Nat] /\ cont \in Nat /\ typed \in [Requests -> SUBSET Step]
  BY DEF Types, Rest
<1>0. ASSUME UNCHANGED <<x, on, cont, typed>> PROVE World'
  BY <1>0 DEF World
<1>1. ASSUME NEW r \in Requests, Executes(r),
             \A s \in Step : \/ x'[r][s] = x[r][s] \/ (x[r][s] = "none" /\ x'[r][s] = "created")
                             \/ /\ x[r][s] = "created"
                                /\ x'[r][s] = IF on[r] = cont THEN "running" ELSE "dead"
      PROVE  World'
  <2>1. UNCHANGED <<on, cont, typed>> /\ \A q \in Requests \ {r} : x'[q] = x[q]
    BY <1>1 DEF Executes, Around
  <2> QED BY <1>1, <2>1 DEF World
<1>2. ASSUME NEW r \in Requests, CreateExec(r) PROVE World'
  <2>1. Executes(r) /\ (x'[r] = [x[r] EXCEPT ![step[r]] = "created"] \/ x' = x) /\ pc[r] = "create"
    BY <1>2, CreateEffect
  <2>2. x[r][step[r]] = "none" /\ step[r] \in Step
    BY <2>1 DEF Course, CourseAt
  <2> QED BY <1>1, <2>1, <2>2
<1>3. ASSUME NEW r \in Requests, StartExec(r) PROVE World'
  <2>1. Executes(r) /\ pc[r] = "landed"
        /\ (x'[r] = [x[r] EXCEPT ![step[r]] = IF on[r] = cont THEN "running" ELSE "dead"] \/ x' = x)
    BY <1>3, StartEffect
  <2>2. x[r][step[r]] = "created" /\ step[r] \in Step
    BY <2>1 DEF Course, CourseAt
  <2> QED BY <1>1, <2>1, <2>2
<1>4. ASSUME NEW r \in Requests, ExecRecorded(r) \/ ExecAnswers(r) \/ Proceed(r) PROVE World'
  <2>1. Executes(r) /\ x' = x
    BY <1>4, RecordEffect, AnswerEffect, ProceedEffect
  <2> QED BY <1>1, <2>1
<1>5. ASSUME NEW r \in Requests, Prepare(r) PROVE World'
  <2>1. UNCHANGED <<x, cont, typed>> /\ on' = [on EXCEPT ![r] = cont] /\ pc[r] = "precond"
    BY <1>5 DEF Prepare, world
  <2>2. ~Acting(r) /\ typed[r] = {}
    BY <2>1 DEF Fresh, Before
  <2>3. \A s \in Step : x[r][s] = "none"
    BY <2>2 DEF Acting
  <2> QED BY <1>a, <2>1, <2>2, <2>3 DEF World
<1>6. ASSUME NEW r \in Requests,
             \/ Arrive(r) \/ Recover(r) \/ Check(r) \/ Refuse(r) \/ PreparedConfirmed(r)
             \/ THttpAnswers(r) \/ CancelActive(r) \/ PromptPersisted(r)
      PROVE  UNCHANGED <<x, on, cont, typed>>
  BY <1>6 DEF Arrive, Recover, Check, Refuse, PreparedConfirmed, THttpAnswers, CancelActive,
              PromptPersisted, world
<1>7. ASSUME NEW r \in Requests, NEW ok \in BOOLEAN,
             \/ PreparedLands(r, ok) \/ StoppedAtPrepared(r, ok) \/ WithdrawPrepared(r, ok)
             \/ Close(r, ok) \/ CancelWritten(r, ok)
      PROVE  UNCHANGED <<x, on, cont, typed>>
  BY <1>7 DEF PreparedLands, StoppedAtPrepared, WithdrawPrepared, Close, CancelWritten, world
<1>8. ASSUME NEW r \in Requests, NEW s \in Step, ExecActs(r, s) PROVE World'
  BY <1>8, <1>a DEF ExecActs, World
<1>9. ASSUME NEW r \in Requests, NEW s \in Step, ExecEnds(r, s) PROVE World'
  BY <1>9, <1>a DEF ExecEnds, World
<1>10. ASSUME NEW o \in Obj, AckWindowEnds(o) \/ TakeLock(o) PROVE UNCHANGED <<x, on, cont, typed>>
  BY <1>10 DEF AckWindowEnds, TakeLock, world
<1>11. CASE Job
  <2>1. UNCHANGED <<x, on, cont, typed>>
    BY <1>11 DEF Job, JobReleases, JobAdopts, JobDeclares, JobLate, JobSettles, JobDerives, JobAcks,
                 JobConcludes, JobMarks, JobRemoves, world
  <2> QED BY <1>0, <2>1
<1>12. ASSUME NEW declare \in BOOLEAN, Resolve(declare) PROVE UNCHANGED <<x, on, cont, typed>>
  BY <1>12 DEF Resolve, world
<1>13. CASE Shutdown \/ Crash
  <2>1. UNCHANGED <<x, on, cont, typed>>
    BY <1>13 DEF Shutdown, Crash, world
  <2> QED BY <1>0, <2>1
<1>14. CASE ContainerReplaced
  <2>1. /\ UNCHANGED <<on, typed>> /\ cont' = cont + 1
        /\ \A r \in Requests, s \in Step :
             x'[r][s] = IF x[r][s] \in {"running", "acted"} THEN "dead" ELSE x[r][s]
    BY <1>14 DEF ContainerReplaced
  <2>2. \A r \in Requests : on[r] \in Nat /\ on[r] <= cont
    BY <1>a DEF World
  <2> QED BY <1>a, <2>1, <2>2 DEF World
<1> QED
  BY <1>0, <1>2, <1>3, <1>4, <1>5, <1>6, <1>7, <1>8, <1>9, <1>10, <1>11, <1>12, <1>13, <1>14
  DEF Next, Executor

\* The record that is released says of no exec that it may act.
LEMMA ReleasableIdle ==
  ASSUME IInv, job.pc # "idle", Releasable(Op)
  PROVE  /\ Op.req \in Requests
         /\ \A s \in Step : x[Op.req][s] \notin {"running", "acted"}
         /\ Op.result = "failed" /\ on[Op.req] = cont => Enter \notin typed[Op.req]
<1> USE DEF IInv
<1>1. job.op \in Obj /\ Op \in Record /\ Op.ex \in Exs /\ Op = mem[job.op]
  BY OpFacts, RecFields DEF Op
<1>2. Op.req \in Requests
  BY <1>1, OpNamed
<1>3. TrueOf(Op, Op.req)
  BY <1>1, <1>2 DEF Truth, TrueRec
<1>4. ASSUME NEW s \in Step
      PROVE  /\ x[Op.req][s] \notin {"running", "acted"}
             /\ s \in typed[Op.req] => Op.ex[s] = "ok" \/ on[Op.req] # cont
  <2>1. Op.ex[s] \in {"none", "ok", "err", "gone"}
    BY <1>1 DEF Releasable, Settled, Exs
  <2>2. CASE Op.ex[s] = "none"
    BY <1>2, <1>3, <2>2 DEF TrueOf, World
  <2>3. CASE Op.ex[s] \in {"ok", "err"}
    BY <1>2, <1>3, <2>3 DEF TrueOf, World
  <2>4. CASE Op.ex[s] = "gone"
    BY <1>2, <1>3, <2>4 DEF TrueOf, World
  <2> QED BY <2>1, <2>2, <2>3, <2>4
<1>5. Op.result = "failed" /\ on[Op.req] = cont => Enter \notin typed[Op.req]
  BY <1>3, <1>4, Steps DEF TrueOf
<1> QED BY <1>2, <1>4, <1>5

\* What was released stays without an exec that may act.
LEMMA ReleasedKept ==
  ASSUME IInv, Regular, Next
  PROVE  Released'
<1> USE Names, TypeFacts DEF IInv
<1>a. /\ on \in [Requests -> Nat] /\ cont \in Nat /\ typed \in [Requests -> SUBSET Step]
      /\ logged \in [Requests -> {"none", "failed", "delivered", "unconfirmed", "resolved"}]
  BY DEF Types, Rest
<1>0. ASSUME UNCHANGED <<x, on, cont, typed, logged>> PROVE Released'
  BY <1>0 DEF Released
<1>1. ASSUME NEW r \in Requests, Executes(r), x' = x \/ pc[r] = "create" \/ logged[r] = "none",
             \A s \in Step : x'[r][s] \in {x[r][s], "created"} \/ logged[r] = "none"
      PROVE  Released'
  <2>1. UNCHANGED <<on, cont, typed, logged, window>> /\ \A q \in Requests \ {r} : x'[q] = x[q]
    BY <1>1 DEF Executes, Around
  <2> QED BY <1>1, <2>1 DEF Released
<1>2. ASSUME NEW r \in Requests, CreateExec(r) PROVE Released'
  <2>1. Executes(r) /\ (x'[r] = [x[r] EXCEPT ![step[r]] = "created"] \/ x' = x) /\ pc[r] = "create"
    BY <1>2, CreateEffect
  <2> QED BY <1>1, <2>1
<1>3. ASSUME NEW r \in Requests, StartExec(r) PROVE Released'
  <2>1. Executes(r) /\ pc[r] = "landed" /\ (MayAct(r) \/ x' = x)
    BY <1>3, StartEffect
  <2>2. logged[r] = "none" \/ x' = x
    BY <2>1 DEF MayAct, Seats, SeatsAt, Announced
  <2> QED BY <1>1, <2>1, <2>2
<1>4. ASSUME NEW r \in Requests, ExecRecorded(r) \/ ExecAnswers(r) \/ Proceed(r) PROVE Released'
  <2>1. Executes(r) /\ x' = x
    BY <1>4, RecordEffect, AnswerEffect, ProceedEffect
  <2> QED BY <1>1, <2>1
<1>5. ASSUME NEW r \in Requests, Prepare(r) PROVE Released'
  <2>1. UNCHANGED <<x, cont, typed, logged, window>> /\ on' = [on EXCEPT ![r] = cont] /\ pc[r] = "precond"
    BY <1>5 DEF Prepare, world, past
  <2>2. logged[r] = "none"
    BY <2>1 DEF Fresh, Before
  <2> QED BY <1>a, <2>1, <2>2 DEF Released
<1>6. ASSUME NEW r \in Requests,
             \/ Arrive(r) \/ Recover(r) \/ Check(r) \/ Refuse(r) \/ PreparedConfirmed(r)
             \/ THttpAnswers(r) \/ CancelActive(r) \/ PromptPersisted(r)
      PROVE  UNCHANGED <<x, on, cont, typed, logged, window>>
  BY <1>6 DEF Arrive, Recover, Check, Refuse, PreparedConfirmed, THttpAnswers, CancelActive,
              PromptPersisted, world, past
<1>7. ASSUME NEW r \in Requests, NEW ok \in BOOLEAN,
             \/ PreparedLands(r, ok) \/ StoppedAtPrepared(r, ok) \/ WithdrawPrepared(r, ok)
             \/ Close(r, ok) \/ CancelWritten(r, ok)
      PROVE  UNCHANGED <<x, on, cont, typed, logged, window>>
  BY <1>7 DEF PreparedLands, StoppedAtPrepared, WithdrawPrepared, Close, CancelWritten, world, past
<1>8. ASSUME NEW r \in Requests, NEW s \in Step, ExecActs(r, s) PROVE Released'
  <2>1. /\ UNCHANGED <<on, cont, logged, window>> /\ x[r][s] = "running"
        /\ x' = [x EXCEPT ![r][s] = "acted"] /\ typed' = [typed EXCEPT ![r] = @ \union {s}]
    BY <1>8 DEF ExecActs, past
  <2>2. logged[r] = "none"
    BY <2>1 DEF Released
  <2> QED BY <1>a, <2>1, <2>2 DEF Released
<1>9. ASSUME NEW r \in Requests, NEW s \in Step, ExecEnds(r, s) PROVE Released'
  BY <1>9, <1>a DEF ExecEnds, Released, past
<1>10. ASSUME NEW o \in Obj, AckWindowEnds(o) \/ TakeLock(o) PROVE UNCHANGED <<x, on, cont, typed, logged, window>>
  BY <1>10 DEF AckWindowEnds, TakeLock, world, past
<1>11. CASE Job
  <2>1. UNCHANGED <<x, on, cont, typed>>
    BY <1>11 DEF Job, JobReleases, JobAdopts, JobDeclares, JobLate, JobSettles, JobDerives, JobAcks,
                 JobConcludes, JobMarks, JobRemoves, world
  <2>2. CASE Marks
    <3>1. job.pc # "idle" /\ Releasable(Op)
      BY <2>2 DEF Marks, JobReleases
    <3> QED BY <1>a, <2>1, <2>2, <3>1, ReleasableIdle DEF Marks, Released
  <2> QED BY <1>0, <2>1, <2>2, PastKept
<1>12. ASSUME NEW declare \in BOOLEAN, Resolve(declare) PROVE UNCHANGED <<x, on, cont, typed, logged, window>>
  BY <1>12 DEF Resolve, world, past
<1>13. CASE Shutdown
  BY <1>0, <1>13 DEF Shutdown, world, past
<1>14. CASE ContainerReplaced
  <2>1. /\ UNCHANGED <<on, typed, logged, window>> /\ cont' = cont + 1
        /\ \A r \in Requests, s \in Step :
             x'[r][s] = IF x[r][s] \in {"running", "acted"} THEN "dead" ELSE x[r][s]
    BY <1>14 DEF ContainerReplaced, past
  <2>2. \A r \in Requests : on[r] \in Nat /\ on[r] <= cont
    BY <1>a DEF World
  <2> QED BY <1>a, <2>1, <2>2 DEF Released
<1>15. CASE Crash
  BY <1>0, <1>15 DEF Crash, world
<1> QED
  BY <1>0, <1>2, <1>3, <1>4, <1>5, <1>6, <1>7, <1>8, <1>9, <1>10, <1>11, <1>12, <1>13, <1>14, <1>15
  DEF Next, Executor

-----------------------------------------------------------------------------
(* What the records say of the execs is so.                                 *)

NewTrueOf(rec, r) ==
  /\ \A s \in Step :
       /\ rec.ex[s] = "none" => x'[r][s] \in {"none", "created"}
       /\ rec.ex[s] \in {"ok", "err"} => x'[r][s] = rec.ex[s]
       /\ rec.ex[s] = "gone" => on'[r] # cont'
  /\ rec.result = "failed" /\ on'[r] = cont' => rec.ex[Enter] \notin {"pending", "ok"}
  /\ rec.state = "released" => logged'[r] # "none"
NewTrue(rec) ==
  /\ rec.phase = "active" => rec.state = "prepared" /\ rec.result = "pending"
  /\ rec.req \in Requests => NewTrueOf(rec, rec.req)

\* Records that are all true of the next state.
LEMMA TruthStep ==
  ASSUME NewTrue(disk'), \A o \in Obj : NewTrue(mem'[o])
  PROVE  Truth'
BY DEF Truth, TrueRec, TrueOf, NewTrue, NewTrueOf

\* A record stays true while the execs and the container stay.
LEMMA StaysTrue ==
  ASSUME NEW rec, TrueRec(rec), UNCHANGED <<x, on, cont>>, Grows
  PROVE  NewTrue(rec)
BY DEF Grows, TrueRec, TrueOf, NewTrue, NewTrueOf

\* The blank record is true.
LEMMA BlankTrue == NewTrue(NoRecord)
BY NoRecordFields, Names DEF NewTrue

\* A record that says of the execs what a true one says.
LEMMA HeirTrue ==
  ASSUME NEW old, NEW rec, NewTrue(old), rec.req = old.req, rec.ex = old.ex, rec.result = old.result,
         rec.phase = "active" => rec.state = "prepared" /\ rec.result = "pending",
         rec.state = "released" => old.state = "released"
  PROVE  NewTrue(rec)
BY DEF NewTrue, NewTrueOf

\* The records stay true when they, and the execs, stay.
LEMMA TruthFrame ==
  ASSUME Truth, UNCHANGED <<x, on, cont>>, Grows,
         disk' = disk \/ NewTrue(disk'),
         \A o \in Obj : mem'[o] = mem[o] \/ mem'[o] = disk \/ NewTrue(mem'[o])
  PROVE  Truth'
BY StaysTrue, TruthStep DEF Truth

\* A procedure's step, whose record is true.
LEMMA ProcedureTrue ==
  ASSUME Truth, Procedure, Grows, NewTrue(mem'[job.op]),
         disk' \in {disk, mem'[job.op]} \/ disk' = NoRecord
  PROVE  Truth'
<1>1. \A o \in Obj : mem'[o] = mem[o] \/ NewTrue(mem'[o])
  BY DEF Procedure
<1>2. disk' = disk \/ NewTrue(disk')
  BY BlankTrue
<1> QED BY <1>1, <1>2, TruthFrame DEF Procedure

\* A procedure keeps the truth of the records.
LEMMA JobTruth ==
  ASSUME IInv, Regular, Job
  PROVE  Truth'
<1> USE DEF IInv
<1>1. Grows
  BY GrowsKept DEF Next
<1>2. ASSUME Procedure PROVE NewTrue(Op) /\ Op \in Record /\ Op.ex \in Exs
  BY <1>1, <1>2, StaysTrue, RecFields DEF Procedure, Truth, Op
<1>3. ASSUME Procedure, mem'[job.op] = Op, disk' \in {disk, mem'[job.op]} \/ disk' = NoRecord PROVE Truth'
  BY <1>1, <1>2, <1>3, ProcedureTrue
<1>4. ASSUME NEW ok \in BOOLEAN, JobAdopts(ok) PROVE Truth'
  <2>1. Procedure /\ Writes /\ mem'[job.op] \in {Op, Cancelled(Op)}
    BY <1>4, AdoptEffect
  <2>2. NewTrue(Cancelled(Op))
    BY <1>2, <2>1, CancelledFields, HeirTrue
  <2> QED BY <1>1, <1>2, <2>1, <2>2, ProcedureTrue DEF Writes
<1>5. ASSUME NEW ok \in BOOLEAN, JobDeclares(ok) PROVE Truth'
  <2>1. /\ Procedure /\ Writes /\ job.pc = "declare"
        /\ \/ mem'[job.op] = Op
           \/ /\ mem'[job.op].result = "resolved" /\ mem'[job.op].state = "final"
              /\ mem'[job.op].phase = Op.phase /\ mem'[job.op].ex = Op.ex
    BY <1>5, DeclareEffect
  <2>2. Op.phase # "active" /\ mem'[job.op].req = Op.req
    BY <2>1 DEF Procedures, Task, Procedure
  <2>3. NewTrue(mem'[job.op])
    BY <1>2, <2>1, <2>2 DEF NewTrue, NewTrueOf
  <2> QED BY <1>1, <2>1, <2>3, ProcedureTrue DEF Writes
<1>6. ASSUME NEW ok \in BOOLEAN, JobLate(ok) PROVE Truth'
  BY <1>3, <1>6, LateEffect DEF Writes, Op
<1>7. ASSUME NEW ok \in BOOLEAN, JobSettles(ok) PROVE Truth'
  <2>1. /\ Procedure /\ Writes /\ Learnt(Op.req, Op.ex, mem'[job.op].ex)
        /\ mem'[job.op].phase = Op.phase /\ mem'[job.op].state = Op.state
        /\ mem'[job.op].result = Op.result /\ mem'[job.op].req = Op.req
    BY <1>7, SettleEffect DEF Procedure
  <2>2. UNCHANGED <<x, on, cont>>
    BY <2>1 DEF Procedure
  <2>3. NewTrue(mem'[job.op])
    BY <1>2, <2>1, <2>2, Steps DEF NewTrue, NewTrueOf, Learnt
  <2> QED BY <1>1, <2>1, <2>3, ProcedureTrue DEF Writes
<1>8. ASSUME NEW ok \in BOOLEAN, JobDerives(ok) PROVE Truth'
  <2>1. Procedure /\ Writes /\ mem'[job.op] = Derived(Op)
    BY <1>8, DeriveEffect
  <2>2. NewTrue(Op) /\ Op \in Record
    BY <1>2, <2>1
  <2>3. NewTrue(Derived(Op))
    BY <2>2, DerivedFields, Steps DEF NewTrue, NewTrueOf, Settled
  <2> QED BY <1>1, <2>1, <2>3, ProcedureTrue DEF Writes
<1>9. ASSUME NewTrue(Op), Op.phase # "active", mem'[job.op].req = Op.req,
             mem'[job.op].state = "final" /\ mem'[job.op].result \in {"delivered", "unconfirmed"},
             mem'[job.op].phase = Op.phase /\ mem'[job.op].ex = Op.ex
      PROVE  NewTrue(mem'[job.op])
  BY <1>9 DEF NewTrue, NewTrueOf
<1>10. ASSUME NEW ok \in BOOLEAN, JobAcks(ok) PROVE Truth'
  <2>1. /\ Procedure /\ disk' \in {disk, mem'[job.op]} /\ job.pc = "ack"
        /\ \/ mem'[job.op] = Op
           \/ /\ mem'[job.op].state = "final" /\ mem'[job.op].result \in {"delivered", "unconfirmed"}
              /\ mem'[job.op].phase = Op.phase /\ mem'[job.op].ex = Op.ex
    BY <1>10, AckEffect
  <2>2. Op.phase # "active" /\ mem'[job.op].req = Op.req
    BY <2>1 DEF Procedures, Task, Procedure
  <2> QED BY <1>1, <1>2, <1>9, <2>1, <2>2, ProcedureTrue
<1>11. ASSUME NEW ok \in BOOLEAN, JobConcludes(ok) PROVE Truth'
  <2>1. /\ Procedure /\ Writes /\ job.pc = "conclude"
        /\ \/ mem'[job.op] = Op
           \/ /\ mem'[job.op].state = "final" /\ mem'[job.op].result \in {"delivered", "unconfirmed"}
              /\ mem'[job.op].phase = Op.phase /\ mem'[job.op].ex = Op.ex
    BY <1>11, ConcludeEffect
  <2>2. Op.phase # "active" /\ mem'[job.op].req = Op.req
    BY <2>1 DEF Procedures, Task, Procedure
  <2> QED BY <1>1, <1>2, <1>9, <2>1, <2>2, ProcedureTrue DEF Writes
<1>12. CASE JobReleases
  <2>1. Procedure /\ disk' = disk
    BY <1>12, ReleaseEffect
  <2>2. CASE mem'[job.op] = Op
    BY <1>3, <2>1, <2>2
  <2>3. CASE mem'[job.op] # Op
    <3>1. /\ Releasable(Op) /\ mem'[job.op].phase = Op.phase
          /\ mem'[job.op].result = Op.result /\ mem'[job.op].ex = Op.ex
          /\ mem'[job.op].req = Op.req
          /\ Op.state = "released" \/ window' = window \union {Op.req}
      BY <1>12, <2>1, <2>3, ReleaseEffect DEF Procedure
    <3>2. logged'[Op.req] # "none"
      <4>1. CASE Op.state = "released"
        BY <1>2, <2>1, <4>1, GrowsKept, OpNamed DEF NewTrue, NewTrueOf, Procedure
      <4>2. CASE Op.state # "released"
        BY <1>12, <2>3, <4>2, MarksFacts, ReleaseEffect DEF Marks
      <4> QED BY <4>1, <4>2
    <3>3. NewTrue(mem'[job.op])
      BY <1>2, <2>1, <3>1, <3>2 DEF NewTrue, NewTrueOf, Releasable
    <3> QED BY <1>1, <2>1, <3>3, ProcedureTrue
  <2> QED BY <2>2, <2>3
<1>13. ASSUME NEW ok \in BOOLEAN, JobMarks(ok) PROVE Truth'
  BY <1>3, <1>13, MarkEffect DEF Writes, Op
<1>14. ASSUME NEW ok \in BOOLEAN, JobRemoves(ok) PROVE Truth'
  <2>1. Procedure /\ mem'[job.op] = Op /\ disk' \in {disk, NoRecord}
    BY <1>14, RemoveEffect DEF Without, Op
  <2> QED BY <1>3, <2>1
<1> QED BY <1>4, <1>5, <1>6, <1>7, <1>8, <1>10, <1>11, <1>12, <1>13, <1>14 DEF Job

\* How an exec may change under the records that name it.
LEMMA OldTrue ==
  ASSUME NEW r \in Requests, NEW rec, TrueRec(rec), UNCHANGED <<on, cont, logged, window>>,
         \A q \in Requests \ {r} : x'[q] = x[q],
         \A s \in Step : \/ x'[r][s] = x[r][s]
                         \/ x[r][s] = "none" /\ x'[r][s] = "created"
                         \/ rec.req = r => rec.ex[s] = "pending"
  PROVE  NewTrue(rec)
<1>1. ASSUME rec.req \in Requests, rec.req # r PROVE NewTrueOf(rec, rec.req)
  BY <1>1 DEF TrueRec, TrueOf, NewTrueOf
<1>2. ASSUME rec.req = r PROVE NewTrueOf(rec, r)
  BY <1>2 DEF TrueRec, TrueOf, NewTrueOf
<1> QED BY <1>1, <1>2 DEF NewTrue, TrueRec

\* An executor's record, when it says what is so of its execs.
LEMMA ExecutorTrue ==
  ASSUME IInv, NEW r \in Requests, Executes(r),
         \A s \in Step : /\ mem'[r].ex[s] = "none" => x'[r][s] \in {"none", "created"}
                         /\ mem'[r].ex[s] \in {"ok", "err"} => x'[r][s] = mem'[r].ex[s]
                         /\ mem'[r].ex[s] = "gone" => on[r] # cont,
         mem'[r].result = "failed" /\ on[r] = cont => mem'[r].ex[Enter] \notin {"pending", "ok"}
  PROVE  NewTrue(mem'[r])
<1>1. UNCHANGED <<on, cont, logged, window>> /\ mem'[r].req = mem[r].req
  BY DEF Executes, Around
<1>2. mem[r].req = r /\ TrueRec(mem[r])
  BY Names, EngagedNamed DEF IInv, Truth, Executes, Engaged
<1>3. mem'[r].phase = "active" => mem'[r].state = "prepared" /\ mem'[r].result = "pending"
  BY <1>2 DEF TrueRec, Executes, GoesOn, Reports, Ends, SameFate
<1>4. mem'[r].state = "released" => logged'[r] # "none"
  BY <1>1, <1>2 DEF TrueRec, TrueOf, Executes, GoesOn, Reports, Ends, SameFate
<1> QED BY <1>1, <1>2, <1>3, <1>4 DEF NewTrue, NewTrueOf

\* An executor that makes a true record keeps the truth.
LEMMA ExecutesTruth ==
  ASSUME IInv, NEW r \in Requests, Executes(r), NewTrue(mem'[r]),
         disk' = disk \/ NewTrue(disk'),
         \A rec \in {disk} \union {mem[o] : o \in Obj \ {r}} : NewTrue(rec)
  PROVE  Truth'
<1>1. \A o \in Obj \ {r} : mem'[o] = mem[o]
  BY DEF Executes, Around, Only
<1> QED BY <1>1, TruthStep

\* What the steps of an announced operation find.
LEMMA CourseFacts ==
  ASSUME IInv, NEW r \in Requests, pc[r] \in Announced
  PROVE  /\ step[r] \in Step /\ mem[r] \in Record /\ mem[r].req = r /\ mem[r].ex \in Exs
         /\ TrueOf(mem[r], r)
         /\ mem[r].phase = "active" => mem[r].state = "prepared" /\ mem[r].result = "pending"
         /\ step[r] = Enter \/ mem[r].ex[Enter] = "none"
<1>1. step[r] \in Step /\ mem[r] \in Record /\ mem[r].req = r /\ mem[r].ex \in Exs
  BY TypeFacts, RecFields, Names, EngagedNamed DEF IInv, Engaged
<1>2. step[r] = Enter \/ Enter > step[r]
  <2>1. step[r] \in Nat /\ step[r] <= Enter /\ Enter \in Nat
    BY <1>1, Steps
  <2> QED BY <2>1
<1>3. \A s \in Step : s > step[r] => mem[r].ex[s] = "none"
  BY DEF IInv, Course, CourseAt
<1>4. step[r] = Enter \/ mem[r].ex[Enter] = "none"
  BY <1>2, <1>3, Steps
<1>5. TrueRec(mem[r]) /\ r \in Requests /\ mem[r].req = r
  BY <1>1, Names DEF IInv, Truth
<1> QED BY <1>1, <1>4, <1>5 DEF TrueRec

\* A copy of a true record that a late write carries is true.
LEMMA CopyTrue ==
  ASSUME NEW r \in Requests, mem[r].result = "pending", NewTrue(mem[r]), Copy(disk', r)
  PROVE  NewTrue(disk')
BY HeirTrue DEF Copy

\* The executor keeps the truth of the records.
LEMMA ExecutorTruth ==
  ASSUME IInv, Regular, NEW r \in Requests,
         CreateExec(r) \/ ExecRecorded(r) \/ StartExec(r) \/ ExecAnswers(r) \/ Proceed(r)
  PROVE  Truth'
<1> USE Names
<1>a. /\ Truth /\ Course
      /\ \A s \in Step : s \in Nat
  BY Steps DEF IInv
<1>0. ASSUME Executes(r), x' = x, NEW rec, TrueRec(rec) PROVE NewTrue(rec)
  BY <1>0, OldTrue DEF Executes, Around
<1>1. ASSUME Executes(r) PROVE r \in Obj /\ x \in [Requests -> [Step -> {"none", "created", "running", "acted", "ok", "err", "dead"}]]
  BY TypeFacts DEF IInv
<1>2. CASE CreateExec(r)
  <2>1. /\ pc[r] = "create" /\ Executes(r) /\ disk' = disk /\ pc[r] \in Announced
        /\ \/ /\ MayAct(r) /\ x'[r] = [x[r] EXCEPT ![step[r]] = "created"]
              /\ mem'[r].ex = [mem[r].ex EXCEPT ![step[r]] = "pending"] /\ pc'[r] = "writing"
           \/ /\ x'[r] = [x[r] EXCEPT ![step[r]] = "created"] \/ x' = x
              /\ mem'[r].ex = mem[r].ex
    BY <1>2, CreateEffect DEF IInv, Announced
  <2>2. step[r] \in Step /\ x[r][step[r]] = "none" /\ mem[r].ex[step[r]] = "none" /\ mem[r].ex[Enter] = "none"
        /\ mem[r].ex \in Exs
    BY <1>a, <2>1, CourseFacts DEF Course, CourseAt
  <2>3. \A s \in Step : x'[r][s] = x[r][s] \/ (x[r][s] = "none" /\ x'[r][s] = "created")
    BY <1>1, <2>1, <2>2
  <2>4. ASSUME NEW rec, TrueRec(rec) PROVE NewTrue(rec)
    BY <2>1, <2>3, <2>4, OldTrue DEF Executes, Around
  <2>5. NewTrue(mem[r]) /\ mem[r].req = r /\ UNCHANGED <<on, cont>>
    BY <1>a, <2>1, <2>4, CourseFacts DEF Truth, Executes, Around
  <2>6. CASE MayAct(r) /\ mem'[r].ex = [mem[r].ex EXCEPT ![step[r]] = "pending"] /\ pc'[r] = "writing"
    <3>1. mem'[r].result = "pending"
      BY <2>1, <2>6, CourseFacts DEF Executes, GoesOn, Reports, Ends, SameFate, MayAct
    <3>2. NewTrue(mem'[r])
      BY <2>1, <2>2, <2>5, <2>6, <3>1, ExecutorTrue DEF NewTrue, NewTrueOf, Exs
    <3> QED BY <1>a, <2>1, <2>4, <3>2, ExecutesTruth DEF Truth
  <2>7. CASE mem'[r].ex = mem[r].ex
    <3>1. NewTrue(mem'[r])
      <4>1. NewTrueOf(mem[r], r)
        BY <2>5 DEF NewTrue
      <4>2. \A s \in Step : /\ mem'[r].ex[s] = "none" => x'[r][s] \in {"none", "created"}
                            /\ mem'[r].ex[s] \in {"ok", "err"} => x'[r][s] = mem'[r].ex[s]
                            /\ mem'[r].ex[s] = "gone" => on[r] # cont
        BY <2>5, <2>7, <4>1 DEF NewTrueOf
      <4>3. mem'[r].ex[Enter] \notin {"pending", "ok"}
        BY <2>2, <2>7
      <4> QED BY <2>1, <4>2, <4>3, ExecutorTrue
    <3> QED BY <1>a, <2>1, <2>4, <3>1, ExecutesTruth DEF Truth
  <2> QED BY <2>1, <2>6, <2>7
<1>3. CASE ExecRecorded(r)
  <2>1. /\ pc[r] = "writing" /\ Executes(r) /\ x' = x /\ mem'[r].ex = mem[r].ex /\ pc[r] \in Announced
        /\ mem'[r].result = mem[r].result /\ (disk' = disk \/ Copy(disk', r))
    BY <1>3, RecordEffect DEF IInv, Announced
  <2>2. NewTrue(mem[r]) /\ mem[r].req = r /\ mem[r].result = "pending" /\ UNCHANGED <<on, cont>>
    BY <1>0, <1>a, <2>1, CourseFacts DEF Truth, Course, CourseAt, Executes, Around
  <2>3. NewTrue(mem'[r])
    BY <2>1, <2>2, ExecutorTrue DEF NewTrue, NewTrueOf
  <2>4. disk' = disk \/ NewTrue(disk')
    BY <2>1, <2>2, CopyTrue
  <2> QED BY <1>0, <1>a, <2>1, <2>3, <2>4, ExecutesTruth DEF Truth
<1>4. CASE StartExec(r)
  <2>1. /\ pc[r] = "landed" /\ Executes(r) /\ disk' = disk /\ pc[r] \in Announced
        /\ \/ /\ MayAct(r) /\ mem'[r] = mem[r]
              /\ x'[r] = [x[r] EXCEPT ![step[r]] = IF on[r] = cont THEN "running" ELSE "dead"]
           \/ x' = x /\ mem'[r].ex = [mem[r].ex EXCEPT ![step[r]] = "none"]
    BY <1>4, StartEffect DEF IInv, Announced
  <2>2. /\ step[r] \in Step /\ x[r][step[r]] = "created" /\ mem[r].ex[step[r]] = "pending"
        /\ mem[r].ex \in Exs /\ mem[r].req = r /\ lock = r /\ TrueRec(mem[r])
        /\ step[r] = Enter \/ mem[r].ex[Enter] = "none"
    BY <1>a, <2>1, CourseFacts DEF Course, CourseAt, IInv, Seats, SeatsAt, Truth
  <2>3. CASE MayAct(r) /\ mem'[r] = mem[r]
             /\ x'[r] = [x[r] EXCEPT ![step[r]] = IF on[r] = cont THEN "running" ELSE "dead"]
    <3>1. disk.ex = mem[r].ex
      BY <1>a, <2>1, <2>3 DEF Course, CourseAt, MayAct
    <3>2. ASSUME NEW rec, TrueRec(rec), rec.req = r => rec.ex[step[r]] = "pending" PROVE NewTrue(rec)
      BY <1>1, <2>1, <2>3, <3>2, OldTrue DEF Executes, Around
    <3>3. ASSUME NEW o \in Obj PROVE mem[o].req = r => o = r
      <4>1. CASE o = "adopted"
        BY <2>2, <4>1 DEF IInv, Seats, SeatsAt
      <4>2. CASE o \in Requests
        BY <4>2 DEF IInv, Types, Shape
      <4> QED BY <4>1, <4>2 DEF Obj
    <3>4. NewTrue(disk) /\ \A o \in Obj : NewTrue(mem[o])
      BY <1>a, <2>2, <3>1, <3>2, <3>3 DEF Truth
    <3> QED BY <2>1, <2>3, <3>4, ExecutesTruth
  <2>4. CASE x' = x /\ mem'[r].ex = [mem[r].ex EXCEPT ![step[r]] = "none"]
    <3>1. NewTrue(mem[r]) /\ UNCHANGED <<on, cont>>
      BY <1>0, <2>1, <2>2, <2>4 DEF Executes, Around
    <3>2. NewTrue(mem'[r])
      <4>1. NewTrueOf(mem[r], r)
        BY <2>2, <3>1 DEF NewTrue
      <4>2. \A s \in Step : mem'[r].ex[s] = IF s = step[r] THEN "none" ELSE mem[r].ex[s]
        BY <2>2, <2>4 DEF Exs
      <4>3. x'[r][step[r]] = "created"
        BY <2>2, <2>4
      <4>4. \A s \in Step : /\ mem'[r].ex[s] = "none" => x'[r][s] \in {"none", "created"}
                            /\ mem'[r].ex[s] \in {"ok", "err"} => x'[r][s] = mem'[r].ex[s]
                            /\ mem'[r].ex[s] = "gone" => on[r] # cont
        BY <3>1, <4>1, <4>2, <4>3 DEF NewTrueOf
      <4>5. mem'[r].ex[Enter] = "none"
        BY <2>2, <4>2, Steps
      <4> QED BY <2>1, <4>4, <4>5, ExecutorTrue
    <3> QED BY <1>0, <1>a, <2>1, <2>4, <3>2, ExecutesTruth DEF Truth
  <2> QED BY <2>1, <2>3, <2>4
<1>5. CASE ExecAnswers(r)
  <2>1. /\ pc[r] = "waiting" /\ Executes(r) /\ disk' = disk /\ x' = x /\ pc[r] \in Announced
        /\ \/ mem'[r].ex = mem[r].ex /\ mem'[r].result = mem[r].result
           \/ x[r][step[r]] = "err" /\ mem'[r].ex = [mem[r].ex EXCEPT ![step[r]] = "err"]
           \/ /\ x[r][step[r]] = "ok" /\ mem'[r].ex = [mem[r].ex EXCEPT ![step[r]] = "ok"]
              /\ mem'[r].result = mem[r].result \/ step[r] # Enter
    BY <1>5, AnswerEffect DEF IInv, Announced
  <2>2. /\ step[r] \in Step /\ mem[r].ex[step[r]] # "none" /\ mem[r].ex \in Exs /\ TrueOf(mem[r], r)
        /\ step[r] = Enter \/ mem[r].ex[Enter] = "none"
    BY <1>a, <2>1, CourseFacts DEF Course, CourseAt
  <2>3. NewTrueOf(mem[r], r) /\ UNCHANGED <<on, cont>> /\ TrueRec(mem[r])
    BY <1>0, <1>a, <2>1, CourseFacts DEF Truth, NewTrue, Executes, Around
  <2>4. NewTrue(mem'[r])
    <3>1. CASE mem'[r].ex = mem[r].ex /\ mem'[r].result = mem[r].result
      BY <2>1, <2>2, <2>3, <3>1, ExecutorTrue DEF NewTrueOf
    <3>2. CASE x[r][step[r]] = "err" /\ mem'[r].ex = [mem[r].ex EXCEPT ![step[r]] = "err"]
      BY <2>1, <2>2, <2>3, <3>2, Steps, ExecutorTrue DEF NewTrueOf, Exs
    <3>3. CASE /\ x[r][step[r]] = "ok" /\ mem'[r].ex = [mem[r].ex EXCEPT ![step[r]] = "ok"]
               /\ mem'[r].result = mem[r].result \/ step[r] # Enter
      <4>1. \A s \in Step : mem'[r].ex[s] = IF s = step[r] THEN "ok" ELSE mem[r].ex[s]
        BY <2>2, <3>3 DEF Exs
      <4>2. mem'[r].result = "failed" /\ on[r] = cont => mem'[r].ex[Enter] \notin {"pending", "ok"}
        <5>1. CASE step[r] # Enter
          BY <2>2, <4>1, <5>1, Steps
        <5>2. CASE step[r] = Enter
          <6>1. mem[r].ex[Enter] \in {"none", "pending", "ok", "err", "gone"}
            BY <2>2, Steps DEF Exs
          <6> QED BY <2>2, <3>3, <5>2, <6>1, Steps DEF TrueOf
        <5> QED BY <5>1, <5>2
      <4>3. \A s \in Step : /\ mem'[r].ex[s] = "none" => x'[r][s] \in {"none", "created"}
                            /\ mem'[r].ex[s] \in {"ok", "err"} => x'[r][s] = mem'[r].ex[s]
                            /\ mem'[r].ex[s] = "gone" => on[r] # cont
        BY <2>1, <2>3, <3>3, <4>1 DEF NewTrueOf
      <4> QED BY <2>1, <4>2, <4>3, ExecutorTrue
    <3> QED BY <2>1, <3>1, <3>2, <3>3
  <2> QED BY <1>0, <1>a, <2>1, <2>4, ExecutesTruth DEF Truth
<1>6. CASE Proceed(r)
  <2>1. /\ pc[r] = "seen" /\ Executes(r) /\ disk' = disk /\ x' = x /\ mem'[r].ex = mem[r].ex
        /\ pc[r] \in Announced
    BY <1>6, ProceedEffect DEF IInv, Announced
  <2>2. mem[r].ex[Enter] = "none" /\ NewTrueOf(mem[r], r) /\ UNCHANGED <<on, cont>>
    BY <1>0, <1>a, <2>1, CourseFacts DEF Course, CourseAt, Truth, NewTrue, Executes, Around
  <2>3. NewTrue(mem'[r])
    BY <2>1, <2>2, ExecutorTrue DEF NewTrueOf
  <2> QED BY <1>0, <1>a, <2>1, <2>3, ExecutesTruth DEF Truth
<1> QED BY <1>2, <1>3, <1>4, <1>5, <1>6

\* Every step keeps the truth of the records.
LEMMA TruthKept ==
  ASSUME IInv, Regular, Next
  PROVE  Truth'
<1> USE Names, TypeFacts DEF IInv
<1>a. Grows /\ TrueRec(disk) /\ \A o \in Obj : TrueRec(mem[o])
  BY GrowsKept DEF Truth
<1>0. ASSUME UNCHANGED <<disk, mem, x, on, cont>> PROVE Truth'
  BY <1>0, <1>a, TruthFrame
<1>1. ASSUME NEW r \in Requests,
             Arrive(r) \/ Check(r) \/ Refuse(r) \/ THttpAnswers(r) \/ PromptPersisted(r)
      PROVE  UNCHANGED <<disk, mem, x, on, cont>>
  BY <1>1 DEF Arrive, Check, Refuse, THttpAnswers, PromptPersisted, world, ops
<1>2. ASSUME mem' = [mem EXCEPT !["adopted"] = disk] \/ mem' = mem, UNCHANGED <<disk, x, on, cont>> PROVE Truth'
  BY <1>2, <1>a, TruthFrame
<1>3. ASSUME NEW r \in Requests, Recover(r) PROVE Truth'
  BY <1>2, <1>3 DEF Recover, world
<1>4. ASSUME NEW r \in Requests, Prepare(r) PROVE Truth'
  <2>1. /\ UNCHANGED <<disk, x, cont, logged, window>> /\ pc[r] = "precond" /\ mem' = [mem EXCEPT ![r] = Prepared(r)]
        /\ on' = [on EXCEPT ![r] = cont]
    BY <1>4 DEF Prepare, world, past
  <2>2. ~Acting(r) /\ disk.req # r /\ \A o \in Obj : mem[o].req # r
    BY <2>1 DEF Fresh, Before
  <2>3. ASSUME NEW rec, TrueRec(rec), rec.req # r PROVE NewTrue(rec)
    <3>1. \A q \in Requests \ {r} : on'[q] = on[q]
      BY <2>1 DEF Types, Rest
    <3> QED BY <2>1, <2>3, <3>1 DEF NewTrue, NewTrueOf, TrueRec, TrueOf
  <2>4. NewTrue(Prepared(r))
    <3>1. \A s \in Step : x'[r][s] = "none" /\ Prepared(r).ex[s] = "none"
      BY <2>1, <2>2, PreparedFields DEF Acting
    <3>2. Prepared(r).ex[Enter] = "none"
      BY <3>1, Steps
    <3> QED BY <3>1, <3>2, PreparedFields DEF NewTrue, NewTrueOf
  <2> QED BY <1>a, <2>1, <2>2, <2>3, <2>4, TruthStep
<1>5. ASSUME NEW rec, TrueRec(rec), UNCHANGED <<x, on, cont>> PROVE NewTrue(rec)
  BY <1>5, <1>a, StaysTrue
<1>6. ASSUME NEW r \in Requests, NEW ok \in BOOLEAN, PreparedLands(r, ok) PROVE Truth'
  <2>1. PICK rec \in Older(mem[r]) : Save(rec, ok)
    BY <1>6 DEF PreparedLands
  <2>2. UNCHANGED <<mem, x, on, cont>> /\ mem[r].result = "pending"
    BY <1>6 DEF PreparedLands, world, Opened, OpenedAt, Opening
  <2>3. NewTrue(mem[r])
    BY <1>5, <1>a, <2>2
  <2>4. NewTrue(rec)
    <3>1. /\ rec.req = mem[r].req /\ rec.ex = mem[r].ex /\ rec.result = mem[r].result
          /\ rec = mem[r] \/ (rec.phase = "active" /\ rec.state = "prepared")
      BY OlderFields
    <3> QED BY <2>2, <2>3, <3>1, HeirTrue
  <2>5. disk' = disk \/ NewTrue(disk')
    BY <2>1, <2>4, SaveFacts
  <2> QED BY <1>a, <2>2, <2>5, TruthFrame
<1>7. ASSUME NEW r \in Requests, mem' = [mem EXCEPT ![r] = Cancelled(mem[r])] \/ mem' = mem,
             UNCHANGED <<disk, x, on, cont>>
      PROVE  Truth'
  <2>1. NewTrue(Cancelled(mem[r]))
    BY <1>5, <1>7, <1>a, CancelledFields, HeirTrue
  <2> QED BY <1>7, <1>a, <2>1, TruthFrame
<1>8. ASSUME NEW r \in Requests, PreparedConfirmed(r) \/ CancelActive(r) PROVE Truth'
  BY <1>7, <1>8 DEF PreparedConfirmed, CancelActive, world
<1>9. ASSUME NEW r \in Requests, NEW ok \in BOOLEAN, Save(mem[r], ok), UNCHANGED <<mem, x, on, cont>> PROVE Truth'
  <2>1. disk' = disk \/ NewTrue(disk')
    BY <1>5, <1>9, <1>a, SaveFacts
  <2> QED BY <1>9, <1>a, <2>1, TruthFrame
<1>10. ASSUME NEW r \in Requests, NEW ok \in BOOLEAN,
              StoppedAtPrepared(r, ok) \/ Close(r, ok) \/ CancelWritten(r, ok)
       PROVE  Truth'
  BY <1>9, <1>10 DEF StoppedAtPrepared, Close, CancelWritten, world
<1>11. ASSUME NEW r \in Requests, NEW ok \in BOOLEAN, WithdrawPrepared(r, ok) PROVE Truth'
  <2>1. UNCHANGED <<mem, x, on, cont>> /\ disk' \in {disk, NoRecord}
    BY <1>11 DEF WithdrawPrepared, Without, world
  <2>2. disk' = disk \/ NewTrue(disk')
    BY <2>1, BlankTrue
  <2> QED BY <1>a, <2>1, <2>2, TruthFrame
<1>12. ASSUME NEW r \in Requests,
              CreateExec(r) \/ ExecRecorded(r) \/ StartExec(r) \/ ExecAnswers(r) \/ Proceed(r)
       PROVE  Truth'
  BY <1>12, ExecutorTruth
\* The execs move on: what a record says of them is still so.
<1>13. ASSUME NEW r \in Requests, NEW s \in Step, ExecActs(r, s) \/ ExecEnds(r, s) PROVE Truth'
  <2>1. /\ UNCHANGED <<disk, mem, on, cont, logged, window>> /\ x[r][s] \in {"running", "acted"}
        /\ \A q \in Requests, t \in Step : q # r \/ t # s => x'[q][t] = x[q][t]
    BY <1>13 DEF ExecActs, ExecEnds, ops, past
  <2>2. ASSUME NEW rec, TrueRec(rec) PROVE NewTrue(rec)
    BY <2>1, <2>2 DEF NewTrue, NewTrueOf, TrueRec, TrueOf
  <2> QED BY <1>a, <2>1, <2>2, TruthStep
<1>14. CASE ContainerReplaced
  <2>1. /\ UNCHANGED <<disk, mem, on, logged, window>> /\ cont' = cont + 1
        /\ \A r \in Requests, s \in Step :
             x'[r][s] = IF x[r][s] \in {"running", "acted"} THEN "dead" ELSE x[r][s]
    BY <1>14 DEF ContainerReplaced, ops, past
  <2>2. \A r \in Requests : on[r] # cont'
    BY <2>1 DEF World, Types, Rest
  <2>3. ASSUME NEW rec, TrueRec(rec) PROVE NewTrue(rec)
    BY <2>1, <2>2, <2>3, SMTT(30) DEF NewTrue, NewTrueOf, TrueRec, TrueOf
  <2> QED BY <1>a, <2>1, <2>3, TruthStep
<1>15. ASSUME NEW o \in Obj, AckWindowEnds(o) \/ TakeLock(o) PROVE UNCHANGED <<disk, mem, x, on, cont>>
  BY <1>15 DEF AckWindowEnds, TakeLock, world
<1>16. CASE Job
  BY <1>16, JobTruth
<1>17. ASSUME NEW declare \in BOOLEAN, Resolve(declare) PROVE Truth'
  BY <1>2, <1>17 DEF Resolve, world
<1>18. CASE Shutdown
  BY <1>0, <1>18 DEF Shutdown, world, ops
<1>19. CASE Crash
  <2>1. UNCHANGED <<disk, x, on, cont>> /\ \A o \in Obj : mem'[o] = NoRecord
    BY <1>19 DEF Crash, world
  <2> QED BY <1>a, <2>1, BlankTrue, TruthFrame
<1> QED
  BY <1>0, <1>1, <1>3, <1>4, <1>6, <1>8, <1>10, <1>11, <1>12, <1>13, <1>14, <1>15, <1>16, <1>17, <1>18, <1>19
  DEF Next, Executor

-----------------------------------------------------------------------------
(* What changes while somebody is in the pane lock.                         *)

\* What any procedure may do to its record: learn what Docker says of its
\* execs, and cancel it.
Treats ==
  /\ Procedure
  /\ Learnt(Op.req, Op.ex, mem'[job.op].ex)
  /\ mem'[job.op].phase = Op.phase \/ (Op.phase = "active" /\ mem'[job.op].phase = "cancelled")
  /\ disk' \in {disk, mem'[job.op], NoRecord}

\* What any step of a procedure does to its record and to the disk.
LEMMA JobEffect ==
  ASSUME Types, Job
  PROVE  Treats
<1>1. ASSUME Procedure, mem'[job.op].ex = Op.ex, disk' \in {disk, mem'[job.op], NoRecord},
             mem'[job.op].phase = Op.phase
      PROVE  Treats
  BY <1>1 DEF Treats, Learnt
<1>2. ASSUME NEW ok \in BOOLEAN, JobAdopts(ok) PROVE Treats
  <2>1. /\ Procedure /\ disk' \in {disk, mem'[job.op], NoRecord}
        /\ mem'[job.op] = Op \/ (Op.phase = "active" /\ mem'[job.op] = Cancelled(Op))
    BY <1>2, AdoptEffect DEF Writes
  <2>2. Cancelled(Op).ex = Op.ex /\ Cancelled(Op).phase = "cancelled"
    BY <2>1, CancelledFields DEF Procedure
  <2> QED BY <1>1, <2>1, <2>2 DEF Treats, Learnt
<1>3. ASSUME NEW ok \in BOOLEAN, JobDeclares(ok) \/ JobLate(ok) PROVE Treats
  BY <1>1, <1>3, DeclareEffect, LateEffect DEF Writes, Op
<1>4. ASSUME NEW ok \in BOOLEAN, JobSettles(ok) PROVE Treats
  BY <1>4, SettleEffect DEF Writes, Treats
<1>5. ASSUME NEW ok \in BOOLEAN, JobDerives(ok) PROVE Treats
  <2>1. Procedure /\ disk' \in {disk, mem'[job.op], NoRecord} /\ mem'[job.op] = Derived(Op)
    BY <1>5, DeriveEffect DEF Writes
  <2>2. Derived(Op).ex = Op.ex /\ Derived(Op).phase = Op.phase
    BY <2>1, DerivedFields DEF Procedure
  <2> QED BY <1>1, <2>1, <2>2
<1>6. ASSUME NEW ok \in BOOLEAN, JobAcks(ok) PROVE Treats
  BY <1>1, <1>6, AckEffect
<1>7. ASSUME NEW ok \in BOOLEAN, JobConcludes(ok) PROVE Treats
  BY <1>1, <1>7, ConcludeEffect DEF Writes
<1>8. CASE JobReleases
  BY <1>1, <1>8, ReleaseEffect
<1>9. ASSUME NEW ok \in BOOLEAN, JobMarks(ok) PROVE Treats
  BY <1>1, <1>9, MarkEffect DEF Writes, Op
<1>10. ASSUME NEW ok \in BOOLEAN, JobRemoves(ok) PROVE Treats
  <2>1. Procedure /\ mem' = mem /\ disk' \in {disk, mem'[job.op], NoRecord}
    BY <1>10, RemoveEffect DEF Without
  <2> QED BY <1>1, <2>1 DEF Op
<1> QED BY <1>2, <1>3, <1>4, <1>5, <1>6, <1>7, <1>8, <1>9, <1>10 DEF Job

\* Who writes the pane's record while r is in the lock with no procedure: r,
\* or a cancellation that outlived its hold on it.
LEMMA DiskUnder ==
  ASSUME IInv, Next, NEW r \in Requests, lock = r, pc[r] # "resending", disk' # disk
  PROVE  \/ \E ok \in BOOLEAN :
              PreparedLands(r, ok) \/ StoppedAtPrepared(r, ok) \/ WithdrawPrepared(r, ok) \/ Close(r, ok)
         \/ ExecRecorded(r)
         \/ \E q \in Requests, ok \in BOOLEAN : CancelWritten(q, ok) /\ q \in canc /\ (q = r \/ Quiet)
<1> USE DEF IInv
<1>1. ASSUME NEW q \in Requests,
             \/ Arrive(q) \/ Recover(q) \/ Check(q) \/ Refuse(q) \/ Prepare(q) \/ PreparedConfirmed(q)
             \/ CreateExec(q) \/ StartExec(q) \/ ExecAnswers(q) \/ Proceed(q)
             \/ THttpAnswers(q) \/ CancelActive(q) \/ PromptPersisted(q)
      PROVE  FALSE
  BY <1>1 DEF Arrive, Recover, Check, Refuse, Prepare, PreparedConfirmed, CreateExec, StartExec,
              ExecAnswers, Proceed, THttpAnswers, CancelActive, PromptPersisted
<1>2. ASSUME NEW q \in Requests, NEW ok \in BOOLEAN,
             PreparedLands(q, ok) \/ StoppedAtPrepared(q, ok) \/ WithdrawPrepared(q, ok) \/ Close(q, ok)
      PROVE  q = r
  BY <1>2 DEF PreparedLands, StoppedAtPrepared, WithdrawPrepared, Close, Types, Turns, Opening, Seats, SeatsAt
<1>3. ASSUME NEW q \in Requests, ExecRecorded(q) PROVE q = r
  BY <1>3 DEF ExecRecorded, Seats, SeatsAt
<1>4. ASSUME NEW q \in Requests, NEW ok \in BOOLEAN, CancelWritten(q, ok) PROVE q \in canc /\ (q = r \/ Quiet)
  BY <1>4 DEF CancelWritten, Seats, SeatsAt
<1>5. ASSUME NEW q \in Requests, NEW s \in Step, ExecActs(q, s) \/ ExecEnds(q, s) PROVE FALSE
  BY <1>5 DEF ExecActs, ExecEnds
<1>6. ASSUME NEW o \in Obj, AckWindowEnds(o) \/ TakeLock(o) PROVE FALSE
  BY <1>6 DEF AckWindowEnds, TakeLock
<1>7. CASE Job
  BY <1>7, JobEffect, NoJobUnder DEF Treats, Procedure
<1>8. ASSUME NEW declare \in BOOLEAN, Resolve(declare) PROVE FALSE
  BY <1>8 DEF Resolve
<1>9. CASE Shutdown \/ ContainerReplaced \/ Crash
  BY <1>9 DEF Shutdown, ContainerReplaced, Crash
<1> QED BY <1>1, <1>2, <1>3, <1>4, <1>5, <1>6, <1>7, <1>8, <1>9 DEF Next, Executor

-----------------------------------------------------------------------------
(* How far an announced operation has come.                                 *)

\* The course of an operation stays when nothing of it changes.
LEMMA CourseFrame ==
  ASSUME NEW r \in Requests, CourseAt(r), pc'[r] = pc[r], step'[r] = step[r], step[r] \in Step,
         pc[r] \in Announced =>
           /\ \A s \in Step : \/ mem'[r].ex[s] = mem[r].ex[s]
                              \/ /\ mem[r].ex[s] # "none" /\ mem'[r].ex[s] # "none"
                                 /\ pc[r] \notin {"writing", "landed"}
           /\ \A s \in Step : x'[r][s] = x[r][s] \/ x[r][s] \notin {"none", "created"}
           /\ pc[r] \in {"writing", "landed"} => mem'[r].result = mem[r].result
           /\ pc[r] = "landed" /\ mem'[r].phase = "active" =>
                mem[r].phase = "active" /\ disk'.ex = disk.ex /\ mem'[r].ex = mem[r].ex
  PROVE  CourseAt(r)'
BY DEF CourseAt, Announced

\* Where a procedure's step leads.
Leads ==
  /\ \A o \in Obj : \/ pc'[o] = pc[o]
                    \/ /\ o \in Requests /\ o = job.req /\ pc'[o] \in {"check", "precond", "done"}
                       /\ pc'[o] = "check" => lock' = "none"
                       /\ job.by \in {"recover", "resend"}
                    \/ /\ o = job.op /\ pc[o] \notin {"ackwait", "conclude"} /\ pc'[o] = "ackwait"
                       /\ live \in {"none", o} /\ live' = o /\ job.pc = "ack" /\ mem'[o] = Op
  /\ job'.op \in {job.op, "none"} /\ lock' \in {lock, "none"}
  /\ job'.op = "none" => job'.pc = "idle"
  /\ job'.op # "none" => job'.by = job.by /\ job'.req = job.req /\ pc' = pc
  /\ live' \in {live, job.op, "none"}

\* What any step of a procedure does to the places and the lock.
LEMMA JobLeads ==
  ASSUME Types, Job
  PROVE  Leads
<1>0. job.op # "none" \/ job.pc = "idle"
  BY DEF Types, Held
<1>1. ASSUME NEW points, Goes(points), job.pc # "idle", live' \in {live, job.op, "none"} PROVE Leads
  BY <1>0, <1>1 DEF Goes, Leads
<1>2. ASSUME NEW released \in BOOLEAN, Ended(released), job.pc # "idle", live' \in {live, job.op, "none"} PROVE Leads
  <2>1. pc \in [Obj -> PcStates] /\ (job.by \in {"resend", "recover"} => job.req \in Requests)
    BY DEF Types, Places, Held
  <2>2. job' = NoJob /\ job'.op = "none" /\ job'.pc = "idle" /\ lock' \in {lock, "none"}
    BY <1>2, NoJobFields, EndedPlaces DEF Ended
  <2>3. ASSUME NEW o \in Obj, pc'[o] # pc[o]
        PROVE  /\ o \in Requests /\ o = job.req /\ pc'[o] \in {"check", "precond", "done"}
               /\ pc'[o] = "check" => lock' = "none"
               /\ job.by \in {"recover", "resend"}
    <3>1. CASE job.by = "recover"
      BY <1>2, <2>1, <2>3, <3>1 DEF Ended
    <3>2. CASE job.by = "resend" /\ released
      BY <1>2, <2>1, <2>3, <3>2 DEF Ended
    <3>3. CASE job.by = "resend" /\ ~released
      BY <1>2, <2>1, <2>3, <3>3 DEF Ended
    <3> QED BY <1>2, <2>3, <3>1, <3>2, <3>3 DEF Ended
  <2> QED BY <1>2, <2>2, <2>3 DEF Leads
<1>3. ASSUME NEW ok \in BOOLEAN, JobAdopts(ok) \/ JobDeclares(ok) \/ JobLate(ok) PROVE Leads
  BY <1>1, <1>2, <1>3, AdoptEffect, DeclareEffect, LateEffect DEF Writes
<1>4. ASSUME NEW ok \in BOOLEAN, JobSettles(ok) \/ JobDerives(ok) \/ JobMarks(ok) PROVE Leads
  BY <1>1, <1>2, <1>4, SettleEffect, DeriveEffect, MarkEffect DEF Writes
<1>5. ASSUME NEW ok \in BOOLEAN, JobConcludes(ok) PROVE Leads
  BY <1>1, <1>2, <1>5, ConcludeEffect DEF Writes
<1>6. CASE JobReleases
  <2>1. live' \in {live, job.op, "none"} /\ job.pc # "idle"
    BY <1>6, ReleaseEffect
  <2> QED BY <1>1, <1>2, <1>6, <2>1, ReleaseEffect
<1>7. ASSUME NEW ok \in BOOLEAN, JobRemoves(ok) PROVE Leads
  <2>1. (disk' = NoRecord) \in BOOLEAN /\ live' \in {live, job.op, "none"} /\ job.pc # "idle"
    BY <1>7, RemoveEffect
  <2> QED BY <1>2, <1>7, <2>1, RemoveEffect
<1>8. ASSUME NEW ok \in BOOLEAN, JobAcks(ok) PROVE Leads
  <2>1. CASE \/ Ended(FALSE) /\ live' = live
             \/ Goes({"release"}) /\ live' = live
    BY <1>1, <1>2, <1>8, <2>1, AckEffect
  <2>2. CASE /\ live \in {"none", job.op} /\ pc[job.op] \notin {"ackwait", "conclude"}
             /\ mem'[job.op] = Op /\ disk' = disk /\ live' = job.op
             /\ job' = NoJob /\ lock' = "none" /\ pc'[job.op] = "ackwait"
             /\ \A p \in Obj \ {job.op} :
                  pc'[p] = IF p = job.req /\ job.by = "recover" THEN "check" ELSE pc[p]
    <3>1. job.pc = "ack" /\ job.op \in Obj
      BY <1>8, AckEffect DEF Procedure
    <3>2. job.by = "recover" => job.req \in Requests
      BY DEF Types, Held
    <3> QED BY <2>2, <3>1, <3>2, NoJobFields DEF Leads
  <2> QED BY <1>8, <2>1, <2>2, AckEffect
<1> QED BY <1>3, <1>4, <1>5, <1>6, <1>7, <1>8 DEF Job

\* Every step keeps the course of the operations.
LEMMA CourseKept ==
  ASSUME IInv, Regular, Next
  PROVE  Course'
<1> USE Names, TypeFacts DEF IInv
<1> SUFFICES ASSUME NEW q \in Requests PROVE CourseAt(q)'
  BY DEF Course
<1>a. CourseAt(q) /\ step[q] \in Step /\ q \in Obj /\ mem[q] \in Record
  BY DEF Course
<1>s. \A s \in Step : s > step[q] => s # step[q]
  <2>1. step[q] \in Nat
    BY <1>a, Steps
  <2> QED BY <2>1, Steps
<1>b. pc'[q] \notin Announced => CourseAt(q)'
  BY DEF CourseAt, Announced
<1>c. pc[q] = "landed" /\ mem[q].phase = "active" => disk' = disk
  <2> SUFFICES ASSUME pc[q] = "landed", mem[q].phase = "active", disk' # disk PROVE FALSE
    OBVIOUS
  <2>1. lock = q /\ q \notin canc
    BY DEF Seats, SeatsAt, Announced
  <2>2. ~Quiet
    BY <2>1, ActiveMine DEF Announced
  <2> QED BY <2>1, <2>2, DiskUnder
          DEF PreparedLands, StoppedAtPrepared, WithdrawPrepared, Close, ExecRecorded
<1>d. ASSUME pc'[q] = pc[q], step'[q] = step[q], mem'[q] = mem[q], x'[q] = x[q] PROVE CourseAt(q)'
  BY <1>a, <1>c, <1>d, CourseFrame
<1>0. ASSUME UNCHANGED <<mem, x, step>>, pc'[q] = pc[q] \/ pc'[q] \notin Announced PROVE CourseAt(q)'
  BY <1>b, <1>d, <1>0
<1>1. ASSUME NEW r \in Requests,
             Arrive(r) \/ Check(r) \/ Refuse(r) \/ THttpAnswers(r) \/ PromptPersisted(r)
      PROVE  CourseAt(q)'
  <2>1. UNCHANGED <<mem, x, step>>
    BY <1>1 DEF Arrive, Check, Refuse, THttpAnswers, PromptPersisted, world, ops
  <2>2. pc' = pc \/ \E p \in {"recover", "check", "done", "resending", "precond"} : pc' = [pc EXCEPT ![r] = p]
    BY <1>1 DEF Arrive, Check, Refuse, THttpAnswers, PromptPersisted, ops
  <2> QED BY <1>0, <2>1, <2>2 DEF Announced
<1>2. ASSUME NEW r \in Requests, Recover(r) \/ Prepare(r) PROVE CourseAt(q)'
  <2>1. /\ UNCHANGED <<x, step>> /\ pc[r] \in {"recover", "precond"}
        /\ \E p \in {"recovering", "check", "prepare"} : pc' = [pc EXCEPT ![r] = p]
        /\ q # r => mem'[q] = mem[q]
    BY <1>2 DEF Recover, Prepare, world
  <2> QED BY <1>b, <1>d, <2>1 DEF Announced
<1>3. ASSUME NEW r \in Requests, NEW ok \in BOOLEAN,
             PreparedLands(r, ok) \/ StoppedAtPrepared(r, ok) \/ WithdrawPrepared(r, ok) \/ Close(r, ok)
      PROVE  CourseAt(q)'
  <2>1. /\ UNCHANGED <<mem, x, step>>
        /\ \E p \in {"event", "withdraw", "done", "release", "ackwait"} : pc' = [pc EXCEPT ![r] = p]
    BY <1>3 DEF PreparedLands, StoppedAtPrepared, WithdrawPrepared, Close, world
  <2> QED BY <1>0, <2>1 DEF Announced
<1>4. ASSUME NEW r \in Requests, PreparedConfirmed(r) PROVE CourseAt(q)'
  <2>1. /\ UNCHANGED <<x, step>> /\ pc[r] = "event"
        /\ \/ pc' = [pc EXCEPT ![r] = "create"] /\ mem' = mem
           \/ pc' = [pc EXCEPT ![r] = "stop"] /\ mem' = [mem EXCEPT ![r] = Cancelled(mem[r])]
           \/ pc' = [pc EXCEPT ![r] = "withdraw"] /\ mem' = mem
    BY <1>4 DEF PreparedConfirmed, world
  <2>2. CASE q # r
    BY <1>d, <2>1, <2>2
  <2>3. CASE q = r /\ pc'[q] = "create"
    <3>1. mem'[q] = mem[q] /\ x'[q] = x[q] /\ step'[q] = step[q] /\ pc'[q] = "create"
      BY <2>1, <2>3
    <3>2. ~Acting(q) /\ \A s \in Step : mem[q].ex[s] = "none"
      BY <2>1, <2>3 DEF Opened, OpenedAt, Opening
    <3> QED BY <1>a, <3>1, <3>2 DEF CourseAt, Acting, Announced
  <2>4. CASE q = r /\ pc'[q] # "create"
    BY <1>b, <2>1, <2>4 DEF Announced
  <2> QED BY <2>2, <2>3, <2>4
<1>5. ASSUME NEW r \in Requests, CancelActive(r) PROVE CourseAt(q)'
  <2>1. UNCHANGED <<pc, x, step>> /\ mem' = [mem EXCEPT ![r] = Cancelled(mem[r])]
    BY <1>5 DEF CancelActive, world
  <2>2. mem'[q] = mem[q] \/ mem'[q] = Cancelled(mem[q])
    BY <1>a, <2>1
  <2>3. CASE mem'[q] = mem[q]
    BY <1>d, <2>1, <2>3
  <2>4. CASE mem'[q] = Cancelled(mem[q])
    <3>1. mem'[q].ex = mem[q].ex /\ mem'[q].result = mem[q].result /\ mem'[q].phase = "cancelled"
      BY <1>a, <2>4, CancelledFields
    <3> QED BY <1>a, <2>1, <3>1, CourseFrame
  <2> QED BY <2>2, <2>3, <2>4
<1>6. ASSUME NEW r \in Requests, Executes(r), q # r PROVE CourseAt(q)'
  BY <1>a, <1>d, <1>6 DEF Executes, Around, Only
<1>7. ASSUME CreateExec(q) PROVE CourseAt(q)'
  <2>1. /\ pc[q] = "create" /\ step' = step
        /\ \/ /\ MayAct(q) /\ x'[q] = [x[q] EXCEPT ![step[q]] = "created"] /\ Executes(q)
              /\ mem'[q].ex = [mem[q].ex EXCEPT ![step[q]] = "pending"] /\ pc'[q] = "writing"
           \/ pc'[q] \in {"close", "late"}
    BY <1>7, CreateEffect
  <2>2. mem[q].phase = "active" => mem[q].result = "pending"
    BY <2>1, CourseFacts DEF Announced
  <2>3. CASE pc'[q] = "writing"
    <3>1. mem[q].ex \in Exs /\ x[q] \in [Step -> {"none", "created", "running", "acted", "ok", "err", "dead"}]
      BY <1>a, RecFields
    <3>2. mem'[q].result = "pending" /\ x'[q][step[q]] = "created" /\ mem'[q].ex[step[q]] = "pending"
      BY <1>a, <2>1, <2>2, <2>3, <3>1, ZenonT(40) DEF MayAct, Executes, GoesOn, Reports, Ends, SameFate, Exs
    <3>3. \A s \in Step : s > step[q] => x'[q][s] = x[q][s] /\ mem'[q].ex[s] = mem[q].ex[s]
      BY <1>s, <2>1, <2>3, <3>1 DEF Exs
    <3> QED BY <1>a, <2>1, <2>3, <3>2, <3>3 DEF CourseAt, Announced
  <2> QED BY <1>b, <2>1, <2>3 DEF Announced
<1>8. ASSUME ExecRecorded(q) PROVE CourseAt(q)'
  <2>1. /\ pc[q] = "writing" /\ x' = x /\ step' = step
        /\ (pc'[q] = "landed" /\ mem'[q] = mem[q] /\ Copy(disk', q)) \/ pc'[q] \in {"close", "late"}
    BY <1>8, RecordEffect
  <2>2. CASE pc'[q] = "landed"
    BY <1>a, <2>1, <2>2 DEF CourseAt, Announced, Copy
  <2> QED BY <1>b, <2>1, <2>2 DEF Announced
<1>9. ASSUME StartExec(q) PROVE CourseAt(q)'
  <2>1. /\ pc[q] = "landed" /\ step' = step
        /\ \/ /\ mem'[q] = mem[q] /\ pc'[q] = "waiting"
              /\ \E v \in {"running", "dead"} : x'[q] = [x[q] EXCEPT ![step[q]] = v]
           \/ pc'[q] \in {"close", "late"}
    BY <1>9, StartEffect
  <2>2. CASE pc'[q] = "waiting"
    <3>1. \A s \in Step : s > step[q] => x'[q][s] = x[q][s]
      <4>1. x[q] \in [Step -> {"none", "created", "running", "acted", "ok", "err", "dead"}]
        OBVIOUS
      <4>2. PICK v \in {"running", "dead"} : x'[q] = [x[q] EXCEPT ![step[q]] = v]
        BY <2>1, <2>2
      <4> QED BY <1>s, <4>1, <4>2
    <3> QED BY <1>a, <2>1, <2>2, <3>1 DEF CourseAt, Announced
  <2> QED BY <1>b, <2>1, <2>2 DEF Announced
<1>10. ASSUME ExecAnswers(q) PROVE CourseAt(q)'
  <2>1. /\ pc[q] = "waiting" /\ step' = step /\ x' = x
        /\ \/ pc'[q] \in {"close", "late"}
           \/ pc'[q] = "seen" /\ step[q] # Enter /\ mem'[q].ex = [mem[q].ex EXCEPT ![step[q]] = "ok"]
    BY <1>10, AnswerEffect
  <2>2. CASE pc'[q] = "seen"
    <3>1. mem[q].ex \in Exs
      BY <1>a, RecFields
    <3>2. \A s \in Step : s > step[q] => mem'[q].ex[s] = mem[q].ex[s]
      BY <1>s, <2>1, <2>2, <3>1 DEF Exs
    <3> QED BY <1>a, <2>1, <2>2, <3>2 DEF CourseAt, Announced
  <2> QED BY <1>b, <2>1, <2>2 DEF Announced
<1>11. ASSUME Proceed(q) PROVE CourseAt(q)'
  <2>1. /\ pc[q] = "seen" /\ x' = x
        /\ \/ pc'[q] \in {"close", "late"}
           \/ mem'[q] = mem[q] /\ pc'[q] = "create" /\ step'[q] = step[q] + 1
    BY <1>11, ProceedEffect
  <2>2. CASE pc'[q] = "create"
    <3>1. step'[q] \in Step /\ step'[q] > step[q] /\ \A s \in Step : s > step'[q] => s > step[q]
      BY <1>a, <2>1, <2>2, Steps DEF CourseAt, Step
    <3> QED BY <1>a, <2>1, <2>2, <3>1 DEF CourseAt, Announced
  <2> QED BY <1>b, <2>1, <2>2 DEF Announced
<1>12. ASSUME NEW r \in Requests,
              CreateExec(r) \/ ExecRecorded(r) \/ StartExec(r) \/ ExecAnswers(r) \/ Proceed(r)
       PROVE  CourseAt(q)'
  BY <1>6, <1>7, <1>8, <1>9, <1>10, <1>11, <1>12,
     CreateEffect, RecordEffect, StartEffect, AnswerEffect, ProceedEffect, ZenonT(40)
<1>13. ASSUME NEW r \in Requests, NEW ok \in BOOLEAN, CancelWritten(r, ok) PROVE CourseAt(q)'
  BY <1>0, <1>13 DEF CancelWritten, world
<1>14. ASSUME NEW r \in Requests, NEW s \in Step, ExecActs(r, s) \/ ExecEnds(r, s) PROVE CourseAt(q)'
  <2>1. /\ UNCHANGED <<mem, pc, step>> /\ x[r][s] \in {"running", "acted"}
        /\ \A t \in Step : x'[q][t] = x[q][t] \/ x[q][t] \notin {"none", "created"}
    BY <1>14 DEF ExecActs, ExecEnds, ops
  <2> QED BY <1>a, <1>c, <2>1, CourseFrame
<1>15. CASE ContainerReplaced
  <2>1. /\ UNCHANGED <<mem, pc, step>>
        /\ \A t \in Step : x'[q][t] = x[q][t] \/ x[q][t] \notin {"none", "created"}
    BY <1>15 DEF ContainerReplaced, ops
  <2> QED BY <1>a, <1>c, <2>1, CourseFrame
<1>16. ASSUME NEW o \in Obj, AckWindowEnds(o) \/ TakeLock(o) PROVE CourseAt(q)'
  <2>1. UNCHANGED <<mem, x, step>> /\ \E p \in {"conclude", "done"} : pc' = [pc EXCEPT ![o] = p]
    BY <1>16 DEF AckWindowEnds, TakeLock, world
  <2> QED BY <1>0, <2>1 DEF Announced
\* A procedure on an announced operation finds it cancelled, and only learns.
<1>17. CASE Job
  <2>1. Treats /\ Procedure /\ UNCHANGED <<x, step>>
    BY <1>17, JobEffect DEF Treats, Procedure
  <2>2. pc'[q] = pc[q] \/ pc'[q] \notin Announced
    BY <1>17, JobLeads DEF Leads, Announced
  <2>3. CASE q # job.op
    <3>1. mem'[q] = mem[q]
      BY <1>a, <2>1, <2>3 DEF Procedure
    <3> QED BY <1>b, <1>d, <2>1, <2>2, <3>1
  <2>4. CASE q = job.op /\ pc'[q] = pc[q] /\ pc[q] \in Announced
    <3>1. pc[q] \notin {"writing", "landed"}
      BY <2>1, <2>4, NoJobUnder DEF Seats, SeatsAt, Procedure
    <3>2. mem[q].req = q /\ Learnt(q, mem[q].ex, mem'[q].ex)
      BY <2>1, <2>4, CourseFacts DEF Treats, Op
    <3>3. \A s \in Step : mem'[q].ex[s] = mem[q].ex[s] \/ (mem[q].ex[s] # "none" /\ mem'[q].ex[s] # "none")
      BY <3>2 DEF Learnt
    <3> QED BY <1>a, <2>1, <2>4, <3>1, <3>3, CourseFrame
  <2> QED BY <1>b, <2>2, <2>3, <2>4
<1>18. ASSUME NEW declare \in BOOLEAN, Resolve(declare) PROVE CourseAt(q)'
  <2>1. UNCHANGED <<pc, x, step>> /\ mem'[q] = mem[q]
    BY <1>18 DEF Resolve, world
  <2> QED BY <1>d, <2>1
<1>19. CASE Shutdown
  BY <1>0, <1>19 DEF Shutdown, world, ops
<1>20. CASE Crash
  <2>1. pc'[q] \in {"idle", "done"}
    BY <1>a, <1>20 DEF Crash
  <2> QED BY <1>b, <2>1 DEF Announced
<1> QED
  BY <1>1, <1>2, <1>3, <1>4, <1>5, <1>12, <1>13, <1>14, <1>15, <1>16, <1>17, <1>18, <1>19, <1>20
  DEF Next, Executor

-----------------------------------------------------------------------------
(* Who has the lock.                                                        *)

\* A release is never of what holds the lock.
LEMMA WindowUnder ==
  ASSUME IInv, Regular, Next, NEW r \in Requests, lock = r
  PROVE  logged'[r] = "none"
<1>1. logged[r] = "none"
  BY DEF IInv, Seats, SeatsAt
<1>2. ASSUME Marks PROVE Op.req # r
  <2>1. job.pc = "release" /\ job.op \in Obj
    BY <1>2, ReleaseEffect DEF Marks, Procedure, IInv
  <2>2. pc[r] = "resending"
    BY <2>1, NoJobUnder DEF IInv
  <2> QED BY <2>1, <2>2 DEF IInv, Fresh, Before, Op
<1> QED BY <1>1, <1>2, PastKept, MarksFacts DEF IInv

\* A cancellation under way has its record on disk, and the lock, until it
\* has written it; or a shutdown found nothing unreleased.
LEMMA CancKept ==
  ASSUME IInv, Regular, Next, NEW r \in Requests, r \in canc, r \in canc'
  PROVE  Quiet' \/ (lock' = r /\ Mine(r)')
<1> USE Names, TypeFacts DEF IInv
<1>a. ~Crash
  BY DEF Crash
<1> SUFFICES ASSUME ~Quiet PROVE lock' = r /\ Mine(r)'
  BY <1>a, QuietKept
<1>b. lock = r /\ Mine(r) /\ pc[r] # "close" /\ pc[r] \notin Before /\ r \in Obj /\ mem[r] \in Record
  BY DEF Seats, SeatsAt, Types, Turns
<1>c. pc[r] \notin Opening
  BY QuietOpening DEF Seats, SeatsAt
<1>d. disk' = disk \/ disk'.req = mem[r].req
  <2>1. ASSUME ExecRecorded(r) PROVE disk' = disk \/ disk'.req = mem[r].req
    BY <2>1, RecordEffect DEF Copy
  <2>2. ASSUME NEW ok \in BOOLEAN,
               PreparedLands(r, ok) \/ StoppedAtPrepared(r, ok) \/ WithdrawPrepared(r, ok) \/ Close(r, ok)
        PROVE  FALSE
    BY <1>b, <1>c, <2>2 DEF PreparedLands, StoppedAtPrepared, WithdrawPrepared, Close, Opening
  <2>3. ASSUME NEW ok \in BOOLEAN, CancelWritten(r, ok) PROVE FALSE
    BY <2>3 DEF CancelWritten
  <2>4. pc[r] # "resending"
    BY <1>b DEF Before
  <2> QED BY <1>b, <2>1, <2>2, <2>3, <2>4, DiskUnder
<1>e. disk'.req = mem[r].req /\ live = r
  BY <1>b, <1>d DEF Mine
<1>0. ASSUME lock' = lock, live' = live, mem'[r].req = mem[r].req PROVE lock' = r /\ Mine(r)'
  BY <1>0, <1>b, <1>e DEF Mine
<1>1. ASSUME NEW q \in Requests,
             Arrive(q) \/ Check(q) \/ Refuse(q) \/ Recover(q) \/ Prepare(q)
      PROVE  UNCHANGED <<lock, live>> /\ mem'[r].req = mem[r].req
  <2>1. q # r
    BY <1>1, <1>b, <1>c DEF Arrive, Check, Refuse, Recover, Prepare, Before
  <2>2. pc[q] # "precond"
    BY <1>b, <2>1 DEF Types, Turns
  <2> QED BY <1>1, <1>b, <2>1, <2>2 DEF Arrive, Check, Refuse, Recover, Prepare
<1>12. ASSUME NEW q \in Requests, THttpAnswers(q) \/ PromptPersisted(q)
      PROVE  UNCHANGED <<lock, live, mem>>
  BY <1>12 DEF THttpAnswers, PromptPersisted, ops
<1>2. ASSUME NEW q \in Requests, NEW ok \in BOOLEAN,
             PreparedLands(q, ok) \/ StoppedAtPrepared(q, ok) \/ WithdrawPrepared(q, ok) \/ Close(q, ok)
      PROVE  FALSE
  BY <1>2, <1>b, <1>c DEF PreparedLands, StoppedAtPrepared, WithdrawPrepared, Close, Types, Turns, Opening,
                          Seats, SeatsAt
<1>3. ASSUME NEW q \in Requests, PreparedConfirmed(q) PROVE FALSE
  BY <1>3, <1>b, <1>c DEF PreparedConfirmed, Types, Turns, Opening
<1>4. ASSUME NEW q \in Requests, NEW ok \in BOOLEAN, CancelWritten(q, ok)
      PROVE  UNCHANGED <<lock, live>> /\ mem'[r].req = mem[r].req
  BY <1>4, <1>b DEF CancelWritten
<1>5. ASSUME NEW q \in Requests, CancelActive(q)
      PROVE  UNCHANGED <<lock, live>> /\ mem'[r].req = mem[r].req
  <2>1. UNCHANGED <<lock, live>> /\ mem' = [mem EXCEPT ![q] = Cancelled(mem[q])]
    BY <1>5 DEF CancelActive
  <2> QED BY <1>b, <2>1, CancelledFields
<1>6. ASSUME NEW q \in Requests,
             CreateExec(q) \/ ExecRecorded(q) \/ StartExec(q) \/ ExecAnswers(q) \/ Proceed(q)
      PROVE  UNCHANGED <<lock, live>> /\ mem'[r].req = mem[r].req
  <2>1. Executes(q)
    BY <1>6, CreateEffect, RecordEffect, StartEffect, AnswerEffect, ProceedEffect
  <2> QED BY <1>b, <2>1 DEF Executes, Around, Only
<1>7. ASSUME NEW q \in Requests, NEW s \in Step, ExecActs(q, s) \/ ExecEnds(q, s)
      PROVE  UNCHANGED <<lock, live, mem>>
  BY <1>7 DEF ExecActs, ExecEnds, ops
<1>8. ASSUME NEW o \in Obj, AckWindowEnds(o) \/ TakeLock(o) PROVE UNCHANGED <<lock, live, mem>>
  BY <1>8, <1>b DEF AckWindowEnds, TakeLock, StartJob
<1>9. CASE Job
  BY <1>9, <1>b, JobEffect, NoJobUnder DEF Treats, Procedure, Before
<1>10. ASSUME NEW declare \in BOOLEAN, Resolve(declare) PROVE FALSE
  BY <1>10, <1>b DEF Resolve
<1>11. CASE Shutdown \/ ContainerReplaced
  BY <1>0, <1>11 DEF Shutdown, ContainerReplaced, ops
<1> QED
  BY <1>a, <1>0, <1>1, <1>2, <1>3, <1>4, <1>5, <1>6, <1>7, <1>8, <1>9, <1>10, <1>11, <1>12 DEF Next, Executor

\* Who stays in his place keeps what his place needs;
LEMMA SeatsFrame ==
  ASSUME IInv, Regular, Next, ~Crash, NEW r \in Requests, pc'[r] = pc[r],
         mem'[r].phase = "active" => mem[r].phase = "active",
         r \in canc' => r \in canc,
         lock' = r <=> lock = r,
         mem'["adopted"].req = mem["adopted"].req \/ lock # r
  PROVE  SeatsAt(r)'
<1>1. SeatsAt(r) /\ (stopping => stopping')
  BY StoppingKept DEF IInv, Seats
<1>2. lock = r => logged'[r] = "none"
  BY WindowUnder
<1>3. r \in canc' => Quiet' \/ (lock' = r /\ Mine(r)')
  BY CancKept
<1> QED BY <1>1, <1>2, <1>3 DEF SeatsAt

\* so does whoever comes to a place where an executor does not hold the lock.
LEMMA SeatsOut ==
  ASSUME IInv, Regular, Next, ~Crash, NEW r \in Requests,
         pc'[r] \notin Announced \union {"close", "idle", "recover", "recovering", "check"},
         pc'[r] \in Opening => pc[r] \in Opening \/ r \notin canc',
         r \in canc' => r \in canc /\ mem'[r].phase = mem[r].phase,
         lock' = r => lock = r, mem'["adopted"].req = mem["adopted"].req
  PROVE  SeatsAt(r)'
<1>1. SeatsAt(r) /\ (stopping => stopping')
  BY StoppingKept DEF IInv, Seats
<1>2. lock = r => logged'[r] = "none"
  BY WindowUnder
<1>3. r \in canc' => Quiet' \/ (lock' = r /\ Mine(r)')
  BY CancKept
<1> QED BY <1>1, <1>2, <1>3 DEF SeatsAt, Announced

\* A request that is not announced has no seat to keep.
LEMMA SeatsAway ==
  ASSUME NEW r \in Requests, pc'[r] \notin Announced \union {"close"}, lock' # r, r \notin canc'
  PROVE  SeatsAt(r)'
BY DEF SeatsAt, Announced

\* An executor ends its active phase in the lock.
LEMMA ExecutesSeats ==
  ASSUME IInv, Regular, Next, ~Crash, NEW r \in Requests, Executes(r),
         pc'[r] = "writing" => mem[r].phase = "active",
         pc'[r] = "landed" => pc[r] = "writing"
  PROVE  SeatsAt(r)'
<1>1. SeatsAt(r) /\ (stopping => stopping') /\ pc[r] \in Announced
  BY StoppingKept DEF IInv, Seats, Executes
<1>2. lock = r => logged'[r] = "none"
  BY WindowUnder
<1>3. r \in canc' => Quiet' \/ (lock' = r /\ Mine(r)')
  BY CancKept DEF Executes, Around
<1>4. UNCHANGED <<lock, canc>> /\ mem'["adopted"] = mem["adopted"] /\ pc'[r] \in Announced \union {"close", "late"}
  BY Names DEF Executes, Around, Only, GoesOn, Reports, Ends
<1>5. pc'[r] \in Announced => mem'[r].phase = mem[r].phase
  BY <1>1 DEF Executes, GoesOn, Reports, Ends, SameFate, Announced
<1>6. pc'[r] = "close" => mem[r].phase = "active" /\ mem'[r].phase # "active"
  BY DEF Executes, GoesOn, Reports, Ends, Announced
<1>7. pc'[r] = "late" => mem'[r].phase = mem[r].phase
  BY DEF Executes, GoesOn, Reports, Ends, SameFate, Announced
<1> QED BY <1>1, <1>2, <1>3, <1>4, <1>5, <1>6, <1>7 DEF SeatsAt, Announced, Opening

\* Every step keeps the seats.
LEMMA SeatsKept ==
  ASSUME IInv, Regular, Next
  PROVE  Seats'
<1> USE Names, TypeFacts DEF IInv
<1> SUFFICES ASSUME NEW q \in Requests PROVE SeatsAt(q)'
  BY DEF Seats
<1>a. SeatsAt(q) /\ q \in Obj /\ mem[q] \in Record
  BY DEF Seats
<1>20. CASE Crash
  <2>1. pc'[q] \in {"idle", "done"} /\ lock' = "none" /\ canc' = {}
    BY <1>a, <1>20 DEF Crash
  <2> QED BY <2>1, SeatsAway DEF Announced
<1> SUFFICES ASSUME ~Crash PROVE SeatsAt(q)'
  BY <1>20
<1>0. ASSUME UNCHANGED <<pc, mem, canc, lock>> PROVE SeatsAt(q)'
  BY <1>0, SeatsFrame
<1>b. ASSUME pc'[q] = pc[q], mem'[q] = mem[q], mem'["adopted"] = mem["adopted"] \/ lock # q, canc' = canc,
             lock' = q <=> lock = q
      PROVE  SeatsAt(q)'
  BY <1>b, SeatsFrame
<1>1. ASSUME NEW r \in Requests, Arrive(r) \/ Recover(r) PROVE SeatsAt(q)'
  <2>1. /\ pc[r] \in {"idle", "recover"} /\ canc' = canc
        /\ lock' = lock \/ (lock = "none" /\ lock' = "job")
        /\ \E p \in {"recover", "check", "recovering"} : pc' = [pc EXCEPT ![r] = p]
        /\ mem' = mem \/ (lock = "none" /\ mem' = [mem EXCEPT !["adopted"] = disk])
    BY <1>1 DEF Arrive, Recover
  <2>2. CASE q = r
    BY <1>a, <2>1, <2>2, SeatsAway DEF SeatsAt, Types, Turns, Before, Announced
  <2>3. CASE q # r
    BY <1>b, <2>1, <2>3
  <2> QED BY <2>2, <2>3
<1>2. ASSUME NEW r \in Requests, Check(r) PROVE SeatsAt(q)'
  <2>1. /\ pc[r] = "check" /\ UNCHANGED <<canc, mem, logged, window>>
        /\ \/ lock' = lock /\ pc' = [pc EXCEPT ![r] = "done"]
           \/ /\ lock = "none" /\ lock' = r /\ Known(r) = {}
              /\ \E p \in {"resending", "precond"} : pc' = [pc EXCEPT ![r] = p]
    BY <1>2 DEF Check, past
  <2>2. CASE q # r
    BY <1>b, <2>1, <2>2
  <2>3. CASE q = r /\ pc'[r] = "done"
    BY <1>a, <2>1, <2>3, SeatsAway DEF SeatsAt, Types, Turns, Before, Announced
  <2>4. CASE q = r /\ pc'[r] # "done"
    <3>1. lock' = r /\ Known(r) = {} /\ pc'[r] \in {"resending", "precond"}
      BY <2>1, <2>4
    <3>2. logged'[r] = "none"
      BY <2>1, <3>1 DEF Fresh, Before
    <3>3. r \notin canc' /\ mem'["adopted"].req # r
      BY <2>1 DEF Types, Turns, Fresh, Before
    <3> QED BY <2>4, <3>1, <3>2, <3>3 DEF SeatsAt, Announced
  <2> QED BY <2>2, <2>3, <2>4
<1>3. ASSUME NEW r \in Requests, Refuse(r) PROVE SeatsAt(q)'
  <2>1. pc[r] = "precond" /\ UNCHANGED <<canc, mem>> /\ lock' = "none" /\ pc' = [pc EXCEPT ![r] = "done"] /\ lock = r
    BY <1>3 DEF Refuse, Types, Turns
  <2>2. CASE q = r
    BY <1>a, <2>1, <2>2, SeatsAway DEF Types, Turns, Before, Announced
  <2> QED BY <1>b, <2>1, <2>2
<1>4. ASSUME NEW r \in Requests, Prepare(r) PROVE SeatsAt(q)'
  <2>1. /\ pc[r] = "precond" /\ UNCHANGED <<canc, lock>> /\ mem' = [mem EXCEPT ![r] = Prepared(r)]
        /\ pc' = [pc EXCEPT ![r] = "prepare"]
    BY <1>4 DEF Prepare
  <2>2. CASE q = r
    <3>1. r \notin canc' /\ pc'[r] = "prepare" /\ mem'["adopted"] = mem["adopted"]
      BY <2>1 DEF Types, Turns, Before
    <3> QED BY <2>1, <2>2, <3>1, SeatsOut DEF Announced
  <2> QED BY <1>b, <2>1, <2>2
<1>5. ASSUME NEW r \in Requests, NEW ok \in BOOLEAN,
             PreparedLands(r, ok) \/ StoppedAtPrepared(r, ok) \/ WithdrawPrepared(r, ok)
      PROVE  SeatsAt(q)'
  <2>1. /\ UNCHANGED <<mem, canc>> /\ pc[r] \in Opening /\ lock = r /\ lock' \in {r, "none"}
        /\ \E p \in {"event", "withdraw", "done"} : pc' = [pc EXCEPT ![r] = p]
    BY <1>5 DEF PreparedLands, StoppedAtPrepared, WithdrawPrepared, Types, Turns, Opening
  <2>2. CASE q = r
    BY <1>a, <2>1, <2>2, SeatsOut DEF Announced
  <2> QED BY <1>b, <2>1, <2>2
<1>6. ASSUME NEW r \in Requests, PreparedConfirmed(r) PROVE SeatsAt(q)'
  <2>1. /\ UNCHANGED <<lock, canc, logged, window, stopping>> /\ pc[r] = "event" /\ lock = r
        /\ \/ pc' = [pc EXCEPT ![r] = "create"] /\ mem' = mem /\ MayAct(r)
           \/ pc' = [pc EXCEPT ![r] = "stop"] /\ mem' = [mem EXCEPT ![r] = Cancelled(mem[r])]
           \/ pc' = [pc EXCEPT ![r] = "withdraw"] /\ mem' = mem
    BY <1>6 DEF PreparedConfirmed, past, Types, Turns, Opening
  <2>2. CASE q # r
    <3>1. mem'["adopted"] = mem["adopted"]
      BY <2>1
    <3> QED BY <1>b, <2>1, <2>2, <3>1
  <2>3. CASE q = r /\ pc'[q] = "create"
    <3>1. r \notin canc
      BY <1>a, <2>1, <2>3 DEF SeatsAt, MayAct, Opening
    <3> QED BY <1>a, <2>1, <2>3, <3>1 DEF SeatsAt, Announced
  <2>4. CASE q = r /\ pc'[q] = "withdraw"
    BY <1>a, <2>1, <2>4, SeatsOut DEF Announced, Opening
  <2>5. CASE q = r /\ pc'[q] = "stop"
    <3>1. mem'[r] = Cancelled(mem[r]) /\ mem'["adopted"] = mem["adopted"]
      BY <1>a, <2>1, <2>5
    <3>2. mem'[r].phase = "cancelled" /\ (r \in canc => stopping)
      BY <1>a, <2>1, <2>5, <3>1, CancelledFields DEF SeatsAt, Opening
    <3>3. r \in canc' => Quiet' \/ (lock' = r /\ Mine(r)')
      BY <2>1, CancKept
    <3> QED BY <1>a, <2>1, <2>5, <3>1, <3>2, <3>3 DEF SeatsAt, Announced
  <2> QED BY <1>a, <2>1, <2>2, <2>3, <2>4, <2>5
<1>7. ASSUME NEW r \in Requests, NEW ok \in BOOLEAN, Close(r, ok) PROVE SeatsAt(q)'
  <2>1. /\ UNCHANGED <<mem, canc>> /\ pc[r] = "close" /\ lock = r /\ lock' = "none"
        /\ \E p \in {"release", "done", "ackwait"} : pc' = [pc EXCEPT ![r] = p]
    BY <1>7 DEF Close, Seats, SeatsAt
  <2>2. CASE q = r
    BY <1>a, <2>1, <2>2, SeatsOut DEF Announced, Opening
  <2> QED BY <1>b, <2>1, <2>2
<1>8. ASSUME NEW r \in Requests, Executes(r), q # r PROVE SeatsAt(q)'
  <2>1. pc'[q] = pc[q] /\ mem'[q] = mem[q] /\ mem'["adopted"] = mem["adopted"] /\ UNCHANGED <<lock, canc>>
    BY <1>a, <1>8 DEF Executes, Around, Only
  <2> QED BY <1>b, <2>1
<1>9. ASSUME CreateExec(q) \/ ExecRecorded(q) \/ StartExec(q) \/ ExecAnswers(q) \/ Proceed(q)
      PROVE  SeatsAt(q)'
  <2>1. /\ Executes(q) /\ (pc'[q] = "writing" => mem[q].phase = "active") /\ (pc'[q] = "landed" => pc[q] = "writing")
    BY <1>9, CreateEffect, RecordEffect, StartEffect, AnswerEffect, ProceedEffect DEF MayAct
  <2> QED BY <2>1, ExecutesSeats
<1>10. ASSUME NEW r \in Requests,
              CreateExec(r) \/ ExecRecorded(r) \/ StartExec(r) \/ ExecAnswers(r) \/ Proceed(r)
       PROVE  SeatsAt(q)'
  <2>1. CASE r = q
    BY <1>9, <1>10, <2>1
  <2>2. CASE r # q
    <3>1. Executes(r)
      BY <1>10, CreateEffect, RecordEffect, StartEffect, AnswerEffect, ProceedEffect
    <3> QED BY <1>8, <2>2, <3>1
  <2> QED BY <2>1, <2>2
<1>11. ASSUME NEW r \in Requests, NEW s \in Step,
              THttpAnswers(r) \/ PromptPersisted(r) \/ ExecActs(r, s) \/ ExecEnds(r, s)
       PROVE  UNCHANGED <<pc, mem, canc, lock>>
  BY <1>11 DEF THttpAnswers, PromptPersisted, ExecActs, ExecEnds, ops
<1>12. ASSUME NEW r \in Requests, CancelActive(r) PROVE SeatsAt(q)'
  <2>1. /\ UNCHANGED <<disk, live, pc, lock, logged, window, stopping>> /\ canc' = canc \union {r}
        /\ mem' = [mem EXCEPT ![r] = Cancelled(mem[r])] /\ mem[r].phase = "active"
        /\ pc[r] \in Announced \/ (stopping /\ pc[r] \in {"prepare", "event"})
    BY <1>12 DEF CancelActive, past
  <2>2. mem'["adopted"] = mem["adopted"] /\ (q # r => mem'[q] = mem[q])
    BY <1>a, <2>1
  <2>3. CASE q # r
    <3>1. q \in canc' => q \in canc
      BY <2>1, <2>3
    <3> QED BY <2>1, <2>2, <2>3, <3>1, SeatsFrame
  <2>4. CASE q = r
    <3>1. mem'[q].phase = "cancelled" /\ mem'[q].req = mem[q].req
      BY <1>a, <2>1, <2>4, CancelledFields
    <3>2. CASE pc[q] \in Announced
      <4>1. lock = q
        BY <1>a, <2>1, <2>4, <3>2 DEF SeatsAt
      <4>2. Mine(q)'
        BY <2>1, <3>1, <3>2, <4>1, ActiveMine DEF Mine
      <4> QED BY <1>a, <2>1, <2>2, <2>4, <3>1, <3>2, <4>1, <4>2 DEF SeatsAt, Announced, Opening
    <3>3. CASE stopping /\ pc[q] \in {"prepare", "event"}
      <4>1. Quiet'
        BY <3>3, QuietOpening, QuietKept DEF Opening
      <4> QED BY <1>a, <2>1, <2>2, <2>4, <3>1, <3>3, <4>1 DEF SeatsAt, Announced
    <3> QED BY <2>1, <2>4, <3>2, <3>3
  <2> QED BY <2>3, <2>4
<1>13. ASSUME NEW r \in Requests, NEW ok \in BOOLEAN, CancelWritten(r, ok) PROVE SeatsAt(q)'
  <2>1. /\ UNCHANGED <<mem, pc, logged, window, stopping>> /\ canc' = canc \ {r} /\ r \in canc
        /\ pc[r] \notin {"writing", "landed"} /\ lock' \in {lock, "none"}
        /\ lock # r => lock' = lock
    BY <1>13 DEF CancelWritten, Landed, past
  <2>2. CASE q # r
    <3>1. q \in canc' => q \in canc
      BY <2>1
    <3> QED BY <2>1, <2>2, <3>1, SeatsFrame
  <2>3. CASE q = r
    BY <1>a, <2>1, <2>3 DEF SeatsAt, Announced
  <2> QED BY <2>2, <2>3
<1>14. ASSUME NEW o \in Obj, AckWindowEnds(o) \/ TakeLock(o) PROVE SeatsAt(q)'
  <2>1. /\ UNCHANGED <<mem, canc>> /\ (lock' = lock \/ (lock = "none" /\ lock' = "job"))
        /\ \E p \in {"conclude", "done"} : pc' = [pc EXCEPT ![o] = p]
    BY <1>14 DEF AckWindowEnds, TakeLock, StartJob
  <2>3. lock' = q <=> lock = q
    BY <2>1
  <2>4. pc'[q] = pc[q] \/ (q = o /\ pc'[q] \in {"conclude", "done"})
    BY <1>a, <2>1
  <2>2. mem'[q] = mem[q] /\ mem'["adopted"] = mem["adopted"] /\ canc' = canc
    BY <2>1
  <2>5. CASE pc'[q] = pc[q]
    BY <1>b, <2>2, <2>3, <2>5, Zenon
  <2>6. CASE pc'[q] \in {"conclude", "done"}
    <3>1. pc'[q] \notin Announced \union Opening \union {"close", "idle", "recover", "recovering", "check"}
      BY <2>6 DEF Announced, Opening
    <3> QED BY <2>2, <2>3, <3>1, SeatsOut, Zenon
  <2> QED BY <2>4, <2>5, <2>6
<1>15. CASE Job
  <2>1. /\ Treats /\ Leads /\ UNCHANGED canc /\ mem'["adopted"].req = mem["adopted"].req
        /\ mem'[q].phase = "active" => mem[q].phase = "active"
        /\ job.pc # "idle"
    BY <1>15, <1>a, JobEffect, JobLeads DEF Treats, Procedure, Op
  <2>2. lock = q => pc[q] = "resending" /\ job.by = "resend" /\ job.req = q
    BY <2>1, NoJobUnder DEF Types, Turns
  <2>3. CASE pc'[q] = pc[q]
    <3>1. Turns'
      BY TypesKept DEF Types
    <3>2. lock' = q <=> lock = q
      BY <2>1, <2>2, <2>3, <3>1 DEF Leads, Turns
    <3> QED BY <2>1, <2>3, <3>2, SeatsFrame
  <2>4. CASE q = job.req /\ pc'[q] \in {"check", "precond", "done"} /\ pc[q] \in Before /\ (pc'[q] = "check" => lock' = "none")
    <3>1. q \notin canc' /\ (lock' = q => lock = q)
      BY <2>1, <2>4 DEF Types, Turns, Leads
    <3>2. CASE pc'[q] = "check"
      BY <2>4, <3>1, <3>2, SeatsAway DEF Announced
    <3> QED BY <2>1, <2>4, <3>1, <3>2, SeatsOut DEF Announced, Opening
  <2>5. CASE q = job.op /\ pc'[q] = "ackwait" /\ mem'[q] = Op
    <3>1. mem'[q] = mem[q] /\ (lock' = q => lock = q)
      BY <2>1, <2>5 DEF Leads, Op
    <3> QED BY <2>1, <2>5, <3>1, SeatsOut DEF Announced, Opening
  <2>6. q = job.req /\ job.by \in {"recover", "resend"} => pc[q] \in Before
    BY DEF Types, Turns, Before
  <2> QED BY <1>a, <2>1, <2>3, <2>4, <2>5, <2>6 DEF Leads
<1>16. ASSUME NEW declare \in BOOLEAN, Resolve(declare) PROVE SeatsAt(q)'
  <2>1. UNCHANGED <<pc, canc>> /\ mem'[q] = mem[q] /\ lock = "none" /\ lock' = "job"
    BY <1>16, <1>a DEF Resolve
  <2> QED BY <1>b, <2>1
<1>17. CASE Shutdown \/ ContainerReplaced
  BY <1>0, <1>17 DEF Shutdown, ContainerReplaced, ops
<1> QED
  BY <1>0, <1>1, <1>2, <1>3, <1>4, <1>5, <1>6, <1>7, <1>10, <1>11, <1>12, <1>13, <1>14, <1>15, <1>16, <1>17, Steps
  DEF Next, Executor

-----------------------------------------------------------------------------
(* The procedures.                                                          *)

\* When no procedure runs, its part says nothing.
LEMMA NoJobFree ==
  ASSUME Types, lock = "none"
  PROVE  job.by = "none" /\ job.op = "none" /\ job.pc = "idle"
<1>1. job.by # "resend"
  BY Names DEF Types, Held, Turns
<1> QED BY <1>1 DEF Types, Held

\* What others do meanwhile to the operation of a procedure: they may cancel
\* it; its released record they leave alone; the pane's record they do not write.
Undisturbed ==
  /\ job' = job /\ mem'[job.op].req = Op.req
  /\ mem'[job.op].phase = "active" => Op.phase = "active"
  /\ Op.state = "released" => mem'[job.op].state = "released"
  /\ disk' = disk \/ Quiet

\* Nobody but the procedure changes the record it works on.
LEMMA OpKept ==
  ASSUME IInv, Regular, Next, ~Job, ~Crash, job.pc # "idle"
  PROVE  Undisturbed
<1> USE Names, TypeFacts DEF IInv
<1>a. job.op \in Obj /\ Op \in Record /\ lock # "none"
  BY OpFacts, NoJobFree
<1>b. \A r \in Requests : lock = r => pc[r] = "resending"
  BY NoJobUnder
<1>0. ASSUME job' = job, mem'[job.op] = mem[job.op], disk' = disk PROVE Undisturbed
  BY <1>0 DEF Undisturbed, Op
<1>1. ASSUME NEW r \in Requests, NEW s \in Step,
             \/ Arrive(r) \/ Recover(r) \/ Check(r) \/ THttpAnswers(r) \/ PromptPersisted(r)
             \/ ExecActs(r, s) \/ ExecEnds(r, s)
      PROVE  UNCHANGED <<job, mem, disk>>
  BY <1>1, <1>a DEF Arrive, Recover, Check, THttpAnswers, PromptPersisted, ExecActs, ExecEnds, ops
<1>2. ASSUME NEW r \in Requests, NEW ok \in BOOLEAN,
             \/ Refuse(r) \/ Prepare(r) \/ PreparedConfirmed(r)
             \/ PreparedLands(r, ok) \/ StoppedAtPrepared(r, ok) \/ WithdrawPrepared(r, ok)
             \/ ExecRecorded(r) \/ Close(r, ok)
      PROVE  FALSE
  <2>1. pc[r] \in {"precond", "writing", "close"} \union Opening
    BY <1>2 DEF Refuse, Prepare, PreparedConfirmed, PreparedLands, StoppedAtPrepared, WithdrawPrepared,
                ExecRecorded, Close, Opening
  <2>2. lock = r
    BY <2>1 DEF Types, Turns, Seats, SeatsAt
  <2> QED BY <1>b, <2>1, <2>2 DEF Opening
<1>3. ASSUME NEW r \in Requests,
             CreateExec(r) \/ StartExec(r) \/ ExecAnswers(r) \/ Proceed(r)
      PROVE  Undisturbed
  <2>1. Executes(r) /\ disk' = disk
    BY <1>3, CreateEffect, StartEffect, AnswerEffect, ProceedEffect
  <2>2. mem[r].phase # "active"
    BY <1>b, <2>1 DEF Seats, SeatsAt, Executes, Announced
  <2>3. job' = job /\ mem'[r].req = mem[r].req /\ SameFate(r) /\ \A p \in Obj \ {r} : mem'[p] = mem[p]
    BY <2>1, <2>2 DEF Executes, Around, Only, GoesOn, Reports, Ends
  <2> QED BY <1>a, <2>1, <2>3 DEF Undisturbed, SameFate, Op
<1>4. ASSUME NEW r \in Requests, CancelActive(r) PROVE Undisturbed
  <2>1. UNCHANGED <<job, disk>> /\ mem' = [mem EXCEPT ![r] = Cancelled(mem[r])]
    BY <1>4 DEF CancelActive
  <2>2. Cancelled(Op).req = Op.req /\ Cancelled(Op).phase = "cancelled"
        /\ (Op.state = "released" => Cancelled(Op).state = "released")
    BY <1>a, CancelledFields
  <2>3. mem'[job.op] = Op \/ mem'[job.op] = Cancelled(Op)
    BY <1>a, <2>1 DEF Op
  <2> QED BY <2>1, <2>2, <2>3 DEF Undisturbed
<1>5. ASSUME NEW r \in Requests, NEW ok \in BOOLEAN, CancelWritten(r, ok) PROVE Undisturbed
  <2>1. UNCHANGED <<job, mem>> /\ r \in canc
    BY <1>5 DEF CancelWritten
  <2>2. Quiet
    BY <1>b, <2>1 DEF Seats, SeatsAt, Types, Turns, Before
  <2> QED BY <2>1, <2>2 DEF Undisturbed, Op
<1>6. ASSUME NEW o \in Obj, AckWindowEnds(o) \/ TakeLock(o) PROVE UNCHANGED <<job, mem, disk>>
  BY <1>6, <1>a DEF AckWindowEnds, TakeLock, StartJob
<1>7. ASSUME NEW declare \in BOOLEAN, Resolve(declare) PROVE FALSE
  BY <1>7, <1>a DEF Resolve
<1>8. CASE Shutdown \/ ContainerReplaced
  BY <1>0, <1>8 DEF Shutdown, ContainerReplaced, ops
<1> QED BY <1>0, <1>1, <1>2, <1>3, <1>4, <1>5, <1>6, <1>7, <1>8, Steps DEF Next, Executor

\* A message id belongs to its request for good.
LEMMA IdKept ==
  ASSUME Next
  PROVE  id' = id
<1>1. ASSUME NEW r \in Requests,
             \/ Arrive(r) \/ Recover(r) \/ Check(r) \/ Refuse(r) \/ Prepare(r) \/ PreparedConfirmed(r)
             \/ CreateExec(r) \/ ExecRecorded(r) \/ StartExec(r) \/ ExecAnswers(r) \/ Proceed(r)
             \/ THttpAnswers(r) \/ CancelActive(r) \/ PromptPersisted(r)
      PROVE  id' = id
  BY <1>1 DEF Arrive, Recover, Check, Refuse, Prepare, PreparedConfirmed, CreateExec, ExecRecorded, StartExec,
              ExecAnswers, Proceed, THttpAnswers, CancelActive, PromptPersisted
<1>2. ASSUME NEW r \in Requests, NEW ok \in BOOLEAN, NEW s \in Step,
             \/ PreparedLands(r, ok) \/ StoppedAtPrepared(r, ok) \/ WithdrawPrepared(r, ok)
             \/ Close(r, ok) \/ CancelWritten(r, ok)
      PROVE  id' = id
  BY <1>2 DEF PreparedLands, StoppedAtPrepared, WithdrawPrepared, Close, CancelWritten
<1>3. ASSUME NEW r \in Requests, NEW s \in Step, ExecActs(r, s) \/ ExecEnds(r, s) PROVE id' = id
  BY <1>3 DEF ExecActs, ExecEnds
<1>4. ASSUME NEW o \in Obj, AckWindowEnds(o) \/ TakeLock(o) PROVE id' = id
  BY <1>4 DEF AckWindowEnds, TakeLock
<1>5. ASSUME NEW ok \in BOOLEAN,
             \/ JobAdopts(ok) \/ JobDeclares(ok) \/ JobLate(ok) \/ JobSettles(ok) \/ JobDerives(ok)
             \/ JobAcks(ok) \/ JobConcludes(ok) \/ JobMarks(ok) \/ JobRemoves(ok) \/ JobReleases
      PROVE  id' = id
  BY <1>5 DEF JobAdopts, JobDeclares, JobLate, JobSettles, JobDerives, JobAcks, JobConcludes, JobMarks,
              JobRemoves, JobReleases
<1>6. ASSUME NEW declare \in BOOLEAN, Resolve(declare) PROVE id' = id
  BY <1>6 DEF Resolve
<1>7. CASE Shutdown \/ ContainerReplaced \/ Crash
  BY <1>7 DEF Shutdown, ContainerReplaced, Crash
<1> QED BY <1>1, <1>2, <1>3, <1>4, <1>5, <1>6, <1>7, Steps DEF Next, Executor, Job

\* A procedure begins where a send recovers, resends or resolves, or one of
\* the operation's continuations takes the lock.
LEMMA JobBegins ==
  ASSUME Types, Next, ~Job, job.pc = "idle", job' # job, ~Crash
  PROVE  \/ \E r \in Requests : Recover(r) \/ Check(r)
         \/ \E o \in Obj : TakeLock(o)
         \/ \E declare \in BOOLEAN : Resolve(declare)
<1>1. ASSUME NEW r \in Requests,
             \/ Arrive(r) \/ Refuse(r) \/ Prepare(r) \/ PreparedConfirmed(r)
             \/ CreateExec(r) \/ ExecRecorded(r) \/ StartExec(r) \/ ExecAnswers(r) \/ Proceed(r)
             \/ THttpAnswers(r) \/ CancelActive(r) \/ PromptPersisted(r)
      PROVE  job' = job
  BY <1>1 DEF Arrive, Refuse, Prepare, PreparedConfirmed, CreateExec, ExecRecorded, StartExec,
              ExecAnswers, Proceed, THttpAnswers, CancelActive, PromptPersisted
<1>2. ASSUME NEW r \in Requests, NEW ok \in BOOLEAN,
             \/ PreparedLands(r, ok) \/ StoppedAtPrepared(r, ok) \/ WithdrawPrepared(r, ok)
             \/ Close(r, ok) \/ CancelWritten(r, ok)
      PROVE  job' = job
  BY <1>2 DEF PreparedLands, StoppedAtPrepared, WithdrawPrepared, Close, CancelWritten
<1>3. ASSUME NEW r \in Requests, NEW s \in Step, ExecActs(r, s) \/ ExecEnds(r, s) PROVE job' = job
  BY <1>3 DEF ExecActs, ExecEnds
<1>4. ASSUME NEW o \in Obj, AckWindowEnds(o) PROVE job' = job
  BY <1>4 DEF AckWindowEnds
<1>5. CASE Shutdown \/ ContainerReplaced
  BY <1>5 DEF Shutdown, ContainerReplaced
<1> QED BY <1>1, <1>2, <1>3, <1>4, <1>5 DEF Next, Executor

\* No procedure, no task.
LEMMA TaskIdle ==
  ASSUME job' = NoJob
  PROVE  Task'
BY NoJobFields DEF Task

\* A procedure keeps its task.
LEMMA JobTask ==
  ASSUME IInv, Regular, Job
  PROVE  Task'
<1> USE Names, TypeFacts DEF IInv
<1>8. CASE Crash
  BY <1>8, TaskIdle DEF Crash
<1> SUFFICES ASSUME ~Crash PROVE Task'
  BY <1>8
<1>a. id' = id /\ (Quiet => Quiet') /\ Next
  BY IdKept, QuietKept DEF Next
<1>b. ASSUME NEW released \in BOOLEAN, Ended(released) PROVE Task'
  BY <1>b, TaskIdle DEF Ended
\* Where the operation's record has to say nothing.
<1>c. ASSUME Procedure, NEW points, points \subseteq {"settle", "derive", "release"}, Goes(points) PROVE Task'
  <2>1. job'.pc \in {"settle", "derive", "release"} /\ job'.by = job.by /\ job'.op = job.op /\ job'.req = job.req
    BY <1>c DEF Goes
  <2>2. mem'[job'.op].req = Op.req
    BY <1>c, <2>1 DEF Procedure
  <2> QED BY <1>a, <2>1, <2>2 DEF Procedures, Task, Op
<1>d. job.pc \in {"adopt", "declare", "settle", "derive", "ack", "late", "conclude"} => job.by # "resend"
  BY DEF Types, Turns
<1>1. ASSUME NEW ok \in BOOLEAN, JobAdopts(ok) PROVE Task'
  <2>1. /\ job.pc = "adopt" /\ Procedure
        /\ \/ Ended(FALSE)
           \/ /\ Goes({"declare", "settle"})
              /\ mem'[job.op] = Cancelled(Op) \/ (mem'[job.op] = Op /\ Op.phase # "active")
    BY <1>1, AdoptEffect
  <2>2. CASE Goes({"declare", "settle"}) /\ mem'[job.op].phase # "active"
    <3>1. job'.pc \in {"declare", "settle"} /\ job'.by # "resend" /\ job'.op = job.op
      BY <1>d, <2>1, <2>2 DEF Goes
    <3> QED BY <2>2, <3>1 DEF Task, Op
  <2>3. Cancelled(Op).phase # "active"
    BY <2>1, CancelledFields DEF Procedure
  <2> QED BY <1>b, <2>1, <2>2, <2>3
<1>2. ASSUME NEW ok \in BOOLEAN, JobDeclares(ok) \/ JobLate(ok) \/ JobSettles(ok) \/ JobConcludes(ok) PROVE Task'
  BY <1>b, <1>c, <1>2, DeclareEffect, LateEffect, SettleEffect, ConcludeEffect
<1>3. ASSUME NEW ok \in BOOLEAN, JobDerives(ok) PROVE Task'
  <2>1. /\ job.pc = "derive" /\ Procedure
        /\ (Goes({"ack"}) /\ mem'[job.op].state = "entered") \/ Goes({"release"})
    BY <1>3, DeriveEffect
  <2>2. CASE Goes({"ack"}) /\ mem'[job.op].state = "entered"
    <3>1. job'.pc = "ack" /\ job'.by # "resend" /\ job'.op = job.op
      BY <1>d, <2>1, <2>2 DEF Goes
    <3>2. mem'[job.op].phase # "active"
      BY <1>a, <2>1, <2>2, TruthKept DEF Truth, TrueRec, Procedure
    <3> QED BY <3>1, <3>2 DEF Task, Op
  <2> QED BY <1>c, <2>1, <2>2
<1>4. ASSUME NEW ok \in BOOLEAN, JobAcks(ok) PROVE Task'
  BY <1>b, <1>c, <1>4, TaskIdle, AckEffect
<1>5. CASE JobReleases
  <2>1. /\ job.pc = "release" /\ Procedure /\ disk' = disk
        /\ \/ Ended(FALSE)
           \/ /\ mem'[job.op].state = "released" /\ (OnDisk => SameId(disk, Op))
              /\ \/ Op.state = "released" /\ Goes({"remove"})
                 \/ Op.state # "released" /\ Goes({"mark"})
    BY <1>5, ReleaseEffect
  <2>2. Engaged(job.op) /\ job.op \in Obj
    BY <2>1 DEF Engaged, Procedure
  <2>3. Op.req \in Requests
    BY <2>2, EngagedNamed DEF Op
  <2>4. CASE mem'[job.op].state = "released" /\ Op.state # "released" /\ Goes({"mark"})
    <3>1. /\ job'.pc = "mark" /\ job'.by = job.by /\ job'.op = job.op /\ job'.req = job.req
          /\ mem'[job.op].req = Op.req
      BY <2>1, <2>4 DEF Goes, Procedure
    <3>2. Quiet \/ disk.req = Op.req
      BY <2>2, <2>4 DEF Holds, HoldsAt, Mine, Gone, Op
    <3> QED BY <1>a, <2>1, <2>4, <3>1, <3>2 DEF Procedures, Task, Op
  <2>5. CASE mem'[job.op].state = "released" /\ Op.state = "released" /\ Goes({"remove"}) /\ (OnDisk => SameId(disk, Op))
    <3>1. /\ job'.pc = "remove" /\ job'.by = job.by /\ job'.op = job.op /\ job'.req = job.req
          /\ mem'[job.op].req = Op.req
      BY <2>1, <2>5 DEF Goes, Procedure
    <3>2. OnDisk => disk.req \in Requests /\ id[disk.req] = id[Op.req]
      BY <2>5, RecFields DEF OnDisk, SameId, Types, Named, Whole
    <3>3. OnDisk => disk.req = Op.req
      BY <2>2, <2>3, <3>2 DEF Single, Claimed, Op
    <3> QED BY <1>a, <2>1, <2>5, <3>1, <3>3 DEF Procedures, Task, Op, OnDisk
  <2> QED BY <1>b, <2>1, <2>4, <2>5
<1>6. ASSUME NEW ok \in BOOLEAN, JobMarks(ok) PROVE Task'
  <2>1. job.pc = "mark" /\ Procedure /\ Writes /\ mem' = mem /\ Goes({"remove"})
    BY <1>6, MarkEffect
  <2>2. /\ job'.pc = "remove" /\ job'.by = job.by /\ job'.op = job.op /\ job'.req = job.req
        /\ mem'[job.op] = Op /\ disk' \in {disk, Op}
    BY <2>1 DEF Goes, Writes, Op
  <2> QED BY <1>a, <2>1, <2>2 DEF Procedures, Task, Op
<1>7. ASSUME NEW ok \in BOOLEAN, JobRemoves(ok) PROVE Task'
  <2>1. (disk' = NoRecord) \in BOOLEAN
    OBVIOUS
  <2> QED BY <1>b, <1>7, <2>1, RemoveEffect
<1> QED BY <1>1, <1>2, <1>3, <1>4, <1>5, <1>6, <1>7 DEF Job

\* Every step keeps the task of the procedure.
LEMMA TaskKept ==
  ASSUME IInv, Regular, Next
  PROVE  Task'
<1> USE Names, TypeFacts DEF IInv
<1>1. CASE Job
  BY <1>1, JobTask
<1>2. CASE Crash
  BY <1>2, TaskIdle DEF Crash
<1>3. CASE ~Job /\ ~Crash /\ job.pc # "idle"
  <2>1. Undisturbed /\ id' = id /\ (Quiet => Quiet')
    BY <1>3, OpKept, IdKept, QuietKept
  <2> QED BY <2>1 DEF Undisturbed, Procedures, Task, Op
<1>4. CASE job.pc = "idle" /\ job' = job
  BY <1>4 DEF Task, Types, Held
<1>5. ASSUME NEW r \in Requests, Recover(r) PROVE Task'
  <2>1. job' = job \/ job' = [by |-> "recover", op |-> "adopted", pc |-> "adopt", req |-> r, declare |-> FALSE]
    BY <1>5 DEF Recover, NoJob
  <2>2. CASE job' = job
    BY <1>3, <1>4, <1>1, <1>2, <2>2
  <2>3. CASE job' # job
    <3>1. job'.by = "recover" /\ job'.pc = "adopt"
      BY <2>1, <2>3, NewJobFields
    <3> QED BY <3>1 DEF Task
  <2> QED BY <2>2, <2>3
<1>6. ASSUME NEW r \in Requests, Check(r), job' # job PROVE Task'
  <2>1. /\ job' = [by |-> "resend", op |-> live, pc |-> "release", req |-> r, declare |-> FALSE]
        /\ UNCHANGED <<id, mem>> /\ OwnFinal /\ id[disk.req] # id[r]
    BY <1>6 DEF Check, NoJob
  <2>2. job'.by = "resend" /\ job'.op = live /\ job'.req = r /\ job'.pc = "release"
    BY <2>1, NewJobFields DEF OwnFinal
  <2> QED BY <2>1, <2>2 DEF Task, Op, OwnFinal, SameId
<1>7. ASSUME NEW o \in Obj, TakeLock(o), job' # job PROVE Task'
  <2>1. lock = "none" /\ mem' = mem /\ pc[o] \in {"late", "release", "conclude"} /\ StartJob(pc[o], o, pc[o])
    BY <1>7 DEF TakeLock, StartJob
  <2>2. job'.by = pc[o] /\ job'.op = o /\ job'.pc = pc[o]
    BY <2>1, StartFacts
  <2>3. pc[o] = "conclude" => mem[o].phase # "active"
    BY <2>1, NoJobFree DEF Procedures, Awaits
  <2> QED BY <2>1, <2>2, <2>3 DEF Task, Op
<1>8. ASSUME NEW declare \in BOOLEAN, Resolve(declare) PROVE Task'
  <2>1. \E o \in Obj : job' = [by |-> "resolve", op |-> o, pc |-> "adopt", req |-> "none", declare |-> declare]
    BY <1>8 DEF Resolve, NoJob
  <2>2. job'.by = "resolve" /\ job'.pc = "adopt"
    BY <2>1, NewJobFields
  <2> QED BY <2>2 DEF Task
<1> QED BY <1>1, <1>2, <1>3, <1>4, <1>5, <1>6, <1>7, <1>8, JobBegins

\* Whoever waits for the acknowledgement is no longer in its active phase.
LEMMA AwaitsFrame ==
  ASSUME NEW o \in Obj, Awaits(o), pc'[o] = pc[o], job.pc = "idle" \/ job' = job,
         mem'[o].phase = "active" => mem[o].phase = "active"
  PROVE  Awaits(o)'
BY DEF Awaits

\* Who waits for its ack is not active, or is being adopted.
LEMMA AwaitsKept ==
  ASSUME IInv, Regular, Next, NEW q \in Obj
  PROVE  Awaits(q)'
<1> USE Names, TypeFacts DEF IInv
<1>a. Awaits(q) /\ mem[q] \in Record
  BY DEF Procedures
<1>b. pc'[q] \notin {"ackwait", "conclude"} => Awaits(q)'
  BY DEF Awaits
<1>c. ASSUME job.pc = "idle" \/ job' = job, mem'[q].phase = mem[q].phase,
             pc'[q] = pc[q] \/ pc'[q] \notin {"ackwait", "conclude"}
      PROVE  Awaits(q)'
  BY <1>a, <1>b, <1>c, AwaitsFrame
<1>1. ASSUME NEW r \in Requests, Arrive(r) \/ Check(r) \/ Refuse(r) PROVE Awaits(q)'
  <2>1. /\ mem' = mem /\ \E p \in {"recover", "check", "done", "resending", "precond"} : pc' = [pc EXCEPT ![r] = p]
        /\ job' = job \/ lock = "none"
    BY <1>1 DEF Arrive, Check, Refuse
  <2> QED BY <1>c, <2>1, NoJobFree
<1>2. ASSUME NEW r \in Requests, Recover(r) PROVE Awaits(q)'
  <2>1. /\ \E p \in {"recovering", "check"} : pc' = [pc EXCEPT ![r] = p]
        /\ \/ UNCHANGED <<job, mem>>
           \/ /\ lock = "none" /\ mem' = [mem EXCEPT !["adopted"] = disk]
              /\ job' = [by |-> "recover", op |-> "adopted", pc |-> "adopt", req |-> r, declare |-> FALSE]
    BY <1>2 DEF Recover, NoJob
  <2>2. CASE UNCHANGED <<job, mem>>
    BY <1>c, <2>1, <2>2
  <2>3. CASE lock = "none" /\ q # "adopted" /\ mem' = [mem EXCEPT !["adopted"] = disk]
    BY <1>c, <2>1, <2>3, NoJobFree
  <2>4. CASE q = "adopted" /\ job' = [by |-> "recover", op |-> "adopted", pc |-> "adopt", req |-> r, declare |-> FALSE]
    <3>1. job'.op = q /\ job'.pc = "adopt"
      BY <2>4, NewJobFields
    <3> QED BY <3>1 DEF Awaits
  <2> QED BY <2>1, <2>2, <2>3, <2>4
<1>3. ASSUME NEW r \in Requests, Prepare(r) \/ PreparedConfirmed(r) PROVE Awaits(q)'
  <2>1. /\ \E p \in {"prepare", "create", "stop", "withdraw"} : pc' = [pc EXCEPT ![r] = p]
        /\ job' = job /\ (q # r => mem'[q] = mem[q])
    BY <1>3 DEF Prepare, PreparedConfirmed
  <2> QED BY <1>b, <1>c, <2>1
<1>4. ASSUME NEW r \in Requests, NEW ok \in BOOLEAN,
             PreparedLands(r, ok) \/ StoppedAtPrepared(r, ok) \/ WithdrawPrepared(r, ok)
      PROVE  Awaits(q)'
  <2>1. UNCHANGED <<mem, job>> /\ \E p \in {"event", "withdraw", "done"} : pc' = [pc EXCEPT ![r] = p]
    BY <1>4 DEF PreparedLands, StoppedAtPrepared, WithdrawPrepared
  <2> QED BY <1>c, <2>1
<1>5. ASSUME NEW r \in Requests,
             CreateExec(r) \/ ExecRecorded(r) \/ StartExec(r) \/ ExecAnswers(r) \/ Proceed(r)
      PROVE  Awaits(q)'
  <2>1. Executes(r)
    BY <1>5, CreateEffect, RecordEffect, StartEffect, AnswerEffect, ProceedEffect
  <2>2. job' = job /\ pc'[r] \notin {"ackwait", "conclude"} /\ (q # r => mem'[q] = mem[q] /\ pc'[q] = pc[q])
    BY <2>1 DEF Executes, Around, Only, GoesOn, Reports, Ends, Announced
  <2> QED BY <1>b, <1>c, <2>2
<1>6. ASSUME NEW r \in Requests, NEW ok \in BOOLEAN, Close(r, ok) PROVE Awaits(q)'
  <2>1. /\ UNCHANGED <<mem, job>> /\ pc[r] = "close"
        /\ \E p \in {"release", "done", "ackwait"} : pc' = [pc EXCEPT ![r] = p]
    BY <1>6 DEF Close
  <2>2. mem[r].phase # "active"
    BY <2>1 DEF Seats, SeatsAt
  <2>3. q # r => Awaits(q)'
    BY <1>c, <2>1
  <2> QED BY <2>1, <2>2, <2>3 DEF Awaits
<1>7. ASSUME NEW r \in Requests, NEW ok \in BOOLEAN, NEW s \in Step,
             \/ THttpAnswers(r) \/ PromptPersisted(r) \/ ExecActs(r, s) \/ ExecEnds(r, s) \/ CancelWritten(r, ok)
      PROVE  UNCHANGED <<pc, mem, job>>
  BY <1>7 DEF THttpAnswers, PromptPersisted, ExecActs, ExecEnds, CancelWritten, ops
<1>8. ASSUME NEW r \in Requests, CancelActive(r) PROVE Awaits(q)'
  <2>1. UNCHANGED <<pc, job>> /\ mem' = [mem EXCEPT ![r] = Cancelled(mem[r])]
    BY <1>8 DEF CancelActive
  <2>2. mem'[q].phase = "active" => mem[q].phase = "active"
    BY <1>a, <2>1, CancelledFields
  <2> QED BY <1>a, <2>1, <2>2, AwaitsFrame
<1>9. ASSUME NEW o \in Obj, AckWindowEnds(o) PROVE Awaits(q)'
  <2>1. UNCHANGED <<mem, job>> /\ pc[o] = "ackwait" /\ pc' = [pc EXCEPT ![o] = "conclude"]
    BY <1>9 DEF AckWindowEnds
  <2> QED BY <1>a, <2>1 DEF Awaits
<1>10. ASSUME NEW o \in Obj, TakeLock(o) PROVE Awaits(q)'
  <2>1. mem' = mem /\ pc' = [pc EXCEPT ![o] = "done"] /\ (job' = job \/ lock = "none")
    BY <1>10 DEF TakeLock, StartJob
  <2> QED BY <1>c, <2>1, NoJobFree
<1>11. CASE Job
  <2>1. /\ Treats /\ Leads /\ Procedure
        /\ mem'[q].phase = "active" => mem[q].phase = "active"
    BY <1>11, <1>a, JobEffect, JobLeads DEF Treats, Procedure, Op
  <2>2. CASE pc'[q] \in {"ackwait", "conclude"} /\ pc'[q] # pc[q]
    <3>1. q = job.op /\ job.pc = "ack" /\ mem'[q] = Op
      BY <2>1, <2>2 DEF Leads
    <3> QED BY <3>1 DEF Procedures, Task, Awaits
  <2>3. CASE pc'[q] = pc[q] /\ job.op = q /\ job.pc = "adopt"
    <3>1. PICK ok \in BOOLEAN : JobAdopts(ok)
      BY <1>11, <2>3 DEF Job, JobReleases, JobDeclares, JobLate, JobSettles, JobDerives, JobAcks,
                                      JobConcludes, JobMarks, JobRemoves
    <3>2. mem'[q] = Cancelled(mem[q]) \/ (mem'[q] = mem[q] /\ mem[q].phase # "active")
      BY <2>3, <3>1, AdoptEffect DEF Op
    <3>3. mem'[q].phase # "active"
      BY <1>a, <3>2, CancelledFields
    <3> QED BY <3>3 DEF Awaits
  <2>4. CASE pc'[q] = pc[q] /\ ~(job.op = q /\ job.pc = "adopt")
    BY <1>a, <2>1, <2>4 DEF Awaits
  <2> QED BY <1>b, <2>2, <2>3, <2>4
<1>12. ASSUME NEW declare \in BOOLEAN, Resolve(declare) PROVE Awaits(q)'
  <2>1. /\ pc' = pc /\ lock = "none"
        /\ mem' = mem \/ (live = "none" /\ mem' = [mem EXCEPT !["adopted"] = disk])
        /\ \E o \in Obj : /\ live = "none" => o = "adopted"
                          /\ job' = [by |-> "resolve", op |-> o, pc |-> "adopt", req |-> "none", declare |-> declare]
    BY <1>12 DEF Resolve, NoJob
  <2>2. CASE mem'[q] = mem[q]
    BY <1>c, <2>1, <2>2, NoJobFree
  <2>3. CASE q = "adopted" /\ live = "none"
    <3>1. job'.op = q /\ job'.pc = "adopt"
      BY <2>1, <2>3, NewJobFields
    <3> QED BY <3>1 DEF Awaits
  <2> QED BY <2>1, <2>2, <2>3
<1>13. CASE Shutdown \/ ContainerReplaced
  BY <1>13, <1>c DEF Shutdown, ContainerReplaced, ops
<1>14. CASE Crash
  BY <1>14, <1>b DEF Crash
<1> QED
  BY <1>c, <1>1, <1>2, <1>3, <1>4, <1>5, <1>6, <1>7, <1>8, <1>9, <1>10, <1>11, <1>12, <1>13, <1>14, Steps
  DEF Next, Executor

\* Every step keeps the procedures' part.
LEMMA ProceduresKept ==
  ASSUME IInv, Regular, Next
  PROVE  Procedures'
BY TaskKept, AwaitsKept DEF Procedures

-----------------------------------------------------------------------------
(* A request before its record, and in its opening.                         *)

\* Nothing in the process or on disk bears r's name.
Unnamed(r) == disk.req # r /\ (\A o \in Obj : mem[o].req # r) /\ live # r /\ job.op # r

\* A request nothing names stays so when nothing of it changes.
LEMMA UnnamedStep ==
  ASSUME NEW r \in Requests, Unnamed(r),
         disk'.req \in {disk.req, "none"} \/ (\E o \in Obj : disk'.req = mem[o].req),
         \A o \in Obj : mem'[o].req \in {mem[o].req, disk.req, "none"} \/ mem'[o].req # r,
         live' # r, job'.op # r
  PROVE  Unnamed(r)'
BY ComposerAssumption DEF Unnamed

\* A request that prepared nothing stays unnamed.
LEMMA UnnamedKept ==
  ASSUME IInv, Regular, Next, NEW q \in Requests, pc'[q] \in Before
  PROVE  pc[q] \in Before /\ Unnamed(q)'
<1> USE Names, TypeFacts DEF IInv
<1>a. /\ q \in Obj /\ (pc[q] \in Before => Unnamed(q))
      /\ \A o \in Obj : mem[o] \in Record
  BY DEF Fresh, Unnamed
<1>b. ASSUME UNCHANGED <<disk, mem, live, job>> PROVE pc[q] \in Before => Unnamed(q)'
  BY <1>a, <1>b DEF Unnamed
<1>1. ASSUME NEW r \in Requests, Arrive(r) \/ Refuse(r) PROVE pc[q] \in Before /\ Unnamed(q)'
  <2>1. /\ UNCHANGED <<disk, mem, live, job>> /\ pc[r] \in {"idle", "precond"}
        /\ \E p \in {"recover", "check", "done"} : pc' = [pc EXCEPT ![r] = p]
    BY <1>1 DEF Arrive, Refuse
  <2> QED BY <1>a, <1>b, <2>1 DEF Before
<1>2. ASSUME NEW r \in Requests, Recover(r) PROVE pc[q] \in Before /\ Unnamed(q)'
  <2>1. /\ UNCHANGED <<disk, live>> /\ pc[r] = "recover"
        /\ \E p \in {"recovering", "check"} : pc' = [pc EXCEPT ![r] = p]
        /\ mem' = mem \/ mem' = [mem EXCEPT !["adopted"] = disk]
        /\ \/ job' = job
           \/ job' = [by |-> "recover", op |-> "adopted", pc |-> "adopt", req |-> r, declare |-> FALSE]
    BY <1>2 DEF Recover, NoJob
  <2>2. pc[q] \in Before
    BY <1>a, <2>1 DEF Before
  <2>3. \A o \in Obj : mem'[o].req \in {mem[o].req, disk.req}
    BY <2>1
  <2>4. job'.op \in {job.op, "adopted"}
    BY <2>1, NewJobFields
  <2> QED BY <1>a, <2>1, <2>2, <2>3, <2>4, UnnamedStep DEF Unnamed
<1>3. ASSUME NEW r \in Requests, Check(r) PROVE pc[q] \in Before /\ Unnamed(q)'
  <2>1. /\ UNCHANGED <<disk, mem, live>> /\ pc[r] = "check"
        /\ \E p \in {"resending", "precond", "done"} : pc' = [pc EXCEPT ![r] = p]
        /\ \/ job' = job
           \/ live # "none" /\ job' = [by |-> "resend", op |-> live, pc |-> "release", req |-> r, declare |-> FALSE]
    BY <1>3 DEF Check, NoJob, OwnFinal
  <2>2. pc[q] \in Before
    BY <1>a, <2>1 DEF Before
  <2>3. job'.op \in {job.op, live}
    BY <2>1, NewJobFields
  <2> QED BY <1>a, <2>1, <2>2, <2>3 DEF Unnamed
<1>4. ASSUME NEW r \in Requests, Prepare(r) PROVE pc[q] \in Before /\ Unnamed(q)'
  <2>1. /\ UNCHANGED <<disk, job>> /\ live' = r /\ mem' = [mem EXCEPT ![r] = Prepared(r)]
        /\ pc' = [pc EXCEPT ![r] = "prepare"]
    BY <1>4 DEF Prepare
  <2>2. q # r /\ pc[q] \in Before
    BY <1>a, <2>1 DEF Before
  <2>3. \A o \in Obj : mem'[o].req = mem[o].req \/ mem'[o].req = r
    BY <2>1, PreparedFields
  <2> QED BY <1>a, <2>1, <2>2, <2>3 DEF Unnamed
<1>5. ASSUME NEW r \in Requests, NEW ok \in BOOLEAN,
             \/ PreparedLands(r, ok) \/ StoppedAtPrepared(r, ok) \/ WithdrawPrepared(r, ok)
             \/ Close(r, ok) \/ CancelWritten(r, ok)
      PROVE  pc[q] \in Before /\ Unnamed(q)'
  <2>1. /\ UNCHANGED <<mem, job>> /\ live' \in {live, "none"}
        /\ pc' = pc \/ \E p \in {"event", "withdraw", "done", "release", "ackwait"} : pc' = [pc EXCEPT ![r] = p]
    BY <1>5 DEF PreparedLands, StoppedAtPrepared, WithdrawPrepared, Close, CancelWritten
  <2>2. pc[q] \in Before
    BY <1>a, <2>1 DEF Before
  <2>3. disk' \in {disk, NoRecord} \/ \E rec \in Older(mem[r]) \union {mem[r]} : disk' = rec
    BY <1>5, SaveFacts DEF PreparedLands, StoppedAtPrepared, WithdrawPrepared, Close, CancelWritten, Without
  <2>4. disk'.req \in {disk.req, "none", mem[r].req}
    BY <1>a, <2>3, OlderFields, NoRecordFields
  <2> QED BY <1>a, <2>1, <2>2, <2>4, UnnamedStep DEF Unnamed
<1>6. ASSUME NEW r \in Requests, PreparedConfirmed(r) \/ CancelActive(r) PROVE pc[q] \in Before /\ Unnamed(q)'
  <2>1. /\ UNCHANGED <<disk, live, job>>
        /\ pc' = pc \/ \E p \in {"create", "stop", "withdraw"} : pc' = [pc EXCEPT ![r] = p]
        /\ mem' = mem \/ mem' = [mem EXCEPT ![r] = Cancelled(mem[r])]
    BY <1>6 DEF PreparedConfirmed, CancelActive
  <2>2. pc[q] \in Before
    BY <1>a, <2>1 DEF Before
  <2>3. \A o \in Obj : mem'[o].req = mem[o].req
    BY <1>a, <2>1, CancelledFields
  <2> QED BY <1>a, <2>1, <2>2, <2>3 DEF Unnamed
<1>7. ASSUME NEW r \in Requests,
             CreateExec(r) \/ ExecRecorded(r) \/ StartExec(r) \/ ExecAnswers(r) \/ Proceed(r)
      PROVE  pc[q] \in Before /\ Unnamed(q)'
  <2>1. Executes(r) /\ (disk' = disk \/ Copy(disk', r))
    BY <1>7, CreateEffect, RecordEffect, StartEffect, AnswerEffect, ProceedEffect
  <2>2. pc[q] \in Before
    BY <1>a, <2>1 DEF Executes, Around, Only, GoesOn, Reports, Ends, Before, Announced
  <2>3. UNCHANGED <<live, job>> /\ \A o \in Obj : mem'[o].req = mem[o].req
    BY <2>1 DEF Executes, Around, Only
  <2> QED BY <1>a, <2>1, <2>2, <2>3 DEF Unnamed, Copy
<1>8. ASSUME NEW r \in Requests, NEW s \in Step,
             THttpAnswers(r) \/ PromptPersisted(r) \/ ExecActs(r, s) \/ ExecEnds(r, s)
      PROVE  UNCHANGED <<disk, mem, live, job, pc>>
  BY <1>8 DEF THttpAnswers, PromptPersisted, ExecActs, ExecEnds, ops
<1>9. ASSUME NEW o \in Obj, AckWindowEnds(o) \/ TakeLock(o) PROVE pc[q] \in Before /\ Unnamed(q)'
  <2>1. /\ UNCHANGED <<disk, mem, live>>
        /\ \E p \in {"conclude", "done"} : pc' = [pc EXCEPT ![o] = p]
        /\ job' = job \/ (pc[o] \in {"late", "release", "conclude"} /\ StartJob(pc[o], o, pc[o]))
    BY <1>9 DEF AckWindowEnds, TakeLock
  <2>2. pc[q] \in Before /\ q # o
    BY <1>a, <2>1 DEF Before
  <2>3. job'.op \in {job.op, o}
    BY <2>1, StartFacts
  <2> QED BY <1>a, <2>1, <2>2, <2>3 DEF Unnamed
<1>10. CASE Job
  <2>1. Treats /\ Leads /\ Procedure
    BY <1>10, JobEffect, JobLeads DEF Treats
  <2>2. job.by \in {"recover", "resend"} /\ q = job.req => pc[q] \in Before
    BY DEF Types, Turns, Before
  <2>3. pc[q] \in Before
    BY <1>a, <2>1, <2>2 DEF Leads, Before
  <2>4. \A o \in Obj : mem'[o].req = mem[o].req
    BY <2>1 DEF Procedure, Op
  <2>5. disk'.req \in {disk.req, "none", mem[job.op].req}
    BY <2>1, NoRecordFields DEF Treats, Procedure, Op
  <2>6. live' # q /\ job'.op # q
    BY <1>a, <2>1, <2>3 DEF Leads, Unnamed
  <2> QED BY <1>a, <2>1, <2>3, <2>4, <2>5, <2>6, UnnamedStep DEF Procedure
<1>11. ASSUME NEW declare \in BOOLEAN, Resolve(declare) PROVE pc[q] \in Before /\ Unnamed(q)'
  <2>1. /\ UNCHANGED <<disk, live, pc>>
        /\ mem' = mem \/ mem' = [mem EXCEPT !["adopted"] = disk]
        /\ \E o \in Obj : /\ o \in {live, "adopted"}
                          /\ job' = [by |-> "resolve", op |-> o, pc |-> "adopt", req |-> "none", declare |-> declare]
    BY <1>11 DEF Resolve, NoJob
  <2>2. pc[q] \in Before
    BY <2>1
  <2>3. \A o \in Obj : mem'[o].req \in {mem[o].req, disk.req}
    BY <2>1
  <2>4. job'.op \in {live, "adopted"}
    BY <2>1, NewJobFields
  <2> QED BY <1>a, <2>1, <2>2, <2>3, <2>4, UnnamedStep DEF Unnamed
<1>12. CASE Shutdown \/ ContainerReplaced
  BY <1>12, <1>b DEF Shutdown, ContainerReplaced, ops
<1>13. CASE Crash
  <2>1. /\ disk' = disk /\ live' = "none" /\ job' = NoJob /\ \A o \in Obj : mem'[o] = NoRecord
        /\ pc'[q] = "idle" => pc[q] = "idle"
        /\ pc'[q] \in {"idle", "done"}
    BY <1>13, <1>a DEF Crash
  <2>2. pc[q] \in Before
    BY <2>1 DEF Before
  <2> QED BY <1>a, <2>1, <2>2, NoJobFields, NoRecordFields DEF Unnamed
<1> QED
  BY <1>b, <1>1, <1>2, <1>3, <1>4, <1>5, <1>6, <1>7, <1>8, <1>9, <1>10, <1>11, <1>12, <1>13, Steps
  DEF Next, Executor

\* Before its record is prepared nothing bears a request's name.
LEMMA FreshKept ==
  ASSUME IInv, Regular, Next
  PROVE  Fresh'
<1> SUFFICES ASSUME NEW r \in Requests, pc'[r] \in Before
             PROVE  /\ ~Acting(r)' /\ typed'[r] = {} /\ logged'[r] = "none"
                    /\ Unnamed(r)'
  BY DEF Fresh, Unnamed
<1>1. pc[r] \in Before /\ Unnamed(r)'
  BY UnnamedKept
<1>2. ~Acting(r)'
  BY <1>1, ActingKept DEF IInv, Fresh, Before, Announced
<1>3. typed'[r] = {}
  <2>1. typed'[r] \subseteq Step
    BY TypesKept DEF IInv, Types, Rest
  <2> QED BY <1>2, <2>1, WorldKept DEF World, Acting
<1>4. logged'[r] = "none"
  <2>1. Marks => Op.req # r
    BY <1>1, ReleaseEffect DEF Marks, IInv, Fresh, Procedure, Op
  <2> QED BY <1>1, <2>1, PastKept, MarksFacts DEF IInv, Fresh
<1> QED BY <1>1, <1>2, <1>3, <1>4

\* A send's own release frees the pane.
LEMMA JobFrees ==
  ASSUME Types, Job, NEW q \in Requests, pc[q] # "precond", pc'[q] = "precond"
  PROVE  disk' = NoRecord
<1> USE Names, TypeFacts
<1>a. job.by \in {"resend", "recover"} => job.req \in Requests
  BY DEF Types, Held
<1>1. ASSUME NEW points, Goes(points) PROVE FALSE
  BY <1>1 DEF Goes
<1>2. ASSUME Ended(FALSE) PROVE FALSE
  BY <1>a, <1>2 DEF Ended
<1>3. ASSUME Ended(disk' = NoRecord) PROVE disk' = NoRecord
  <2>1. CASE disk' # NoRecord
    <3>1. (disk' = NoRecord) = FALSE
      BY <2>1
    <3> QED BY <1>2, <1>3, <3>1
  <2> QED BY <2>1
<1>4. ASSUME NEW ok \in BOOLEAN,
             \/ JobAdopts(ok) \/ JobDeclares(ok) \/ JobLate(ok) \/ JobSettles(ok) \/ JobDerives(ok)
             \/ JobConcludes(ok) \/ JobMarks(ok)
      PROVE  FALSE
  BY <1>1, <1>2, <1>4, AdoptEffect, DeclareEffect, LateEffect, SettleEffect, DeriveEffect, ConcludeEffect, MarkEffect
<1>5. CASE JobReleases
  BY <1>1, <1>2, <1>5, ReleaseEffect
<1>6. ASSUME NEW ok \in BOOLEAN, JobAcks(ok) PROVE FALSE
  BY <1>1, <1>2, <1>6, AckEffect
<1>7. ASSUME NEW ok \in BOOLEAN, JobRemoves(ok) PROVE disk' = NoRecord
  BY <1>2, <1>3, <1>7, RemoveEffect
<1> QED BY <1>4, <1>5, <1>6, <1>7 DEF Job

\* Who holds the lock before it is announced keeps the pane's entry, its
\* record as it was prepared, and, unless a shutdown found nothing unreleased,
\* the record on disk.
LEMMA OpenedFrame ==
  ASSUME IInv, Regular, Next, ~Crash, NEW r \in Requests, pc'[r] = pc[r], pc[r] \in Opening \union {"precond"},
         pc[r] \in Opening => live' = live /\ mem'[r].ex = mem[r].ex /\ mem'[r].result = mem[r].result
  PROVE  OpenedAt(r)'
<1>1. OpenedAt(r) /\ lock = r
  BY DEF IInv, Opened, Types, Turns
<1>2. Quiet => Quiet'
  BY QuietKept DEF IInv
<1>3. disk' = disk \/ Quiet
  <2>1. ASSUME NEW ok \in BOOLEAN,
               PreparedLands(r, ok) \/ StoppedAtPrepared(r, ok) \/ WithdrawPrepared(r, ok) \/ Close(r, ok)
        PROVE  FALSE
    <3>1. \E p \in {"event", "withdraw", "done", "release", "ackwait"} : p # pc[r] /\ pc' = [pc EXCEPT ![r] = p]
      BY <2>1 DEF PreparedLands, StoppedAtPrepared, WithdrawPrepared, Close
    <3> QED BY <3>1, TypeFacts, Names DEF IInv
  <2>2. ASSUME ExecRecorded(r) PROVE FALSE
    BY <2>2 DEF ExecRecorded, Opening
  <2>3. r \in canc => Quiet
    BY QuietOpening DEF IInv, Seats, SeatsAt, Types, Turns, Before
  <2>4. pc[r] # "resending"
    BY DEF Opening
  <2> QED BY <1>1, <2>1, <2>2, <2>3, <2>4, DiskUnder
<1>4. Acting(r)' => Acting(r) \/ pc[r] \in Announced
  BY ActingKept DEF IInv
<1> QED BY <1>1, <1>2, <1>3, <1>4 DEF OpenedAt, Opening, Announced

\* Every step keeps what an opening operation knows.
LEMMA OpenedKept ==
  ASSUME IInv, Regular, Next
  PROVE  Opened'
<1> USE Names, TypeFacts DEF IInv
<1> SUFFICES ASSUME NEW q \in Requests PROVE OpenedAt(q)'
  BY DEF Opened
<1>a. OpenedAt(q) /\ q \in Obj /\ mem[q] \in Record
  BY DEF Opened
<1>b. pc'[q] \notin Opening \union {"precond"} => OpenedAt(q)'
  BY DEF OpenedAt, Opening
<1>14. CASE Crash
  <2>1. pc'[q] \in {"idle", "done"}
    BY <1>a, <1>14 DEF Crash
  <2> QED BY <1>b, <2>1 DEF Opening
<1> SUFFICES ASSUME ~Crash PROVE OpenedAt(q)'
  BY <1>14
<1>c. ASSUME pc'[q] = pc[q] \/ pc'[q] \notin Opening \union {"precond"},
             pc[q] \in Opening => live' = live /\ mem'[q] = mem[q]
      PROVE  OpenedAt(q)'
  BY <1>b, <1>c, OpenedFrame
<1>d. \A r \in Requests : pc[r] \in Opening \union {"precond"} => lock = r /\ job.op = "none" /\ job.pc = "idle"
  BY NoJobUnder DEF Types, Turns, Opening
<1>1. ASSUME NEW r \in Requests, Arrive(r) \/ Recover(r) \/ Refuse(r) PROVE OpenedAt(q)'
  <2>1. /\ live' = live /\ mem'[q] = mem[q]
        /\ \E p \in {"recover", "check", "recovering", "done"} : pc' = [pc EXCEPT ![r] = p]
    BY <1>1 DEF Arrive, Recover, Refuse
  <2> QED BY <1>c, <2>1 DEF Opening
<1>2. ASSUME NEW r \in Requests, Check(r) PROVE OpenedAt(q)'
  <2>1. /\ UNCHANGED <<disk, live, mem>>
        /\ \/ \E p \in {"resending", "done"} : pc' = [pc EXCEPT ![r] = p]
           \/ pc' = [pc EXCEPT ![r] = "precond"] /\ ~OnDisk
    BY <1>2 DEF Check
  <2>2. CASE q = r /\ pc'[q] = "precond"
    BY <2>1, <2>2 DEF OpenedAt, Opening, OnDisk
  <2>3. CASE ~(q = r /\ pc'[q] = "precond")
    BY <1>c, <2>1, <2>3 DEF Opening
  <2> QED BY <2>2, <2>3
<1>3. ASSUME NEW r \in Requests, Prepare(r) PROVE OpenedAt(q)'
  <2>1. /\ disk' = disk /\ x' = x /\ live' = r /\ pc[r] = "precond" /\ ~stopping
        /\ mem' = [mem EXCEPT ![r] = Prepared(r)] /\ pc' = [pc EXCEPT ![r] = "prepare"]
    BY <1>3 DEF Prepare, world
  <2>2. CASE q # r
    BY <1>c, <1>d, <2>1, <2>2 DEF Opening
  <2>3. CASE q = r
    <3>1. mem'[q].result = "pending" /\ \A s \in Step : mem'[q].ex[s] = "none"
      BY <1>a, <2>1, <2>3, PreparedFields
    <3>2. ~Acting(q)' /\ disk' = NoRecord
      BY <1>a, <2>1, <2>3, ActingFrame DEF OpenedAt, Quiet, Fresh, Before
    <3> QED BY <1>a, <2>1, <2>3, <3>1, <3>2 DEF OpenedAt
  <2> QED BY <2>2, <2>3
<1>4. ASSUME NEW r \in Requests, NEW ok \in BOOLEAN, PreparedLands(r, ok) PROVE OpenedAt(q)'
  <2>1. /\ UNCHANGED <<mem, live, x>> /\ pc[r] = "prepare"
        /\ \E p \in {"event", "withdraw"} : pc' = [pc EXCEPT ![r] = p]
    BY <1>4 DEF PreparedLands, world
  <2>2. CASE q # r
    BY <1>c, <2>1, <2>2
  <2>3. CASE q = r
    <3>1. disk' = disk \/ \E rec \in Older(mem[q]) : disk' = rec
      BY <1>4, <2>3, SaveFacts DEF PreparedLands
    <3>2. disk' = disk \/ disk'.req = q
      BY <1>a, <2>1, <2>3, <3>1, OlderFields, EngagedNamed DEF Types, Named, Shape, Busy, Opening
    <3>3. Quiet => Quiet'
      BY QuietKept
    <3>4. ~Acting(q)'
      BY <1>a, <2>1, <2>3, ActingFrame DEF OpenedAt, Opening
    <3> QED BY <1>a, <2>1, <2>3, <3>2, <3>3, <3>4, NoRecordFields DEF OpenedAt, Opening
  <2> QED BY <2>2, <2>3
<1>5. ASSUME NEW r \in Requests, PreparedConfirmed(r) PROVE OpenedAt(q)'
  <2>1. /\ UNCHANGED <<disk, live, x, lock>> /\ pc[r] = "event"
        /\ \/ pc' = [pc EXCEPT ![r] = "create"] /\ mem' = mem
           \/ pc' = [pc EXCEPT ![r] = "stop"] /\ mem' = [mem EXCEPT ![r] = Cancelled(mem[r])]
           \/ pc' = [pc EXCEPT ![r] = "withdraw"] /\ mem' = mem
    BY <1>5 DEF PreparedConfirmed, world
  <2>2. CASE q # r
    BY <1>c, <2>1, <2>2
  <2>3. CASE q = r
    <3>1. mem'[q].ex = mem[q].ex /\ mem'[q].result = mem[q].result
      BY <1>a, <2>1, <2>3, CancelledFields
    <3>2. Quiet \/ disk.req = q
      <4>1. Engaged(q) /\ mem[q].req = q /\ lock = q
        BY <1>a, <1>d, <2>1, <2>3, EngagedNamed DEF Engaged, Opening
      <4>2. ~Gone(q)
        BY <1>a, <2>1, <2>3 DEF OpenedAt, Opening, Gone
      <4> QED BY <1>a, <4>1, <4>2 DEF Holds, HoldsAt, Mine
    <3>3. Quiet => Quiet'
      BY QuietKept
    <3>4. ~Acting(q)'
      BY <1>a, <2>1, <2>3, ActingFrame DEF OpenedAt, Opening
    <3> QED BY <1>a, <2>1, <2>3, <3>1, <3>2, <3>3, <3>4 DEF OpenedAt, Opening
  <2> QED BY <2>2, <2>3
<1>6. ASSUME NEW r \in Requests, NEW ok \in BOOLEAN,
             StoppedAtPrepared(r, ok) \/ WithdrawPrepared(r, ok) \/ Close(r, ok)
      PROVE  OpenedAt(q)'
  <2>1. /\ mem' = mem /\ (live' = live \/ pc[r] = "withdraw")
        /\ \E p \in {"done", "release", "ackwait"} : pc' = [pc EXCEPT ![r] = p]
    BY <1>6 DEF StoppedAtPrepared, WithdrawPrepared, Close
  <2>2. CASE q # r
    BY <1>c, <1>d, <2>1, <2>2 DEF Opening
  <2> QED BY <1>a, <1>b, <2>1, <2>2 DEF Opening
<1>7. ASSUME NEW r \in Requests,
             CreateExec(r) \/ ExecRecorded(r) \/ StartExec(r) \/ ExecAnswers(r) \/ Proceed(r)
      PROVE  OpenedAt(q)'
  <2>1. Executes(r)
    BY <1>7, CreateEffect, RecordEffect, StartEffect, AnswerEffect, ProceedEffect
  <2>2. live' = live /\ pc'[r] \notin Opening \union {"precond"} /\ (q # r => mem'[q] = mem[q] /\ pc'[q] = pc[q])
    BY <1>a, <2>1 DEF Executes, Around, Only, GoesOn, Reports, Ends, Announced, Opening
  <2> QED BY <1>b, <1>c, <2>2
<1>8. ASSUME NEW r \in Requests, NEW ok \in BOOLEAN, NEW s \in Step,
             \/ THttpAnswers(r) \/ PromptPersisted(r) \/ ExecActs(r, s) \/ ExecEnds(r, s) \/ CancelWritten(r, ok)
      PROVE  UNCHANGED <<pc, mem, live>>
  BY <1>8 DEF THttpAnswers, PromptPersisted, ExecActs, ExecEnds, CancelWritten, ops
<1>9. ASSUME NEW r \in Requests, CancelActive(r) PROVE OpenedAt(q)'
  <2>1. UNCHANGED <<pc, live>> /\ mem' = [mem EXCEPT ![r] = Cancelled(mem[r])]
    BY <1>9 DEF CancelActive
  <2>2. mem'[q].ex = mem[q].ex /\ mem'[q].result = mem[q].result
    BY <1>a, <2>1, CancelledFields
  <2>3. pc[q] \in Opening \union {"precond"} => OpenedAt(q)'
    BY <2>1, <2>2, OpenedFrame
  <2> QED BY <1>b, <2>1, <2>3
<1>10. ASSUME NEW o \in Obj, AckWindowEnds(o) \/ TakeLock(o) PROVE OpenedAt(q)'
  <2>1. UNCHANGED <<mem, live>> /\ \E p \in {"conclude", "done"} : pc' = [pc EXCEPT ![o] = p]
    BY <1>10 DEF AckWindowEnds, TakeLock
  <2> QED BY <1>c, <2>1 DEF Opening
<1>11. CASE Job
  <2>1. Leads /\ job.pc # "idle"
    BY <1>11, JobEffect, JobLeads DEF Treats, Procedure
  <2>2. pc[q] \notin Opening \union {"precond"}
    BY <1>d, <2>1
  <2>3. CASE pc'[q] # "precond"
    BY <1>b, <2>1, <2>2, <2>3 DEF Leads, Opening
  \* A send's own release went through: the pane is free.
  <2>4. CASE pc'[q] = "precond"
    <3>1. disk' = NoRecord
      BY <1>11, <2>2, <2>4, JobFrees
    <3> QED BY <2>4, <3>1 DEF OpenedAt, Opening
  <2> QED BY <2>3, <2>4
<1>12. ASSUME NEW declare \in BOOLEAN, Resolve(declare) PROVE OpenedAt(q)'
  <2>1. UNCHANGED <<pc, live>> /\ mem'[q] = mem[q]
    BY <1>12 DEF Resolve
  <2> QED BY <1>c, <2>1
<1>13. CASE Shutdown \/ ContainerReplaced
  BY <1>13, <1>c DEF Shutdown, ContainerReplaced, ops
<1> QED
  BY <1>c, <1>1, <1>2, <1>3, <1>4, <1>5, <1>6, <1>7, <1>8, <1>9, <1>10, <1>11, <1>12, <1>13, Steps
  DEF Next, Executor

-----------------------------------------------------------------------------
(* Who is engaged holds the pane's record, or its own is gone.              *)

\* Who holds the record holds it when nothing of it changes.
LEMMA HoldsFrame ==
  ASSUME window \subseteq window', NEW o \in Obj, HoldsAt(o), Quiet => Quiet', Engaged(o)' => Engaged(o),
         disk'.req = disk.req, live' = live, mem'[o].req = mem[o].req,
         mem[o].state = "released" => mem'[o].state = "released",
         job'.op = o => job' = job \/ job'.pc \in {"late", "release", "conclude", "remove"}
  PROVE  HoldsAt(o)'
BY DEF HoldsAt, Mine, Gone

\* Who is engaged is told by its place, the pane's operation and the
\* procedure.
LEMMA EngagedFrame ==
  ASSUME NEW o \in Obj, pc'[o] = pc[o], UNCHANGED <<live, job>>
  PROVE  Engaged(o)' = Engaged(o)
BY DEF Engaged

\* A procedure for an adopted record that is not the pane's does nothing.
LEMMA JobOutside ==
  ASSUME IInv, Job, ~Engaged(job.op)
  PROVE  /\ job.op = "adopted" /\ live # job.op /\ job' = NoJob /\ lock' = "none"
         /\ UNCHANGED <<disk, mem, live, pc, step, canc, id, on, x, typed, cont, logged, window,
                        recovered, stopping>>
<1> USE Names, TypeFacts DEF IInv
<1>1. job.pc = "conclude" /\ job.op = "adopted"
  <2>1. job.op \in Obj
    BY JobEffect DEF Treats, Procedure
  <2> QED BY <2>1 DEF Engaged, Obj
<1>2. live # job.op
  BY <1>1 DEF Engaged, Types, Places
<1>3. PICK ok \in BOOLEAN : JobConcludes(ok)
  BY <1>1 DEF Job, JobReleases, JobAdopts, JobDeclares, JobLate, JobSettles, JobDerives, JobAcks, JobMarks,
              JobRemoves
<1> QED BY <1>1, <1>2, <1>3 DEF JobConcludes, past, world

\* What a procedure makes of the record it works on;
LEMMA JobHoldsOwn ==
  ASSUME IInv, Regular, Job, ~Crash, NEW o \in Obj, job.op = o
  PROVE  HoldsAt(o)'
<1> USE Names, TypeFacts DEF IInv
<1>b. o # "none" /\ NoJob.op = "none"
  BY NoJobFields, ComposerAssumption DEF Obj
<1>0. CASE ~Engaged(job.op)
  BY <1>0, <1>b, JobOutside, ComposerAssumption DEF HoldsAt, Engaged
<1> SUFFICES ASSUME Engaged(job.op) PROVE HoldsAt(o)'
  BY <1>0
<1>a. /\ Procedure /\ job.op \in Obj /\ Engaged(job.op) /\ (Quiet => Quiet')
      /\ mem'[job.op].req = mem[job.op].req /\ mem[job.op] = Op /\ Op.req \in Requests
  BY JobEffect, EngagedNamed, QuietKept DEF Treats, Procedure, Next, Op
<1>w. window \subseteq window' /\ window \subseteq Requests
  BY WindowGrows DEF Next, Types, Rest
<1>1. CASE Quiet
  BY <1>1, <1>a DEF HoldsAt
<1>c. ASSUME disk'.req = Op.req, job.op \in Requests => live' = job.op PROVE HoldsAt(o)'
  BY <1>a, <1>c DEF HoldsAt, Mine
<1>2. CASE Mine(job.op)
  <2>1. disk.req = Op.req /\ (job.op \in Requests => live = job.op)
    BY <1>2, <1>a DEF Mine
  <2>2. ASSUME Writes PROVE HoldsAt(o)'
    BY <1>a, <1>c, <2>1, <2>2 DEF Writes
  <2>3. ASSUME NEW ok \in BOOLEAN,
               \/ JobAdopts(ok) \/ JobDeclares(ok) \/ JobLate(ok) \/ JobSettles(ok) \/ JobDerives(ok)
               \/ JobConcludes(ok) \/ JobMarks(ok)
        PROVE  HoldsAt(o)'
    BY <2>2, <2>3, AdoptEffect, DeclareEffect, LateEffect, SettleEffect, DeriveEffect, ConcludeEffect, MarkEffect
  <2>4. ASSUME NEW ok \in BOOLEAN, JobAcks(ok) PROVE HoldsAt(o)'
    <3>1. disk' \in {disk, mem'[job.op]} /\ live' \in {live, job.op}
      BY <2>4, AckEffect
    <3> QED BY <1>a, <1>c, <2>1, <3>1
  <2>5. CASE JobReleases
    <3>1. disk' = disk /\ ((OnDisk /\ ~SameId(disk, Op)) \/ live' \in {live, job.op})
      BY <2>5, ReleaseEffect
    <3>2. SameId(disk, Op)
      BY <2>1 DEF SameId
    <3> QED BY <1>c, <2>1, <3>1, <3>2
  <2>6. ASSUME NEW ok \in BOOLEAN, JobRemoves(ok) PROVE HoldsAt(o)'
    <3>1. /\ job.pc = "remove" /\ mem' = mem
          /\ \/ disk' = Without(Op) /\ live' = "none" /\ job' = NoJob
             \/ disk' = disk /\ live' = job.op
      BY <2>6, RemoveEffect DEF Ended
    <3>2. CASE disk' = disk /\ live' = job.op
      BY <1>c, <2>1, <3>2
    <3>3. CASE disk' = Without(Op) /\ live' = "none" /\ job' = NoJob
      <4>1. disk' = NoRecord
        BY <1>a, <2>1, <3>3, NoRecordFields DEF Without, OnDisk, SameId
      <4>2. mem'[job.op].state = "released" /\ mem'[job.op].req # "none"
        BY <1>a, <3>1 DEF Procedures, Task
      <4>3. CASE o \in Requests
        <5>1. o \in window'
          BY <1>a, <1>w, <3>1, <4>2, <4>3 DEF Freed
        <5> QED BY <1>b, <3>3, <4>1, <4>2, <5>1, NoRecordFields DEF HoldsAt, Gone
      <4>4. CASE o \notin Requests
        BY <1>b, <3>3, <4>4 DEF HoldsAt, Engaged
      <4> QED BY <4>3, <4>4
    <3> QED BY <3>1, <3>2, <3>3
  <2> QED BY <2>3, <2>4, <2>5, <2>6 DEF Job
<1>3. CASE ~Quiet /\ Gone(job.op)
  <2>1. /\ Op.state = "released" /\ disk.req # Op.req /\ live # job.op /\ o \in window'
        /\ job.pc \in {"late", "release", "conclude", "remove"}
    BY <1>3, <1>a, <1>w DEF Gone
  <2>2. ASSUME mem'[job.op].state = "released", disk' = disk, live' # job.op,
               job'.op = job.op => job'.pc = "remove"
        PROVE  HoldsAt(o)'
    BY <1>a, <2>1, <2>2 DEF HoldsAt, Gone
  <2>3. ASSUME NEW ok \in BOOLEAN, JobLate(ok) \/ JobConcludes(ok) PROVE HoldsAt(o)'
    <3>1. mem'[job.op] = Op /\ disk' = disk /\ live' = live /\ job' = NoJob
      BY <1>a, <2>1, <2>3, LateEffect, ConcludeEffect DEF Writes, Ended
    <3> QED BY <1>b, <2>1, <2>2, <3>1
  <2>4. CASE JobReleases
    <3>1. /\ mem'[job.op].state = "released" /\ disk' = disk
          /\ live' \in {live, "none"} \/ live' = job.op
          /\ job' = NoJob \/ job'.pc = "remove"
      BY <2>1, <2>4, ReleaseEffect DEF Ended, Goes
    <3>2. live' # job.op
      <4>1. CASE live' = job.op
        <5>1. Trouble /\ Op.state # "released"
          BY <1>b, <2>1, <2>4, <4>1 DEF JobReleases
        <5> QED BY <2>1, <5>1
      <4> QED BY <4>1
    <3> QED BY <1>b, <2>2, <3>1, <3>2
  <2>5. ASSUME NEW ok \in BOOLEAN, JobRemoves(ok) PROVE HoldsAt(o)'
    <3>1. /\ job.pc = "remove" /\ mem' = mem
          /\ \/ disk' = Without(Op) /\ live' = "none" /\ job' = NoJob
             \/ OnDisk /\ disk' = disk
      BY <2>5, RemoveEffect DEF Ended
    <3>2. disk = NoRecord
      BY <1>3, <2>1, <3>1 DEF Procedures, Task
    <3> QED BY <1>a, <1>b, <2>1, <2>2, <3>1, <3>2 DEF OnDisk, Without
  <2>6. ASSUME NEW ok \in BOOLEAN,
               \/ JobAdopts(ok) \/ JobDeclares(ok) \/ JobSettles(ok) \/ JobDerives(ok)
               \/ JobAcks(ok) \/ JobMarks(ok)
        PROVE  FALSE
    BY <2>1, <2>6, AdoptEffect, DeclareEffect, SettleEffect, DeriveEffect, AckEffect, MarkEffect
  <2> QED BY <2>3, <2>4, <2>5, <2>6 DEF Job
<1> QED BY <1>1, <1>2, <1>3, <1>a DEF Holds, HoldsAt

\* and of the others'.
LEMMA JobHoldsOthers ==
  ASSUME IInv, Regular, Job, ~Crash, NEW q \in Obj, q # job.op
  PROVE  HoldsAt(q)'
<1> USE Names, TypeFacts DEF IInv
<1>t. Treats /\ Leads /\ (Quiet => Quiet') /\ q # "none"
  BY JobEffect, JobLeads, QuietKept, ComposerAssumption DEF Next, Obj
<1>p. Procedure /\ job.op \in Obj /\ mem'[q] = mem[q] /\ mem'[job.op].req = mem[job.op].req /\ mem[job.op] = Op
  BY <1>t DEF Treats, Procedure, Op
<1>0. CASE ~Engaged(job.op)
  <2>1. job' = NoJob /\ UNCHANGED <<disk, mem, live, pc, window>>
    BY <1>0, JobOutside
  <2>2. job'.op # q
    BY <1>t, <2>1, NoJobFields
  <2>3. Engaged(q)' => Engaged(q)
    BY <2>1, <2>2 DEF Engaged
  <2> QED BY <1>t, <2>1, <2>2, <2>3, HoldsFrame DEF Holds
<1> SUFFICES ASSUME Engaged(job.op) PROVE HoldsAt(q)'
  BY <1>0
<1>w. window \subseteq window'
  BY WindowGrows DEF Next
<1>e. Engaged(job.op) /\ Op.req \in Requests /\ job'.op # q
  <2>1. Engaged(job.op)
    OBVIOUS
  <2>2. Op.req \in Requests
    BY <1>p, <2>1, EngagedNamed
  <2> QED BY <1>t, <2>1, <2>2 DEF Leads
<1>a. /\ Procedure /\ Treats /\ Leads /\ job.op \in Obj /\ Engaged(job.op) /\ (Quiet => Quiet')
      /\ mem'[job.op].req = mem[job.op].req /\ mem[job.op] = Op /\ Op.req \in Requests
      /\ mem'[q] = mem[q] /\ job'.op # q
  BY <1>t, <1>p, <1>e
<1> SUFFICES ASSUME Engaged(q)', ~Quiet PROVE Mine(q)' \/ Gone(q)'
  BY <1>a DEF HoldsAt
<1>b. live' = q => live = q
  BY <1>t DEF Leads
<1>c. Engaged(q)
  <2>1. pc'[q] = pc[q] \/ (q = job.req /\ q \in Requests /\ pc[q] \in Before /\ pc'[q] \in {"check", "precond", "done"})
    BY <1>a DEF Leads, Types, Turns, Before
  <2>2. CASE pc'[q] = pc[q]
    BY <1>a, <1>b, <2>2 DEF Engaged
  <2>3. CASE q \in Requests /\ pc[q] \in Before /\ pc'[q] \in {"check", "precond", "done"}
    BY <1>a, <1>b, <2>3 DEF Engaged, Fresh, Announced, After
  <2> QED BY <2>1, <2>2, <2>3
<1>d. mem[q].req # Op.req /\ mem[q].req # "none" /\ mem[q].req \in Requests
  BY <1>a, <1>c, EngagedUnique, EngagedNamed
<1>1. CASE Gone(q)
  <2>1. disk'.req \in {disk.req, Op.req, "none"}
    BY <1>a, NoRecordFields DEF Treats
  <2> QED BY <1>1, <1>a, <1>b, <1>d, <1>w, <2>1 DEF Gone
<1>2. CASE Mine(q)
  <2>1. disk.req = mem[q].req /\ (q \in Requests => live = q)
    BY <1>2 DEF Mine
  <2>2. Op.state = "released" /\ live # job.op /\ job.pc \in {"late", "release", "conclude", "remove"}
    BY <1>a, <1>d, <2>1 DEF Holds, HoldsAt, Mine, Gone
  <2>3. ASSUME disk' = disk, live' = live PROVE Mine(q)'
    BY <1>a, <2>1, <2>3 DEF Mine
  <2>4. ASSUME NEW ok \in BOOLEAN, JobLate(ok) \/ JobConcludes(ok) PROVE Mine(q)'
    BY <2>2, <2>3, <2>4, LateEffect, ConcludeEffect DEF Writes
  <2>5. CASE JobReleases
    <3>1. disk' = disk /\ (live' = live \/ live' = job.op)
      BY <2>2, <2>5, ReleaseEffect
    <3>2. live' # live => Trouble /\ Op.state # "released"
      BY <2>2, <2>5 DEF JobReleases
    <3> QED BY <2>2, <2>3, <3>1, <3>2
  <2>6. ASSUME NEW ok \in BOOLEAN, JobRemoves(ok) PROVE FALSE
    BY <1>d, <2>1, <2>6, RemoveEffect, NoRecordFields DEF Procedures, Task
  <2>7. ASSUME NEW ok \in BOOLEAN,
               \/ JobAdopts(ok) \/ JobDeclares(ok) \/ JobSettles(ok) \/ JobDerives(ok)
               \/ JobAcks(ok) \/ JobMarks(ok)
        PROVE  FALSE
    BY <2>2, <2>7, AdoptEffect, DeclareEffect, SettleEffect, DeriveEffect, AckEffect, MarkEffect
  <2> QED BY <2>4, <2>5, <2>6, <2>7 DEF Job
<1> QED BY <1>1, <1>2, <1>c DEF Holds, HoldsAt

\* Every step keeps who holds the pane's record.
LEMMA HoldsKept ==
  ASSUME IInv, Regular, Next
  PROVE  Holds'
<1> USE Names, TypeFacts DEF IInv
<1> SUFFICES ASSUME NEW q \in Obj PROVE HoldsAt(q)'
  BY DEF Holds
<1>a. HoldsAt(q) /\ mem[q] \in Record
  BY DEF Holds
<1>18. CASE Crash
  <2>1. pc'[q] \in {"idle", "done"} /\ job' = NoJob /\ live' = "none"
    BY <1>18 DEF Crash
  <2>2. q # "none" /\ NoJob.op # q
    BY NoJobFields, ComposerAssumption DEF Obj
  <2> QED BY <2>1, <2>2 DEF HoldsAt, Engaged, Announced, After
<1> SUFFICES ASSUME ~Crash PROVE HoldsAt(q)'
  BY <1>18
<1>b. (Quiet => Quiet' /\ HoldsAt(q)') /\ window \subseteq window'
  BY QuietKept, WindowGrows DEF HoldsAt
<1>0. ASSUME Engaged(q)' => Engaged(q), disk'.req = disk.req, live' = live, mem'[q].req = mem[q].req,
             mem[q].state = "released" => mem'[q].state = "released", job' = job
      PROVE  HoldsAt(q)'
  BY <1>0, <1>a, <1>b, HoldsFrame
<1>c. ASSUME UNCHANGED <<disk, mem, live, job>>, NEW o \in Obj, NEW p,
             pc' = [pc EXCEPT ![o] = p],
             \/ p \notin Announced \union {"event", "stop"} \union After /\ pc[o] \notin {"prepare", "withdraw"}
             \/ pc[o] \in Announced \union {"event", "stop"} \union After
      PROVE  HoldsAt(q)'
  BY <1>0, <1>c DEF Engaged, Announced, After
\* Who is engaged beside a request in the lock has not that request's record.
<1>d. ASSUME NEW r \in Requests, lock = r, Engaged(q), q # r PROVE mem[q].req # r /\ mem[q].req # "none"
  BY <1>d, EngagedNamed DEF Seats, SeatsAt, Obj
<1>e. ASSUME NEW r \in Requests, pc[r] \in Opening \union {"precond", "writing", "close"}
      PROVE  lock = r /\ job.op = "none"
  BY <1>e, NoJobUnder DEF Types, Turns, Seats, SeatsAt, Opening
\* Whose record was released is not in the lock.
<1>f. ASSUME NEW r \in Requests, lock = r, Engaged(r), ~Quiet PROVE Mine(r) /\ mem[r].state # "released"
  <2>1. mem[r].req = r /\ logged[r] = "none"
    BY <1>f, EngagedNamed DEF Seats, SeatsAt
  <2> QED BY <1>f, <2>1 DEF Holds, HoldsAt, Gone, Truth, TrueRec, TrueOf
<1>1. ASSUME NEW r \in Requests, Arrive(r) \/ Refuse(r) PROVE HoldsAt(q)'
  <2>1. UNCHANGED <<disk, mem, live, job>> /\ pc[r] \in {"idle", "precond"}
        /\ \E p \in {"recover", "check", "done"} : pc' = [pc EXCEPT ![r] = p]
    BY <1>1 DEF Arrive, Refuse
  <2> QED BY <1>c, <2>1 DEF Announced, After
<1>2. ASSUME NEW r \in Requests, Recover(r) PROVE HoldsAt(q)'
  <2>1. /\ UNCHANGED <<disk, live>> /\ pc[r] = "recover"
        /\ \E p \in {"recovering", "check"} : pc' = [pc EXCEPT ![r] = p]
        /\ \/ UNCHANGED <<job, mem>>
           \/ /\ mem' = [mem EXCEPT !["adopted"] = disk]
              /\ job' = [by |-> "recover", op |-> "adopted", pc |-> "adopt", req |-> r, declare |-> FALSE]
    BY <1>2 DEF Recover, NoJob
  <2>2. CASE UNCHANGED <<job, mem>>
    BY <1>c, <2>1, <2>2 DEF Announced, After
  <2>3. CASE q = "adopted" /\ mem' = [mem EXCEPT !["adopted"] = disk]
    <3>1. Mine(q)'
      BY <2>1, <2>3 DEF Mine
    <3> QED BY <3>1 DEF HoldsAt
  <2>4. CASE /\ q # "adopted" /\ mem' = [mem EXCEPT !["adopted"] = disk]
             /\ job' = [by |-> "recover", op |-> "adopted", pc |-> "adopt", req |-> r, declare |-> FALSE]
    <3>1. job'.op # q /\ mem'[q] = mem[q]
      BY <2>4, NewJobFields
    <3>2. Engaged(q)' => Engaged(q)
      BY <2>1, <3>1 DEF Engaged, Announced, After
    <3> QED BY <1>a, <1>b, <2>1, <3>1, <3>2, HoldsFrame
  <2> QED BY <2>1, <2>2, <2>3, <2>4
<1>3. ASSUME NEW r \in Requests, Check(r) PROVE HoldsAt(q)'
  <2>1. /\ UNCHANGED <<disk, live, mem>> /\ pc[r] = "check"
        /\ \E p \in {"resending", "precond", "done"} : pc' = [pc EXCEPT ![r] = p]
        /\ \/ job' = job
           \/ /\ lock = "none" /\ live # "none"
              /\ job' = [by |-> "resend", op |-> live, pc |-> "release", req |-> r, declare |-> FALSE]
    BY <1>3 DEF Check, NoJob, OwnFinal
  <2>2. CASE job' = job
    BY <1>c, <2>1, <2>2 DEF Announced, After
  <2>3. CASE /\ lock = "none" /\ live # "none"
             /\ job' = [by |-> "resend", op |-> live, pc |-> "release", req |-> r, declare |-> FALSE]
    <3>1. job'.op = live /\ job'.pc = "release"
      BY <2>3, NewJobFields
    <3>2. live = q => pc[q] \notin {"prepare", "withdraw"}
      BY <1>e, <2>3 DEF Types, Places, Opening, Obj
    <3>3. Engaged(q)' => Engaged(q)
      BY <2>1, <3>1, <3>2 DEF Engaged, Announced, After
    <3> QED BY <1>a, <1>b, <2>1, <3>1, <3>3, HoldsFrame
  <2> QED BY <2>1, <2>2, <2>3
<1>4. ASSUME NEW r \in Requests, Prepare(r) PROVE HoldsAt(q)'
  <2>1. /\ UNCHANGED <<disk, job, lock>> /\ live' = r /\ pc[r] = "precond" /\ ~stopping
        /\ mem' = [mem EXCEPT ![r] = Prepared(r)] /\ pc' = [pc EXCEPT ![r] = "prepare"]
    BY <1>4 DEF Prepare
  <2>2. lock = r /\ job.op = "none" /\ disk = NoRecord
    BY <1>e, <2>1 DEF Opened, OpenedAt, Quiet
  <2>3. CASE q = r
    BY <2>1, <2>2, <2>3 DEF HoldsAt, Engaged, Announced, After
  <2>4. CASE q # r
    <3>1. Engaged(q)' => Engaged(q)
      BY <2>1, <2>4 DEF Engaged
    <3>2. Engaged(q) => Gone(q)
      BY <1>a, <1>d, <2>1, <2>2, <2>4, NoRecordFields DEF HoldsAt, Mine, Quiet
    <3> QED BY <1>b, <2>1, <2>4, <3>1, <3>2 DEF HoldsAt, Gone
  <2> QED BY <2>3, <2>4
<1>5. ASSUME NEW r \in Requests, NEW ok \in BOOLEAN, PreparedLands(r, ok), ~Quiet PROVE HoldsAt(q)'
  <2>1. /\ UNCHANGED <<mem, live, job>> /\ pc[r] = "prepare" /\ lock = r /\ job.op = "none"
        /\ pc' = [pc EXCEPT ![r] = IF ok THEN "event" ELSE "withdraw"]
    BY <1>e, <1>5 DEF PreparedLands, Opening
  <2>2. live = r /\ disk = NoRecord /\ mem[r] \in Record
    BY <1>5, <2>1 DEF Opened, OpenedAt, Opening
  <2>3. disk' \in {disk} \union Older(mem[r]) /\ (ok => disk' \in Older(mem[r]))
    BY <1>5, SaveFacts DEF PreparedLands
  <2>4. (disk' = disk \/ disk'.req = mem[r].req) /\ (ok => disk'.req = mem[r].req)
    BY <2>2, <2>3, OlderFields
  <2>5. mem[r].req = r
    BY <2>1 DEF Types, Named, Shape, Busy, Opening
  <2>6. CASE q = r
    <3>1. CASE ok
      BY <2>1, <2>2, <2>4, <2>6, <3>1 DEF HoldsAt, Mine
    <3>2. CASE ~ok
      BY <2>1, <2>6, <3>2 DEF HoldsAt, Engaged, Announced, After
    <3> QED BY <3>1, <3>2
  <2>7. CASE q # r
    <3>1. Engaged(q)' => Engaged(q)
      BY <2>1, <2>7 DEF Engaged
    <3>2. Engaged(q) => Gone(q) /\ mem[q].req # r /\ mem[q].req # "none"
      BY <1>5, <1>a, <1>d, <2>1, <2>2, <2>7, NoRecordFields DEF HoldsAt, Mine
    <3> QED BY <1>b, <2>1, <2>2, <2>4, <2>5, <3>1, <3>2, NoRecordFields DEF HoldsAt, Gone
  <2> QED BY <2>6, <2>7
<1>6. ASSUME NEW r \in Requests, PreparedConfirmed(r) PROVE HoldsAt(q)'
  <2>1. /\ UNCHANGED <<disk, live, job>> /\ pc[r] = "event"
        /\ \E p \in {"create", "stop", "withdraw"} : pc' = [pc EXCEPT ![r] = p]
        /\ mem' = mem \/ mem' = [mem EXCEPT ![r] = Cancelled(mem[r])]
    BY <1>6 DEF PreparedConfirmed
  <2>2. mem'[q].req = mem[q].req /\ (mem[q].state = "released" => mem'[q].state = "released")
    BY <1>a, <2>1, CancelledFields
  <2>3. Engaged(q)' => Engaged(q)
    BY <2>1 DEF Engaged
  <2> QED BY <1>0, <2>1, <2>2, <2>3
<1>7. ASSUME NEW r \in Requests, NEW ok \in BOOLEAN, StoppedAtPrepared(r, ok) \/ Close(r, ok), ~Quiet
      PROVE  HoldsAt(q)'
  <2>1. /\ UNCHANGED <<mem, live, job>> /\ pc[r] \in {"stop", "close"} /\ lock = r
        /\ \E p \in {"done", "release", "ackwait"} : pc' = [pc EXCEPT ![r] = p]
        /\ disk' \in {disk, mem[r]}
    BY <1>e, <1>7, SaveFacts DEF StoppedAtPrepared, Close, Opening
  <2>2. Engaged(r)
    BY <2>1 DEF Engaged, After
  <2>3. disk'.req = disk.req
    BY <1>7, <1>f, <2>1, <2>2 DEF Mine
  <2>4. Engaged(q)' => Engaged(q)
    BY <2>1, <2>2 DEF Engaged
  <2> QED BY <1>0, <2>1, <2>3, <2>4
<1>8. ASSUME NEW r \in Requests, NEW ok \in BOOLEAN, WithdrawPrepared(r, ok), ~Quiet PROVE HoldsAt(q)'
  <2>1. /\ UNCHANGED <<mem, job>> /\ pc[r] = "withdraw" /\ lock = r /\ job.op = "none"
        /\ live' = (IF live = r THEN "none" ELSE live) /\ disk' \in {disk, NoRecord}
        /\ pc' = [pc EXCEPT ![r] = "done"]
    BY <1>e, <1>8 DEF WithdrawPrepared, Without, Opening
  <2>2. live = r /\ disk.req \in {r, "none"}
    BY <1>8, <2>1 DEF Opened, OpenedAt, Opening
  <2>3. CASE q = r
    BY <2>1, <2>2, <2>3 DEF HoldsAt, Engaged, Announced, After
  <2>4. CASE q # r
    <3>1. Engaged(q)' => Engaged(q)
      BY <2>1, <2>2, <2>4, ComposerAssumption DEF Engaged, Obj
    <3>2. Engaged(q) => Gone(q) /\ mem[q].req # r /\ mem[q].req # "none"
      BY <1>8, <1>a, <1>d, <2>1, <2>2, <2>4 DEF HoldsAt, Mine
    <3>3. live' # q
      BY <2>1, <2>2, ComposerAssumption DEF Obj
    <3> QED BY <1>b, <2>1, <2>2, <3>1, <3>2, <3>3, NoRecordFields DEF HoldsAt, Gone
  <2> QED BY <2>3, <2>4
<1>9. ASSUME NEW r \in Requests,
             CreateExec(r) \/ ExecRecorded(r) \/ StartExec(r) \/ ExecAnswers(r) \/ Proceed(r)
      PROVE  HoldsAt(q)'
  <2>1. Executes(r) /\ (disk' = disk \/ (Copy(disk', r) /\ pc[r] = "writing"))
    BY <1>9, CreateEffect, RecordEffect, StartEffect, AnswerEffect, ProceedEffect
  <2>2. disk'.req = disk.req
    BY <1>e, <2>1, ActiveMine DEF Copy, Mine, Announced
  <2>3. mem[r].state = "released" => mem'[r].state = "released"
    BY <2>1 DEF Executes, GoesOn, Reports, Ends, SameFate, Truth, TrueRec
  <2>4. Engaged(q)' => Engaged(q)
    BY <2>1 DEF Executes, Around, Only, Engaged
  <2>5. /\ UNCHANGED <<live, job>> /\ mem'[q].req = mem[q].req
        /\ mem[q].state = "released" => mem'[q].state = "released"
    BY <2>1, <2>3 DEF Executes, Around, Only
  <2> QED BY <1>0, <2>2, <2>4, <2>5
<1>10. ASSUME NEW r \in Requests, NEW s \in Step,
              THttpAnswers(r) \/ PromptPersisted(r) \/ ExecActs(r, s) \/ ExecEnds(r, s)
       PROVE  UNCHANGED <<disk, pc, mem, live, job>>
  BY <1>10 DEF THttpAnswers, PromptPersisted, ExecActs, ExecEnds, ops
<1>11. ASSUME UNCHANGED <<disk, pc, mem, live, job>> PROVE HoldsAt(q)'
  BY <1>0, <1>11, EngagedFrame
<1>12. ASSUME NEW r \in Requests, CancelActive(r) PROVE HoldsAt(q)'
  <2>1. UNCHANGED <<disk, pc, live, job>> /\ mem' = [mem EXCEPT ![r] = Cancelled(mem[r])]
    BY <1>12 DEF CancelActive
  <2>2. mem'[q].req = mem[q].req /\ (mem[q].state = "released" => mem'[q].state = "released")
    BY <1>a, <2>1, CancelledFields
  <2> QED BY <1>0, <2>1, <2>2, EngagedFrame
<1>13. ASSUME NEW r \in Requests, NEW ok \in BOOLEAN, CancelWritten(r, ok), ~Quiet PROVE HoldsAt(q)'
  <2>1. UNCHANGED <<mem, pc, live, job>> /\ disk' \in {disk, mem[r]} /\ r \in canc
    BY <1>13, SaveFacts DEF CancelWritten
  <2>2. disk'.req = disk.req
    BY <1>13, <2>1 DEF Seats, SeatsAt, Mine
  <2> QED BY <1>0, <2>1, <2>2, EngagedFrame
<1>14. ASSUME NEW o \in Obj, AckWindowEnds(o) PROVE HoldsAt(q)'
  <2>1. UNCHANGED <<disk, mem, live, job>> /\ pc[o] = "ackwait" /\ pc' = [pc EXCEPT ![o] = "conclude"]
    BY <1>14 DEF AckWindowEnds
  <2> QED BY <1>c, <2>1 DEF After
<1>15. ASSUME NEW o \in Obj, TakeLock(o) PROVE HoldsAt(q)'
  <2>1. /\ UNCHANGED <<disk, mem, live>> /\ pc[o] \in {"late", "release", "conclude"}
        /\ pc' = [pc EXCEPT ![o] = "done"]
        /\ job' = job \/ StartJob(pc[o], o, pc[o])
    BY <1>15 DEF TakeLock
  <2>2. CASE job' = job
    BY <1>c, <2>1, <2>2 DEF After
  <2>3. CASE StartJob(pc[o], o, pc[o])
    <3>1. job'.op = o /\ job'.pc = pc[o]
      BY <2>1, <2>3, StartFacts
    <3>2. ASSUME Engaged(q)' PROVE Engaged(q)
      <4>1. CASE q # o
        BY <2>1, <3>1, <3>2, <4>1 DEF Engaged
      <4>2. CASE q = o /\ o \in Requests
        BY <2>1, <4>2 DEF Engaged, After
      <4>3. CASE q = o /\ o \notin Requests
        <5>1. pc[o] = "conclude" /\ job'.pc = "conclude"
          BY <2>1, <3>1, <4>3 DEF Types, Places, Obj
        <5>2. live' = o /\ live = o
          BY <2>1, <3>2, <4>3, <5>1 DEF Engaged
        <5> QED BY <4>3, <5>1, <5>2 DEF Engaged
      <4> QED BY <4>1, <4>2, <4>3
    <3> QED BY <1>a, <1>b, <2>1, <3>1, <3>2, HoldsFrame
  <2> QED BY <2>1, <2>2, <2>3
<1>16. CASE Job
  <2>1. CASE q = job.op
    BY <1>16, <2>1, JobHoldsOwn
  <2>2. CASE q # job.op
    BY <1>16, <2>2, JobHoldsOthers
  <2> QED BY <2>1, <2>2
<1>17. ASSUME NEW declare \in BOOLEAN, Resolve(declare) PROVE HoldsAt(q)'
  <2>1. /\ UNCHANGED <<disk, pc, live>> /\ lock = "none" /\ ~stopping
        /\ mem' = mem \/ (live = "none" /\ mem' = [mem EXCEPT !["adopted"] = disk])
        /\ live # "none" => mem' = mem
        /\ live = "none" => mem' = [mem EXCEPT !["adopted"] = disk]
        /\ \E o \in Obj : /\ o = IF live # "none" THEN live ELSE "adopted"
                          /\ job' = [by |-> "resolve", op |-> o, pc |-> "adopt", req |-> "none", declare |-> declare]
    BY <1>17 DEF Resolve, NoJob
  <2>2. job'.op = (IF live # "none" THEN live ELSE "adopted")
    BY <2>1, NewJobFields
  <2>3. CASE live = "none" /\ q = "adopted"
    <3>1. Mine(q)'
      BY <2>1, <2>3 DEF Mine
    <3> QED BY <3>1 DEF HoldsAt
  <2>4. CASE live = q /\ live # "none"
    <3>1. pc[q] \notin {"prepare", "withdraw"}
      BY <1>e, <2>1 DEF Types, Places, Opening, Obj
    <3>2. Mine(q)
      BY <1>a, <2>1, <2>4, <3>1 DEF HoldsAt, Engaged, Gone, Quiet
    <3> QED BY <2>1, <2>4, <3>2 DEF HoldsAt, Mine
  <2>5. CASE job'.op # q
    <3>1. mem'[q] = mem[q]
      BY <2>1, <2>2, <2>5
    <3>2. Engaged(q)' => Engaged(q)
      BY <2>1, <2>5 DEF Engaged
    <3> QED BY <1>a, <1>b, <2>1, <2>5, <3>1, <3>2, HoldsFrame
  <2> QED BY <2>2, <2>3, <2>4, <2>5
<1>19. CASE Shutdown \/ ContainerReplaced
  BY <1>11, <1>19 DEF Shutdown, ContainerReplaced, ops
<1> QED
  BY <1>b, <1>1, <1>2, <1>3, <1>4, <1>5, <1>6, <1>7, <1>8, <1>9, <1>10, <1>11, <1>12, <1>13, <1>14, <1>15,
     <1>16, <1>17, <1>19, Steps
  DEF Next, Executor

-----------------------------------------------------------------------------
(* The record a new process adopts.                                         *)

\* Who is done, or has not begun, is nobody's operation again.
LEMMA DoneKept ==
  ASSUME Types, Regular, Next, NEW q \in Requests, pc[q] \in {"idle", "recover", "done"},
         live # q, job.op # q
  PROVE  /\ live' # q /\ job'.op # q
         /\ pc[q] = "done" => pc'[q] = "done"
         /\ pc'[q] \in {"idle", "recover", "done"} \/ recovered'
<1> USE Names, TypeFacts
<1>a. q \in Obj /\ q # "none"
  BY ComposerAssumption
<1>0. ASSUME pc'[q] = pc[q], live' \in {live, "none"}, job' = job
      PROVE  /\ live' # q /\ job'.op # q /\ (pc[q] = "done" => pc'[q] = "done")
             /\ pc'[q] \in {"idle", "recover", "done"} \/ recovered'
  BY <1>0, <1>a
<1> DEFINE Goal == /\ live' # q /\ job'.op # q /\ (pc[q] = "done" => pc'[q] = "done")
                   /\ pc'[q] \in {"idle", "recover", "done"} \/ recovered'
<1>1. ASSUME NEW r \in Requests, Arrive(r) PROVE Goal
  <2>1. /\ UNCHANGED <<live, job>> /\ pc[r] = "idle"
        /\ \/ pc' = [pc EXCEPT ![r] = "recover"]
           \/ recovered' /\ pc' = [pc EXCEPT ![r] = "check"]
    BY <1>1 DEF Arrive
  <2> QED BY <1>a, <2>1
<1>2. ASSUME NEW r \in Requests, Recover(r) PROVE Goal
  <2>1. /\ live' = live /\ pc[r] = "recover" /\ recovered'
        /\ \E p \in {"recovering", "check"} : pc' = [pc EXCEPT ![r] = p]
        /\ \/ job' = job
           \/ job' = [by |-> "recover", op |-> "adopted", pc |-> "adopt", req |-> r, declare |-> FALSE]
    BY <1>2 DEF Recover, NoJob
  <2>2. job'.op \in {job.op, "adopted"}
    BY <2>1
  <2> QED BY <1>a, <2>1, <2>2
<1>3. ASSUME NEW r \in Requests, Check(r) PROVE Goal
  <2>1. /\ live' = live /\ pc[r] = "check"
        /\ \E p \in {"resending", "precond", "done"} : pc' = [pc EXCEPT ![r] = p]
        /\ \/ job' = job
           \/ job' = [by |-> "resend", op |-> live, pc |-> "release", req |-> r, declare |-> FALSE]
    BY <1>3 DEF Check, NoJob
  <2>2. job'.op \in {job.op, live}
    BY <2>1
  <2> QED BY <1>a, <2>1, <2>2
<1>4. ASSUME NEW r \in Requests, Prepare(r) PROVE Goal
  <2>1. job' = job /\ live' = r /\ pc[r] = "precond" /\ pc' = [pc EXCEPT ![r] = "prepare"]
    BY <1>4 DEF Prepare
  <2> QED BY <1>a, <2>1
<1>5. ASSUME NEW r \in Requests, Refuse(r) \/ PreparedConfirmed(r) PROVE Goal
  <2>1. /\ UNCHANGED <<live, job>> /\ pc[r] \in {"precond", "event"}
        /\ \E p \in {"done", "create", "stop", "withdraw"} : pc' = [pc EXCEPT ![r] = p]
    BY <1>5 DEF Refuse, PreparedConfirmed
  <2> QED BY <1>a, <2>1
<1>6. ASSUME NEW r \in Requests, NEW ok \in BOOLEAN,
             PreparedLands(r, ok) \/ StoppedAtPrepared(r, ok) \/ WithdrawPrepared(r, ok) \/ Close(r, ok)
      PROVE  Goal
  <2>1. /\ live' \in {live, "none"} /\ job' = job /\ pc[r] \in Opening \union {"close"}
        /\ \E p \in {"event", "withdraw", "done", "release", "ackwait"} : pc' = [pc EXCEPT ![r] = p]
    BY <1>6 DEF PreparedLands, StoppedAtPrepared, WithdrawPrepared, Close, Opening
  <2>2. pc'[q] = pc[q]
    BY <1>a, <2>1 DEF Opening
  <2> QED BY <1>0, <2>1, <2>2
<1>7. ASSUME NEW r \in Requests,
             CreateExec(r) \/ ExecRecorded(r) \/ StartExec(r) \/ ExecAnswers(r) \/ Proceed(r)
      PROVE  Goal
  <2>1. Executes(r)
    BY <1>7, CreateEffect, RecordEffect, StartEffect, AnswerEffect, ProceedEffect
  <2>2. pc'[q] = pc[q] /\ UNCHANGED <<live, job>>
    BY <1>a, <2>1 DEF Executes, Around, Only, Announced
  <2> QED BY <1>0, <2>2
<1>8. ASSUME NEW r \in Requests, NEW ok \in BOOLEAN, NEW s \in Step,
             \/ THttpAnswers(r) \/ CancelActive(r) \/ CancelWritten(r, ok) \/ ExecActs(r, s) \/ ExecEnds(r, s)
             \/ PromptPersisted(r)
      PROVE  UNCHANGED <<pc, live, job>>
  BY <1>8 DEF THttpAnswers, CancelActive, CancelWritten, ExecActs, ExecEnds, PromptPersisted, ops
<1>9. ASSUME NEW o \in Obj, AckWindowEnds(o) \/ TakeLock(o) PROVE Goal
  <2>1. /\ live' = live /\ pc[o] \in {"ackwait", "late", "release", "conclude"}
        /\ \E p \in {"conclude", "done"} : pc' = [pc EXCEPT ![o] = p]
        /\ job' = job \/ StartJob(pc[o], o, pc[o])
    BY <1>9 DEF AckWindowEnds, TakeLock
  <2>2. o # q /\ pc'[q] = pc[q]
    BY <1>a, <2>1
  <2>3. CASE job' = job
    BY <1>0, <2>1, <2>2, <2>3
  <2>4. CASE StartJob(pc[o], o, pc[o])
    <3>1. job' = [NoJob EXCEPT !.by = pc[o], !.op = o, !.pc = pc[o]]
      BY <2>4 DEF StartJob
    <3>2. job'.op = o
      BY <3>1 DEF NoJob
    <3> QED BY <1>a, <2>1, <2>2, <3>2
  <2> QED BY <2>1, <2>3, <2>4
<1>10. CASE Job
  <2>1. Leads
    BY <1>10, JobLeads
  <2>2. pc'[q] = pc[q]
    <3>1. q = job.req /\ job.by \in {"recover", "resend"} => pc[q] \in {"recovering", "resending"}
      BY DEF Types, Turns
    <3> QED BY <1>a, <2>1, <3>1 DEF Leads
  <2> QED BY <1>a, <2>1, <2>2 DEF Leads
<1>11. ASSUME NEW declare \in BOOLEAN, Resolve(declare) PROVE Goal
  <2>1. /\ UNCHANGED <<pc, live>>
        /\ \E o \in {live, "adopted"} :
             job' = [by |-> "resolve", op |-> o, pc |-> "adopt", req |-> "none", declare |-> declare]
    BY <1>11 DEF Resolve, NoJob
  <2>2. job'.op \in {live, "adopted"}
    BY <2>1
  <2> QED BY <1>a, <2>1, <2>2
<1>12. CASE Shutdown \/ ContainerReplaced
  BY <1>12 DEF Shutdown, ContainerReplaced, ops
<1>13. CASE Crash
  BY <1>13, <1>a, NoJobFields DEF Crash
<1> QED
  BY <1>0, <1>1, <1>2, <1>3, <1>4, <1>5, <1>6, <1>7, <1>8, <1>9, <1>10, <1>11, <1>12, <1>13, Steps
  DEF Next, Executor

\* Only what is done is adopted: its process died before.
LEMMA AdoptedDone ==
  ASSUME IInv, live = "none", NEW q \in Requests, disk.req = q,
         lock = "none", ~Quiet \/ ~recovered
  PROVE  pc[q] = "done" /\ job.op # q
<1> USE Names, TypeFacts DEF IInv
<1>1. q \in Obj /\ pc[q] \notin Before /\ pc[q] \in PcStates /\ live # q /\ job.op = "none" /\ q # "none"
  BY NoJobFree, ComposerAssumption DEF Fresh
<1>2. CASE ~recovered
  BY <1>1, <1>2 DEF Adopted, Before
<1>3. CASE ~Quiet
  <2>1. pc[q] \notin Opening
    BY <1>1 DEF Types, Turns
  <2>2. ASSUME Engaged(q) PROVE FALSE
    BY <1>1, <1>3, <2>2, EngagedNamed DEF Holds, HoldsAt, Mine, Gone
  <2>3. pc[q] \notin Announced \union After
    BY <2>2 DEF Engaged
  <2> QED BY <1>1, <2>1, <2>3 DEF PcStates, Before, Opening, Announced, After
<1> QED BY <1>2, <1>3

\* Every step keeps what is known of an adopted record.
LEMMA AdoptedKept ==
  ASSUME IInv, Regular, Next
  PROVE  Adopted'
<1> USE Names, TypeFacts DEF IInv
<1>1. ASSUME NEW q \in Requests, mem["adopted"].req = q
      PROVE  pc'[q] = "done" /\ live' # q /\ job'.op # q
  BY <1>1, DoneKept DEF Adopted
<1>2. ASSUME NEW q \in Requests, mem'["adopted"].req = q, mem'["adopted"].req # mem["adopted"].req
      PROVE  pc'[q] = "done" /\ live' # q /\ job'.op # q
  <2>0. mem'["adopted"] # mem["adopted"]
    BY <1>2
  <2>1. ASSUME NEW r \in Requests,
               \/ Arrive(r) \/ Check(r) \/ Refuse(r) \/ Prepare(r) \/ PreparedConfirmed(r)
               \/ THttpAnswers(r) \/ CancelActive(r) \/ PromptPersisted(r)
        PROVE  FALSE
    BY <2>0, <2>1 DEF Arrive, Check, Refuse, Prepare, PreparedConfirmed, THttpAnswers, CancelActive,
                      PromptPersisted, ops
  <2>2. ASSUME NEW r \in Requests, NEW ok \in BOOLEAN, NEW s \in Step,
               \/ PreparedLands(r, ok) \/ StoppedAtPrepared(r, ok) \/ WithdrawPrepared(r, ok) \/ Close(r, ok)
               \/ CancelWritten(r, ok) \/ ExecActs(r, s) \/ ExecEnds(r, s)
        PROVE  FALSE
    BY <2>0, <2>2 DEF PreparedLands, StoppedAtPrepared, WithdrawPrepared, Close, CancelWritten, ExecActs, ExecEnds, ops
  <2>3. ASSUME NEW r \in Requests,
               CreateExec(r) \/ ExecRecorded(r) \/ StartExec(r) \/ ExecAnswers(r) \/ Proceed(r)
        PROVE  FALSE
    <3>1. Executes(r)
      BY <2>3, CreateEffect, RecordEffect, StartEffect, AnswerEffect, ProceedEffect
    <3> QED BY <2>0, <3>1 DEF Executes, Around, Only
  <2>4. ASSUME NEW o \in Obj, AckWindowEnds(o) \/ TakeLock(o) PROVE FALSE
    BY <2>0, <2>4 DEF AckWindowEnds, TakeLock
  <2>5. CASE Job
    <3>1. Procedure
      BY <2>5, JobEffect DEF Treats
    <3> QED BY <1>2, <3>1 DEF Procedure, Op
  <2>6. CASE Shutdown \/ ContainerReplaced
    BY <2>0, <2>6 DEF Shutdown, ContainerReplaced, ops
  <2>7. CASE Crash
    BY <1>2, <2>7, NoRecordFields, ComposerAssumption DEF Crash
  <2>8. ASSUME NEW r \in Requests, Recover(r) PROVE pc'[q] = "done" /\ live' # q /\ job'.op # q
    <3>1. /\ ~recovered /\ live = "none" /\ lock = "none" /\ mem' = [mem EXCEPT !["adopted"] = disk]
          /\ pc[r] = "recover" /\ live' = live /\ pc' = [pc EXCEPT ![r] = "recovering"]
          /\ job' = [by |-> "recover", op |-> "adopted", pc |-> "adopt", req |-> r, declare |-> FALSE]
      BY <2>0, <2>8 DEF Recover, NoJob
    <3>2. disk.req = q
      BY <1>2, <3>1
    <3>3. pc[q] = "done"
      BY <3>1, <3>2, AdoptedDone
    <3>4. job'.op = "adopted"
      BY <3>1
    <3> QED BY <3>1, <3>3, <3>4, ComposerAssumption
  <2>9. ASSUME NEW declare \in BOOLEAN, Resolve(declare) PROVE pc'[q] = "done" /\ live' # q /\ job'.op # q
    <3>1. /\ ~stopping /\ live = "none" /\ lock = "none" /\ mem' = [mem EXCEPT !["adopted"] = disk]
          /\ live' = live /\ pc' = pc
          /\ job' = [by |-> "resolve", op |-> "adopted", pc |-> "adopt", req |-> "none", declare |-> declare]
      BY <2>0, <2>9 DEF Resolve, NoJob
    <3>2. disk.req = q /\ ~Quiet
      BY <1>2, <3>1 DEF Quiet
    <3>3. pc[q] = "done"
      BY <3>1, <3>2, AdoptedDone
    <3>4. job'.op = "adopted"
      BY <3>1
    <3> QED BY <3>1, <3>3, <3>4, ComposerAssumption
  <2> QED BY <2>1, <2>2, <2>3, <2>4, <2>5, <2>6, <2>7, <2>8, <2>9, Steps DEF Next, Executor
<1>3. ASSUME ~recovered', NEW q \in Requests
      PROVE  pc'[q] \in {"idle", "recover", "done"} /\ live' # q /\ job'.op # q
  <2>1. CASE Crash
    BY <2>1, <1>3, NoJobFields, ComposerAssumption DEF Crash
  <2>2. CASE ~recovered
    BY <1>3, <2>2, DoneKept DEF Adopted
  <2>3. recovered /\ ~Crash => recovered'
    <3>1. ASSUME NEW r \in Requests,
                 \/ Arrive(r) \/ Recover(r) \/ Check(r) \/ Refuse(r) \/ Prepare(r) \/ PreparedConfirmed(r)
                 \/ CreateExec(r) \/ ExecRecorded(r) \/ StartExec(r) \/ ExecAnswers(r) \/ Proceed(r)
                 \/ THttpAnswers(r) \/ CancelActive(r) \/ PromptPersisted(r)
          PROVE  recovered => recovered'
      BY <3>1 DEF Arrive, Recover, Check, Refuse, Prepare, PreparedConfirmed, CreateExec, ExecRecorded, StartExec,
                  ExecAnswers, Proceed, THttpAnswers, CancelActive, PromptPersisted
    <3>2. ASSUME NEW r \in Requests, NEW ok \in BOOLEAN, NEW s \in Step,
                 \/ PreparedLands(r, ok) \/ StoppedAtPrepared(r, ok) \/ WithdrawPrepared(r, ok)
                 \/ Close(r, ok) \/ CancelWritten(r, ok) \/ ExecActs(r, s) \/ ExecEnds(r, s)
          PROVE  recovered' = recovered
      BY <3>2 DEF PreparedLands, StoppedAtPrepared, WithdrawPrepared, Close, CancelWritten, ExecActs, ExecEnds
    <3>3. ASSUME NEW o \in Obj, AckWindowEnds(o) \/ TakeLock(o) PROVE recovered' = recovered
      BY <3>3 DEF AckWindowEnds, TakeLock
    <3>4. ASSUME NEW declare \in BOOLEAN, Resolve(declare) PROVE recovered' = recovered
      BY <3>4 DEF Resolve
    <3>5. CASE Job
      BY <3>5, JobEffect DEF Treats, Procedure
    <3>6. CASE Shutdown \/ ContainerReplaced
      BY <3>6 DEF Shutdown, ContainerReplaced
    <3> QED BY <3>1, <3>2, <3>3, <3>4, <3>5, <3>6, Steps DEF Next, Executor
  <2> QED BY <1>3, <2>1, <2>2, <2>3
<1> QED BY <1>1, <1>2, <1>3 DEF Adopted

-----------------------------------------------------------------------------
(* One request of a message id at a time has a claim to the pane.           *)

\* A move within the engaged places, or out of them, engages nobody.
LEMMA EngagedMove ==
  ASSUME Types, NEW o \in Obj, NEW q \in Obj, NEW p, pc' = [pc EXCEPT ![o] = p], UNCHANGED <<live, job>>,
         \/ p \notin Announced \union {"event", "stop"} \union After /\ pc[o] \notin {"prepare", "withdraw"}
         \/ pc[o] \in Announced \union {"event", "stop"} \union After
  PROVE  Engaged(q)' => Engaged(q)
BY TypeFacts DEF Engaged, Announced, After

\* Whoever comes to be engaged names a request that had its claim.
LEMMA EngagedClaimed ==
  ASSUME IInv, Regular, Next, NEW o \in Obj, Engaged(o)', NEW q \in Requests, mem'[o].req = q
  PROVE  Claimed(q)
<1> USE Names, TypeFacts DEF IInv
<1>a. o # "none" /\ mem[o] \in Record
  BY ComposerAssumption DEF Obj
<1>f. ASSUME Engaged(o), mem[o].req = q PROVE Claimed(q)
  BY <1>f DEF Claimed
<1>0. ASSUME Engaged(o)' => Engaged(o), mem'[o].req = mem[o].req PROVE Claimed(q)
  BY <1>0, <1>f
<1>d. ASSUME mem'[o] = disk PROVE Claimed(q)
  BY <1>d DEF Claimed
<1>1. ASSUME NEW r \in Requests, Arrive(r) \/ Refuse(r) PROVE Claimed(q)
  <2>1. /\ UNCHANGED <<mem, live, job>> /\ pc[r] \in {"idle", "precond"}
        /\ \E p \in {"recover", "check", "done"} : pc' = [pc EXCEPT ![r] = p]
    BY <1>1 DEF Arrive, Refuse
  <2> QED BY <1>0, <2>1, EngagedMove DEF Announced, After
<1>2. ASSUME NEW r \in Requests, Recover(r) PROVE Claimed(q)
  <2>1. /\ live' = live /\ pc[r] = "recover"
        /\ \E p \in {"recovering", "check"} : pc' = [pc EXCEPT ![r] = p]
        /\ \/ UNCHANGED <<job, mem>>
           \/ /\ mem' = [mem EXCEPT !["adopted"] = disk]
              /\ job' = [by |-> "recover", op |-> "adopted", pc |-> "adopt", req |-> r, declare |-> FALSE]
    BY <1>2 DEF Recover, NoJob
  <2>2. CASE UNCHANGED <<job, mem>>
    BY <1>0, <2>1, <2>2, EngagedMove DEF Announced, After
  <2>3. CASE o = "adopted" /\ mem' = [mem EXCEPT !["adopted"] = disk]
    BY <1>d, <2>3
  <2>4. CASE /\ o # "adopted" /\ mem' = [mem EXCEPT !["adopted"] = disk]
             /\ job' = [by |-> "recover", op |-> "adopted", pc |-> "adopt", req |-> r, declare |-> FALSE]
    <3>1. job'.op = "adopted" /\ mem'[o] = mem[o]
      BY <2>4
    <3>2. Engaged(o)' => Engaged(o)
      BY <2>1, <2>4, <3>1 DEF Engaged, Announced, After
    <3> QED BY <1>0, <3>1, <3>2
  <2> QED BY <2>1, <2>2, <2>3, <2>4
<1>3. ASSUME NEW r \in Requests, Check(r) PROVE Claimed(q)
  <2>1. /\ UNCHANGED <<live, mem>> /\ pc[r] = "check"
        /\ \E p \in {"resending", "precond", "done"} : pc' = [pc EXCEPT ![r] = p]
        /\ \/ job' = job
           \/ /\ lock = "none" /\ live # "none"
              /\ job' = [by |-> "resend", op |-> live, pc |-> "release", req |-> r, declare |-> FALSE]
    BY <1>3 DEF Check, NoJob, OwnFinal
  <2>2. CASE job' = job
    BY <1>0, <2>1, <2>2, EngagedMove DEF Announced, After
  <2>3. CASE /\ lock = "none" /\ live # "none"
             /\ job' = [by |-> "resend", op |-> live, pc |-> "release", req |-> r, declare |-> FALSE]
    <3>1. job'.op = live
      BY <2>3
    <3>2. live = o => pc[o] \notin {"prepare", "withdraw"}
      BY <2>3 DEF Types, Turns, Places, Opening, Obj
    <3>3. Engaged(o)' => Engaged(o)
      BY <2>1, <3>1, <3>2 DEF Engaged, Announced, After
    <3> QED BY <1>0, <2>1, <3>3
  <2> QED BY <2>1, <2>2, <2>3
<1>4. ASSUME NEW r \in Requests, Prepare(r) PROVE Claimed(q)
  <2>1. /\ job' = job /\ live' = r /\ pc[r] = "precond" /\ job.op # r
        /\ mem' = [mem EXCEPT ![r] = Prepared(r)] /\ pc' = [pc EXCEPT ![r] = "prepare"]
    BY <1>4 DEF Prepare, Fresh, Before
  <2>2. o # r
    BY <2>1 DEF Engaged, Announced, After
  <2> QED BY <1>0, <2>1, <2>2 DEF Engaged
<1>5. ASSUME NEW r \in Requests, NEW ok \in BOOLEAN, PreparedLands(r, ok) PROVE Claimed(q)
  <2>1. /\ UNCHANGED <<mem, live, job>> /\ pc[r] = "prepare" /\ lock = r
        /\ \E p \in {"event", "withdraw"} : pc' = [pc EXCEPT ![r] = p]
    BY <1>5 DEF PreparedLands, Opening, Types, Turns
  <2>2. CASE o = r
    BY <2>1, <2>2 DEF Types, Shape, Claimed
  <2>3. CASE o # r
    BY <1>0, <2>1, <2>3 DEF Engaged
  <2> QED BY <2>2, <2>3
<1>6. ASSUME NEW r \in Requests, PreparedConfirmed(r) PROVE Claimed(q)
  <2>1. /\ UNCHANGED <<live, job>> /\ pc[r] = "event"
        /\ \E p \in {"create", "stop", "withdraw"} : pc' = [pc EXCEPT ![r] = p]
        /\ mem' = mem \/ mem' = [mem EXCEPT ![r] = Cancelled(mem[r])]
    BY <1>6 DEF PreparedConfirmed
  <2>2. mem'[o].req = mem[o].req
    BY <1>a, <2>1, CancelledFields
  <2> QED BY <1>0, <2>1, <2>2, EngagedMove
<1>7. ASSUME NEW r \in Requests, NEW ok \in BOOLEAN, StoppedAtPrepared(r, ok) \/ Close(r, ok) PROVE Claimed(q)
  <2>1. /\ UNCHANGED <<mem, live, job>> /\ pc[r] \in {"stop", "close"}
        /\ \E p \in {"done", "release", "ackwait"} : pc' = [pc EXCEPT ![r] = p]
    BY <1>7 DEF StoppedAtPrepared, Close
  <2> QED BY <1>0, <2>1, EngagedMove DEF After
<1>8. ASSUME NEW r \in Requests, NEW ok \in BOOLEAN, WithdrawPrepared(r, ok) PROVE Claimed(q)
  <2>1. /\ UNCHANGED <<mem, job>> /\ live' = (IF live = r THEN "none" ELSE live)
        /\ pc' = [pc EXCEPT ![r] = "done"]
    BY <1>8 DEF WithdrawPrepared
  <2> QED BY <1>a, <1>0, <2>1 DEF Engaged, Announced, After
<1>9. ASSUME NEW r \in Requests,
             CreateExec(r) \/ ExecRecorded(r) \/ StartExec(r) \/ ExecAnswers(r) \/ Proceed(r)
      PROVE  Claimed(q)
  <2>1. Executes(r)
    BY <1>9, CreateEffect, RecordEffect, StartEffect, AnswerEffect, ProceedEffect
  <2> QED BY <1>0, <2>1 DEF Executes, Around, Only, Engaged
<1>10. ASSUME NEW r \in Requests, NEW ok \in BOOLEAN, NEW s \in Step,
              THttpAnswers(r) \/ PromptPersisted(r) \/ CancelWritten(r, ok) \/ ExecActs(r, s) \/ ExecEnds(r, s)
       PROVE  UNCHANGED <<pc, mem, live, job>>
  BY <1>10 DEF THttpAnswers, PromptPersisted, CancelWritten, ExecActs, ExecEnds, ops
<1>11. ASSUME UNCHANGED <<pc, mem, live, job>> PROVE Claimed(q)
  BY <1>0, <1>11, EngagedFrame
<1>12. ASSUME NEW r \in Requests, CancelActive(r) PROVE Claimed(q)
  <2>1. UNCHANGED <<pc, live, job>> /\ mem' = [mem EXCEPT ![r] = Cancelled(mem[r])]
    BY <1>12 DEF CancelActive
  <2>2. mem'[o].req = mem[o].req
    BY <1>a, <2>1, CancelledFields
  <2> QED BY <1>0, <2>1, <2>2, EngagedFrame
<1>13. ASSUME NEW p \in Obj, AckWindowEnds(p) PROVE Claimed(q)
  <2>1. UNCHANGED <<mem, live, job>> /\ pc[p] = "ackwait" /\ pc' = [pc EXCEPT ![p] = "conclude"]
    BY <1>13 DEF AckWindowEnds
  <2> QED BY <1>0, <2>1, EngagedMove DEF After
<1>14. ASSUME NEW p \in Obj, TakeLock(p) PROVE Claimed(q)
  <2>1. /\ UNCHANGED <<mem, live>> /\ pc[p] \in {"late", "release", "conclude"}
        /\ pc' = [pc EXCEPT ![p] = "done"]
        /\ job' = job \/ StartJob(pc[p], p, pc[p])
    BY <1>14 DEF TakeLock
  <2>2. CASE job' = job
    BY <1>0, <2>1, <2>2, EngagedMove DEF After
  <2>3. CASE StartJob(pc[p], p, pc[p])
    <3>1. job'.op = p /\ job'.pc = pc[p]
      BY <2>1, <2>3, StartFacts
    <3>2. ASSUME Engaged(o)' PROVE Engaged(o)
      <4>1. CASE o # p
        BY <2>1, <3>1, <3>2, <4>1 DEF Engaged
      <4>2. CASE o = p /\ p \in Requests
        BY <2>1, <4>2 DEF Engaged, After
      <4>3. CASE o = p /\ p \notin Requests
        <5>1. pc[p] = "conclude" /\ job'.pc = "conclude"
          BY <2>1, <3>1, <4>3 DEF Types, Places, Obj
        <5>2. live' = p /\ live = p
          BY <2>1, <3>2, <4>3, <5>1 DEF Engaged
        <5> QED BY <4>3, <5>1, <5>2 DEF Engaged
      <4> QED BY <4>1, <4>2, <4>3
    <3> QED BY <1>0, <2>1, <3>2
  <2> QED BY <2>1, <2>2, <2>3
<1>15. CASE Job
  <2>1. Treats /\ Leads
    BY <1>15, JobEffect, JobLeads
  <2>2. CASE o = job.op
    <3>1. CASE Engaged(job.op)
      BY <1>f, <2>1, <2>2, <3>1 DEF Treats, Procedure, Op
    <3>2. CASE ~Engaged(job.op)
      BY <1>15, <1>a, <2>2, <3>2, JobOutside, NoJobFields, ComposerAssumption DEF Engaged
    <3> QED BY <3>1, <3>2
  <2>3. CASE o # job.op
    <3>1. mem'[o] = mem[o] /\ job'.op # o /\ (live' = o => live = o)
      BY <1>a, <2>1, <2>3 DEF Treats, Procedure, Leads
    <3>2. pc'[o] = pc[o] \/ (o \in Requests /\ pc[o] \in Before /\ pc'[o] \in {"check", "precond", "done"})
      BY <2>1, <2>3 DEF Leads, Types, Turns, Before
    <3>3. Engaged(o)' => Engaged(o)
      BY <3>1, <3>2 DEF Engaged, Fresh, Announced, After
    <3> QED BY <1>0, <3>1, <3>3
  <2> QED BY <2>2, <2>3
<1>16. ASSUME NEW declare \in BOOLEAN, Resolve(declare) PROVE Claimed(q)
  <2>1. /\ UNCHANGED <<pc, live>> /\ lock = "none"
        /\ live # "none" => mem' = mem
        /\ live = "none" => mem' = [mem EXCEPT !["adopted"] = disk]
        /\ job'.op = IF live # "none" THEN live ELSE "adopted"
    BY <1>16 DEF Resolve, NoJob
  <2>2. CASE live = "none" /\ o = "adopted"
    BY <1>d, <2>1, <2>2
  <2>3. CASE live # "none"
    <3>1. live = o => pc[o] \notin {"prepare", "withdraw"}
      BY <2>1 DEF Types, Turns, Places, Opening, Obj
    <3>2. Engaged(o)' => Engaged(o)
      BY <2>1, <2>3, <3>1 DEF Engaged
    <3> QED BY <1>0, <2>1, <2>3, <3>2
  <2>4. CASE live = "none" /\ o # "adopted"
    <3>1. mem'[o] = mem[o] /\ (Engaged(o)' => Engaged(o))
      BY <2>1, <2>4 DEF Engaged
    <3> QED BY <1>0, <3>1
  <2> QED BY <2>2, <2>3, <2>4
<1>17. CASE Shutdown \/ ContainerReplaced
  BY <1>11, <1>17 DEF Shutdown, ContainerReplaced, ops
<1>18. CASE Crash
  BY <1>18, <1>a, NoJobFields DEF Crash, Engaged, Announced, After
<1> QED
  BY <1>1, <1>2, <1>3, <1>4, <1>5, <1>6, <1>7, <1>8, <1>9, <1>10, <1>11, <1>12, <1>13, <1>14, <1>15,
     <1>16, <1>17, <1>18, Steps
  DEF Next, Executor

\* A send that takes the lock.
Takes(r) ==
  /\ lock = "none" /\ ~stopping /\ Known(r) = {} /\ ~(OnDisk /\ id[disk.req] = id[r])
  /\ lock' = r

\* Who comes to have the lock had a claim, or takes it in a send.
LEMMA LockTaken ==
  ASSUME IInv, Regular, Next, NEW q \in Requests, lock' = q
  PROVE  Claimed(q) \/ Takes(q)
<1> USE Names, TypeFacts DEF IInv
<1>0. ASSUME lock' \in {lock, "none", "job"} PROVE Claimed(q)
  BY <1>0 DEF Claimed
<1>1. ASSUME NEW r \in Requests,
             \/ Arrive(r) \/ Recover(r) \/ Refuse(r) \/ Prepare(r) \/ PreparedConfirmed(r)
             \/ CreateExec(r) \/ ExecRecorded(r) \/ StartExec(r) \/ ExecAnswers(r) \/ Proceed(r)
             \/ THttpAnswers(r) \/ CancelActive(r) \/ PromptPersisted(r)
      PROVE  lock' \in {lock, "none", "job"}
  BY <1>1 DEF Arrive, Recover, Refuse, Prepare, PreparedConfirmed, CreateExec, ExecRecorded, StartExec,
              ExecAnswers, Proceed, THttpAnswers, CancelActive, PromptPersisted
<1>2. ASSUME NEW r \in Requests, NEW ok \in BOOLEAN, NEW s \in Step,
             \/ PreparedLands(r, ok) \/ StoppedAtPrepared(r, ok) \/ WithdrawPrepared(r, ok) \/ Close(r, ok)
             \/ CancelWritten(r, ok) \/ ExecActs(r, s) \/ ExecEnds(r, s)
      PROVE  lock' \in {lock, "none", "job"}
  BY <1>2 DEF PreparedLands, StoppedAtPrepared, WithdrawPrepared, Close, CancelWritten, ExecActs, ExecEnds
<1>3. ASSUME NEW r \in Requests, Check(r) PROVE Claimed(q) \/ Takes(q)
  <2>1. \/ lock' = lock
        \/ /\ lock' = r /\ lock = "none" /\ ~stopping /\ Known(r) = {} /\ ~(OnDisk /\ id[disk.req] = id[r])
    BY <1>3 DEF Check
  <2> QED BY <1>0, <2>1 DEF Takes
<1>4. ASSUME NEW o \in Obj, AckWindowEnds(o) \/ TakeLock(o) PROVE lock' \in {lock, "none", "job"}
  BY <1>4 DEF AckWindowEnds, TakeLock, StartJob
<1>5. CASE Job
  BY <1>0, <1>5, JobLeads DEF Leads
<1>6. ASSUME NEW declare \in BOOLEAN, Resolve(declare) PROVE lock' \in {lock, "none", "job"}
  BY <1>6 DEF Resolve
<1>7. CASE Shutdown \/ ContainerReplaced \/ Crash
  BY <1>0, <1>7 DEF Shutdown, ContainerReplaced, Crash
<1> QED BY <1>0, <1>1, <1>2, <1>3, <1>4, <1>5, <1>6, <1>7, Steps DEF Next, Executor

\* A record is written only by who has a claim.
LEMMA DiskClaimed ==
  ASSUME IInv, Regular, Next, NEW q \in Requests, disk'.req = q
  PROVE  Claimed(q)
<1> USE Names, TypeFacts DEF IInv
<1>0. ASSUME disk' \in {disk, NoRecord} PROVE Claimed(q)
  BY <1>0, NoRecordFields, ComposerAssumption DEF Claimed
<1>f. ASSUME NEW o \in Obj, Engaged(o), disk'.req = mem[o].req PROVE Claimed(q)
  BY <1>f DEF Claimed
<1>1. ASSUME NEW r \in Requests,
             \/ Arrive(r) \/ Recover(r) \/ Check(r) \/ Refuse(r) \/ Prepare(r) \/ PreparedConfirmed(r)
             \/ CreateExec(r) \/ StartExec(r) \/ ExecAnswers(r) \/ Proceed(r)
             \/ THttpAnswers(r) \/ CancelActive(r) \/ PromptPersisted(r)
      PROVE  disk' = disk
  BY <1>1 DEF Arrive, Recover, Check, Refuse, Prepare, PreparedConfirmed, CreateExec, StartExec,
              ExecAnswers, Proceed, THttpAnswers, CancelActive, PromptPersisted
<1>2. ASSUME NEW r \in Requests, ExecRecorded(r) PROVE Claimed(q)
  <2>1. Engaged(r) /\ (disk' = disk \/ disk'.req = mem[r].req)
    BY <1>2, RecordEffect DEF Copy, Engaged, Announced
  <2> QED BY <1>0, <1>f, <2>1
<1>3. ASSUME NEW r \in Requests, NEW ok \in BOOLEAN, PreparedLands(r, ok) PROVE Claimed(q)
  <2>1. /\ pc[r] = "prepare" /\ lock = r /\ mem[r] \in Record
        /\ disk' \in {disk} \union Older(mem[r])
    BY <1>3, SaveFacts DEF PreparedLands, Types, Turns, Opening
  <2>2. disk' = disk \/ disk'.req = mem[r].req
    BY <2>1, OlderFields
  <2>3. CASE disk'.req = mem[r].req
    <3>1. q = r
      BY <2>3, ComposerAssumption DEF Types, Shape
    <3> QED BY <2>1, <3>1 DEF Claimed
  <2> QED BY <1>0, <2>2, <2>3
<1>4. ASSUME NEW r \in Requests, NEW ok \in BOOLEAN, StoppedAtPrepared(r, ok) \/ Close(r, ok) PROVE Claimed(q)
  <2>1. pc[r] \in {"stop", "close"} /\ disk' \in {disk, mem[r]}
    BY <1>4, SaveFacts DEF StoppedAtPrepared, Close
  <2>2. Engaged(r)
    BY <2>1 DEF Engaged, After
  <2> QED BY <1>0, <1>f, <2>1, <2>2
<1>5. ASSUME NEW r \in Requests, NEW ok \in BOOLEAN, WithdrawPrepared(r, ok) PROVE disk' \in {disk, NoRecord}
  BY <1>5 DEF WithdrawPrepared, Without
<1>6. ASSUME NEW r \in Requests, NEW ok \in BOOLEAN, CancelWritten(r, ok) PROVE Claimed(q)
  <2>1. r \in canc /\ disk' \in {disk, mem[r]}
    BY <1>6, SaveFacts DEF CancelWritten
  <2>2. CASE disk' = mem[r]
    <3>1. q = r
      BY <2>2, ComposerAssumption DEF Types, Shape
    <3> QED BY <2>1, <3>1 DEF Claimed
  <2> QED BY <1>0, <2>1, <2>2
<1>7. ASSUME NEW r \in Requests, NEW s \in Step, ExecActs(r, s) \/ ExecEnds(r, s) PROVE disk' = disk
  BY <1>7 DEF ExecActs, ExecEnds
<1>8. ASSUME NEW o \in Obj, AckWindowEnds(o) \/ TakeLock(o) PROVE disk' = disk
  BY <1>8 DEF AckWindowEnds, TakeLock
<1>9. CASE Job
  <2>1. disk' \in {disk, mem'[job.op], NoRecord} /\ mem'[job.op].req = mem[job.op].req /\ job.op \in Obj
    BY <1>9, JobEffect DEF Treats, Procedure, Op
  <2>2. ~Engaged(job.op) => disk' = disk
    BY <1>9, JobOutside
  <2> QED BY <1>0, <1>f, <2>1, <2>2
<1>10. ASSUME NEW declare \in BOOLEAN, Resolve(declare) PROVE disk' = disk
  BY <1>10 DEF Resolve
<1>11. CASE Shutdown \/ ContainerReplaced \/ Crash
  BY <1>0, <1>11 DEF Shutdown, ContainerReplaced, Crash
<1> QED BY <1>0, <1>1, <1>2, <1>3, <1>4, <1>5, <1>6, <1>7, <1>8, <1>9, <1>10, <1>11, Steps DEF Next, Executor

\* A cancellation is of an operation with a claim.
LEMMA CancClaimed ==
  ASSUME IInv, Regular, Next, NEW q \in Requests, q \in canc'
  PROVE  Claimed(q)
<1> USE Names, TypeFacts DEF IInv
<1>0. ASSUME canc' \subseteq canc PROVE Claimed(q)
  BY <1>0 DEF Claimed
<1>1. ASSUME NEW r \in Requests,
             \/ Arrive(r) \/ Recover(r) \/ Check(r) \/ Refuse(r) \/ Prepare(r) \/ PreparedConfirmed(r)
             \/ CreateExec(r) \/ ExecRecorded(r) \/ StartExec(r) \/ ExecAnswers(r) \/ Proceed(r)
             \/ THttpAnswers(r) \/ PromptPersisted(r)
      PROVE  canc' = canc
  BY <1>1 DEF Arrive, Recover, Check, Refuse, Prepare, PreparedConfirmed, CreateExec, ExecRecorded, StartExec,
              ExecAnswers, Proceed, THttpAnswers, PromptPersisted, ops
<1>2. ASSUME NEW r \in Requests, NEW ok \in BOOLEAN, NEW s \in Step,
             \/ PreparedLands(r, ok) \/ StoppedAtPrepared(r, ok) \/ WithdrawPrepared(r, ok) \/ Close(r, ok)
             \/ CancelWritten(r, ok) \/ ExecActs(r, s) \/ ExecEnds(r, s)
      PROVE  canc' \subseteq canc
  BY <1>2 DEF PreparedLands, StoppedAtPrepared, WithdrawPrepared, Close, CancelWritten, ExecActs, ExecEnds, ops
<1>3. ASSUME NEW r \in Requests, CancelActive(r) PROVE Claimed(q)
  <2>1. canc' = canc \union {r} /\ pc[r] \in Announced \union {"prepare", "event"}
    BY <1>3 DEF CancelActive
  <2>2. CASE pc[r] = "prepare"
    BY <2>1, <2>2 DEF Claimed, Types, Turns, Opening
  <2>3. CASE pc[r] \in Announced \union {"event"}
    <3>1. Engaged(r) /\ mem[r].req = r
      BY <2>3, EngagedNamed DEF Engaged
    <3> QED BY <2>1, <3>1 DEF Claimed
  <2> QED BY <2>1, <2>2, <2>3
<1>4. ASSUME NEW o \in Obj, AckWindowEnds(o) \/ TakeLock(o) PROVE canc' = canc
  BY <1>4 DEF AckWindowEnds, TakeLock
<1>5. CASE Job
  BY <1>0, <1>5, JobEffect DEF Treats, Procedure
<1>6. ASSUME NEW declare \in BOOLEAN, Resolve(declare) PROVE canc' = canc
  BY <1>6 DEF Resolve
<1>7. CASE Shutdown \/ ContainerReplaced \/ Crash
  BY <1>0, <1>7 DEF Shutdown, ContainerReplaced, Crash, ops
<1> QED BY <1>0, <1>1, <1>2, <1>3, <1>4, <1>5, <1>6, <1>7, Steps DEF Next, Executor

\* Who comes to have a claim takes the lock in a send.
LEMMA ClaimedKept ==
  ASSUME IInv, Regular, Next, NEW q \in Requests, Claimed(q)'
  PROVE  Claimed(q) \/ Takes(q)
<1>1. ASSUME q \in window' PROVE Claimed(q)
  <2>1. q \in window \/ (Marks /\ Op.req = q)
    BY <1>1, PastKept DEF IInv, Marks
  <2>2. CASE Marks /\ Op.req = q
    <3>1. job.op \in Obj /\ Engaged(job.op)
      BY <2>2, ReleaseEffect DEF IInv, Marks, Procedure, Engaged
    <3> QED BY <2>2, <3>1 DEF Claimed, Op
  <2> QED BY <2>1, <2>2 DEF Claimed
<1>2. ASSUME NEW o \in Obj, Engaged(o)', mem'[o].req = q PROVE Claimed(q)
  BY <1>2, EngagedClaimed
<1> QED BY <1>1, <1>2, LockTaken, DiskClaimed, CancClaimed DEF Claimed

\* A send takes the lock only when no other of its message id has a claim.
LEMMA TakesAlone ==
  ASSUME IInv, NEW r \in Requests, NEW q \in Requests, r # q, id[r] = id[q], Takes(r)
  PROVE  ~Claimed(q)
<1> USE Names, TypeFacts DEF IInv
<1>1. ~Quiet /\ lock # q /\ q \notin window
  BY DEF Takes, Known, Quiet
<1>2. disk.req # q
  BY NoRecordFields, ComposerAssumption DEF Takes, OnDisk
<1>3. q \notin canc
  BY <1>1 DEF Seats, SeatsAt
<1>4. ASSUME NEW o \in Obj, Engaged(o), mem[o].req = q PROVE FALSE
  <2>1. CASE Mine(o)
    BY <1>2, <1>4, <2>1 DEF Mine
  <2>2. CASE Gone(o)
    BY <1>1, <1>4, <2>2, EngagedNamed DEF Gone, Types, Rest
  <2> QED BY <1>1, <1>4, <2>1, <2>2 DEF Holds, HoldsAt
<1> QED BY <1>1, <1>2, <1>3, <1>4 DEF Claimed

\* Every step keeps the claims of one message id single.
LEMMA SingleKept ==
  ASSUME IInv, Regular, Next
  PROVE  Single'
<1> SUFFICES ASSUME NEW r \in Requests, NEW q \in Requests, r # q, id'[r] = id'[q],
                    Claimed(r)', Claimed(q)'
             PROVE  FALSE
  BY DEF Single
<1>1. id[r] = id[q]
  BY IdKept
<1>2. (Claimed(r) \/ Takes(r)) /\ (Claimed(q) \/ Takes(q))
  BY ClaimedKept
<1>3. ~(Takes(r) /\ Takes(q))
  BY DEF Takes
<1>4. Takes(r) => ~Claimed(q)
  BY <1>1, TakesAlone
<1>5. Takes(q) => ~Claimed(r)
  BY <1>1, TakesAlone
<1>6. ~(Claimed(r) /\ Claimed(q))
  BY <1>1 DEF IInv, Single
<1> QED BY <1>2, <1>3, <1>4, <1>5, <1>6

\* What is marked released is in the index.
LEMMA FreedKept ==
  ASSUME IInv, Regular, Next
  PROVE  Freed'
<1> USE Names, TypeFacts DEF IInv
<1> SUFFICES ASSUME NEW q \in Requests, mem'[q].state = "released" PROVE q \in window'
  BY DEF Freed
<1>a. mem[q] \in Record
  OBVIOUS
<1>1. CASE Crash
  <2>1. mem'[q] = NoRecord
    BY <1>1 DEF Crash
  <2> QED BY <2>1, NoRecordFields
<1> SUFFICES ASSUME ~Crash PROVE q \in window'
  BY <1>1
<1>0. ASSUME mem[q].state = "released" PROVE q \in window'
  BY <1>0, WindowGrows DEF Freed
<1>2. ASSUME mem'[q] = mem[q] PROVE q \in window'
  BY <1>0, <1>2
<1>3. ASSUME NEW r \in Requests,
             \/ Arrive(r) \/ Check(r) \/ Refuse(r) \/ THttpAnswers(r) \/ PromptPersisted(r) \/ Recover(r)
      PROVE  mem'[q] = mem[q]
  <2>1. mem' = mem \/ mem' = [mem EXCEPT !["adopted"] = disk]
    BY <1>3 DEF Arrive, Recover, Check, Refuse, THttpAnswers, PromptPersisted, ops
  <2> QED BY <2>1
<1>4. ASSUME NEW r \in Requests, NEW ok \in BOOLEAN, NEW s \in Step,
             \/ PreparedLands(r, ok) \/ StoppedAtPrepared(r, ok) \/ WithdrawPrepared(r, ok) \/ Close(r, ok)
             \/ CancelWritten(r, ok) \/ ExecActs(r, s) \/ ExecEnds(r, s)
      PROVE  mem'[q] = mem[q]
  BY <1>4 DEF PreparedLands, StoppedAtPrepared, WithdrawPrepared, Close, CancelWritten, ExecActs, ExecEnds, ops
<1>5. ASSUME NEW r \in Requests, Prepare(r) PROVE q \in window'
  <2>1. mem' = [mem EXCEPT ![r] = Prepared(r)] /\ Prepared(r).state = "prepared"
    BY <1>5, PreparedFields DEF Prepare
  <2>2. CASE q = r
    BY <2>1, <2>2
  <2>3. CASE q # r
    BY <1>2, <2>1, <2>3
  <2> QED BY <2>2, <2>3
<1>6. ASSUME NEW r \in Requests, PreparedConfirmed(r) \/ CancelActive(r) PROVE q \in window'
  <2>1. mem' = mem \/ mem' = [mem EXCEPT ![r] = Cancelled(mem[r])]
    BY <1>6 DEF PreparedConfirmed, CancelActive
  <2>2. mem'[q] = mem[q] \/ mem'[q] = Cancelled(mem[q])
    BY <2>1
  <2>3. Cancelled(mem[q]).state = "released" => mem[q].state = "released"
    BY <1>a, CancelledFields
  <2> QED BY <1>0, <1>2, <2>2, <2>3
<1>7. ASSUME NEW r \in Requests,
             CreateExec(r) \/ ExecRecorded(r) \/ StartExec(r) \/ ExecAnswers(r) \/ Proceed(r)
      PROVE  q \in window'
  <2>1. Executes(r)
    BY <1>7, CreateEffect, RecordEffect, StartEffect, AnswerEffect, ProceedEffect
  <2>2. CASE q = r
    BY <1>0, <2>1, <2>2 DEF Executes, GoesOn, Reports, Ends, SameFate
  <2>3. CASE q # r
    BY <1>2, <2>1, <2>3 DEF Executes, Around, Only
  <2> QED BY <2>2, <2>3
<1>8. ASSUME NEW o \in Obj, AckWindowEnds(o) \/ TakeLock(o) PROVE mem'[q] = mem[q]
  BY <1>8 DEF AckWindowEnds, TakeLock
<1>9. CASE Job
  <2>0. Procedure
    BY <1>9, JobEffect DEF Treats
  <2>a. job.op # q => mem'[q] = mem[q]
    BY <2>0 DEF Procedure
  <2> SUFFICES ASSUME job.op = q PROVE q \in window'
    BY <1>2, <2>a
  <2>b. Op = mem[q] /\ Op.req = q
    BY <2>0, OpNamed DEF Procedure
  <2>1. ASSUME NEW ok \in BOOLEAN, JobAdopts(ok) PROVE q \in window'
    <3>1. mem'[q] = mem[q] \/ mem'[q] = Cancelled(mem[q])
      BY <2>1, <2>b, AdoptEffect
    <3>2. Cancelled(mem[q]).state = "released" => mem[q].state = "released"
      BY <1>a, CancelledFields
    <3> QED BY <1>0, <1>2, <3>1, <3>2
  <2>2. ASSUME NEW ok \in BOOLEAN, JobDeclares(ok) \/ JobAcks(ok) \/ JobConcludes(ok) PROVE q \in window'
    <3>1. mem'[q] = mem[q] \/ mem'[q].state = "final"
      BY <2>2, <2>b, DeclareEffect, AckEffect, ConcludeEffect
    <3> QED BY <1>2, <3>1
  <2>3. ASSUME NEW ok \in BOOLEAN, JobSettles(ok) PROVE q \in window'
    BY <1>0, <2>3, <2>b, SettleEffect
  <2>4. ASSUME NEW ok \in BOOLEAN, JobDerives(ok) PROVE q \in window'
    <3>1. mem'[q] = Derived(mem[q])
      BY <2>4, <2>b, DeriveEffect
    <3>2. Derived(mem[q]).state = "released" => mem[q].state = "released"
      BY <1>a, DerivedFields
    <3> QED BY <1>0, <3>1, <3>2
  <2>5. ASSUME NEW ok \in BOOLEAN, JobLate(ok) \/ JobMarks(ok) \/ JobRemoves(ok) PROVE mem'[q] = mem[q]
    BY <2>5, LateEffect, MarkEffect, RemoveEffect
  <2>6. CASE JobReleases
    <3>1. mem'[q] = mem[q] \/ mem[q].state = "released" \/ window' = window \union {q}
      BY <2>6, <2>b, ReleaseEffect
    <3> QED BY <1>0, <1>2, <3>1
  <2> QED BY <1>2, <1>9, <2>1, <2>2, <2>3, <2>4, <2>5, <2>6 DEF Job
<1>10. ASSUME NEW declare \in BOOLEAN, Resolve(declare) PROVE mem'[q] = mem[q]
  <2>1. mem' = mem \/ mem' = [mem EXCEPT !["adopted"] = disk]
    BY <1>10 DEF Resolve
  <2> QED BY <2>1
<1>11. CASE Shutdown \/ ContainerReplaced
  BY <1>2, <1>11 DEF Shutdown, ContainerReplaced, ops
<1> QED BY <1>2, <1>3, <1>4, <1>5, <1>6, <1>7, <1>8, <1>9, <1>10, <1>11, Steps DEF Next, Executor

\* The index recalls every release, if the conversation is opened first.
LEMMA RecallsKept ==
  ASSUME IInv, Regular, Next
  PROVE  Recalls'
<1> SUFFICES ASSUME Reopened, NEW r \in Requests, logged'[r] # "none" PROVE r \in window'
  BY DEF Recalls
<1>1. CASE logged' = logged /\ window' = window
  BY <1>1 DEF IInv, Recalls
<1>2. CASE Marks
  <2>1. window' = window \union {Op.req} /\ (r # Op.req => logged'[r] = logged[r])
    BY <1>2, MarksFacts DEF IInv, Marks
  <2> QED BY <2>1 DEF IInv, Recalls
<1> QED BY <1>1, <1>2, PastKept DEF IInv

-----------------------------------------------------------------------------
(* What acted and was not released is on disk.                              *)

\* A procedure writes what is on disk, or what was never released.
LEMMA JobWrites ==
  ASSUME IInv, Job
  PROVE  \/ disk' = disk
         \/ disk'.req = Op.req /\ job.op \in Obj /\ job.pc # "remove" /\ ~Gone(job.op)
         \/ Op.state = "released" /\ disk' = Without(Op) /\ job.pc = "remove" /\ job.op \in Obj
<1> USE DEF IInv
<1>0. job.op \in Obj
  BY JobEffect DEF Treats, Procedure
<1>1. ASSUME job.pc \notin {"late", "release", "conclude", "remove"} \/ live = job.op PROVE ~Gone(job.op)
  BY <1>1 DEF Gone
<1>2. mem'[job.op].req = Op.req
  BY JobEffect DEF Treats, Procedure
<1>3. ASSUME NEW ok \in BOOLEAN, JobAdopts(ok) \/ JobDeclares(ok) \/ JobSettles(ok) \/ JobDerives(ok) \/ JobMarks(ok)
      PROVE  disk' \in {disk, mem'[job.op]} /\ job.pc \in {"adopt", "declare", "settle", "derive", "mark"}
  BY <1>3, AdoptEffect, DeclareEffect, SettleEffect, DeriveEffect, MarkEffect DEF Writes
<1>4. ASSUME NEW ok \in BOOLEAN, JobLate(ok) \/ JobConcludes(ok)
      PROVE  disk' = disk \/ (disk' = mem'[job.op] /\ job.pc # "remove" /\ live = job.op)
  BY <1>4, LateEffect, ConcludeEffect DEF Writes
<1>5. ASSUME NEW ok \in BOOLEAN, JobAcks(ok) PROVE disk' \in {disk, mem'[job.op]} /\ job.pc = "ack"
  BY <1>5, AckEffect DEF Writes
<1>6. CASE JobReleases
  BY <1>6, ReleaseEffect
<1>7. ASSUME NEW ok \in BOOLEAN, JobRemoves(ok)
      PROVE  disk' = disk \/ (disk' = Without(Op) /\ job.pc = "remove" /\ Op.state = "released")
  BY <1>7, RemoveEffect DEF Procedures, Task
<1> QED BY <1>0, <1>1, <1>2, <1>3, <1>4, <1>5, <1>6, <1>7 DEF Job

\* The record of what acts and was not released stays on disk.
LEMMA DiskHeld ==
  ASSUME IInv, Regular, Next, NEW q \in Requests, ~Quiet, disk.req = q, logged[q] = "none",
         Acting(q) \/ pc[q] \in Announced
  PROVE  disk'.req = q
<1> USE Names, TypeFacts DEF IInv
<1>0. ASSUME disk' = disk PROVE disk'.req = q
  BY <1>0
<1>f. ASSUME NEW o \in Obj, Engaged(o), ~Gone(o), disk'.req = mem[o].req PROVE disk'.req = q
  BY <1>f DEF Holds, HoldsAt, Mine
<1>g. ASSUME NEW r \in Requests, lock = r, Engaged(r) PROVE ~Gone(r)
  BY <1>g, EngagedNamed DEF Seats, SeatsAt, Gone, Truth, TrueRec, TrueOf
<1>1. ASSUME NEW r \in Requests,
             \/ Arrive(r) \/ Recover(r) \/ Check(r) \/ Refuse(r) \/ Prepare(r) \/ PreparedConfirmed(r)
             \/ CreateExec(r) \/ StartExec(r) \/ ExecAnswers(r) \/ Proceed(r)
             \/ THttpAnswers(r) \/ CancelActive(r) \/ PromptPersisted(r)
      PROVE  disk' = disk
  BY <1>1 DEF Arrive, Recover, Check, Refuse, Prepare, PreparedConfirmed, CreateExec, StartExec,
              ExecAnswers, Proceed, THttpAnswers, CancelActive, PromptPersisted
<1>2. ASSUME NEW r \in Requests, ExecRecorded(r) PROVE disk'.req = q
  <2>1. pc[r] = "writing" /\ (disk' = disk \/ disk'.req = mem[r].req)
    BY <1>2, RecordEffect DEF Copy
  <2>2. Engaged(r) /\ lock = r
    BY <2>1 DEF Seats, SeatsAt, Engaged, Announced
  <2> QED BY <1>0, <1>f, <1>g, <2>1, <2>2
<1>3. ASSUME NEW r \in Requests, NEW ok \in BOOLEAN, PreparedLands(r, ok) PROVE FALSE
  <2>1. pc[r] = "prepare"
    BY <1>3 DEF PreparedLands
  <2>2. disk = NoRecord
    BY <2>1 DEF Opened, OpenedAt
  <2> QED BY <2>2, NoRecordFields
<1>4. ASSUME NEW r \in Requests, NEW ok \in BOOLEAN, StoppedAtPrepared(r, ok) \/ Close(r, ok) PROVE disk'.req = q
  <2>1. pc[r] \in {"stop", "close"} /\ disk' \in {disk, mem[r]}
    BY <1>4, SaveFacts DEF StoppedAtPrepared, Close
  <2>2. Engaged(r) /\ lock = r
    BY <2>1 DEF Engaged, After, Seats, SeatsAt, Types, Turns, Opening
  <2> QED BY <1>0, <1>f, <1>g, <2>1, <2>2
<1>5. ASSUME NEW r \in Requests, NEW ok \in BOOLEAN, WithdrawPrepared(r, ok) PROVE FALSE
  <2>1. pc[r] = "withdraw"
    BY <1>5 DEF WithdrawPrepared
  <2>2. r = q /\ ~Acting(r) /\ pc[r] \notin Announced
    BY <2>1 DEF Opened, OpenedAt, Opening, Announced
  <2> QED BY <2>2
<1>6. ASSUME NEW r \in Requests, NEW ok \in BOOLEAN, CancelWritten(r, ok) PROVE disk'.req = q
  <2>1. r \in canc /\ disk' \in {disk, mem[r]}
    BY <1>6, SaveFacts DEF CancelWritten
  <2> QED BY <2>1 DEF Seats, SeatsAt, Mine
<1>7. ASSUME NEW r \in Requests, NEW s \in Step, ExecActs(r, s) \/ ExecEnds(r, s) PROVE disk' = disk
  BY <1>7 DEF ExecActs, ExecEnds
<1>8. ASSUME NEW o \in Obj, AckWindowEnds(o) \/ TakeLock(o) PROVE disk' = disk
  BY <1>8 DEF AckWindowEnds, TakeLock
<1>9. CASE Job
  <2>1. CASE disk'.req = Op.req /\ job.op \in Obj /\ ~Gone(job.op)
    <3>1. CASE Engaged(job.op)
      BY <1>f, <2>1, <3>1 DEF Op
    <3>2. CASE ~Engaged(job.op)
      BY <1>0, <1>9, <3>2, JobOutside
    <3> QED BY <3>1, <3>2
  <2>2. CASE Op.state = "released" /\ disk' = Without(Op) /\ job.pc = "remove" /\ job.op \in Obj
    <3>1. disk.req = Op.req \/ disk = NoRecord
      BY <2>2 DEF Procedures, Task
    <3>2. Op.req = q
      BY <3>1, NoRecordFields
    <3> QED BY <2>2, <3>2 DEF Truth, TrueRec, TrueOf, Op
  <2> QED BY <1>0, <1>9, <2>1, <2>2, JobWrites
<1>10. ASSUME NEW declare \in BOOLEAN, Resolve(declare) PROVE disk' = disk
  BY <1>10 DEF Resolve
<1>11. CASE Shutdown \/ ContainerReplaced \/ Crash
  BY <1>0, <1>11 DEF Shutdown, ContainerReplaced, Crash
<1> QED BY <1>0, <1>1, <1>2, <1>3, <1>4, <1>5, <1>6, <1>7, <1>8, <1>9, <1>10, <1>11, Steps DEF Next, Executor

\* What acts and was not released is on disk after every step.
LEMMA TracedKept ==
  ASSUME IInv, Regular, Next
  PROVE  Traced'
<1> SUFFICES ASSUME NEW q \in Requests, Acting(q)', logged'[q] = "none" PROVE disk'.req = q
  BY DEF Traced
<1>1. logged[q] = "none"
  BY GrowsKept DEF IInv, Grows
<1>2. Acting(q) \/ pc[q] \in Announced
  BY ActingKept DEF IInv
<1>3. ~Quiet
  BY <1>1, <1>2 DEF Quiet
<1>4. disk.req = q
  <2>1. CASE Acting(q)
    BY <1>1, <2>1 DEF IInv, Traced
  <2>2. CASE pc[q] \in Announced
    <3>1. Engaged(q) /\ mem[q].req = q /\ q \in Obj
      BY <2>2, Names, EngagedNamed DEF IInv, Engaged
    <3>2. ~Gone(q)
      BY <1>1, <3>1 DEF IInv, Truth, TrueRec, TrueOf, Gone
    <3> QED BY <1>3, <3>1, <3>2 DEF IInv, Holds, HoldsAt, Mine
  <2> QED BY <1>2, <2>1, <2>2
<1> QED BY <1>1, <1>2, <1>3, <1>4, DiskHeld

-----------------------------------------------------------------------------
(* The invariant holds, and what follows from it.                           *)

\* The invariant holds at first.
LEMMA InitInv == Init => IInv
<1> SUFFICES ASSUME Init PROVE IInv
  OBVIOUS
<1> USE Names, NoRecordFields, NoJobFields
<1>1. Types
  BY InitTypes
<1>2. \A r \in Requests : pc[r] = "idle" /\ ~Acting(r) /\ mem[r] = NoRecord
  BY DEF Init, Acting
<1>3. \A o \in Obj : ~Engaged(o) /\ mem[o] = NoRecord /\ pc[o] = "idle"
  BY ComposerAssumption DEF Init, Engaged, Announced, After, Obj
<1>4. Holds /\ Seats
  BY <1>2, <1>3 DEF Init, Holds, HoldsAt, Seats, SeatsAt, Announced, Opening
<1>5. Procedures
  BY <1>3 DEF Init, Procedures, Task, Awaits
<1>6. Fresh
  <2>1. \A r \in Requests : disk.req # r /\ live # r /\ job.op # r /\ logged[r] = "none" /\ typed[r] = {}
    BY DEF Init
  <2>2. \A r \in Requests, o \in Obj : mem[o].req # r
    BY <1>3
  <2> QED BY <1>2, <2>1, <2>2 DEF Fresh
<1>7. Opened /\ Course
  BY <1>2 DEF Opened, OpenedAt, Course, CourseAt, Announced, Opening
<1>8. Truth
  <2>1. TrueRec(NoRecord)
    BY DEF TrueRec
  <2> QED BY <1>3, <2>1 DEF Init, Truth
<1>9. World
  BY DEF Init, World
<1>10. Adopted
  BY <1>2, <1>3 DEF Init, Adopted
<1>11. Single
  <2>1. \A r \in Requests : ~Claimed(r)
    BY <1>3 DEF Init, Claimed
  <2> QED BY <2>1 DEF Single
<1>12. Traced
  BY <1>2 DEF Traced
<1>13. Released /\ Freed /\ Recalls
  BY <1>2 DEF Init, Released, Freed, Recalls
<1> QED BY <1>1, <1>4, <1>5, <1>6, <1>7, <1>8, <1>9, <1>10, <1>11, <1>12, <1>13 DEF IInv

\* The invariant holds when nothing changes.
LEMMA StutterInv == IInv /\ UNCHANGED vars => IInv'
<1> SUFFICES ASSUME IInv, UNCHANGED vars PROVE IInv'
  OBVIOUS
<1> USE DEF IInv, vars, ops, world, past
<1>1. Types'
  BY TypesKept DEF vars, ops, world, past
<1>2. (\A o \in Obj : Engaged(o)' = Engaged(o) /\ Mine(o)' = Mine(o) /\ Gone(o)' = Gone(o))
      /\ Quiet' = Quiet /\ \A r \in Requests : Acting(r)' = Acting(r)
  BY DEF Engaged, Mine, Gone, Quiet, Acting
<1>3. Holds'
  BY <1>2 DEF Holds, HoldsAt
<1>4. Seats'
  BY <1>2, Names DEF Seats, SeatsAt
<1>5. Procedures'
  BY <1>2 DEF Procedures, Task, Awaits, Op
<1>6. Fresh'
  BY <1>2 DEF Fresh
<1>7. Opened'
  BY <1>2 DEF Opened, OpenedAt
<1>8. Course'
  BY DEF Course, CourseAt
<1>9. Truth'
  BY DEF Truth, TrueRec, TrueOf
<1>10. World' /\ Adopted' /\ Released' /\ Freed' /\ Recalls'
  BY DEF World, Adopted, Released, Freed, Recalls
<1>11. Single'
  BY <1>2 DEF Single, Claimed
<1>12. Traced'
  BY <1>2 DEF Traced
<1> QED BY <1>1, <1>3, <1>4, <1>5, <1>6, <1>7, <1>8, <1>9, <1>10, <1>11, <1>12

\* Every step keeps the invariant.
LEMMA NextInv == Regular /\ IInv /\ [Next]_vars => IInv'
<1> SUFFICES ASSUME Regular, IInv, [Next]_vars PROVE IInv'
  OBVIOUS
<1>1. CASE Next
  <2>1. Types' /\ Holds' /\ Seats' /\ Procedures' /\ Fresh'
    BY <1>1, TypesKept, HoldsKept, SeatsKept, ProceduresKept, FreshKept DEF IInv
  <2>2. Opened' /\ Course' /\ Truth' /\ World' /\ Adopted'
    BY <1>1, OpenedKept, CourseKept, TruthKept, WorldKept, AdoptedKept
  <2>3. Single' /\ Traced' /\ Released' /\ Freed' /\ Recalls'
    BY <1>1, SingleKept, TracedKept, ReleasedKept, FreedKept, RecallsKept
  <2> QED BY <2>1, <2>2, <2>3 DEF IInv
<1>2. CASE UNCHANGED vars
  BY <1>2, StutterInv
<1> QED BY <1>1, <1>2

\* Every step of the executor, the procedures, Docker and the process keeps
\* the inductive invariant.
THEOREM ComposerInvariant == Regular => (Spec => []IInv)
<1> SUFFICES ASSUME Regular PROVE Spec => []IInv
  OBVIOUS
<1>1. IInv /\ [Next]_vars => IInv'
  BY NextInv
<1> QED BY <1>1, InitInv, PTL DEF Spec

\* While an exec may still act in the pane, the record on disk is its
\* operation's and names it pending: whatever crash, timeout, lost answer or
\* operator's result comes between (composer.ts: tryRelease, settleEffects).
THEOREM ComposerBlockerOnDisk == Regular => (Spec => []BlockerOnDisk)
<1>1. IInv => BlockerOnDisk
  <2> SUFFICES ASSUME IInv, NEW r \in Requests, NEW s \in Step, Unsettled(r, s)
               PROVE  disk.req = r /\ disk.ex[s] = "pending"
    BY DEF BlockerOnDisk
  <2> USE DEF IInv
  <2>1. x[r][s] \in {"running", "acted"} /\ Acting(r)
    BY DEF Unsettled, Acting
  <2>2. logged[r] = "none"
    BY <2>1 DEF Released
  <2>3. disk.req = r
    BY <2>1, <2>2 DEF Traced
  <2>4. TrueOf(disk, r) /\ disk.ex[s] \in {"none", "pending", "ok", "err", "gone"}
    BY <2>3, TypeFacts, RecFields DEF Truth, TrueRec, Exs
  <2>5. on[r] = cont
    BY <2>1 DEF World
  <2> QED BY <2>1, <2>3, <2>4, <2>5 DEF TrueOf
<1> QED BY <1>1, ComposerInvariant, PTL

\* Two requests with one clientMessageId never both type into the pane, when a
\* new process opened the conversation before a send (composer.ts: send's
\* lookups of the record and of the released ids).
THEOREM ComposerAtMostOnce == Regular /\ Reopened => (Spec => []AtMostOnce)
<1> SUFFICES ASSUME Regular, Reopened PROVE Spec => []AtMostOnce
  OBVIOUS
<1>1. IInv => AtMostOnce
  <2>1. ASSUME IInv, NEW r \in Requests, typed[r] # {} PROVE Claimed(r)
    <3>1. PICK s \in Step : s \in typed[r]
      BY <2>1 DEF IInv, Types, Rest
    <3>2. Acting(r)
      BY <2>1, <3>1 DEF IInv, World, Acting
    <3> QED BY <2>1, <3>2 DEF IInv, Traced, Claimed, Recalls
  <2> QED BY <2>1 DEF IInv, Single, AtMostOnce
<1>2. Spec => []IInv
  BY ComposerInvariant
<1> QED BY <1>1, <1>2, PTL

\* What was released as failed did not press Enter in the container it was
\* begun in (composer.ts: tryRelease and effectsOf, on settleEffects' evidence).
THEOREM ComposerFailedNotEntered == Regular => (Spec => []FailedNotEntered)
<1>1. IInv => FailedNotEntered
  BY DEF IInv, Released, FailedNotEntered
<1> QED BY <1>1, ComposerInvariant, PTL
=============================================================================
