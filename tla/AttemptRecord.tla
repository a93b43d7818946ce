---------------------------- MODULE AttemptRecord ---------------------------
(***************************************************************************)
(* backend/src/recreateAttempt.ts: the durable record of a recreation      *)
(* attempt. The record is a value; each transition of the store is an      *)
(* operator from the record on disk to the record it writes. The file is   *)
(* replaced atomically (temp, fsync, rename, fsync of the directories), so *)
(* a write either leaves the old value or the new one; which one, when the *)
(* write throws, is the caller's choice.                                   *)
(*                                                                         *)
(* Containers are numbered: 1 is the session's first container, a + 1 the  *)
(* one attempt a creates. 0 stands for "no container" and "no attempt".    *)
(***************************************************************************)
EXTENDS Naturals

CONSTANT MaxAttempts  \* bound: attempts begun in a behaviour

ASSUME MaxAttemptsAssumption == MaxAttempts \in Nat \ {0}

Attempts   == 1..MaxAttempts
Containers == 1..(MaxAttempts + 1)
NewOf(a)   == a + 1

RecStates == {"none", "open", "uncertain", "resolved"}
Outcomes  == {"none", "committed", "rolled-back"}

\* old: the container replaced; new: the one that takes its place (for a
\* reverse attempt, the retained container coming back).
Records ==
  [st : RecStates, att : 0..MaxAttempts, old : 0..(MaxAttempts + 1),
   new : 0..(MaxAttempts + 1), carry : BOOLEAN, reverse : BOOLEAN,
   orphaned : BOOLEAN, recovered : BOOLEAN, out : Outcomes,
   retained : 0..(MaxAttempts + 1), role : {"-", "O", "N"}]

NoRecord ==
  [st |-> "none", att |-> 0, old |-> 0, new |-> 0, carry |-> FALSE,
   reverse |-> FALSE, orphaned |-> FALSE, recovered |-> FALSE, out |-> "none",
   retained |-> 0, role |-> "-"]

\* Mutation: only an open record closes the gate.
GateOpenUncertain(r) == r.st # "open"

\* assertResolved: the gate every lifecycle verb but create passes.
GateOpen(r) == r.st \in {"none", "resolved"}

\* assertResolvedAndNotRetained: what a hard delete passes.
DeleteGateOpen(r) == GateOpen(r) /\ r.retained = 0

\* begin(): refused unless the previous attempt is resolved.
MayBegin(r) == GateOpen(r)
BeginRec(a, old, new, carry, reverse) ==
  [NoRecord EXCEPT !.st = "open", !.att = a, !.old = old, !.new = new,
                   !.carry = carry, !.reverse = reverse]

\* markUncertain(): only an open record of the attempt, by its owner.
MayMarkUncertain(r, a, owned) == r.st = "open" /\ r.att = a /\ a \in owned
UncertainRec(r) == [r EXCEPT !.st = "uncertain", !.out = "none"]

\* resolve(): by the owner; an orphaned attempt only once adopted; a resolved
\* record only again with the outcome it has.
MayResolve(r, a, owned, out) ==
  /\ r.st # "none" /\ r.att = a /\ a \in owned
  /\ r.st = "resolved" => r.out = out
  /\ r.orphaned => r.recovered
\* opts.retained replaces the field only when one is given.
ResolvedRec(r, out, retained, role) ==
  [r EXCEPT !.st = "resolved", !.out = out,
            !.retained = IF retained = 0 THEN r.retained ELSE retained,
            !.role = IF retained = 0 THEN r.role ELSE role]

\* adopt(): an unresolved orphan taken over by an operator.
MayAdopt(r, a) == r.st \in {"open", "uncertain"} /\ r.att = a /\ r.orphaned
AdoptedRec(r) == [r EXCEPT !.st = "uncertain", !.recovered = TRUE]

\* approve(): the record stops naming the retained container.
ApprovedRec(r) == [r EXCEPT !.retained = 0, !.role = "-"]

\* Mutation: the boot resolves what the dead process left.
ResolvedByBoot(r) == ResolvedRec(r, "rolled-back", 0, "-")

\* recoverOnBoot(): an unresolved record not yet marked is orphaned, once.
NeedsOrphaning(r) == ~GateOpen(r) /\ ~r.orphaned
OrphanedRec(r) == [r EXCEPT !.st = "uncertain", !.orphaned = TRUE]
=============================================================================
