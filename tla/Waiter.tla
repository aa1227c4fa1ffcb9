------------------------------- MODULE Waiter -------------------------------
(***************************************************************************)
(* Waiter.Wait (pkg/commands/waiter.go): after a write, kp watches the     *)
(* object until the kpack controller has taken note of that write, and     *)
(* turns the Ready condition into its exit code.  Its conditions are       *)
(* hasResolved and, when a builder is imported, builderHasResolved.        *)
(*                                                                         *)
(* The object's past is a sequence of versions.  The informer below the    *)
(* watch may start from an old one (it lists from the API server's cache)  *)
(* and may skip some (it lists again after a broken watch), but it never   *)
(* goes back.                                                              *)
(***************************************************************************)
EXTENDS Naturals, Sequences

CONSTANTS
  WantStore, WantStack,  \* generations builderHasResolved expects, 0 without one
  Reports,               \* the values of Ready this controller writes
  MayDelete,             \* whether somebody may delete the object meanwhile
  MaxVersions            \* bound on the versions of the object

Readiness == {"True", "False", "Unknown"}

ASSUME WaiterAssumption ==
  /\ WantStore \in Nat /\ WantStack \in Nat /\ MaxVersions \in Nat
  /\ Reports \subseteq Readiness
  /\ MayDelete \in BOOLEAN

\* store and stack are the generations of its store and stack a builder was built
\* with, 0 if this kpack does not report them.
Version == [gen: Nat, observed: Nat, ready: Readiness, store: Nat, stack: Nat, deleted: BOOLEAN]

VARIABLES
  history,  \* the versions of the object, oldest first
  written,  \* which of them the API returned for the write
  pc,       \* "check", "watch", "judge", "ok", "notReady", "timeout"
  cond,     \* the condition that is waited for
  at        \* the version last seen, 0 if none

vars == <<history, written, pc, cond, at>>

Latest == history[Len(history)]
Want == history[written].gen

\* A verdict is read from an event: the one made of the written object, if that will do, or
\* the last one of the watch.  There is no way to the verdict without either.
TypeOK ==
  /\ history \in Seq(Version)
  /\ written \in DOMAIN history
  /\ pc \in {"check", "watch", "judge", "ok", "notReady", "timeout"}
  /\ cond \in 1..3
  /\ at \in 0..Len(history)
  /\ pc \in {"judge", "ok", "notReady"} => at # 0

Fresh ==
  [gen |-> 1, observed |-> 0, ready |-> "Unknown", store |-> 0, stack |-> 0, deleted |-> FALSE]

\* The controller has reported on the first generation.
Settled(gen, ready, seen) ==
  [gen |-> gen, observed |-> 1, ready |-> ready, store |-> seen, stack |-> seen, deleted |-> FALSE]

\* A new object, one whose first write the controller had settled, or one whose last
\* write it has yet to notice; the write under way is the last version.  A patch
\* that changes no spec (only annotations, or nothing) leaves the generation alone.
Init ==
  /\ \E ready \in Reports, seen \in {0, 1}, gen \in {1, 2} :
       history \in {<<Fresh>>, <<Settled(1, ready, seen), Settled(gen, ready, seen)>>}
  /\ written = Len(history)
  /\ pc = "check"
  /\ cond = 1
  /\ at = 0

-----------------------------------------------------------------------------
(* The conditions *)

\* Bug: any verdict is good enough.
HasResolvedIgnoresGeneration(v) == v.ready # "Unknown"

\* Bug: a controller that has noticed the write is taken to be done with it.
HasResolvedIgnoresUnknown(v) == v.observed >= Want

HasResolved(v) == v.observed >= Want /\ v.ready # "Unknown"

\* Bug: either will do.
BuilderHasResolvedEither(v) ==
  \/ v.store = 0 \/ v.store >= WantStore
  \/ v.stack = 0 \/ v.stack >= WantStack

BuilderHasResolved(v) ==
  /\ v.store = 0 \/ v.store >= WantStore
  /\ v.stack = 0 \/ v.stack >= WantStack

Holds(c, v) == IF c = 1 THEN HasResolved(v) ELSE BuilderHasResolved(v)

\* Bug: each condition waits for an event of its own.
NextCondOnePerEvent(c, v) == IF Holds(c, v) THEN c + 1 ELSE c

\* UntilWithoutRetry: an event that meets a condition is shown to the next one, too;
\* the ones before are never asked again.
NextCond(c, v) ==
  IF c = 1 /\ Holds(1, v) /\ ~Holds(2, v) THEN 2
  ELSE IF \A d \in c..2 : Holds(d, v) THEN 3 ELSE c

-----------------------------------------------------------------------------
(* kp *)

\* Bug: only the watch leaves an event behind.
RunChecksWithoutEvent ==
  /\ pc = "check"
  /\ pc' = IF HasResolved(history[written]) /\ BuilderHasResolved(history[written])
           THEN "judge" ELSE "watch"
  /\ UNCHANGED <<history, written, cond, at>>

\* runChecks on the object the API returned.
RunChecks ==
  /\ pc = "check"
  /\ IF HasResolved(history[written]) /\ BuilderHasResolved(history[written])
     THEN pc' = "judge" /\ at' = written
     ELSE pc' = "watch" /\ at' = at
  /\ UNCHANGED <<history, written, cond>>

\* The informer hands over a version newer than the last.
Deliver ==
  /\ pc = "watch"
  /\ \E i \in (at + 1)..Len(history) :
       /\ at' = i
       /\ cond' = NextCond(cond, history[i])
  /\ pc' = IF cond' = 3 THEN "judge" ELSE "watch"
  /\ UNCHANGED <<history, written>>

\* The last event decides, be it of a deletion.
Judge ==
  /\ pc = "judge"
  /\ pc' = IF history[at].ready = "False" THEN "notReady" ELSE "ok"
  /\ UNCHANGED <<history, written, cond, at>>

\* The ten minutes are over.
Timeout ==
  /\ pc = "watch"
  /\ pc' = "timeout"
  /\ UNCHANGED <<history, written, cond, at>>

-----------------------------------------------------------------------------
(* The cluster *)

NewVersion(v) == history' = Append(history, v) /\ UNCHANGED <<written, pc, cond, at>>

\* Another writer changes the spec.
Edit ==
  /\ Len(history) < MaxVersions
  /\ ~Latest.deleted
  /\ NewVersion([Latest EXCEPT !.gen = Latest.gen + 1])

\* Generations seen before are not unseen.
Since(seen, wanted) == {g \in {seen, wanted} : g >= seen}

\* The controller reports on the spec it sees, built with the store and the stack it
\* sees: it may be behind on any of them, but it never goes back.
Reconcile ==
  /\ Len(history) < MaxVersions
  /\ ~Latest.deleted
  /\ \E gen \in Latest.observed..Latest.gen, ready \in Reports,
        store \in Since(Latest.store, WantStore), stack \in Since(Latest.stack, WantStack) :
       /\ gen > 0
       /\ NewVersion([Latest EXCEPT !.observed = gen, !.ready = ready,
                                    !.store = store, !.stack = stack])

\* Sooner or later it has caught up with all of them.
CatchUp ==
  /\ ~Latest.deleted
  /\ ~(HasResolved(Latest) /\ BuilderHasResolved(Latest) /\ Latest.observed = Latest.gen)
  /\ \E ready \in Reports \ {"Unknown"},
        store \in Since(Latest.store, WantStore), stack \in Since(Latest.stack, WantStack) :
       /\ store >= WantStore /\ stack >= WantStack
       /\ NewVersion([Latest EXCEPT !.observed = Latest.gen, !.ready = ready,
                                    !.store = store, !.stack = stack])

\* The informer's deletion event carries the state the object last had.
Delete ==
  /\ MayDelete
  /\ ~Latest.deleted
  /\ NewVersion([Latest EXCEPT !.deleted = TRUE])

Wait == RunChecks \/ Deliver \/ Judge \/ Timeout

Next == Wait \/ Edit \/ Reconcile \/ CatchUp \/ Delete

Spec == Init /\ [][Next]_vars

\* kp runs, events arrive, and the controller catches up; the timer may never fire.
FairSpec == Spec /\ WF_vars(RunChecks \/ Deliver \/ Judge) /\ WF_vars(CatchUp)
-----------------------------------------------------------------------------
(* What an exit code means *)

\* A verdict is never about an earlier write: neither the Ready=True nor the
\* Ready=False that was there before the controller noticed this one can end the
\* wait (waiter_test.go, "waits for the correct generation").
VerdictIsCurrent == pc \in {"ok", "notReady"} => history[at].observed >= Want

\* A builder that was waited for was built with the store and the stack of this
\* import, though the two conditions are met by different events and the first is
\* not asked again.
VerdictSawDependencies ==
  pc \in {"ok", "notReady"} =>
    LET v == history[at] IN
    /\ v.store # 0 => v.store >= WantStore
    /\ v.stack # 0 => v.stack >= WantStack

\* A builder was resolved while it was behind on its dependencies, and taken back to
\* Unknown before it had caught up with them: the condition that minds Unknown is not
\* asked again.
ResolvedBehind ==
  \E i \in 1..at : /\ history[i].observed >= Want /\ history[i].ready # "Unknown"
                   /\ ~BuilderHasResolved(history[i])
TakenBack == history[at].ready = "Unknown" /\ ResolvedBehind

\* Success means ready, but for a controller that takes a verdict back between the two
\* conditions.  A wait without the second condition never succeeds on an Unknown.
SuccessIsReady == pc = "ok" => history[at].ready = "True" \/ TakenBack

\* Without the timer, Wait returns as soon as the controller has caught up: no order
\* of the events can leave it waiting for one that has already gone by.  Only an object
\* that is deleted under it is waited for until the timer fires.
WaitNoticesVerdict == <>(pc \in {"ok", "notReady", "timeout"} \/ Latest.deleted)
=============================================================================
