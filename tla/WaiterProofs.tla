---------------------------- MODULE WaiterProofs ----------------------------
(***************************************************************************)
(* What the exit code of a wait means, for any generations, any controller *)
(* and any number of versions.                                             *)
(***************************************************************************)
EXTENDS Waiter, TLAPS

\* The controller never goes back, and before its first report nothing is observed.
Monotone ==
  \A i, j \in 1..Len(history) : i <= j => history[i].observed <= history[j].observed
Generations == \A i \in 1..Len(history) : history[i].gen >= 1 /\ history[i].gen >= history[i].observed

\* What the conditions met so far still say about the version last seen.  The first
\* is not asked again: it stays true of later events because of Monotone.
Passed ==
  /\ pc = "watch" => cond \in {1, 2}
  /\ pc = "watch" /\ cond = 2 => at > 0 /\ history[at].observed >= Want /\ ResolvedBehind
  /\ pc \in {"judge", "ok", "notReady"} =>
       /\ at > 0 /\ history[at].observed >= Want /\ BuilderHasResolved(history[at])
       /\ history[at].ready = "Unknown" => ResolvedBehind
  /\ pc = "check" => cond = 1
  /\ pc = "ok" => history[at].ready # "False"

Inv == TypeOK /\ Monotone /\ Generations /\ Passed

-----------------------------------------------------------------------------

LEMMA InitInv == Init => Inv
<1> SUFFICES ASSUME Init
             PROVE  Inv
  OBVIOUS
<1>1. PICK ready \in Reports, seen \in {0, 1}, gen \in {1, 2} :
        history \in {<<Fresh>>, <<Settled(1, ready, seen), Settled(gen, ready, seen)>>}
  BY DEF Init
<1> DEFINE v0 == Fresh
           v1 == Settled(1, ready, seen)
           v2 == Settled(gen, ready, seen)
<1>2. history = <<v0>> \/ history = <<v1, v2>>
  BY <1>1
<1>3. v0 \in Version /\ v1 \in Version /\ v2 \in Version
  BY WaiterAssumption DEF Version, Readiness, Fresh, Settled
<1>4. /\ v0.gen >= 1 /\ v1.gen >= 1 /\ v2.gen >= 1
      /\ v0.observed = 0 /\ v1.observed = 1 /\ v2.observed = 1
      /\ v1.ready \in Reports /\ v2.ready \in Reports
      /\ v0.gen >= v0.observed /\ v1.gen >= v1.observed /\ v2.gen >= v2.observed
  BY DEF Fresh, Settled
<1> HIDE DEF v0, v1, v2
<1>5. Passed
  BY DEF Init, Passed
<1>6. CASE history = <<v0>>
  <2>1. Len(history) = 1 /\ history[1] = v0 /\ history \in Seq(Version)
    BY <1>3, <1>6
  <2>2. TypeOK
    BY <2>1 DEF Init, TypeOK
  <2>3. Monotone /\ Generations
    BY <1>4, <2>1 DEF Monotone, Generations
  <2> QED
    BY <1>5, <2>2, <2>3 DEF Inv
<1>7. CASE history = <<v1, v2>>
  <2>1. Len(history) = 2 /\ history[1] = v1 /\ history[2] = v2 /\ history \in Seq(Version)
    BY <1>3, <1>7
  <2>2. TypeOK
    BY <2>1 DEF Init, TypeOK
  <2>3. \A i \in 1..Len(history) : i = 1 \/ i = 2
    BY <2>1
  <2>4. Monotone /\ Generations
    BY <1>4, <2>1, <2>3 DEF Monotone, Generations
  <2> QED
    BY <1>5, <2>2, <2>4 DEF Inv
<1> QED
  BY <1>2, <1>6, <1>7

\* Every step of the cluster appends a version that is no earlier than the last one.
LEMMA ClusterStep ==
  ASSUME Inv, Edit \/ Reconcile \/ CatchUp \/ Delete
  PROVE  \E v \in Version :
           /\ history' = Append(history, v)
           /\ v.gen >= 1 /\ v.gen >= v.observed
           /\ v.observed >= Latest.observed
           /\ UNCHANGED <<written, pc, cond, at>>
<1> USE DEF NewVersion
<1>1. /\ Latest \in Version
      /\ Latest.gen >= 1 /\ Latest.gen >= Latest.observed
  <2>1. Len(history) \in 1..Len(history)
    BY DEF Inv, TypeOK
  <2> QED
    BY <2>1 DEF Inv, TypeOK, Generations, Latest
<1>2. CASE Edit
  <2> DEFINE v == [Latest EXCEPT !.gen = Latest.gen + 1]
  <2>0. Latest.gen \in Nat /\ v.gen = Latest.gen + 1
    BY <1>1 DEF Version
  <2>1. /\ v \in Version /\ v.gen >= Latest.gen /\ v.observed = Latest.observed /\ v.ready = Latest.ready
    BY <1>1, <2>0 DEF Version
  <2>2. history' = Append(history, v) /\ UNCHANGED <<written, pc, cond, at>>
    BY <1>2 DEF Edit
  <2> HIDE DEF v
  <2> QED
    BY <1>1, <2>1, <2>2 DEF Version
<1>3. CASE Delete
  <2> DEFINE v == [Latest EXCEPT !.deleted = TRUE]
  <2>1. /\ v \in Version /\ v.gen = Latest.gen /\ v.observed = Latest.observed /\ v.ready = Latest.ready
    BY <1>1 DEF Version
  <2>2. history' = Append(history, v) /\ UNCHANGED <<written, pc, cond, at>>
    BY <1>3 DEF Delete
  <2> HIDE DEF v
  <2> QED
    BY <1>1, <2>1, <2>2 DEF Version
<1>4. ASSUME NEW gen \in Nat, NEW ready \in Reports, NEW store \in Nat, NEW stack \in Nat,
             gen >= Latest.observed, Latest.gen >= gen,
             NewVersion([Latest EXCEPT !.observed = gen, !.ready = ready,
                                       !.store = store, !.stack = stack])
      PROVE  \E v \in Version :
               /\ history' = Append(history, v)
               /\ v.gen >= 1 /\ v.gen >= v.observed
               /\ v.observed >= Latest.observed
               /\ UNCHANGED <<written, pc, cond, at>>
  <2> DEFINE v == [Latest EXCEPT !.observed = gen, !.ready = ready, !.store = store, !.stack = stack]
  <2>1. v \in Version /\ v.gen = Latest.gen /\ v.observed = gen /\ v.ready = ready
    BY <1>1, WaiterAssumption DEF Version
  <2>2. history' = Append(history, v) /\ UNCHANGED <<written, pc, cond, at>>
    BY <1>4
  <2> HIDE DEF v
  <2> QED
    BY <1>1, <1>4, <2>1, <2>2
<1>5. ASSUME NEW seen \in Nat, NEW wanted \in Nat
      PROVE  Since(seen, wanted) \subseteq Nat
  BY DEF Since
<1>6. CASE Reconcile
  <2>1. PICK gen \in Latest.observed..Latest.gen, ready \in Reports,
             store \in Since(Latest.store, WantStore), stack \in Since(Latest.stack, WantStack) :
          NewVersion([Latest EXCEPT !.observed = gen, !.ready = ready,
                                    !.store = store, !.stack = stack])
    BY <1>6 DEF Reconcile
  <2>2. gen \in Nat /\ gen >= Latest.observed /\ Latest.gen >= gen /\ store \in Nat /\ stack \in Nat
    BY <1>1, <1>5, WaiterAssumption DEF Version
  <2> QED
    BY <1>4, <2>1, <2>2
<1>7. CASE CatchUp
  <2>1. PICK ready \in Reports, store \in Since(Latest.store, WantStore),
             stack \in Since(Latest.stack, WantStack) :
          NewVersion([Latest EXCEPT !.observed = Latest.gen, !.ready = ready,
                                    !.store = store, !.stack = stack])
    BY <1>7 DEF CatchUp
  <2>2. Latest.gen \in Nat /\ store \in Nat /\ stack \in Nat
    BY <1>1, <1>5, WaiterAssumption DEF Version
  <2>3. Latest.gen >= Latest.observed /\ Latest.gen >= Latest.gen
    BY <1>1, <2>2
  <2> QED
    BY <1>4, <2>1, <2>2, <2>3
<1> QED
  BY <1>2, <1>3, <1>6, <1>7

LEMMA AppendInv ==
  ASSUME Inv, NEW v \in Version, history' = Append(history, v),
         v.gen >= 1, v.gen >= v.observed, v.observed >= Latest.observed,
         UNCHANGED <<written, pc, cond, at>>
  PROVE  Inv'
<1>1. /\ history \in Seq(Version) /\ Len(history) \in Nat \ {0}
      /\ written \in 1..Len(history) /\ at \in 0..Len(history)
  BY DEF Inv, TypeOK
<1>2. /\ history' \in Seq(Version) /\ Len(history') = Len(history) + 1
      /\ \A i \in 1..Len(history) : history'[i] = history[i]
      /\ history'[Len(history) + 1] = v
  BY <1>1
<1>3. \A i \in 1..Len(history') : i \in 1..Len(history) \/ i = Len(history) + 1
  BY <1>1, <1>2
<1>4. TypeOK'
  BY <1>1, <1>2 DEF Inv, TypeOK
<1>5. Monotone'
  <2>1. \A i \in 1..Len(history) : v.observed >= history[i].observed
    <3>1. \A i \in 1..Len(history) : history[i].observed <= Latest.observed
      BY <1>1 DEF Inv, Monotone, Latest
    <3>2. Latest \in Version /\ \A i \in 1..Len(history) : history[i] \in Version
      BY <1>1 DEF Latest
    <3>3. Latest.observed \in Nat /\ v.observed \in Nat
      BY <3>2 DEF Version
    <3>4. \A i \in 1..Len(history) : history[i].observed \in Nat
      BY <3>2 DEF Version
    <3> QED
      BY <3>1, <3>3, <3>4
  <2>2. v.observed \in Nat
    BY DEF Version
  <2> QED
    BY <1>1, <1>2, <1>3, <2>1, <2>2 DEF Inv, Monotone
<1>6. Generations'
  BY <1>2, <1>3 DEF Inv, Generations
<1>7. Want' = Want /\ (at > 0 => history'[at] = history[at])
  BY <1>1, <1>2 DEF Want
<1>8. ResolvedBehind' <=> ResolvedBehind
  BY <1>1, <1>2, <1>7 DEF ResolvedBehind, BuilderHasResolved
<1>9. Passed'
  BY <1>1, <1>7, <1>8 DEF Inv, Passed, BuilderHasResolved
<1> QED
  BY <1>4, <1>5, <1>6, <1>9 DEF Inv

LEMMA NextInv == Inv /\ [Next]_vars => Inv'
<1> SUFFICES ASSUME Inv, [Next]_vars
             PROVE  Inv'
  OBVIOUS
<1> USE DEF Inv
<1>1. CASE RunChecks
  <2>1. UNCHANGED history /\ UNCHANGED written /\ UNCHANGED cond
    BY <1>1 DEF RunChecks
  <2>2. TypeOK' /\ Monotone' /\ Generations'
    BY <1>1, <2>1 DEF RunChecks, TypeOK, Monotone, Generations
  <2>3. Passed'
    BY <1>1, <2>1 DEF RunChecks, TypeOK, Passed, Want, HasResolved, BuilderHasResolved, ResolvedBehind
  <2> QED
    BY <2>2, <2>3
<1>2. CASE Deliver
  <2>1. PICK i \in (at + 1)..Len(history) : at' = i /\ cond' = NextCond(cond, history[i])
    BY <1>2 DEF Deliver
  <2>2. /\ pc = "watch" /\ pc' = IF cond' = 3 THEN "judge" ELSE "watch"
        /\ UNCHANGED <<history, written>>
    BY <1>2 DEF Deliver
  <2>3. at \in 0..Len(history) /\ cond \in {1, 2} /\ Len(history) \in Nat /\ i \in 1..Len(history)
    BY <2>1, <2>2 DEF TypeOK, Passed
  <2>4. cond' \in 1..3
    BY <2>1, <2>3 DEF NextCond
  <2>5. TypeOK' /\ Monotone' /\ Generations'
    BY <2>1, <2>2, <2>3, <2>4 DEF TypeOK, Monotone, Generations
  <2>6. cond = 2 => history[i].observed >= Want
    <3> SUFFICES ASSUME cond = 2
                 PROVE  history[i].observed >= Want
      OBVIOUS
    <3>1. at \in 1..Len(history) /\ history[at].observed >= Want
      BY <2>2, <2>3 DEF Passed
    <3>2. history[at].observed <= history[i].observed
      BY <2>1, <2>3, <3>1 DEF Monotone
    <3>3. history[at] \in Version /\ history[i] \in Version /\ history[written] \in Version
      BY <2>3, <3>1 DEF TypeOK
    <3>4. history[at].observed \in Nat /\ history[i].observed \in Nat /\ Want \in Nat
      BY <3>3 DEF Version, Want
    <3> HIDE DEF Inv
    <3> QED
      BY <3>1, <3>2, <3>4
  <2>7. /\ cond' \in {2, 3} => history[i].observed >= Want
        /\ cond' = 3 => BuilderHasResolved(history[i])
    BY <2>1, <2>3, <2>6 DEF NextCond, Holds, HasResolved
  <2>8. ResolvedBehind => ResolvedBehind'
    BY <2>1, <2>2, <2>3 DEF ResolvedBehind, Want, BuilderHasResolved
  <2>9. cond' = 2 => ResolvedBehind'
    <3>1. CASE cond = 1
      BY <2>1, <2>2, <2>3, <3>1 DEF NextCond, Holds, HasResolved, ResolvedBehind, Want, BuilderHasResolved
    <3>2. CASE cond = 2
      BY <2>2, <2>8, <3>2 DEF Passed
    <3> QED
      BY <2>3, <3>1, <3>2
  <2>10. cond' = 3 /\ history[i].ready = "Unknown" => ResolvedBehind'
    <3>1. CASE cond = 1
      BY <2>1, <3>1 DEF NextCond, Holds, HasResolved
    <3>2. CASE cond = 2
      BY <2>2, <2>8, <3>2 DEF Passed
    <3> QED
      BY <2>3, <3>1, <3>2
  <2>11. Passed'
    BY <2>1, <2>2, <2>3, <2>4, <2>7, <2>9, <2>10 DEF Passed, Want, BuilderHasResolved
  <2> QED
    BY <2>5, <2>11
<1>3. CASE Judge
  BY <1>3 DEF Judge, TypeOK, Monotone, Generations, Passed, Want, BuilderHasResolved, ResolvedBehind
<1>4. CASE Timeout
  BY <1>4 DEF Timeout, TypeOK, Monotone, Generations, Passed, Want, BuilderHasResolved, ResolvedBehind
<1>5. CASE Edit \/ Reconcile \/ CatchUp \/ Delete
  BY <1>5, ClusterStep, AppendInv
<1>6. CASE UNCHANGED vars
  BY <1>6 DEF vars, TypeOK, Monotone, Generations, Passed, Want, BuilderHasResolved, ResolvedBehind
<1> QED
  BY <1>1, <1>2, <1>3, <1>4, <1>5, <1>6 DEF Next, Wait

LEMMA InvCorrect == Spec => []Inv
  BY InitInv, NextInv, PTL DEF Spec

-----------------------------------------------------------------------------

\* The model's values stay in their types.
THEOREM TypeCorrect == Spec => []TypeOK
<1>1. Inv => TypeOK
  BY DEF Inv
<1> QED
  BY <1>1, InvCorrect, PTL

\* No Ready condition from before the write can end the wait.
THEOREM VerdictIsCurrentCorrect == Spec => []VerdictIsCurrent
<1>1. Inv => VerdictIsCurrent
  BY DEF Inv, Passed, VerdictIsCurrent
<1> QED
  BY <1>1, InvCorrect, PTL

\* An imported builder was built with this import's store and stack.
THEOREM VerdictSawDependenciesCorrect == Spec => []VerdictSawDependencies
<1>1. Inv => VerdictSawDependencies
  BY DEF Inv, Passed, VerdictSawDependencies, BuilderHasResolved
<1> QED
  BY <1>1, InvCorrect, PTL

\* Success is readiness, unless the controller took a builder's verdict back before
\* the builder had caught up with its store and stack.
THEOREM SuccessIsReadyCorrect == Spec => []SuccessIsReady
<1>1. Inv => SuccessIsReady
  <2> SUFFICES ASSUME Inv, pc = "ok"
               PROVE  history[at].ready = "True" \/ TakenBack
    BY DEF SuccessIsReady
  <2>1. /\ at \in 1..Len(history) /\ history[at] \in Version
        /\ history[at].ready # "False"
        /\ history[at].ready = "Unknown" => ResolvedBehind
    BY DEF Inv, TypeOK, Passed
  <2> QED
    BY <2>1 DEF Version, Readiness, TakenBack
<1> QED
  BY <1>1, InvCorrect, PTL
=============================================================================
