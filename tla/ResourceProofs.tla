--------------------------- MODULE ResourceProofs ---------------------------
(***************************************************************************)
(* Proofs about one object that any number of runs of kp create, patch and *)
(* delete, wherever they stop.                                             *)
(*                                                                         *)
(* First, the two keys of every setting in kp-config are never different.  *)
(* A patch is the difference of two maps, and what counts is that it has   *)
(* both keys of a setting or none: in the map that was read and in the map *)
(* that is wanted the keys agree, so they differ together between the two. *)
(* Then, an object only names images that were pushed; and a success is    *)
(* about what the command wrote.                                           *)
(*                                                                         *)
(* Last, what a command does to the object: for each kind, a lemma about   *)
(* what create makes of its flags and one about what patch makes of them,  *)
(* and an invariant (DueInv) that carries the command line, what was read  *)
(* and where the wanted spec comes from to the request.                    *)
(***************************************************************************)
EXTENDS Resource, MergePatchProofs, FiniteSetTheorems, TLAPS

\* A map of the six keys in which every setting has one value.
Good(map) == map = [k \in ConfigKeys |-> map[k]] /\ KeysMatch(map)

\* The map that is stored is good,
ObjectGood ==
  kind = "kpconfig" /\ object # NoValue =>
    /\ object = [spec |-> object.spec, gen |-> object.gen, observed |-> object.observed, ready |-> object.ready]
    /\ Good(object.spec)

\* and so is every map that a process holds.
HeldGood(p) ==
  kind = "kpconfig" => /\ pc[p] \in {"update", "patch"} => Good(base[p].spec)
                       /\ pc[p] \in {"create", "patch"} => Good(next[p])

KeysInv ==
  /\ pc = [p \in Procs |-> pc[p]]
  /\ base = [p \in Procs |-> base[p]]
  /\ next = [p \in Procs |-> next[p]]
  /\ ObjectGood
  /\ \A p \in Procs : HeldGood(p)

-----------------------------------------------------------------------------
(* Maps *)

\* A map without data is good.
LEMMA NoDataGood == Good(NoData)
BY DEF Good, KeysMatch, NoData, ConfigKeys

\* The setters write both keys (updateDefaultRepository, updateDefaultServiceAccount).
LEMMA WithSettingsGood ==
  ASSUME NEW map, Good(map), NEW settings
  PROVE  Good(WithSettings(map, settings))
<1> DEFINE new == WithSettings(map, settings)
<1>1. new = [k \in ConfigKeys |-> Flag(settings, k[1], map[k])]
  BY DEF WithSettings
<1>2. ASSUME NEW s \in Settings
      PROVE  new[<<s, "default">>] = new[<<s, "canonical">>]
  <2>1. <<s, "default">> \in ConfigKeys /\ <<s, "canonical">> \in ConfigKeys
    BY DEF ConfigKeys
  <2>2. map[<<s, "default">>] = map[<<s, "canonical">>]
    BY DEF Good, KeysMatch
  <2>3. <<s, "default">>[1] = s /\ <<s, "canonical">>[1] = s
    OBVIOUS
  <2> QED
    BY <1>1, <2>1, <2>2, <2>3
<1>3. new = [k \in ConfigKeys |-> new[k]]
  BY <1>1
<1> QED
  BY <1>2, <1>3 DEF Good, KeysMatch

\* A patch between good maps leaves a good map good, whatever it has become.
LEMMA PatchGood ==
  ASSUME NEW stored, NEW original, NEW updated,
         Good(stored), Good(original), Good(updated)
  PROVE  Good(ApplyMergePatch(stored, CreatePatch(original, updated)))
<1> DEFINE patch == CreatePatch(original, updated)
           merged == ApplyMergePatch(stored, patch)
<1>1. DOMAIN stored = ConfigKeys /\ DOMAIN updated = ConfigKeys
  BY DEF Good
<1>2. DOMAIN patch = {k \in ConfigKeys : original[k] # updated[k]}
  BY <1>1 DEF CreatePatch
<1>3. \A k \in DOMAIN patch : patch[k] = updated[k]
  BY DEF CreatePatch
<1> HIDE DEF patch
<1>4. merged = [k \in ConfigKeys |-> IF k \in DOMAIN patch THEN patch[k] ELSE stored[k]]
  BY <1>1 DEF ApplyMergePatch
<1>5. ASSUME NEW s \in Settings
      PROVE  merged[<<s, "default">>] = merged[<<s, "canonical">>]
  <2>1. <<s, "default">> \in ConfigKeys /\ <<s, "canonical">> \in ConfigKeys
    BY DEF ConfigKeys
  <2>2. /\ stored[<<s, "default">>] = stored[<<s, "canonical">>]
        /\ original[<<s, "default">>] = original[<<s, "canonical">>]
        /\ updated[<<s, "default">>] = updated[<<s, "canonical">>]
    BY DEF Good, KeysMatch
  <2> QED
    BY <1>2, <1>3, <1>4, <2>1, <2>2
<1>6. merged = [k \in ConfigKeys |-> merged[k]]
  BY <1>4
<1> HIDE DEF merged
<1>7. Good(merged)
  BY <1>5, <1>6 DEF Good, KeysMatch
<1> QED
  BY <1>7 DEF merged, patch

\* createKpConfigMap starts from no data.
LEMMA MadeGood ==
  ASSUME kind = "kpconfig", NEW given, NEW map, NEW spec \in MakeSpec(given, map)
  PROVE  Good(spec)
<1>1. MakeSpec(given, map) = {NewConfigMap(WithDefaults(given, Defaults))}
  BY DEF MakeSpec
<1> QED
  BY <1>1, NoDataGood, WithSettingsGood DEF NewConfigMap

\* The setters edit the map that they have read.
LEMMA UpdatedGood ==
  ASSUME kind = "kpconfig", NEW flags, NEW old, Good(old), NEW map,
         NEW spec \in UpdateSpec(flags, old, map)
  PROVE  Good(spec)
<1>1. UpdateSpec(flags, old, map) = UpdateConfigMap(old, flags)
  BY DEF UpdateSpec
<1>2. spec = WithSettings(old, flags)
  BY <1>1 DEF UpdateConfigMap, Only
<1> QED
  BY <1>2, WithSettingsGood
-----------------------------------------------------------------------------
(* Steps *)

\* A command that ends holds nothing any more.
LEMMA StopKeeps ==
  ASSUME KeysInv, NEW p \in Procs, NEW label \in {"ok", "failed"}, Stop(p, label), ObjectGood'
  PROVE  KeysInv'
<1>1. pc' = [pc EXCEPT ![p] = label] /\ kind' = kind
  BY DEF Stop, Goto
<1>2. base' = [base EXCEPT ![p] = NoValue] /\ next' = [next EXCEPT ![p] = NoValue]
  BY DEF Stop
<1>3. ASSUME NEW q \in Procs
      PROVE  HeldGood(q)'
  <2>1. CASE q = p
    BY <1>1, <2>1 DEF HeldGood, KeysInv
  <2>2. CASE q # p
    BY <1>1, <1>2, <2>2 DEF HeldGood, KeysInv
  <2> QED
    BY <2>1, <2>2
<1> QED
  BY <1>1, <1>2, <1>3 DEF KeysInv

\* An error changes nothing.
LEMMA FailKeeps ==
  ASSUME KeysInv, NEW p \in Procs, Fail(p)
  PROVE  KeysInv'
<1>1. Stop(p, "failed") /\ object' = object /\ kind' = kind
  BY DEF Fail, Stop
<1>2. ObjectGood'
  BY <1>1 DEF ObjectGood, KeysInv
<1> QED
  BY <1>1, <1>2, StopKeeps

\* A step of one process that does not touch the object, to a state in which it holds
\* what is good.
LEMMA StepKeeps ==
  ASSUME KeysInv, NEW p \in Procs, NEW label, NEW b, NEW n,
         pc' = [pc EXCEPT ![p] = label], kind' = kind, ObjectGood',
         base' = [base EXCEPT ![p] = b], next' = [next EXCEPT ![p] = n],
         kind = "kpconfig" => /\ label \in {"update", "patch"} => Good(b.spec)
                              /\ label \in {"create", "patch"} => Good(n)
  PROVE  KeysInv'
<1>1. ASSUME NEW q \in Procs
      PROVE  HeldGood(q)'
  <2>1. CASE q = p
    BY <2>1 DEF HeldGood, KeysInv
  <2>2. CASE q # p
    BY <2>2 DEF HeldGood, KeysInv
  <2> QED
    BY <2>1, <2>2
<1> QED
  BY <1>1 DEF KeysInv

\* What stays the same for a process that does not change it.
LEMMA Same ==
  ASSUME KeysInv, NEW p \in Procs
  PROVE  base = [base EXCEPT ![p] = base[p]] /\ next = [next EXCEPT ![p] = next[p]]
BY DEF KeysInv

\* Start only chooses where the command begins.
LEMMA StartKeeps == ASSUME KeysInv, NEW p \in Procs, Start(p) PROVE KeysInv'
<1>1. PICK l \in {"make", "delete", "get"} : pc' = [pc EXCEPT ![p] = l]
  <2>1. PICK c \in Lines[kind] :
          Goto(p, CASE c.verb = "create" -> "make" [] c.verb = "delete" -> "delete" [] OTHER -> "get")
    BY DEF Start
  <2>2. CASE c.verb = "create"
    BY <2>1, <2>2 DEF Goto
  <2>3. CASE c.verb = "delete"
    BY <2>1, <2>3 DEF Goto
  <2>4. CASE c.verb # "create" /\ c.verb # "delete"
    BY <2>1, <2>4 DEF Goto
  <2> QED
    BY <2>2, <2>3, <2>4
<1>2. kind' = kind /\ object' = object /\ base' = base /\ next' = next
  BY DEF Start
<1>3. ObjectGood'
  BY <1>2 DEF ObjectGood, KeysInv
<1>4. base' = [base EXCEPT ![p] = base[p]] /\ next' = [next EXCEPT ![p] = next[p]]
  BY <1>2, Same
<1>5. /\ l \in {"update", "patch"} => Good(base[p].spec)
      /\ l \in {"create", "patch"} => Good(next[p])
  BY <1>1
<1>6. pc' = [pc EXCEPT ![p] = l] /\ kind' = kind
  BY <1>1, <1>2
<1> QED
  BY <1>3, <1>4, <1>5, <1>6, StepKeeps, Zenon

\* What Get reads is what is stored.
LEMMA GetKeeps == ASSUME KeysInv, NEW p \in Procs, Get(p) PROVE KeysInv'
<1>1. CASE object # NoValue /\ base' = [base EXCEPT ![p] = object] /\ Goto(p, "update")
           /\ UNCHANGED <<kind, config, registry, object, line, next, waited, written, seen>>
  <2>1. pc' = [pc EXCEPT ![p] = "update"] /\ kind' = kind /\ object' = object /\ next' = next
    BY <1>1 DEF Goto
  <2>2. ObjectGood' /\ (kind = "kpconfig" => Good(object.spec))
    BY <1>1, <2>1 DEF ObjectGood, KeysInv
  <2> QED
    BY <1>1, <2>1, <2>2, Same, StepKeeps
<1>2. CASE Goto(p, "make") /\ UNCHANGED <<kind, config, registry, object, locals>>
  <2>1. pc' = [pc EXCEPT ![p] = "make"] /\ kind' = kind /\ object' = object /\ next' = next /\ base' = base
    BY <1>2 DEF Goto, locals
  <2>2. ObjectGood'
    BY <2>1 DEF ObjectGood, KeysInv
  <2> QED
    BY <2>1, <2>2, Same, StepKeeps
<1>3. CASE Fail(p)
  BY <1>3, FailKeeps
<1> QED
  BY <1>1, <1>2, <1>3 DEF Get

\* create() wants what createKpConfigMap builds.
LEMMA MakeKeeps == ASSUME KeysInv, NEW p \in Procs, Make(p) PROVE KeysInv'
<1>1. PICK map \in {config, NoValue} :
        \/ \E spec \in MakeSpec(line[p].flags, map) :
             /\ \/ IsDryRun(p) /\ Stop(p, "ok")
                \/ /\ ~IsDryRun(p)
                   /\ next' = [next EXCEPT ![p] = spec]
                   /\ Goto(p, "create")
                   /\ UNCHANGED <<kind, config, line, base, waited>>
             /\ UNCHANGED <<object, written, seen>>
        \/ Fail(p)
  BY DEF Make
<1>2. CASE Fail(p)
  BY <1>2, FailKeeps
<1>3. CASE \E spec \in MakeSpec(line[p].flags, map) :
             /\ \/ IsDryRun(p) /\ Stop(p, "ok")
                \/ /\ ~IsDryRun(p)
                   /\ next' = [next EXCEPT ![p] = spec]
                   /\ Goto(p, "create")
                   /\ UNCHANGED <<kind, config, line, base, waited>>
             /\ UNCHANGED <<object, written, seen>>
  <2>1. PICK spec \in MakeSpec(line[p].flags, map) :
             /\ \/ Stop(p, "ok")
                \/ /\ next' = [next EXCEPT ![p] = spec]
                   /\ Goto(p, "create")
                   /\ UNCHANGED <<kind, config, line, base, waited>>
             /\ object' = object
    BY <1>3
  <2>2. kind' = kind
    BY <2>1 DEF Stop
  <2>3. ObjectGood'
    BY <2>1, <2>2 DEF ObjectGood, KeysInv
  <2>4. kind = "kpconfig" => Good(spec)
    BY MadeGood
  <2>5. CASE Stop(p, "ok")
    BY <2>3, <2>5, StopKeeps
  <2>6. CASE /\ next' = [next EXCEPT ![p] = spec]
             /\ Goto(p, "create")
             /\ UNCHANGED <<kind, config, line, base, waited>>
    <3>1. pc' = [pc EXCEPT ![p] = "create"] /\ base' = base
      BY <2>6 DEF Goto
    <3> QED
      BY <2>2, <2>3, <2>4, <2>6, <3>1, Same, StepKeeps
  <2> QED
    BY <2>1, <2>5, <2>6
<1> QED
  BY <1>1, <1>2, <1>3

\* patch() wants what the setters made of the map that Get has read.
LEMMA UpdateKeeps == ASSUME KeysInv, NEW p \in Procs, Update(p) PROVE KeysInv'
<1>1. PICK map \in {config, NoValue} :
        \/ \E spec \in UpdateSpec(line[p].flags, base[p].spec, map) :
             /\ \/ Stop(p, "ok")
                \/ /\ next' = [next EXCEPT ![p] = spec]
                   /\ Goto(p, "patch")
                   /\ UNCHANGED <<kind, config, line, base, waited>>
             /\ UNCHANGED <<object, written, seen>>
        \/ Fail(p)
  BY DEF Update
<1>2. CASE Fail(p)
  BY <1>2, FailKeeps
<1>3. CASE \E spec \in UpdateSpec(line[p].flags, base[p].spec, map) :
             /\ \/ Stop(p, "ok")
                \/ /\ next' = [next EXCEPT ![p] = spec]
                   /\ Goto(p, "patch")
                   /\ UNCHANGED <<kind, config, line, base, waited>>
             /\ UNCHANGED <<object, written, seen>>
  <2>1. PICK spec \in UpdateSpec(line[p].flags, base[p].spec, map) :
             /\ \/ Stop(p, "ok")
                \/ /\ next' = [next EXCEPT ![p] = spec]
                   /\ Goto(p, "patch")
                   /\ UNCHANGED <<kind, config, line, base, waited>>
             /\ object' = object
    BY <1>3
  <2>2. kind' = kind
    BY <2>1 DEF Stop
  <2>3. ObjectGood'
    BY <2>1, <2>2 DEF ObjectGood, KeysInv
  <2>4. kind = "kpconfig" => Good(base[p].spec)
    <3>1. pc[p] = "update"
      BY DEF Update
    <3> QED
      BY <3>1 DEF KeysInv, HeldGood
  <2>5. kind = "kpconfig" => Good(spec)
    BY <2>4, UpdatedGood
  <2>6. CASE Stop(p, "ok")
    BY <2>3, <2>6, StopKeeps
  <2>7. CASE /\ next' = [next EXCEPT ![p] = spec]
             /\ Goto(p, "patch")
             /\ UNCHANGED <<kind, config, line, base, waited>>
    <3>1. pc' = [pc EXCEPT ![p] = "patch"] /\ base' = base
      BY <2>7 DEF Goto
    <3> QED
      BY <2>2, <2>3, <2>4, <2>5, <2>7, <3>1, Same, StepKeeps
  <2> QED
    BY <2>1, <2>6, <2>7
<1> QED
  BY <1>1, <1>2, <1>3

\* A write leaves nothing behind that could be written again.
LEMMA WrittenKeeps ==
  ASSUME KeysInv, NEW p \in Procs, NEW given, Written(p, given), ObjectGood'
  PROVE  KeysInv'
<1>1. CASE Stop(p, "ok")
  BY <1>1, StopKeeps
<1>2. CASE /\ Goto(p, "wait")
           /\ base' = [base EXCEPT ![p] = NoValue]
           /\ next' = [next EXCEPT ![p] = NoValue]
           /\ UNCHANGED <<kind, config, line>>
  <2>1. pc' = [pc EXCEPT ![p] = "wait"] /\ kind' = kind
    BY <1>2 DEF Goto
  <2> QED
    BY <1>2, <2>1, StepKeeps
<1> QED
  BY <1>1, <1>2 DEF Written

\* A write leaves the kind of the object as it is.
LEMMA WrittenKind ==
  ASSUME NEW p, NEW given, Written(p, given)
  PROVE  kind' = kind
BY DEF Written, Stop

\* What is created is what the process wanted.
LEMMA CreateKeeps == ASSUME KeysInv, NEW p \in Procs, Create(p) PROVE KeysInv'
<1>1. CASE Fail(p)
  BY <1>1, FailKeeps
<1>2. CASE /\ object' = [spec |-> next[p], gen |-> 1, observed |-> 0, ready |-> "Unknown"]
           /\ Written(p, object')
  <2>1. kind = "kpconfig" => Good(next[p])
    <3>1. pc[p] = "create"
      BY DEF Create
    <3> QED
      BY <3>1 DEF KeysInv, HeldGood
  <2>2. kind' = kind
    BY <1>2, WrittenKind
  <2>3. /\ object'.spec = next[p] /\ object'.gen = 1 /\ object'.observed = 0 /\ object'.ready = "Unknown"
    BY <1>2
  <2>4. object' = [spec |-> object'.spec, gen |-> object'.gen, observed |-> object'.observed,
                   ready |-> object'.ready]
    BY <1>2, <2>3
  <2>5. ObjectGood'
    BY <2>1, <2>2, <2>3, <2>4 DEF ObjectGood, Good, KeysMatch
  <2> QED
    BY <1>2, <2>5, WrittenKeeps
<1> QED
  BY <1>1, <1>2 DEF Create

\* The server merges a patch between good maps into a good map.
LEMMA PatchKeeps == ASSUME KeysInv, NEW p \in Procs, Patch(p) PROVE KeysInv'
<1>1. CASE Fail(p)
  BY <1>1, FailKeeps
<1>2. CASE ~Fail(p)
  <2> DEFINE spec == ApplyMergePatch(object.spec, CreatePatch(base[p].spec, next[p]))
  <2>1. /\ object # NoValue
        /\ object' = [object EXCEPT !.spec = spec, !.gen = IF spec = object.spec THEN @ ELSE @ + 1]
        /\ Written(p, GivenToWaiter(p))
    BY <1>2 DEF Patch
  <2>2. kind' = kind
    BY <2>1, WrittenKind
  <2>3. ASSUME kind = "kpconfig"
        PROVE  Good(spec)
    <3>1. pc[p] = "patch"
      BY DEF Patch
    <3>2. Good(object.spec) /\ Good(base[p].spec) /\ Good(next[p])
      BY <2>1, <2>3, <3>1 DEF KeysInv, ObjectGood, HeldGood
    <3> QED
      BY <3>2, PatchGood
  <2> HIDE DEF spec
  <2>4. ASSUME kind = "kpconfig"
        PROVE  /\ object' = [spec |-> object'.spec, gen |-> object'.gen, observed |-> object'.observed,
                             ready |-> object'.ready]
               /\ Good(object'.spec)
    <3>1. object = [spec |-> object.spec, gen |-> object.gen, observed |-> object.observed, ready |-> object.ready]
      BY <2>1, <2>4 DEF KeysInv, ObjectGood
    <3>2. object' = [spec |-> spec, gen |-> IF spec = object.spec THEN object.gen ELSE object.gen + 1,
                     observed |-> object.observed, ready |-> object.ready]
      BY <2>1, <3>1
    <3>3. object'.spec = spec
      BY <3>2
    <3> QED
      BY <2>3, <2>4, <3>2, <3>3
  <2>5. ObjectGood'
    BY <2>2, <2>4 DEF ObjectGood, Good, KeysMatch
  <2> QED
    BY <2>1, <2>5, WrittenKeeps
<1> QED
  BY <1>1, <1>2

\* No object is a good object.
LEMMA DeleteKeeps == ASSUME KeysInv, NEW p \in Procs, Delete(p) PROVE KeysInv'
<1>1. CASE Fail(p)
  BY <1>1, FailKeeps
<1>2. CASE object' = NoValue /\ Stop(p, "ok")
  <2>1. ObjectGood'
    BY <1>2 DEF ObjectGood
  <2> QED
    BY <1>2, <2>1, StopKeeps
<1> QED
  BY <1>1, <1>2 DEF Delete

\* The wait changes nothing.
LEMMA WaitKeeps == ASSUME KeysInv, NEW p \in Procs, Wait(p) PROVE KeysInv'
<1>1. PICK status : Stop(p, IF status.ready = "False" THEN "failed" ELSE "ok")
  BY DEF Wait
<1>2. object' = object /\ kind' = kind
  BY <1>1 DEF Wait, Stop
<1>3. ObjectGood'
  BY <1>2 DEF ObjectGood, KeysInv
<1>4. CASE status.ready = "False"
  <2>1. Stop(p, "failed")
    BY <1>1, <1>4
  <2> QED
    BY <1>3, <2>1, StopKeeps
<1>5. CASE status.ready # "False"
  <2>1. Stop(p, "ok")
    BY <1>1, <1>5
  <2> QED
    BY <1>3, <2>1, StopKeeps
<1> QED
  BY <1>4, <1>5

\* A command that is over leaves no more than what it wrote.
LEMMA FinishKeeps == ASSUME KeysInv, NEW p \in Procs, Finish(p) PROVE KeysInv'
<1>1. /\ pc' = [pc EXCEPT ![p] = "idle"] /\ kind' = kind /\ object' = object
      /\ base' = base /\ next' = next
  BY DEF Finish, Goto
<1>2. ObjectGood'
  BY <1>1 DEF ObjectGood, KeysInv
<1> QED
  BY <1>1, <1>2, Same, StepKeeps

\* Nobody else writes kp-config here.
LEMMA OthersKeep ==
  ASSUME KeysInv, SetConfig \/ Reconcile \/ UNCHANGED vars
  PROVE  KeysInv'
<1>1. kind' = kind /\ pc' = pc /\ base' = base /\ next' = next
  BY DEF SetConfig, Reconcile, vars, locals
<1>2. kind = "kpconfig" => object' = object
  BY DEF SetConfig, Reconcile, vars, Waits, ClusterKinds
<1>3. ObjectGood'
  BY <1>1, <1>2 DEF ObjectGood, KeysInv
<1>4. ASSUME NEW p \in Procs
      PROVE  HeldGood(p)'
  BY <1>1 DEF HeldGood, KeysInv
<1> QED
  BY <1>1, <1>3, <1>4 DEF KeysInv

-----------------------------------------------------------------------------
(* The theorem *)

\* At the start there is no kp-config and nobody holds one.
LEMMA KeysInit == Init => KeysInv
BY DEF Init, KeysInv, ObjectGood, HeldGood

\* Every step, of any process, keeps the invariant.
LEMMA KeysNext == KeysInv /\ [Next]_vars => KeysInv'
<1> SUFFICES ASSUME KeysInv, [Next]_vars
             PROVE  KeysInv'
  OBVIOUS
<1>1. CASE SetConfig \/ Reconcile \/ UNCHANGED vars
  BY <1>1, OthersKeep
<1>2. CASE \E p \in Procs : Start(p) \/ Command(p) \/ Crash(p) \/ Finish(p)
  <2>1. PICK p \in Procs : Start(p) \/ Command(p) \/ Crash(p) \/ Finish(p)
    BY <1>2
  <2>2. CASE Start(p)
    BY <2>2, StartKeeps
  <2>3. CASE Command(p)
    BY <2>3, GetKeeps, MakeKeeps, UpdateKeeps, CreateKeeps, PatchKeeps, DeleteKeeps, WaitKeeps DEF Command
  <2>4. CASE Crash(p)
    BY <2>4, FailKeeps DEF Crash
  <2>5. CASE Finish(p)
    BY <2>5, FinishKeeps
  <2> QED
    BY <2>1, <2>2, <2>3, <2>4, <2>5
<1> QED
  BY <1>1, <1>2 DEF Next

\* For any number of overlapping runs of `kp config`, the current and the historical key
\* of every setting in the stored kp-config are the same.
THEOREM KeysAgreeCorrect == Spec => []KeysAgree
<1>1. KeysInv => KeysAgree
  BY DEF KeysInv, ObjectGood, Good, KeysAgree
<1> QED
  BY KeysInit, KeysNext, <1>1, PTL DEF Spec
-----------------------------------------------------------------------------
(* What a step leaves alone                                                *)

Steps(p) == Start(p) \/ Command(p) \/ Crash(p) \/ Finish(p)

\* The locals are one value for each process.
LocalsShape ==
  /\ pc = [p \in Procs |-> pc[p]] /\ next = [p \in Procs |-> next[p]]
  /\ waited = [p \in Procs |-> waited[p]]
  /\ written = [p \in Procs |-> written[p]] /\ seen = [p \in Procs |-> seen[p]]

\* An object that is there counts its changes.
ObjectShape ==
  object # NoValue =>
    /\ object = [spec |-> object.spec, gen |-> object.gen, observed |-> object.observed, ready |-> object.ready]
    /\ object.gen \in Nat /\ object.observed \in Nat

\* What the end of a command does.
LEMMA StopForm ==
  ASSUME NEW p \in Procs, NEW l, Stop(p, l)
  PROVE  /\ pc' = [pc EXCEPT ![p] = l] /\ next' = [next EXCEPT ![p] = NoValue]
         /\ waited' = [waited EXCEPT ![p] = NoValue] /\ UNCHANGED <<kind, config, line>>
BY DEF Stop, Goto

\* A local variable is changed at one process at most.
Apart(new, old, p) ==
  new = [q \in Procs |-> new[q]] /\ \A q \in Procs \ {p} : new[q] = old[q]

Moves(p) ==
  /\ Apart(pc', pc, p) /\ Apart(next', next, p) /\ Apart(waited', waited, p)
  /\ Apart(written', written, p) /\ Apart(seen', seen, p)
  /\ kind' = kind /\ registry \subseteq registry'

\* As it is when it is set for that process.
LEMMA ExceptApart ==
  ASSUME NEW new, NEW old, old = [q \in Procs |-> old[q]], NEW p, NEW x,
         new = old \/ new = [old EXCEPT ![p] = x]
  PROVE  Apart(new, old, p)
BY DEF Apart

\* A command that stops.
LEMMA StopApart ==
  ASSUME LocalsShape, NEW p \in Procs, NEW l, Stop(p, l)
  PROVE  Apart(pc', pc, p) /\ Apart(next', next, p) /\ Apart(waited', waited, p) /\ kind' = kind
<1>1. /\ pc' = [pc EXCEPT ![p] = l] /\ next' = [next EXCEPT ![p] = NoValue]
      /\ waited' = [waited EXCEPT ![p] = NoValue] /\ kind' = kind
  BY StopForm
<1>2. Apart(pc', pc, p)
  BY <1>1, ExceptApart DEF LocalsShape
<1>3. Apart(next', next, p)
  BY <1>1, ExceptApart DEF LocalsShape
<1>4. Apart(waited', waited, p)
  BY <1>1, ExceptApart DEF LocalsShape
<1> QED BY <1>1, <1>2, <1>3, <1>4

\* A step of one process moves no other one, and takes no image out of the registry.
LEMMA OthersUnmoved ==
  ASSUME LocalsShape, NEW p \in Procs, Steps(p)
  PROVE  Moves(p)
<1>0. /\ pc' = pc => Apart(pc', pc, p)
      /\ next' = next => Apart(next', next, p)
      /\ waited' = waited => Apart(waited', waited, p)
      /\ written' = written => Apart(written', written, p)
      /\ seen' = seen => Apart(seen', seen, p)
  BY DEF LocalsShape, Apart
<1>1. ASSUME NEW l, Goto(p, l) PROVE Apart(pc', pc, p)
  BY <1>1, ExceptApart DEF LocalsShape, Goto
<1>2. ASSUME NEW x, next' = [next EXCEPT ![p] = x] PROVE Apart(next', next, p)
  BY <1>2, ExceptApart DEF LocalsShape
<1>3. ASSUME NEW x, waited' = [waited EXCEPT ![p] = x] PROVE Apart(waited', waited, p)
  BY <1>3, ExceptApart DEF LocalsShape
<1>4. ASSUME NEW x, written' = [written EXCEPT ![p] = x] PROVE Apart(written', written, p)
  BY <1>4, ExceptApart DEF LocalsShape
<1>5. ASSUME NEW x, seen' = [seen EXCEPT ![p] = x] PROVE Apart(seen', seen, p)
  BY <1>5, ExceptApart DEF LocalsShape
<1>6. ASSUME NEW spec, Upload(p, spec) PROVE registry \subseteq registry'
  BY <1>6 DEF Upload
<1>7. CASE Fail(p)
  BY <1>0, <1>7, StopApart DEF Fail, Moves
<1>8. CASE Start(p)
  <2>1. /\ \E l : Goto(p, l)
        /\ UNCHANGED <<kind, registry, next, waited, written, seen>>
    BY <1>8 DEF Start
  <2> QED BY <1>0, <1>1, <2>1 DEF Moves
<1>9. CASE Finish(p)
  <2>1. /\ Goto(p, "idle") /\ written' = [written EXCEPT ![p] = 0] /\ seen' = [seen EXCEPT ![p] = 0]
        /\ UNCHANGED <<kind, registry, next, waited>>
    BY <1>9 DEF Finish
  <2> QED BY <1>0, <1>1, <1>4, <1>5, <2>1 DEF Moves
<1>10. CASE Get(p) /\ ~Fail(p)
  <2>1. /\ \E l : Goto(p, l)
        /\ UNCHANGED <<kind, registry, next, waited, written, seen>>
    BY <1>10 DEF Get, locals
  <2> QED BY <1>0, <1>1, <2>1 DEF Moves
<1>11. CASE (Make(p) \/ Update(p)) /\ ~Fail(p)
  <2>1. PICK spec, l :
          /\ Upload(p, spec)
          /\ \/ Stop(p, "ok")
             \/ next' = [next EXCEPT ![p] = spec] /\ Goto(p, l) /\ UNCHANGED <<kind, waited>>
          /\ UNCHANGED <<written, seen>>
    <3>1. CASE Make(p)
      BY <1>11, <3>1 DEF Make
    <3>2. CASE Update(p)
      BY <1>11, <3>2 DEF Update
    <3> QED BY <1>11, <3>1, <3>2
  <2>2. registry \subseteq registry'
    BY <1>6, <2>1
  <2>3. CASE Stop(p, "ok")
    BY <1>0, <2>1, <2>2, <2>3, StopApart DEF Moves
  <2>4. CASE next' = [next EXCEPT ![p] = spec] /\ Goto(p, l) /\ UNCHANGED <<kind, waited>>
    BY <1>0, <1>1, <1>2, <2>1, <2>2, <2>4 DEF Moves
  <2> QED BY <2>1, <2>3, <2>4
<1>12. ASSUME NEW given, Written(p, given) PROVE Moves(p)
  <2>1. /\ written' = [written EXCEPT ![p] = object'.gen] /\ UNCHANGED <<registry, seen>>
        /\ \/ Stop(p, "ok")
           \/ /\ Goto(p, "wait") /\ next' = [next EXCEPT ![p] = NoValue]
              /\ waited' = [waited EXCEPT ![p] = given] /\ kind' = kind
    BY <1>12 DEF Written
  <2>2. CASE Stop(p, "ok")
    BY <1>0, <1>4, <2>1, <2>2, StopApart DEF Moves
  <2>3. CASE /\ Goto(p, "wait") /\ next' = [next EXCEPT ![p] = NoValue]
             /\ waited' = [waited EXCEPT ![p] = given] /\ kind' = kind
    BY <1>0, <1>1, <1>2, <1>3, <1>4, <2>1, <2>3 DEF Moves
  <2> QED BY <2>1, <2>2, <2>3
<1>13. CASE (Create(p) \/ Patch(p)) /\ ~Fail(p)
  <2>1. \E given : Written(p, given)
    BY <1>13 DEF Create, Patch
  <2> QED BY <1>12, <2>1
<1>14. CASE Delete(p) /\ ~Fail(p)
  <2>1. Stop(p, "ok") /\ UNCHANGED <<registry, written, seen>>
    BY <1>14 DEF Delete
  <2> QED BY <1>0, <2>1, StopApart DEF Moves
<1>15. CASE Wait(p)
  <2>1. /\ \E x : seen' = [seen EXCEPT ![p] = x]
        /\ \E l : Stop(p, l)
        /\ UNCHANGED <<registry, object, written>>
    BY <1>15 DEF Wait
  <2> QED BY <1>0, <1>5, <2>1, StopApart DEF Moves
<1> QED BY <1>7, <1>8, <1>9, <1>10, <1>11, <1>13, <1>14, <1>15 DEF Steps, Command, Crash

\* A patch leaves the object that is there, with fields of the wanted one.
LEMMA PatchForm ==
  ASSUME ObjectShape, NEW p \in Procs, Patch(p), ~Fail(p)
  PROVE  /\ pc[p] = "patch" /\ object # NoValue /\ Written(p, GivenToWaiter(p))
         /\ \E gen \in Nat : object' = [spec |-> ApplyMergePatch(object.spec, CreatePatch(base[p].spec, next[p])),
                                        gen |-> gen, observed |-> object.observed, ready |-> object.ready]
<1> DEFINE spec == ApplyMergePatch(object.spec, CreatePatch(base[p].spec, next[p]))
           gen == IF spec = object.spec THEN object.gen ELSE object.gen + 1
<1>1. /\ pc[p] = "patch" /\ object # NoValue /\ Written(p, GivenToWaiter(p))
      /\ object' = [object EXCEPT !.spec = spec, !.gen = gen]
  BY DEF Patch
<1>2. gen \in Nat
  BY <1>1 DEF ObjectShape
<1>3. object = [spec |-> object.spec, gen |-> object.gen, observed |-> object.observed, ready |-> object.ready]
  BY <1>1 DEF ObjectShape
<1> HIDE DEF spec, gen
<1>4. object' = [spec |-> spec, gen |-> gen, observed |-> object.observed, ready |-> object.ready]
  BY <1>1, <1>3
<1> QED BY <1>1, <1>2, <1>4 DEF spec

\* What a write leaves: the object that was constructed, or the one that is there with
\* fields of the wanted one.
LEMMA ObjectSteps ==
  ASSUME ObjectShape, NEW p \in Procs, Steps(p)
  PROVE  \/ object' = object \/ object' = NoValue
         \/ /\ pc[p] = "create" /\ Written(p, object')
            /\ object' = [spec |-> next[p], gen |-> 1, observed |-> 0, ready |-> "Unknown"]
         \/ /\ pc[p] = "patch" /\ object # NoValue /\ Written(p, GivenToWaiter(p))
            /\ \E gen \in Nat : object' = [spec |-> ApplyMergePatch(object.spec, CreatePatch(base[p].spec, next[p])),
                                           gen |-> gen, observed |-> object.observed, ready |-> object.ready]
<1>1. CASE Fail(p)
  BY <1>1 DEF Fail
<1>2. CASE Start(p) \/ Get(p) \/ Make(p) \/ Update(p) \/ Wait(p) \/ Finish(p) \/ Delete(p)
  BY <1>1, <1>2 DEF Start, Get, Make, Update, Wait, Finish, Delete
<1>3. CASE Create(p)
  BY <1>1, <1>3 DEF Create
<1>4. CASE Patch(p) /\ ~Fail(p)
  BY <1>4, PatchForm
<1> QED BY <1>1, <1>2, <1>3, <1>4 DEF Steps, Command, Crash

\* Others change neither the locals nor what the object says of itself but its status.
LEMMA OthersForm ==
  ASSUME ObjectShape, SetConfig \/ Reconcile \/ UNCHANGED vars
  PROVE  /\ UNCHANGED <<kind, registry, pc, next, waited, written, seen>>
         /\ \/ object' = object
            \/ /\ object # NoValue
               /\ \E ready : object' = [spec |-> object.spec, gen |-> object.gen, observed |-> object.gen,
                                        ready |-> ready]
<1>1. CASE SetConfig \/ UNCHANGED vars
  BY <1>1 DEF SetConfig, vars, locals
<1>2. CASE Reconcile
  <2>1. PICK ready \in Readiness : object' = [object EXCEPT !.observed = object.gen, !.ready = ready]
    BY <1>2 DEF Reconcile
  <2>2. object = [spec |-> object.spec, gen |-> object.gen, observed |-> object.observed, ready |-> object.ready]
    BY <1>2 DEF Reconcile, ObjectShape
  <2>3. object' = [spec |-> object.spec, gen |-> object.gen, observed |-> object.gen, ready |-> ready]
    BY <2>1, <2>2
  <2> QED BY <1>2, <2>3 DEF Reconcile, locals
<1> QED BY <1>1, <1>2

Shape == LocalsShape /\ ObjectShape

\* The shapes stay.
LEMMA ShapeNext == ASSUME Shape, [Next]_vars PROVE Shape'
<1>1. ASSUME NEW p \in Procs, Steps(p) PROVE Shape'
  <2>1. LocalsShape'
    BY <1>1, OthersUnmoved DEF Shape, LocalsShape, Moves, Apart
  <2>2. ObjectShape'
    <3>1. CASE object' = object \/ object' = NoValue
      BY <3>1 DEF Shape, ObjectShape
    <3>2. CASE object' = [spec |-> next[p], gen |-> 1, observed |-> 0, ready |-> "Unknown"]
      BY <3>2 DEF ObjectShape
    <3>3. ASSUME object # NoValue,
                 NEW spec, NEW gen \in Nat,
                 object' = [spec |-> spec, gen |-> gen, observed |-> object.observed, ready |-> object.ready]
          PROVE  ObjectShape'
      <4>1. object.observed \in Nat
        BY <3>3 DEF Shape, ObjectShape
      <4> QED BY <3>3, <4>1 DEF ObjectShape
    <3> QED BY <1>1, <3>1, <3>2, <3>3, ObjectSteps DEF Shape
  <2> QED BY <2>1, <2>2 DEF Shape
<1>2. CASE SetConfig \/ Reconcile \/ UNCHANGED vars
  <2>1. LocalsShape'
    BY <1>2, OthersForm DEF Shape, LocalsShape
  <2>2. CASE object' = object
    BY <2>1, <2>2 DEF Shape, ObjectShape
  <2>3. ASSUME NEW ready, object # NoValue,
               object' = [spec |-> object.spec, gen |-> object.gen, observed |-> object.gen, ready |-> ready]
        PROVE  Shape'
    BY <2>1, <2>3 DEF Shape, ObjectShape
  <2> QED BY <1>2, <2>2, <2>3, OthersForm DEF Shape
<1> QED BY <1>1, <1>2 DEF Next, Steps

\* At the start there is no object.
LEMMA ShapeInit == Init => Shape
BY DEF Init, Shape, LocalsShape, ObjectShape
-----------------------------------------------------------------------------
(* What is pushed before it is named                                       *)

\* The fields that hold images are there.
HasImages(spec) ==
  /\ kind = "stack" => "build" \in DOMAIN spec /\ "run" \in DOMAIN spec
  /\ kind = "lifecycle" => "image" \in DOMAIN spec
  /\ kind = "image" => "registry" \in DOMAIN spec

ObjectUploaded == object # NoValue => HasImages(object.spec) /\ Relocated(object.spec) \subseteq registry

\* What a process is about to write was pushed.
WantedUploaded(p) ==
  /\ pc[p] \in {"create", "patch"} => Relocated(next[p]) \subseteq registry
  /\ pc[p] = "create" => HasImages(next[p])

UploadInv == Shape /\ ObjectUploaded /\ \A p \in Procs : WantedUploaded(p)

\* create() makes a spec with all its fields.
LEMMA MadeHasImages ==
  ASSUME NEW given, NEW map, NEW spec \in MakeSpec(given, map)
  PROVE  HasImages(spec)
<1> DEFINE flags == WithDefaults(given, Defaults)
<1> HIDE DEF flags
<1>1. CASE kind = "stack"
  <2>1. spec \in MakeStack(flags, map)
    BY <1>1 DEF MakeSpec, flags
  <2>2. PICK repo : spec = [build |-> <<repo, flags.build>>, run |-> <<repo, flags.run>>,
                            id |-> StackIdOf[flags.build], account |-> ServiceAccount(map)]
    BY <2>1 DEF MakeStack
  <2> QED BY <1>1, <2>2 DEF HasImages
<1>2. CASE kind = "lifecycle"
  <2>1. spec \in MakeLifecycle(flags, map)
    BY <1>2 DEF MakeSpec, flags
  <2>2. PICK repo : spec = [image |-> <<repo, flags.image>>, account |-> ServiceAccount(map)]
    BY <2>1 DEF MakeLifecycle
  <2> QED BY <1>2, <2>2 DEF HasImages
<1>3. CASE kind = "image"
  <2>1. spec \in MakeImage(flags)
    BY <1>3 DEF MakeSpec, flags
  <2>2. DOMAIN spec = ImageFields
    BY <2>1 DEF MakeImage, Assemble
  <2> QED BY <1>3, <2>2 DEF HasImages, ImageFields
<1>4. CASE kind \notin {"stack", "lifecycle", "image"}
  BY <1>4 DEF HasImages
<1> QED BY <1>1, <1>2, <1>3, <1>4

\* Merging a patch into an object brings in the images of the patch and keeps the others,
\* and no field gets lost.
LEMMA MergedUploaded ==
  ASSUME NEW o, NEW b, NEW u, NEW m, m = ApplyMergePatch(o, CreatePatch(b, u)), HasImages(o)
  PROVE  HasImages(m) /\ Relocated(m) \subseteq Relocated(o) \cup Relocated(u)
<1> DEFINE patch == CreatePatch(b, u)
<1>1. \A f \in DOMAIN patch : patch[f] = u[f]
  BY DEF CreatePatch
<1>2. m = [f \in DOMAIN o |-> IF f \in DOMAIN patch THEN patch[f] ELSE o[f]]
  BY DEF ApplyMergePatch
<1> HIDE DEF patch
<1>3. DOMAIN m = DOMAIN o /\ \A f \in DOMAIN o : m[f] = o[f] \/ m[f] = u[f]
  BY <1>1, <1>2
<1>4. HasImages(m)
  BY <1>3 DEF HasImages
<1>5. CASE kind = "stack"
  <2>1. /\ m.build = o.build \/ m.build = u.build
        /\ m.run = o.run \/ m.run = u.run
    BY <1>3, <1>5 DEF HasImages
  <2>2. /\ Relocated(m) = {m.build, m.run} /\ Relocated(o) = {o.build, o.run}
        /\ Relocated(u) = {u.build, u.run}
    BY <1>5 DEF Relocated
  <2> QED BY <1>4, <2>1, <2>2
<1>6. CASE kind = "lifecycle"
  <2>1. m.image = o.image \/ m.image = u.image
    BY <1>3, <1>6 DEF HasImages
  <2>2. Relocated(m) = {m.image} /\ Relocated(o) = {o.image} /\ Relocated(u) = {u.image}
    BY <1>6 DEF Relocated
  <2> QED BY <1>4, <2>1, <2>2
<1>7. CASE kind = "image"
  <2>1. m.registry = o.registry \/ m.registry = u.registry
    BY <1>3, <1>7 DEF HasImages
  <2>2. /\ Relocated(m) = {m.registry} \ {NoValue} /\ Relocated(o) = {o.registry} \ {NoValue}
        /\ Relocated(u) = {u.registry} \ {NoValue}
    BY <1>7 DEF Relocated
  <2> QED BY <1>4, <2>1, <2>2
<1>8. CASE kind \notin {"stack", "lifecycle", "image"}
  BY <1>4, <1>8 DEF Relocated
<1> QED BY <1>5, <1>6, <1>7, <1>8

\* The upload comes before the write: what a command starts to write it has just pushed.
LEMMA WantedStep ==
  ASSUME Shape, NEW p \in Procs, Steps(p), pc'[p] \in {"create", "patch"}
  PROVE  /\ Relocated(next'[p]) \subseteq registry'
         /\ pc'[p] = "create" => HasImages(next'[p])
<1>0. \A l : Goto(p, l) => pc'[p] = l
  BY DEF Shape, LocalsShape, Goto
<1>1. \A l : Stop(p, l) => pc'[p] = l
  BY <1>0 DEF Stop
<1>2. \A x : next' = [next EXCEPT ![p] = x] => next'[p] = x
  BY DEF Shape, LocalsShape
<1>3. ~Fail(p) /\ \A l \in {"ok", "failed"} : ~Stop(p, l)
  BY <1>1 DEF Fail
<1>4. CASE Make(p)
  <2>1. PICK map \in {config, NoValue} : \E spec \in MakeSpec(line[p].flags, map) :
          /\ Upload(p, spec) /\ ~IsDryRun(p) /\ next' = [next EXCEPT ![p] = spec]
    BY <1>3, <1>4 DEF Make
  <2>2. PICK spec \in MakeSpec(line[p].flags, map) :
          /\ Upload(p, spec) /\ ~IsDryRun(p) /\ next' = [next EXCEPT ![p] = spec]
    BY <2>1
  <2>3. Relocated(spec) \subseteq registry'
    BY <2>2 DEF Upload, IsDryRun, IsUploading
  <2> QED BY <1>2, <2>2, <2>3, MadeHasImages
<1>5. CASE Update(p)
  <2>1. PICK map \in {config, NoValue} : \E spec \in UpdateSpec(line[p].flags, base[p].spec, map) :
          /\ Upload(p, spec) /\ ~IsDryRun(p) /\ next' = [next EXCEPT ![p] = spec] /\ Goto(p, "patch")
    BY <1>3, <1>5 DEF Update, Sends
  <2>2. PICK spec \in UpdateSpec(line[p].flags, base[p].spec, map) :
          /\ Upload(p, spec) /\ ~IsDryRun(p) /\ next' = [next EXCEPT ![p] = spec] /\ Goto(p, "patch")
    BY <2>1
  <2>3. Relocated(spec) \subseteq registry'
    BY <2>2 DEF Upload, IsDryRun, IsUploading
  <2> QED BY <1>0, <1>2, <2>2, <2>3
<1>6. ~Start(p)
  <2>1. ASSUME Start(p) PROVE \E l \in {"make", "delete", "get"} : Goto(p, l)
    <3>1. PICK c \in Lines[kind] :
            Goto(p, CASE c.verb = "create" -> "make" [] c.verb = "delete" -> "delete" [] OTHER -> "get")
      BY <2>1 DEF Start
    <3>2. CASE c.verb = "create"
      BY <3>1, <3>2
    <3>3. CASE c.verb = "delete"
      BY <3>1, <3>3
    <3>4. CASE c.verb # "create" /\ c.verb # "delete"
      BY <3>1, <3>4
    <3> QED BY <3>2, <3>3, <3>4
  <2> QED BY <1>0, <2>1
<1>7. ~Get(p) /\ ~Finish(p)
  BY <1>0, <1>3 DEF Get, Finish
<1>8. \A given : ~Written(p, given)
  BY <1>0, <1>3 DEF Written
<1>9. ~Create(p) /\ ~Patch(p) /\ ~Delete(p)
  BY <1>3, <1>8 DEF Create, Patch, Delete
<1>10. ~Wait(p)
  <2>1. ASSUME Wait(p) PROVE FALSE
    <3>1. PICK status : Stop(p, IF status.ready = "False" THEN "failed" ELSE "ok")
      BY <2>1 DEF Wait
    <3>2. CASE status.ready = "False"
      BY <1>3, <3>1, <3>2
    <3>3. CASE status.ready # "False"
      BY <1>3, <3>1, <3>3
    <3> QED BY <3>2, <3>3
  <2> QED BY <2>1
<1>11. Make(p) \/ Update(p)
  BY <1>3, <1>6, <1>7, <1>9, <1>10 DEF Steps, Command, Crash
<1> QED BY <1>4, <1>5, <1>11

\* An invariant of every step.
LEMMA UploadNext == ASSUME UploadInv, [Next]_vars PROVE UploadInv'
<1>0. Shape /\ Shape'
  BY ShapeNext DEF UploadInv
<1>1. ASSUME NEW p \in Procs, Steps(p) PROVE UploadInv'
  <2>1. Moves(p)
    BY <1>0, <1>1, OthersUnmoved DEF Shape
  <2>2. kind' = kind /\ registry \subseteq registry'
    BY <2>1 DEF Moves
  <2>3. WantedUploaded(p)'
    <3>1. CASE pc'[p] \in {"create", "patch"}
      BY <1>0, <1>1, <2>2, <3>1, WantedStep DEF WantedUploaded, HasImages, Relocated
    <3>2. CASE pc'[p] \notin {"create", "patch"}
      BY <3>2 DEF WantedUploaded
    <3> QED BY <3>1, <3>2
  <2>4. ASSUME NEW q \in Procs \ {p} PROVE WantedUploaded(q)'
    <3>1. WantedUploaded(q)
      BY DEF UploadInv
    <3>2. pc'[q] = pc[q] /\ next'[q] = next[q]
      BY <2>1 DEF Moves, Apart
    <3> QED BY <2>2, <3>1, <3>2 DEF WantedUploaded, HasImages, Relocated
  <2>5. ObjectUploaded'
    <3>1. CASE object' = object \/ object' = NoValue
      <4>1. object' # NoValue => object' = object /\ object # NoValue
        BY <3>1
      <4> QED BY <2>2, <4>1 DEF UploadInv, ObjectUploaded, HasImages, Relocated
    <3>2. ASSUME NEW spec, HasImages(spec), Relocated(spec) \subseteq registry, object'.spec = spec
          PROVE  ObjectUploaded'
      BY <2>2, <3>2 DEF ObjectUploaded, HasImages, Relocated
    <3>3. CASE /\ pc[p] = "create"
               /\ object' = [spec |-> next[p], gen |-> 1, observed |-> 0, ready |-> "Unknown"]
      <4>1. WantedUploaded(p) /\ object'.spec = next[p]
        BY <3>3 DEF UploadInv
      <4>2. HasImages(next[p]) /\ Relocated(next[p]) \subseteq registry
        BY <3>3, <4>1 DEF WantedUploaded
      <4> QED BY <3>2, <4>1, <4>2
    <3>4. ASSUME pc[p] = "patch", object # NoValue, NEW gen \in Nat,
                 object' = [spec |-> ApplyMergePatch(object.spec, CreatePatch(base[p].spec, next[p])),
                            gen |-> gen, observed |-> object.observed, ready |-> object.ready]
          PROVE  ObjectUploaded'
      <4> DEFINE spec == ApplyMergePatch(object.spec, CreatePatch(base[p].spec, next[p]))
      <4>1. HasImages(object.spec) /\ Relocated(object.spec) \subseteq registry
        BY <3>4 DEF UploadInv, ObjectUploaded
      <4>2. Relocated(next[p]) \subseteq registry
        BY <3>4 DEF UploadInv, WantedUploaded
      <4>3. HasImages(spec) /\ Relocated(spec) \subseteq Relocated(object.spec) \cup Relocated(next[p])
        BY <4>1, MergedUploaded
      <4>4. object'.spec = spec
        BY <3>4
      <4> HIDE DEF spec
      <4>5. Relocated(spec) \subseteq registry
        BY <4>1, <4>2, <4>3
      <4> QED BY <3>2, <4>3, <4>4, <4>5
    <3> QED BY <1>0, <1>1, <3>1, <3>3, <3>4, ObjectSteps DEF Shape
  <2> QED BY <1>0, <2>3, <2>4, <2>5 DEF UploadInv
<1>2. CASE SetConfig \/ Reconcile \/ UNCHANGED vars
  <2>1. /\ UNCHANGED <<kind, registry, pc, next>>
        /\ object' # NoValue => object # NoValue /\ object'.spec = object.spec
    BY <1>0, <1>2, OthersForm DEF Shape
  <2>2. ObjectUploaded'
    BY <2>1 DEF UploadInv, ObjectUploaded, HasImages, Relocated
  <2>3. ASSUME NEW q \in Procs PROVE WantedUploaded(q)'
    BY <2>1 DEF UploadInv, WantedUploaded, HasImages, Relocated
  <2> QED BY <1>0, <2>2, <2>3 DEF UploadInv
<1> QED BY <1>1, <1>2 DEF Next, Steps

\* Whatever dry runs, crashes and overlapping commands there are, an object only names
\* images that kp has pushed: a patch merges what two commands want, each of which was
\* pushed before its request.
THEOREM ImagesUploadedCorrect == Spec => []ImagesUploaded
<1>1. Init => UploadInv
  BY ShapeInit DEF Init, UploadInv, ObjectUploaded, WantedUploaded
<1>2. UploadInv /\ [Next]_vars => UploadInv'
  BY UploadNext
<1>3. UploadInv => ImagesUploaded
  BY DEF UploadInv, ObjectUploaded, ImagesUploaded
<1> QED BY <1>1, <1>2, <1>3, PTL DEF Spec
-----------------------------------------------------------------------------
(* What a success is about                                                 *)

\* The kinds whose patches wait for the server's answer.
Elsewhere == kind \notin {"stack", "lifecycle"}

\* Nothing was written before the request; a wait is for what the request produced, and
\* a verdict is about that or about something later.
Judged(p) ==
  /\ pc[p] \notin {"wait", "ok", "failed"} => written[p] = 0
  /\ Elsewhere => seen[p] \in Nat
  /\ Elsewhere /\ pc[p] = "wait" =>
       waited[p].gen = written[p] /\ waited[p].gen \in Nat /\ waited[p].observed \in Nat
  /\ Elsewhere /\ Waits /\ pc[p] = "ok" => seen[p] >= written[p]

JudgedInv == Shape /\ \A p \in Procs : Judged(p)

\* A command that stops before it has written anything.
LEMMA StopJudged ==
  ASSUME JudgedInv, NEW p \in Procs, NEW l \in {"ok", "failed"}, Stop(p, l),
         written' = written, seen' = seen, l = "ok" => pc[p] \notin {"wait", "ok", "failed"}
  PROVE  Judged(p)'
<1>1. pc'[p] = l /\ kind' = kind
  BY StopForm DEF JudgedInv, Shape, LocalsShape
<1>2. Judged(p)
  BY DEF JudgedInv
<1>3. l = "ok" /\ Elsewhere => seen[p] >= written[p]
  BY <1>2 DEF Judged
<1> QED BY <1>1, <1>2, <1>3 DEF Judged, Elsewhere, Waits

\* A step before the request.
LEMMA EarlyJudged ==
  ASSUME JudgedInv, NEW p \in Procs, NEW l \in PCs \ {"wait", "ok", "failed"}, Goto(p, l),
         kind' = kind, written' = written, seen' = seen, pc[p] \notin {"wait", "ok", "failed"}
  PROVE  Judged(p)'
<1>1. pc'[p] = l
  BY DEF JudgedInv, Shape, LocalsShape, Goto
<1> QED BY <1>1 DEF JudgedInv, Judged, Elsewhere, PCs

\* A write, and what is waited for after it.
LEMMA WrittenJudged ==
  ASSUME JudgedInv, NEW p \in Procs, NEW given, Written(p, given),
         object'.gen \in Nat, object'.observed \in Nat, Elsewhere => given = object'
  PROVE  Judged(p)'
<1>0. Judged(p)
  BY DEF JudgedInv
<1>1. seen' = seen /\ written'[p] = object'.gen
  BY DEF Written, JudgedInv, Shape, LocalsShape
<1>2. CASE ~Waits /\ Stop(p, "ok")
  <2>1. pc'[p] = "ok" /\ kind' = kind
    BY <1>2, StopForm DEF JudgedInv, Shape, LocalsShape
  <2> QED BY <1>0, <1>1, <1>2, <2>1 DEF Judged, Elsewhere, Waits
<1>3. CASE ~(~Waits /\ Stop(p, "ok"))
  <2>1. pc'[p] = "wait" /\ waited'[p] = given /\ kind' = kind
    BY <1>3 DEF Written, Goto, JudgedInv, Shape, LocalsShape
  <2> QED BY <1>0, <1>1, <2>1 DEF Judged, Elsewhere
<1> QED BY <1>2, <1>3

\* The wait ends with a status of the generation that was written, or of a later one.
LEMMA WaitJudged == ASSUME JudgedInv, NEW p \in Procs, Wait(p) PROVE Judged(p)'
<1>1. PICK status \in IF HasResolved(p, waited[p]) THEN {waited[p]} ELSE {object} \ {NoValue} :
        /\ HasResolved(p, status)
        /\ seen' = [seen EXCEPT ![p] = status.observed]
        /\ Stop(p, IF status.ready = "False" THEN "failed" ELSE "ok")
  BY DEF Wait
<1>2. pc[p] = "wait" /\ written' = written /\ Judged(p)
  BY DEF Wait, JudgedInv
<1>3. seen'[p] = status.observed /\ status.observed >= waited[p].gen
  BY <1>1 DEF HasResolved, JudgedInv, Shape, LocalsShape
<1>4. Elsewhere => status.observed \in Nat
  <2>1. CASE status = waited[p]
    BY <1>2, <2>1 DEF Judged
  <2>2. CASE status = object /\ object # NoValue
    BY <2>2 DEF JudgedInv, Shape, ObjectShape
  <2> QED BY <1>1, <2>1, <2>2
<1>5. PICK l \in {"ok", "failed"} : Stop(p, l)
  <2>1. CASE status.ready = "False"
    BY <1>1, <2>1
  <2>2. CASE status.ready # "False"
    BY <1>1, <2>2
  <2> QED BY <2>1, <2>2
<1>6. pc'[p] = l /\ kind' = kind
  BY <1>5, StopForm DEF JudgedInv, Shape, LocalsShape
<1> QED BY <1>2, <1>3, <1>4, <1>6 DEF Judged, Elsewhere, Waits

\* The process that takes the step.
LEMMA OwnJudged ==
  ASSUME JudgedInv, NEW p \in Procs, Steps(p)
  PROVE  Judged(p)'
<1>1. CASE Fail(p)
  BY <1>1, StopJudged DEF Fail
<1>2. CASE Start(p)
  <2>1. PICK c \in Lines[kind] :
          Goto(p, CASE c.verb = "create" -> "make" [] c.verb = "delete" -> "delete" [] OTHER -> "get")
    BY <1>2 DEF Start
  <2>2. PICK l \in {"make", "delete", "get"} : Goto(p, l)
    <3>1. CASE c.verb = "create"
      BY <2>1, <3>1
    <3>2. CASE c.verb = "delete"
      BY <2>1, <3>2
    <3>3. CASE c.verb # "create" /\ c.verb # "delete"
      BY <2>1, <3>3
    <3> QED BY <3>1, <3>2, <3>3
  <2>3. pc[p] = "idle" /\ kind' = kind /\ written' = written /\ seen' = seen
    BY <1>2 DEF Start
  <2> QED BY <2>2, <2>3, EarlyJudged DEF PCs
<1>3. CASE Get(p) /\ ~Fail(p)
  <2>1. /\ \E l \in {"update", "make"} : Goto(p, l)
        /\ pc[p] = "get" /\ kind' = kind /\ written' = written /\ seen' = seen
    BY <1>3 DEF Get, locals
  <2> QED BY <2>1, EarlyJudged DEF PCs
<1>4. CASE (Make(p) \/ Update(p)) /\ ~Fail(p)
  <2>1. /\ pc[p] \in {"make", "update"} /\ written' = written /\ seen' = seen
        /\ Stop(p, "ok") \/ (kind' = kind /\ \E l \in {"create", "patch"} : Goto(p, l))
    <3>1. CASE Make(p)
      BY <1>4, <3>1 DEF Make
    <3>2. CASE Update(p)
      BY <1>4, <3>2 DEF Update
    <3> QED BY <1>4, <3>1, <3>2
  <2>2. CASE Stop(p, "ok")
    BY <2>1, <2>2, StopJudged
  <2>3. CASE kind' = kind /\ \E l \in {"create", "patch"} : Goto(p, l)
    BY <2>1, <2>3, EarlyJudged DEF PCs
  <2> QED BY <2>1, <2>2, <2>3
<1>5. CASE Create(p) /\ ~Fail(p)
  <2>1. /\ object' = [spec |-> next[p], gen |-> 1, observed |-> 0, ready |-> "Unknown"]
        /\ Written(p, object')
    BY <1>5 DEF Create
  <2>2. object'.gen \in Nat /\ object'.observed \in Nat
    BY <2>1
  <2> QED BY <2>1, <2>2, WrittenJudged
<1>6. CASE Patch(p) /\ ~Fail(p)
  <2>1. Written(p, GivenToWaiter(p)) /\ (Elsewhere => GivenToWaiter(p) = object')
    BY <1>6 DEF Patch, GivenToWaiter, Elsewhere
  <2>2. object # NoValue /\ object.observed \in Nat
    BY <1>6, PatchForm DEF JudgedInv, Shape, ObjectShape
  <2>3. PICK gen \in Nat :
          object' = [spec |-> ApplyMergePatch(object.spec, CreatePatch(base[p].spec, next[p])),
                     gen |-> gen, observed |-> object.observed, ready |-> object.ready]
    BY <1>6, PatchForm DEF JudgedInv, Shape
  <2>4. object'.gen \in Nat /\ object'.observed \in Nat
    BY <2>2, <2>3
  <2> QED BY <2>1, <2>4, WrittenJudged
<1>7. CASE Delete(p) /\ ~Fail(p)
  <2>1. pc[p] = "delete" /\ Stop(p, "ok") /\ written' = written /\ seen' = seen
    BY <1>7 DEF Delete
  <2> QED BY <2>1, StopJudged
<1>8. CASE Wait(p)
  BY <1>8, WaitJudged
<1>9. CASE Finish(p)
  <2>1. pc'[p] = "idle" /\ written'[p] = 0 /\ seen'[p] = 0 /\ kind' = kind
    BY <1>9 DEF Finish, Goto, JudgedInv, Shape, LocalsShape
  <2> QED BY <2>1 DEF Judged
<1> QED BY <1>1, <1>2, <1>3, <1>4, <1>5, <1>6, <1>7, <1>8, <1>9 DEF Steps, Command, Crash

\* An invariant of every step.
LEMMA JudgedNext == ASSUME JudgedInv, [Next]_vars PROVE JudgedInv'
<1>0. Shape'
  BY ShapeNext DEF JudgedInv
<1>1. ASSUME NEW p \in Procs, Steps(p) PROVE JudgedInv'
  <2>1. Moves(p)
    BY <1>1, OthersUnmoved DEF JudgedInv, Shape
  <2>2. ASSUME NEW q \in Procs \ {p} PROVE Judged(q)'
    <3>1. /\ pc'[q] = pc[q] /\ waited'[q] = waited[q] /\ written'[q] = written[q]
          /\ seen'[q] = seen[q] /\ kind' = kind
      BY <2>1 DEF Moves, Apart
    <3> QED BY <3>1 DEF JudgedInv, Judged, Elsewhere, Waits
  <2> QED BY <1>0, <1>1, <2>2, OwnJudged DEF JudgedInv
<1>2. CASE SetConfig \/ Reconcile \/ UNCHANGED vars
  <2>1. UNCHANGED <<kind, pc, waited, written, seen>>
    BY <1>2, OthersForm DEF JudgedInv, Shape
  <2> QED BY <1>0, <2>1 DEF JudgedInv, Judged, Elsewhere, Waits
<1> QED BY <1>1, <1>2 DEF Next, Steps

\* Of all the kinds that wait, but for patches of stacks and lifecycles, a command that
\* reports success has seen the status of what it wrote, or of something later.
THEOREM SuccessIsOfThisWriteElsewhereCorrect == Spec => []SuccessIsOfThisWriteElsewhere
<1>1. Init => JudgedInv
  BY ShapeInit DEF Init, JudgedInv, Judged
<1>2. JudgedInv /\ [Next]_vars => JudgedInv'
  BY JudgedNext
<1>3. JudgedInv => SuccessIsOfThisWriteElsewhere
  BY DEF JudgedInv, Judged, Elsewhere, SuccessIsOfThisWriteElsewhere, SuccessIsOfThisWrite
<1> QED BY <1>1, <1>2, <1>3, PTL DEF Spec
-----------------------------------------------------------------------------
(* Lists that a command line does not mention                              *)
(*                                                                         *)
(* The edits of an image's lists are folds over what a flag lists.  When   *)
(* the flag is not given that is nothing, and the recursion stops at once. *)

\* No tags to add.
LEMMA NoTagsAdded ==
  ASSUME NEW list, NEW seq, DOMAIN seq = {}
  PROVE  FoldLeft(LAMBDA tags, t : IF t \in ToSet(tags) THEN tags ELSE Append(tags, t), list, seq) = list
<1> DEFINE Turn(iter) ==
      [s \in SUBSET DOMAIN seq |->
         IF s = {} THEN list
         ELSE IF seq[Max(s)] \in ToSet(iter[s \ {Max(s)}]) THEN iter[s \ {Max(s)}] ELSE Append(iter[s \ {Max(s)}], seq[Max(s)])]
<1>1. FoldLeft(LAMBDA tags, t : IF t \in ToSet(tags) THEN tags ELSE Append(tags, t), list, seq) =
        (CHOOSE iter : iter = Turn(iter))[DOMAIN seq]
  BY Zenon DEF FoldLeft, MapThenFoldSet
<1>2. PICK it : it = (CHOOSE iter : iter = Turn(iter)) /\ it = Turn(it)
  <2> DEFINE once == [s \in SUBSET DOMAIN seq |-> list]
  <2>1. SUBSET DOMAIN seq = {{}}
    OBVIOUS
  <2>2. Turn(once) = once
    BY <2>1, Zenon
  <2> QED BY <2>2
<1>3. Turn(it)[DOMAIN seq] = list
  BY Zenon
<1> QED BY <1>1, <1>2, <1>3, Zenon

\* No tags or bindings to delete.
LEMMA NoTagsDeleted ==
  ASSUME NEW list, NEW seq, DOMAIN seq = {}
  PROVE  FoldLeft(LAMBDA tags, t : RemoveFirst(tags, t), list, seq) = list
<1> DEFINE Turn(iter) ==
      [s \in SUBSET DOMAIN seq |->
         IF s = {} THEN list
         ELSE RemoveFirst(iter[s \ {Max(s)}], seq[Max(s)])]
<1>1. FoldLeft(LAMBDA tags, t : RemoveFirst(tags, t), list, seq) =
        (CHOOSE iter : iter = Turn(iter))[DOMAIN seq]
  BY Zenon DEF FoldLeft, MapThenFoldSet
<1>2. PICK it : it = (CHOOSE iter : iter = Turn(iter)) /\ it = Turn(it)
  <2> DEFINE once == [s \in SUBSET DOMAIN seq |-> list]
  <2>1. SUBSET DOMAIN seq = {{}}
    OBVIOUS
  <2>2. Turn(once) = once
    BY <2>1, Zenon
  <2> QED BY <2>2
<1>3. Turn(it)[DOMAIN seq] = list
  BY Zenon
<1> QED BY <1>1, <1>2, <1>3, Zenon

\* No variables to set.
LEMMA NoVariablesSet ==
  ASSUME NEW list, NEW seq, DOMAIN seq = {}
  PROVE  FoldLeft(SetVariable, list, seq) = list
<1> DEFINE Turn(iter) ==
      [s \in SUBSET DOMAIN seq |->
         IF s = {} THEN list
         ELSE SetVariable(iter[s \ {Max(s)}], seq[Max(s)])]
<1>1. FoldLeft(SetVariable, list, seq) =
        (CHOOSE iter : iter = Turn(iter))[DOMAIN seq]
  BY Zenon DEF FoldLeft, MapThenFoldSet
<1>2. PICK it : it = (CHOOSE iter : iter = Turn(iter)) /\ it = Turn(it)
  <2> DEFINE once == [s \in SUBSET DOMAIN seq |-> list]
  <2>1. SUBSET DOMAIN seq = {{}}
    OBVIOUS
  <2>2. Turn(once) = once
    BY <2>1, Zenon
  <2> QED BY <2>2
<1>3. Turn(it)[DOMAIN seq] = list
  BY Zenon
<1> QED BY <1>1, <1>2, <1>3, Zenon

\* No variables to delete.
LEMMA NoVariablesDeleted ==
  ASSUME NEW list, NEW seq, DOMAIN seq = {}
  PROVE  FoldLeft(LAMBDA env, n : RemoveFirstMatch(env, LAMBDA e : e[1] = n), list, seq) = list
<1> DEFINE Turn(iter) ==
      [s \in SUBSET DOMAIN seq |->
         IF s = {} THEN list
         ELSE RemoveFirstMatch(iter[s \ {Max(s)}], LAMBDA e : e[1] = seq[Max(s)])]
<1>1. FoldLeft(LAMBDA env, n : RemoveFirstMatch(env, LAMBDA e : e[1] = n), list, seq) =
        (CHOOSE iter : iter = Turn(iter))[DOMAIN seq]
  BY Zenon DEF FoldLeft, MapThenFoldSet
<1>2. PICK it : it = (CHOOSE iter : iter = Turn(iter)) /\ it = Turn(it)
  <2> DEFINE once == [s \in SUBSET DOMAIN seq |-> list]
  <2>1. SUBSET DOMAIN seq = {{}}
    OBVIOUS
  <2>2. Turn(once) = once
    BY <2>1, Zenon
  <2> QED BY <2>2
<1>3. Turn(it)[DOMAIN seq] = list
  BY Zenon
<1> QED BY <1>1, <1>2, <1>3, Zenon

-----------------------------------------------------------------------------
(* What a command makes of its flags                                       *)

\* The fields of each kind.
SpecFields ==
  CASE kind = "stack"                              -> {"build", "run", "id", "account"}
    [] kind \in {"lifecycle", "clusterbuildpack", "buildpack"} -> {"image", "account"}
    [] kind \in {"builder", "clusterbuilder"}      -> {"tag", "stack", "account", "order", "store", "storeKind"}
    [] kind = "image"                              -> ImageFields
    [] kind = "kpconfig"                           -> ConfigKeys

HasFields(spec) == spec = [f \in SpecFields |-> spec[f]]

\* The flags say why a field is not what it was.
Named(flags, old, spec) ==
  \A f \in SpecFields : spec[f] # old[f] => \E flag \in DOMAIN flags : f \in FieldsOf(flag)

\* A spec is what some of the flags ask for.
AsAsked(flags, asking, spec) ==
  \A flag \in DOMAIN flags \cap asking : Shown(flag, flags[flag], spec)

\* The flags that a command line may have.
Parsed(flags) ==
  /\ DOMAIN flags \subseteq DeclaredFlags(kind) /\ RequiredFlags(kind) \subseteq DOMAIN flags
  /\ \A flag \in DOMAIN flags : flags[flag] # NoValue

\* A flag that was given counts, whatever save would assume without it.
LEMMA GivenStays ==
  ASSUME NEW given, NEW defaults
  PROVE  /\ DOMAIN WithDefaults(given, defaults) = DOMAIN given \cup DOMAIN defaults
         /\ \A flag \in DOMAIN given : WithDefaults(given, defaults)[flag] = given[flag]
         /\ \A flag \in DOMAIN defaults \ DOMAIN given : WithDefaults(given, defaults)[flag] = defaults[flag]
BY DEF WithDefaults, Given

\* What create and save make of a stack's flags.
LEMMA StackMade ==
  ASSUME kind = "stack", NEW given, Parsed(given), NEW map, NEW spec \in MakeSpec(given, map)
  PROVE  HasFields(spec) /\ AsAsked(given, DeclaredFlags(kind), spec) /\ Whole(spec)
<1> DEFINE flags == WithDefaults(given, Defaults)
<1>1. flags.build = given.build /\ flags.run = given.run
  <2>1. "build" \in DOMAIN given /\ "run" \in DOMAIN given
    BY DEF Parsed, DeclaredFlags, RequiredFlags
  <2> QED BY <2>1, GivenStays
<1>2. spec \in MakeStack(flags, map)
  BY DEF MakeSpec
<1> HIDE DEF flags
<1>3. PICK repo \in StackDestination(flags, map) :
        spec = [build |-> <<repo, flags.build>>, run |-> <<repo, flags.run>>,
                id |-> StackIdOf[flags.build], account |-> ServiceAccount(map)]
  BY <1>2 DEF MakeStack
<1>4. StackIdOf[flags.build] = StackIdOf[flags.run]
  BY DEF StackDestination
<1>5. HasFields(spec)
  BY <1>3 DEF HasFields, SpecFields
<1>6. \A flag \in {"build", "run"} : Shown(flag, given[flag], spec)
  <2>1. Shown("build", given["build"], spec)
    BY <1>1, <1>3 DEF Shown
  <2>2. Shown("run", given["run"], spec)
    BY <1>1, <1>3 DEF Shown
  <2> QED BY <2>1, <2>2
<1>7. Whole(spec)
  BY <1>3, <1>4 DEF Whole
<1> QED BY <1>5, <1>6, <1>7 DEF AsAsked, DeclaredFlags

\* What patch and save make of a stack.
LEMMA StackUpdated ==
  ASSUME kind = "stack", NEW flags, Parsed(flags), NEW map, NEW old, HasFields(old),
         NEW spec \in UpdateSpec(flags, old, map)
  PROVE  /\ HasFields(spec) /\ Named(flags, old, spec)
         /\ AsAsked(flags, DeclaredFlags(kind), spec) /\ Whole(spec)
<1>1. spec \in UpdateStack(flags, old, map)
  BY DEF UpdateSpec
<1>2. PICK repo \in StackDestination(flags, map) :
        spec = [old EXCEPT !.build = <<repo, flags.build>>, !.run = <<repo, flags.run>>,
                           !.id = StackIdOf[flags.build]]
  BY <1>1 DEF UpdateStack
<1>3. StackIdOf[flags.build] = StackIdOf[flags.run]
  BY DEF StackDestination
<1>4. SpecFields = {"build", "run", "id", "account"}
  BY DEF SpecFields
<1>5. spec = [f \in SpecFields |-> CASE f = "build" -> <<repo, flags.build>> [] f = "run" -> <<repo, flags.run>>
                                     [] f = "id" -> StackIdOf[flags.build] [] OTHER -> old[f]]
  BY <1>2, <1>4 DEF HasFields
<1>6. HasFields(spec)
  BY <1>5 DEF HasFields
<1>7. /\ spec.build = <<repo, flags.build>> /\ spec.run = <<repo, flags.run>>
      /\ spec.id = StackIdOf[flags.build] /\ spec.account = old.account
  BY <1>4, <1>5
<1>8. Named(flags, old, spec)
  <2>1. "build" \in DOMAIN flags /\ FieldsOf("build") = {"build", "id"}
        /\ "run" \in DOMAIN flags /\ FieldsOf("run") = {"run", "id"}
    BY DEF Parsed, RequiredFlags, DeclaredFlags, FieldsOf
  <2> QED BY <1>4, <1>7, <2>1 DEF Named
<1>9. \A flag \in {"build", "run"} : Shown(flag, flags[flag], spec)
  <2>1. Shown("build", flags["build"], spec)
    BY <1>7 DEF Shown
  <2>2. Shown("run", flags["run"], spec)
    BY <1>7 DEF Shown
  <2> QED BY <2>1, <2>2
<1>10. Whole(spec)
  BY <1>3, <1>7 DEF Whole
<1> QED BY <1>6, <1>8, <1>9, <1>10 DEF AsAsked, DeclaredFlags

\* What the commands make of a lifecycle's one flag.
LEMMA LifecycleMade ==
  ASSUME kind = "lifecycle", NEW given, Parsed(given), NEW map, NEW spec \in MakeSpec(given, map)
  PROVE  HasFields(spec) /\ AsAsked(given, DeclaredFlags(kind), spec) /\ Whole(spec)
<1> DEFINE flags == WithDefaults(given, Defaults)
<1>1. flags.image = given.image
  <2>1. "image" \in DOMAIN given
    BY DEF Parsed, DeclaredFlags, RequiredFlags
  <2> QED BY <2>1, GivenStays
<1>2. spec \in MakeLifecycle(flags, map)
  BY DEF MakeSpec
<1> HIDE DEF flags
<1>3. PICK repo : spec = [image |-> <<repo, flags.image>>, account |-> ServiceAccount(map)]
  BY <1>2 DEF MakeLifecycle
<1>4. HasFields(spec)
  BY <1>3 DEF HasFields, SpecFields
<1>5. Shown("image", given["image"], spec)
  BY <1>1, <1>3 DEF Shown
<1> QED BY <1>4, <1>5 DEF AsAsked, DeclaredFlags, Whole

\* What patch and save make of a lifecycle.
LEMMA LifecycleUpdated ==
  ASSUME kind = "lifecycle", NEW flags, Parsed(flags), NEW map, NEW old, HasFields(old),
         NEW spec \in UpdateSpec(flags, old, map)
  PROVE  /\ HasFields(spec) /\ Named(flags, old, spec)
         /\ AsAsked(flags, DeclaredFlags(kind), spec) /\ Whole(spec)
<1>1. spec \in UpdateLifecycle(flags, old, map)
  BY DEF UpdateSpec
<1>2. PICK repo : spec = [old EXCEPT !.image = <<repo, flags.image>>]
  BY <1>1 DEF UpdateLifecycle
<1>3. SpecFields = {"image", "account"}
  BY DEF SpecFields
<1>4. spec = [f \in SpecFields |-> IF f = "image" THEN <<repo, flags.image>> ELSE old[f]]
  BY <1>2, <1>3 DEF HasFields
<1>5. HasFields(spec)
  BY <1>4 DEF HasFields
<1>6. spec.image = <<repo, flags.image>> /\ spec.account = old.account
  BY <1>3, <1>4
<1>7. Named(flags, old, spec)
  <2>1. "image" \in DOMAIN flags /\ FieldsOf("image") = {"image"}
    BY DEF Parsed, RequiredFlags, DeclaredFlags, FieldsOf
  <2> QED BY <1>3, <1>6, <2>1 DEF Named
<1>8. Shown("image", flags["image"], spec)
  BY <1>6 DEF Shown
<1> QED BY <1>5, <1>7, <1>8 DEF AsAsked, DeclaredFlags, Whole

\* What the commands make of the flags of a buildpack, of either scope.
LEMMA BuildpackMade ==
  ASSUME kind \in {"clusterbuildpack", "buildpack"}, NEW given, Parsed(given), NEW map,
         NEW spec \in MakeSpec(given, map)
  PROVE  HasFields(spec) /\ AsAsked(given, DeclaredFlags(kind), spec) /\ Whole(spec)
<1> DEFINE flags == WithDefaults(given, Defaults)
<1>1. \A flag \in DOMAIN given : flag \in DOMAIN flags /\ flags[flag] = given[flag]
  BY GivenStays
<1>2. SpecFields = {"image", "account"}
  BY DEF SpecFields
<1>3. CASE kind = "clusterbuildpack"
  <2>1. spec \in MakeClusterBuildpack(flags, map)
    BY <1>3 DEF MakeSpec
  <2> HIDE DEF flags
  <2>2. spec = [image |-> Flag(flags, "image", NoValue), account |-> ServiceAccount(map)]
    BY <2>1 DEF MakeClusterBuildpack
  <2>3. HasFields(spec)
    BY <1>2, <2>2 DEF HasFields
  <2>4. "image" \in DOMAIN given => Shown("image", given["image"], spec)
    BY <1>1, <1>3, <2>2 DEF Shown, Flag, Given
  <2> QED BY <1>3, <2>3, <2>4 DEF AsAsked, DeclaredFlags, Whole
<1>4. CASE kind = "buildpack"
  <2>1. spec \in MakeBuildpack(flags)
    BY <1>4 DEF MakeSpec
  <2> HIDE DEF flags
  <2>2. spec = [image |-> Flag(flags, "image", NoValue), account |-> flags.account]
    BY <2>1 DEF MakeBuildpack
  <2>3. HasFields(spec)
    BY <1>2, <2>2 DEF HasFields
  <2>4. "image" \in DOMAIN given => Shown("image", given["image"], spec)
    BY <1>1, <1>4, <2>2 DEF Shown, Flag, Given
  <2>5. "account" \in DOMAIN given => Shown("account", given["account"], spec)
    BY <1>1, <1>4, <2>2 DEF Shown
  <2> QED BY <1>4, <2>3, <2>4, <2>5 DEF AsAsked, DeclaredFlags, Whole
<1> QED BY <1>3, <1>4

\* What patch and save make of a buildpack.
LEMMA BuildpackUpdated ==
  ASSUME kind \in {"clusterbuildpack", "buildpack"}, NEW flags, Parsed(flags), NEW map,
         NEW old, HasFields(old), NEW spec \in UpdateSpec(flags, old, map)
  PROVE  /\ HasFields(spec) /\ Named(flags, old, spec)
         /\ AsAsked(flags, DeclaredFlags(kind), spec) /\ Whole(spec)
<1>1. SpecFields = {"image", "account"}
  BY DEF SpecFields
<1>2. PICK account :
        /\ spec = [old EXCEPT !.image = Flag(flags, "image", old.image), !.account = account]
        /\ account = IF kind = "buildpack" THEN Flag(flags, "account", old.account) ELSE old.account
  <2>1. CASE kind = "clusterbuildpack"
    <3>1. spec \in PatchClusterBuildpack(flags, old)
      BY <2>1 DEF UpdateSpec
    <3>2. spec = [old EXCEPT !.image = Flag(flags, "image", old.image)]
      BY <3>1 DEF PatchClusterBuildpack
    <3>3. spec = [old EXCEPT !.image = Flag(flags, "image", old.image), !.account = old.account]
      BY <1>1, <3>2 DEF HasFields
    <3> QED BY <2>1, <3>3
  <2>2. CASE kind = "buildpack"
    <3>1. spec \in PatchBuildpack(flags, old)
      BY <2>2 DEF UpdateSpec
    <3> QED BY <2>2, <3>1 DEF PatchBuildpack
  <2> QED BY <2>1, <2>2
<1>3. /\ spec = [f \in SpecFields |-> IF f = "image" THEN Flag(flags, "image", old.image) ELSE account]
      /\ spec.image = Flag(flags, "image", old.image) /\ spec.account = account
  BY <1>1, <1>2 DEF HasFields
<1>4. HasFields(spec)
  BY <1>3 DEF HasFields
<1>5. Named(flags, old, spec)
  <2>1. FieldsOf("image") = {"image"} /\ FieldsOf("account") = {"account"}
    BY DEF FieldsOf
  <2> QED BY <1>1, <1>2, <1>3, <2>1 DEF Named, Flag, Given
<1>6. "image" \in DOMAIN flags => Shown("image", flags["image"], spec)
  BY <1>3 DEF Shown, Flag, Given
<1>7. "account" \in DOMAIN flags /\ kind = "buildpack" => Shown("account", flags["account"], spec)
  BY <1>2, <1>3 DEF Shown, Flag, Given
<1> QED BY <1>4, <1>5, <1>6, <1>7 DEF AsAsked, DeclaredFlags, Whole

\* The order is the one of the flag that was given, and there is at most one such flag.
LEMMA OrderAsked ==
  ASSUME NEW flags, NEW default, NEW order \in OrderOf(flags, default)
  PROVE  /\ "buildpacks" \in DOMAIN flags => order = <<flags.buildpacks>>
         /\ "order" \in DOMAIN flags => order = OrderFiles[flags.order]
         /\ "orderFrom" \in DOMAIN flags => order = OrderLabels[flags.orderFrom]
         /\ DOMAIN flags \cap {"buildpacks", "order", "orderFrom"} = {} => order = default
<1> DEFINE sources == OrderSources(flags)
<1>1. sources = {"buildpacks", "order", "orderFrom"} \cap DOMAIN flags
  BY DEF OrderSources
<1>2. IsFiniteSet(sources)
  <2>1. IsFiniteSet({"buildpacks", "order", "orderFrom"})
    <3>1. IsFiniteSet({"buildpacks"})
      BY FS_Singleton
    <3>2. IsFiniteSet({"buildpacks"} \cup {"order"})
      BY <3>1, FS_AddElement
    <3>3. IsFiniteSet(({"buildpacks"} \cup {"order"}) \cup {"orderFrom"})
      BY <3>2, FS_AddElement
    <3>4. ({"buildpacks"} \cup {"order"}) \cup {"orderFrom"} = {"buildpacks", "order", "orderFrom"}
      OBVIOUS
    <3> QED BY <3>3, <3>4
  <2> QED BY <1>1, <2>1, FS_Subset
<1>3. /\ \A x : Cardinality({x}) = 1
      /\ Cardinality({}) = 0
  BY FS_Singleton, FS_EmptySet
<1>4. Cardinality(sources) \in Nat
  BY <1>2, FS_CardinalityType
<1>5. ~ Cardinality(sources) > 1
  <2>1. SUFFICES ASSUME Cardinality(sources) > 1 PROVE FALSE
    BY <1>4
  <2>2. sources # {"buildpacks"} /\ sources # {"order"} /\ sources # {"orderFrom"}
    <3>1. /\ Cardinality({"buildpacks"}) = 1 /\ Cardinality({"order"}) = 1
          /\ Cardinality({"orderFrom"}) = 1
      BY <1>3
    <3> HIDE DEF sources
    <3> QED BY <2>1, <3>1
  <2>3. OrderOf(flags, default) = {}
    BY <2>1, <2>2 DEF OrderOf
  <2> QED BY <2>3
<1>6. sources = {} \/ \E x : sources = {x}
  <2>1. Cardinality(sources) = 0 \/ Cardinality(sources) = 1
    BY <1>4, <1>5
  <2> QED BY <1>2, <2>1, FS_EmptySet, FS_Singleton
<1>7. CASE sources = {"buildpacks"}
  <2>1. order \in {CreateOrder(flags.buildpacks)}
    BY <1>5, <1>7 DEF OrderOf
  <2> QED BY <1>1, <1>7, <2>1 DEF CreateOrder
<1>8. CASE sources = {"order"}
  <2>1. order \in ReadOrder(flags.order)
    BY <1>5, <1>8 DEF OrderOf
  <2> QED BY <1>1, <1>8, <2>1 DEF ReadOrder
<1>9. CASE sources = {"orderFrom"}
  <2>1. order \in ReadOrderFromImage(flags.orderFrom)
    BY <1>5, <1>9 DEF OrderOf
  <2> QED BY <1>1, <1>9, <2>1 DEF ReadOrderFromImage
<1>10. CASE sources = {}
  <2>1. order \in {default}
    BY <1>5, <1>10 DEF OrderOf
  <2> QED BY <1>1, <1>10, <2>1
<1> QED BY <1>1, <1>6, <1>7, <1>8, <1>9, <1>10

BuilderKinds == {"builder", "clusterbuilder"}

\* What a builder shows of the flags that were given.
LEMMA BuilderShows ==
  ASSUME kind \in BuilderKinds, NEW flags, NEW default, NEW spec, spec.order \in OrderOf(flags, default),
         \A flag \in DOMAIN flags \cap {"tag", "stack", "store"} : spec[flag] = flags[flag],
         kind = "builder" /\ "account" \in DOMAIN flags => spec.account = flags.account
  PROVE  AsAsked(flags, DeclaredFlags(kind), spec)
<1>1. \A flag \in DOMAIN flags \cap {"tag", "stack", "store"} : Shown(flag, flags[flag], spec)
  BY DEF Shown, BuilderKinds
<1>2. "account" \in DOMAIN flags /\ kind = "builder" => Shown("account", flags["account"], spec)
  BY DEF Shown
<1>3. \A flag \in DOMAIN flags \cap {"buildpacks", "order", "orderFrom"} : Shown(flag, flags[flag], spec)
  <2>1. /\ "buildpacks" \in DOMAIN flags => spec.order = <<flags.buildpacks>>
        /\ "order" \in DOMAIN flags => spec.order = OrderFiles[flags.order]
        /\ "orderFrom" \in DOMAIN flags => spec.order = OrderLabels[flags.orderFrom]
    BY OrderAsked
  <2>2. "buildpacks" \in DOMAIN flags => Shown("buildpacks", flags["buildpacks"], spec)
    BY <2>1 DEF Shown, BuilderKinds
  <2>3. "order" \in DOMAIN flags => Shown("order", flags["order"], spec)
    BY <2>1 DEF Shown, BuilderKinds
  <2>4. "orderFrom" \in DOMAIN flags => Shown("orderFrom", flags["orderFrom"], spec)
    BY <2>1 DEF Shown, BuilderKinds
  <2> QED BY <2>2, <2>3, <2>4
<1>4. DeclaredFlags(kind) \subseteq {"tag", "stack", "store"} \cup {"buildpacks", "order", "orderFrom"}
                                   \cup (IF kind = "builder" THEN {"account"} ELSE {})
  BY DEF DeclaredFlags, BuilderFlags, ClusterBuilderFlags, BuilderKinds
<1> QED BY <1>1, <1>2, <1>3, <1>4 DEF AsAsked

\* What create and save make of a builder's flags.
LEMMA BuilderMade ==
  ASSUME kind \in BuilderKinds, NEW given, Parsed(given), NEW map, NEW spec \in MakeSpec(given, map)
  PROVE  HasFields(spec) /\ AsAsked(given, DeclaredFlags(kind), spec) /\ Whole(spec)
<1> DEFINE flags == WithDefaults(given, Defaults)
<1>1. \A flag \in DOMAIN given : flag \in DOMAIN flags /\ flags[flag] = given[flag]
  BY GivenStays
<1>2. PICK tag, account, order :
        /\ order \in OrderOf(flags, NoValue)
        /\ spec = NewBuilder(flags, tag, account, order)
        /\ "tag" \in DOMAIN flags => tag = flags.tag
        /\ kind = "builder" => account = flags.account
  <2>1. CASE kind = "builder"
    <3>1. spec \in MakeBuilder(flags)
      BY <2>1 DEF MakeSpec
    <3> HIDE DEF flags
    <3>2. PICK order \in OrderOf(flags, NoValue) : spec = NewBuilder(flags, flags.tag, flags.account, order)
      BY <3>1 DEF MakeBuilder
    <3> DEFINE tag == flags.tag
               account == flags.account
    <3>3. /\ order \in OrderOf(flags, NoValue)
          /\ spec = NewBuilder(flags, tag, account, order)
          /\ "tag" \in DOMAIN flags => tag = flags.tag
          /\ kind = "builder" => account = flags.account
      BY <3>2
    <3> QED BY <3>3, Zenon
  <2>2. CASE kind = "clusterbuilder"
    <3>1. spec \in MakeClusterBuilder(flags, map)
      BY <2>2 DEF MakeSpec
    <3> HIDE DEF flags
    <3>2. PICK tag \in ClusterBuilderTag(flags, map), order \in OrderOf(flags, NoValue) :
            spec = NewBuilder(flags, tag, ServiceAccount(map), order)
      BY <3>1 DEF MakeClusterBuilder
    <3>3. "tag" \in DOMAIN flags => tag = flags.tag
      BY DEF ClusterBuilderTag, Given
    <3> DEFINE account == ServiceAccount(map)
    <3>4. /\ order \in OrderOf(flags, NoValue)
          /\ spec = NewBuilder(flags, tag, account, order)
          /\ "tag" \in DOMAIN flags => tag = flags.tag
          /\ kind = "builder" => account = flags.account
      BY <2>2, <3>2, <3>3
    <3> QED BY <3>4, Zenon
  <2> QED BY <2>1, <2>2 DEF BuilderKinds
<1> HIDE DEF flags
<1>3. spec = [tag |-> tag, stack |-> flags.stack, account |-> account, order |-> order,
              store |-> Flag(flags, "store", NoValue),
              storeKind |-> IF Given(flags, "store") THEN "ClusterStore" ELSE NoValue]
  BY <1>2 DEF NewBuilder
<1>4. HasFields(spec)
  BY <1>3 DEF HasFields, SpecFields, BuilderKinds
<1>5. AsAsked(flags, DeclaredFlags(kind), spec)
  <2>1. \A flag \in DOMAIN flags \cap {"tag", "stack", "store"} : spec[flag] = flags[flag]
    BY <1>2, <1>3 DEF Flag, Given
  <2>2. kind = "builder" => spec.account = flags.account
    BY <1>2, <1>3
  <2>3. spec.order \in OrderOf(flags, NoValue)
    BY <1>2, <1>3
  <2> QED BY <2>1, <2>2, <2>3, BuilderShows
<1>6. AsAsked(given, DeclaredFlags(kind), spec)
  BY <1>1, <1>5 DEF AsAsked
<1> QED BY <1>4, <1>6 DEF Whole, BuilderKinds

\* What patch and save make of a builder.
LEMMA BuilderUpdated ==
  ASSUME kind \in BuilderKinds, NEW flags, Parsed(flags), NEW map, NEW old, HasFields(old),
         NEW spec \in UpdateSpec(flags, old, map)
  PROVE  /\ HasFields(spec) /\ Named(flags, old, spec)
         /\ AsAsked(flags, DeclaredFlags(kind), spec) /\ Whole(spec)
<1>1. SpecFields = {"tag", "stack", "account", "order", "store", "storeKind"}
  BY DEF SpecFields, BuilderKinds
<1>2. PICK account, order :
        /\ order \in OrderOf(flags, old.order)
        /\ spec = [old EXCEPT !.tag = Flag(flags, "tag", old.tag), !.stack = Flag(flags, "stack", old.stack),
                              !.store = Flag(flags, "store", old.store), !.order = order, !.account = account]
        /\ account = IF kind = "builder" THEN Flag(flags, "account", old.account) ELSE old.account
  <2>1. CASE kind = "builder"
    <3>1. spec \in PatchBuilder(flags, old)
      BY <2>1 DEF UpdateSpec
    <3>2. PICK order \in OrderOf(flags, old.order) :
            spec = [PatchedBuilder(flags, old, order) EXCEPT !.account = Flag(flags, "account", old.account)]
      BY <3>1 DEF PatchBuilder
    <3> DEFINE account == Flag(flags, "account", old.account)
    <3>3. /\ order \in OrderOf(flags, old.order)
          /\ spec = [old EXCEPT !.tag = Flag(flags, "tag", old.tag), !.stack = Flag(flags, "stack", old.stack),
                                  !.store = Flag(flags, "store", old.store), !.order = order, !.account = account]
          /\ account = IF kind = "builder" THEN Flag(flags, "account", old.account) ELSE old.account
      BY <2>1, <3>2 DEF PatchedBuilder
    <3> QED BY <3>3, Zenon
  <2>2. CASE kind = "clusterbuilder"
    <3>1. spec \in PatchClusterBuilder(flags, old)
      BY <2>2 DEF UpdateSpec
    <3>2. PICK order \in OrderOf(flags, old.order) : spec = PatchedBuilder(flags, old, order)
      BY <3>1 DEF PatchClusterBuilder
    <3>3. spec = [PatchedBuilder(flags, old, order) EXCEPT !.account = old.account]
      BY <1>1, <3>2 DEF PatchedBuilder, HasFields
    <3> DEFINE account == old.account
    <3>4. /\ order \in OrderOf(flags, old.order)
          /\ spec = [old EXCEPT !.tag = Flag(flags, "tag", old.tag), !.stack = Flag(flags, "stack", old.stack),
                                  !.store = Flag(flags, "store", old.store), !.order = order, !.account = account]
          /\ account = IF kind = "builder" THEN Flag(flags, "account", old.account) ELSE old.account
      BY <2>2, <3>3 DEF PatchedBuilder
    <3> QED BY <3>4, Zenon
  <2> QED BY <2>1, <2>2 DEF BuilderKinds
<1>3. spec = [tag |-> Flag(flags, "tag", old.tag), stack |-> Flag(flags, "stack", old.stack),
              account |-> account, order |-> order, store |-> Flag(flags, "store", old.store),
              storeKind |-> old.storeKind]
  BY <1>1, <1>2 DEF HasFields
<1>4. HasFields(spec)
  BY <1>1, <1>3 DEF HasFields
<1>5. Named(flags, old, spec)
  <2>1. \A flag \in {"tag", "stack", "store", "account"} : FieldsOf(flag) = {flag}
    BY DEF FieldsOf, BuilderKinds
  <2>2. \A flag \in {"buildpacks", "order", "orderFrom"} : FieldsOf(flag) = {"order"}
    BY DEF FieldsOf, BuilderKinds
  <2>3. order # old.order => \E flag \in DOMAIN flags : "order" \in FieldsOf(flag)
    <3>1. order \in OrderOf(flags, old.order)
      BY <1>2
    <3>2. order # old.order => DOMAIN flags \cap {"buildpacks", "order", "orderFrom"} # {}
      BY <3>1, OrderAsked
    <3> QED BY <2>2, <3>2
  <2>4. \A f \in {"tag", "stack", "store", "account"} :
          spec[f] # old[f] => \E flag \in DOMAIN flags : f \in FieldsOf(flag)
    <3>1. /\ spec.tag # old.tag => "tag" \in DOMAIN flags
          /\ spec.stack # old.stack => "stack" \in DOMAIN flags
          /\ spec.store # old.store => "store" \in DOMAIN flags
          /\ spec.account # old.account => "account" \in DOMAIN flags
      BY <1>2, <1>3 DEF Flag, Given
    <3> QED BY <2>1, <3>1
  <2>5. spec.storeKind = old.storeKind /\ spec.order = order
    BY <1>3
  <2> QED BY <1>1, <2>3, <2>4, <2>5 DEF Named
<1>6. AsAsked(flags, DeclaredFlags(kind), spec)
  <2>1. \A flag \in DOMAIN flags \cap {"tag", "stack", "store"} : spec[flag] = flags[flag]
    BY <1>3 DEF Flag, Given
  <2>2. kind = "builder" /\ "account" \in DOMAIN flags => spec.account = flags.account
    BY <1>2, <1>3 DEF Flag, Given
  <2>3. spec.order \in OrderOf(flags, old.order)
    BY <1>2, <1>3
  <2> QED BY <2>1, <2>2, <2>3, BuilderShows
<1> QED BY <1>4, <1>5, <1>6 DEF Whole, BuilderKinds

\* What the setters make of a map, or of no map.
LEMMA SettingsSet ==
  ASSUME kind = "kpconfig", NEW flags, Parsed(flags), NEW old, NEW spec, spec = WithSettings(old, flags)
  PROVE  /\ HasFields(spec) /\ Named(flags, old, spec)
         /\ AsAsked(flags, DeclaredFlags(kind), spec) /\ Whole(spec)
<1>1. spec = [k \in ConfigKeys |-> Flag(flags, k[1], old[k])] /\ SpecFields = ConfigKeys
  BY DEF WithSettings, SpecFields
<1>2. HasFields(spec)
  BY <1>1 DEF HasFields
<1>3. DOMAIN flags \subseteq Settings
  BY DEF Parsed, DeclaredFlags
<1>4. Named(flags, old, spec)
  <2>1. ASSUME NEW f \in ConfigKeys, spec[f] # old[f]
        PROVE  \E flag \in DOMAIN flags : f \in FieldsOf(flag)
    <3>1. f[1] \in DOMAIN flags
      BY <1>1, <2>1 DEF Flag, Given
    <3>2. FieldsOf(f[1]) = {f[1]} \X {"default", "canonical"}
      BY <1>3, <3>1 DEF FieldsOf, Settings
    <3>3. f \in {f[1]} \X {"default", "canonical"}
      BY DEF ConfigKeys
    <3> QED BY <3>1, <3>2, <3>3
  <2> QED BY <1>1, <2>1 DEF Named
<1>5. ASSUME NEW s \in DOMAIN flags PROVE Shown(s, flags[s], spec)
  <2>1. spec[<<s, "default">>] = flags[s] /\ spec[<<s, "canonical">>] = flags[s]
    <3>1. <<s, "default">> \in ConfigKeys /\ <<s, "canonical">> \in ConfigKeys
      BY <1>3 DEF ConfigKeys
    <3>2. <<s, "default">>[1] = s /\ <<s, "canonical">>[1] = s
      OBVIOUS
    <3> QED BY <1>1, <3>1, <3>2 DEF Flag, Given
  <2>2. Setting(spec, s) = flags[s]
    BY <2>1 DEF Setting
  <2> QED BY <1>3, <2>2 DEF Shown, Settings
<1> QED BY <1>2, <1>4, <1>5 DEF AsAsked, Whole

\* What `kp config` makes of its arguments.
LEMMA ConfigMade ==
  ASSUME kind = "kpconfig", NEW given, Parsed(given), NEW map, NEW spec \in MakeSpec(given, map)
  PROVE  HasFields(spec) /\ AsAsked(given, DeclaredFlags(kind), spec) /\ Whole(spec)
<1> DEFINE flags == WithDefaults(given, Defaults)
<1>1. DOMAIN flags = DOMAIN given /\ \A flag \in DOMAIN given : flags[flag] = given[flag]
  <2>1. DOMAIN Defaults = {}
    BY DEF Defaults
  <2>2. DOMAIN flags = DOMAIN given \cup DOMAIN Defaults
    BY GivenStays
  <2>3. \A flag \in DOMAIN given : flags[flag] = given[flag]
    BY GivenStays
  <2> HIDE DEF flags
  <2> QED BY <2>1, <2>2, <2>3
<1>2. spec = NewConfigMap(flags)
  BY DEF MakeSpec
<1> HIDE DEF flags
<1>3. Parsed(flags)
  BY <1>1 DEF Parsed
<1>4. HasFields(spec) /\ AsAsked(flags, DeclaredFlags(kind), spec) /\ Whole(spec)
  BY <1>2, <1>3, SettingsSet DEF NewConfigMap
<1> QED BY <1>1, <1>4 DEF AsAsked

\* What `kp config` makes of the map that is there.
LEMMA ConfigUpdated ==
  ASSUME kind = "kpconfig", NEW flags, Parsed(flags), NEW map, NEW old, HasFields(old),
         NEW spec \in UpdateSpec(flags, old, map)
  PROVE  /\ HasFields(spec) /\ Named(flags, old, spec)
         /\ AsAsked(flags, DeclaredFlags(kind), spec) /\ Whole(spec)
<1>1. spec \in UpdateConfigMap(old, flags)
  BY DEF UpdateSpec
<1>2. spec = WithSettings(old, flags)
  BY <1>1 DEF UpdateConfigMap, Only
<1> QED BY <1>2, SettingsSet

-----------------------------------------------------------------------------
(* Images                                                                  *)

\* The flags that edit a list, one entry after the other.
ListFlags == {"tags", "deleteTags", "env", "deleteEnv", "services", "deleteServices"}

\* The flags that create does not look at.
OnlyOfUpdates == {"deleteEnv", "deleteTags", "deleteServices", "replaceTags"}

\* A destination is only looked at for a local path.
DestinationFits(flags) == "destination" \in DOMAIN flags => "localPath" \in DOMAIN flags

SourceFields == {"gitUrl", "gitRevision", "blob", "registry"}

\* A command line names at most one source.
LEMMA OneSource ==
  ASSUME NEW flags, Cardinality(Sources(flags)) <= 1
  PROVE  /\ Sources(flags) \in {{}, {"git"}, {"blob"}, {"localPath"}}
         /\ Cardinality(Sources(flags)) = 1 => Sources(flags) # {}
<1>1. Sources(flags) \subseteq {"git", "blob", "localPath"}
  BY DEF Sources
<1>2. IsFiniteSet(Sources(flags))
  <2>1. IsFiniteSet({"git"})
    BY FS_Singleton
  <2>2. IsFiniteSet({"git"} \cup {"blob"})
    BY <2>1, FS_AddElement
  <2>3. IsFiniteSet(({"git"} \cup {"blob"}) \cup {"localPath"})
    BY <2>2, FS_AddElement
  <2>4. ({"git"} \cup {"blob"}) \cup {"localPath"} = {"git", "blob", "localPath"}
    OBVIOUS
  <2> QED BY <1>1, <2>3, <2>4, FS_Subset
<1>3. Cardinality(Sources(flags)) = 0 \/ Cardinality(Sources(flags)) = 1
  BY <1>2, FS_CardinalityType
<1>4. Sources(flags) = {} \/ \E x : Sources(flags) = {x}
  BY <1>2, <1>3, FS_EmptySet, FS_Singleton
<1>5. Cardinality({}) = 0
  BY FS_EmptySet
<1> QED BY <1>1, <1>4, <1>5

\* Where a source is, and that there is no other.
IsSource(flags, source) ==
  /\ DOMAIN source = SourceFields
  /\ Sources(flags) = {"git"} =>
       /\ source.gitUrl = flags.git /\ source.gitRevision = Flag(flags, "gitRevision", "main")
       /\ source.blob = NoValue /\ source.registry = NoValue
  /\ Sources(flags) = {"blob"} =>
       /\ source.gitUrl = NoValue /\ source.gitRevision = NoValue
       /\ source.blob = flags.blob /\ source.registry = NoValue
  /\ Sources(flags) = {"localPath"} =>
       /\ source.gitUrl = NoValue /\ source.gitRevision = NoValue /\ source.blob = NoValue
       /\ \E where : /\ source.registry = <<where, flags.localPath>>
                     /\ "destination" \in DOMAIN flags => where = <<flags.destination>>

\* makeSource
LEMMA SourceMade ==
  ASSUME NEW flags, ValidCreate(flags)
  PROVE  /\ Sources(flags) \in {{"git"}, {"blob"}, {"localPath"}}
         /\ IsSource(flags, MakeSource(flags))
<1>1. Sources(flags) \in {{"git"}, {"blob"}, {"localPath"}}
  BY OneSource DEF ValidCreate
<1>2. Sources(flags) = {"git", "blob", "localPath"} \cap DOMAIN flags
  BY DEF Sources
<1>3. CASE Sources(flags) = {"git"}
  <2>1. MakeSource(flags) = Git(flags.git, Flag(flags, "gitRevision", "main"))
    BY <1>2, <1>3 DEF MakeSource, Given
  <2> QED BY <1>3, <2>1 DEF IsSource, Git, SourceFields
<1>4. CASE Sources(flags) = {"blob"}
  <2>1. MakeSource(flags) = Blob(flags.blob)
    BY <1>2, <1>4 DEF MakeSource, Given
  <2> QED BY <1>4, <2>1 DEF IsSource, Blob, SourceFields
<1>5. CASE Sources(flags) = {"localPath"}
  <2>1. MakeSource(flags) = Registry(<<CreateDestination(flags), flags.localPath>>)
    BY <1>2, <1>5 DEF MakeSource, Given
  <2>2. "destination" \in DOMAIN flags => CreateDestination(flags) = <<flags.destination>>
    BY DEF CreateDestination, Destination, Given
  <2> QED BY <1>5, <2>1, <2>2 DEF IsSource, Registry, SourceFields
<1> QED BY <1>1, <1>3, <1>4, <1>5

\* setSource
LEMMA SourceSet ==
  ASSUME NEW flags, NEW image, ValidSourceUpdate(flags, image)
  PROVE  /\ Sources(flags) \in {{}, {"git"}, {"blob"}, {"localPath"}}
         /\ IsSource(flags, SetSource(flags, image))
         /\ Sources(flags) = {} =>
              /\ \A f \in SourceFields \ {"gitRevision"} : SetSource(flags, image)[f] = image[f]
              /\ SetSource(flags, image).gitRevision = Flag(flags, "gitRevision", image.gitRevision)
<1>1. Sources(flags) \in {{}, {"git"}, {"blob"}, {"localPath"}}
  BY OneSource DEF ValidSourceUpdate
<1>2. Sources(flags) = {"git", "blob", "localPath"} \cap DOMAIN flags
  BY DEF Sources
<1>3. CASE Sources(flags) = {"git"}
  <2>1. SetSource(flags, image) = Git(flags.git, Flag(flags, "gitRevision", "main"))
    BY <1>2, <1>3 DEF SetSource, Given
  <2> QED BY <1>3, <2>1 DEF IsSource, Git, SourceFields
<1>4. CASE Sources(flags) = {"blob"}
  <2>1. SetSource(flags, image) = Blob(flags.blob)
    BY <1>2, <1>4 DEF SetSource, Given
  <2> QED BY <1>4, <2>1 DEF IsSource, Blob, SourceFields
<1>5. CASE Sources(flags) = {"localPath"}
  <2>1. SetSource(flags, image) = Registry(<<UpdateDestination(flags, image), flags.localPath>>)
    BY <1>2, <1>5 DEF SetSource, Given
  <2>2. "destination" \in DOMAIN flags => UpdateDestination(flags, image) = <<flags.destination>>
    BY DEF UpdateDestination, Destination, Given
  <2> QED BY <1>5, <2>1, <2>2 DEF IsSource, Registry, SourceFields
<1>6. CASE Sources(flags) = {}
  <2>1. SetSource(flags, image)
          = [SourceOf(image) EXCEPT !.gitRevision = Flag(flags, "gitRevision", SourceOf(image).gitRevision)]
    BY <1>2, <1>6 DEF SetSource, Given
  <2>2. SourceOf(image) = [f \in SourceFields |-> image[f]]
    BY DEF SourceOf, SourceFields
  <2>3. SetSource(flags, image)
          = [f \in SourceFields |-> IF f = "gitRevision" THEN Flag(flags, "gitRevision", image.gitRevision)
                                                         ELSE image[f]]
    BY <2>1, <2>2 DEF SourceFields
  <2> QED BY <1>6, <2>3 DEF IsSource, SourceFields
<1> QED BY <1>1, <1>3, <1>4, <1>5, <1>6

\* The parts of an image that are put together.
LEMMA Assembled ==
  ASSUME kind = "image", NEW source, DOMAIN source = SourceFields,
         NEW tag, NEW tags, NEW env, NEW services, NEW builder, NEW plain
  PROVE  LET spec == Assemble(tag, source, tags, env, services, builder, plain) IN
         /\ HasFields(spec)
         /\ \A f \in SourceFields : spec[f] = source[f]
         /\ spec.tag = tag /\ spec.tags = tags /\ spec.env = env /\ spec.services = services
         /\ spec.builder = builder
         /\ \A f \in PlainFields : spec[f] = plain[f]
<1> DEFINE spec == Assemble(tag, source, tags, env, services, builder, plain)
<1>1. SpecFields = ImageFields
  BY DEF SpecFields
<1>2. spec = [f \in ImageFields |->
                CASE f \in SourceFields -> source[f]
                  [] f = "tag"      -> tag
                  [] f = "tags"     -> tags
                  [] f = "env"      -> env
                  [] f = "services" -> services
                  [] f = "builder"  -> builder
                  [] OTHER          -> plain[f]]
  BY DEF Assemble
<1> HIDE DEF spec
<1>3. HasFields(spec)
  BY <1>1, <1>2 DEF HasFields
<1>4. /\ \A f \in SourceFields : spec[f] = source[f]
      /\ spec.tag = tag /\ spec.tags = tags /\ spec.env = env /\ spec.services = services
      /\ spec.builder = builder
  BY <1>2 DEF ImageFields, SourceFields
<1>5. \A f \in PlainFields : spec[f] = plain[f]
  BY <1>2 DEF ImageFields, SourceFields, PlainFields
<1> QED BY <1>3, <1>4, <1>5 DEF spec

\* An image with one source is whole.
LEMMA OneSourceWhole ==
  ASSUME kind = "image", NEW spec,
         \/ spec.gitUrl # NoValue /\ spec.gitRevision # NoValue /\ spec.blob = NoValue /\ spec.registry = NoValue
         \/ /\ spec.gitUrl = NoValue /\ spec.gitRevision = NoValue
            /\ spec.blob # NoValue /\ spec.registry = NoValue
         \/ /\ spec.gitUrl = NoValue /\ spec.gitRevision = NoValue
            /\ spec.blob = NoValue /\ spec.registry # NoValue
  PROVE  Whole(spec)
<1> DEFINE given == {f \in {"gitUrl", "blob", "registry"} : spec[f] # NoValue}
<1>1. given = {"gitUrl"} \/ given = {"blob"} \/ given = {"registry"}
  OBVIOUS
<1>2. Cardinality({"gitUrl"}) = 1 /\ Cardinality({"blob"}) = 1 /\ Cardinality({"registry"}) = 1
  BY FS_Singleton
<1>3. Cardinality(given) = 1
  BY <1>1, <1>2
<1>4. spec.gitUrl = NoValue <=> spec.gitRevision = NoValue
  OBVIOUS
<1> QED BY <1>3, <1>4 DEF Whole

\* NoValue is none of the values that make a source.
NoneIsNoSource == NoValue # "main" /\ \A where, path : NoValue # <<where, path>>

\* A source from the command line makes an image whole.
LEMMA GivenSourceWhole ==
  ASSUME kind = "image", NoneIsNoSource, NEW flags, \A flag \in DOMAIN flags : flags[flag] # NoValue,
         NEW source, IsSource(flags, source), Sources(flags) \in {{"git"}, {"blob"}, {"localPath"}},
         NEW spec, \A f \in SourceFields : spec[f] = source[f]
  PROVE  Whole(spec)
<1>1. Sources(flags) = {"git", "blob", "localPath"} \cap DOMAIN flags
  BY DEF Sources
<1>2. /\ spec.gitUrl = source.gitUrl /\ spec.gitRevision = source.gitRevision
      /\ spec.blob = source.blob /\ spec.registry = source.registry
  BY DEF SourceFields
<1>3. CASE Sources(flags) = {"git"}
  <2>1. flags.git # NoValue /\ Flag(flags, "gitRevision", "main") # NoValue
    BY <1>1, <1>3 DEF Flag, Given, NoneIsNoSource
  <2> QED BY <1>2, <1>3, <2>1, OneSourceWhole DEF IsSource
<1>4. CASE Sources(flags) = {"blob"}
  <2>1. flags.blob # NoValue
    BY <1>1, <1>4
  <2> QED BY <1>2, <1>4, <2>1, OneSourceWhole DEF IsSource
<1>5. CASE Sources(flags) = {"localPath"}
  <2>1. source.registry # NoValue
    BY <1>5 DEF IsSource, NoneIsNoSource
  <2> QED BY <1>2, <1>5, <2>1, OneSourceWhole DEF IsSource
<1> QED BY <1>3, <1>4, <1>5

\* What an image shows of the flags about its source.
LEMMA SourceShows ==
  ASSUME kind = "image", NEW flags, DestinationFits(flags), RevisionFits(flags),
         NEW source, IsSource(flags, source), Sources(flags) \in {{}, {"git"}, {"blob"}, {"localPath"}},
         Sources(flags) = {} /\ "gitRevision" \in DOMAIN flags => source.gitRevision = flags.gitRevision,
         NEW spec, \A f \in SourceFields : spec[f] = source[f]
  PROVE  AsAsked(flags, {"git", "gitRevision", "blob", "localPath", "destination"}, spec)
<1>1. Sources(flags) = {"git", "blob", "localPath"} \cap DOMAIN flags
  BY DEF Sources
<1>2. /\ spec.gitUrl = source.gitUrl /\ spec.gitRevision = source.gitRevision
      /\ spec.blob = source.blob /\ spec.registry = source.registry
  BY DEF SourceFields
<1>3. "git" \in DOMAIN flags => Shown("git", flags["git"], spec)
  BY <1>1, <1>2 DEF Shown, IsSource
<1>4. "blob" \in DOMAIN flags => Shown("blob", flags["blob"], spec)
  BY <1>1, <1>2 DEF Shown, IsSource
<1>5. "localPath" \in DOMAIN flags => Shown("localPath", flags["localPath"], spec)
  BY <1>1, <1>2 DEF Shown, IsSource
<1>6. "destination" \in DOMAIN flags => Shown("destination", flags["destination"], spec)
  <2>1. SUFFICES ASSUME "destination" \in DOMAIN flags PROVE Shown("destination", flags["destination"], spec)
    OBVIOUS
  <2>2. Sources(flags) = {"localPath"}
    BY <1>1, <2>1 DEF DestinationFits
  <2>3. spec.registry[1] = <<flags.destination>>
    BY <1>2, <2>1, <2>2 DEF IsSource
  <2> QED BY <2>3 DEF Shown
<1>7. "gitRevision" \in DOMAIN flags => Shown("gitRevision", flags["gitRevision"], spec)
  <2>1. SUFFICES ASSUME "gitRevision" \in DOMAIN flags PROVE Shown("gitRevision", flags["gitRevision"], spec)
    OBVIOUS
  <2>2. Sources(flags) = {} \/ Sources(flags) = {"git"}
    BY <2>1 DEF RevisionFits, Given
  <2>3. spec.gitRevision = flags.gitRevision
    BY <1>2, <2>1, <2>2 DEF IsSource, Flag, Given
  <2> QED BY <2>3 DEF Shown
<1> QED BY <1>3, <1>4, <1>5, <1>6, <1>7 DEF AsAsked

\* What an image shows of the flags about its builder, and of those that are what they say.
LEMMA RestShows ==
  ASSUME kind = "image", NEW flags, OneBuilder(flags), NEW default, NEW spec,
         spec.builder = BuilderOf(flags, default),
         \A f \in PlainFields \cap DOMAIN flags : spec[f] = Plain(flags, f, NoValue)
  PROVE  AsAsked(flags, {"builder", "clusterBuilder"} \cup PlainFields, spec)
<1>1. "builder" \in DOMAIN flags => Shown("builder", flags["builder"], spec)
  <2>1. "builder" \in DOMAIN flags => spec.builder = <<"Builder", flags.builder>>
    BY DEF BuilderOf, Given, OneBuilder
  <2> QED BY <2>1 DEF Shown
<1>2. "clusterBuilder" \in DOMAIN flags => Shown("clusterBuilder", flags["clusterBuilder"], spec)
  <2>1. "clusterBuilder" \in DOMAIN flags => spec.builder = <<"ClusterBuilder", flags.clusterBuilder>>
    BY DEF BuilderOf, Given, OneBuilder
  <2> QED BY <2>1 DEF Shown
<1>3. ASSUME NEW f \in PlainFields \cap DOMAIN flags PROVE Shown(f, flags[f], spec)
  BY <1>3 DEF Shown, PlainFields, Plain, Flag, Given
<1> QED BY <1>1, <1>2, <1>3 DEF AsAsked

\* Every binding that was given is bound under its name.
LEMMA BindingsParsed ==
  ASSUME NEW services, NEW parsed \in ParseServiceBindings(services)
  PROVE  /\ \A s \in ToSet(services) : s[Len(s)] \in {t[3] : t \in ToSet(parsed)}
         /\ DOMAIN parsed = DOMAIN services
<1>1. /\ parsed = [i \in DOMAIN services |->
                     IF Len(services[i]) = 1 THEN <<"Secret", "", services[i][1]>> ELSE services[i]]
      /\ \A s \in ToSet(services) : Len(s) \in {1, 3}
  BY DEF ParseServiceBindings, Only
<1>2. ASSUME NEW i \in DOMAIN services
      PROVE  services[i][Len(services[i])] = parsed[i][3]
  <2>1. Len(services[i]) \in {1, 3}
    BY <1>1 DEF ToSet
  <2>2. CASE Len(services[i]) = 1
    BY <1>1, <2>2
  <2>3. CASE Len(services[i]) = 3
    BY <1>1, <2>3
  <2> QED BY <2>1, <2>2, <2>3
<1>3. DOMAIN parsed = DOMAIN services
  BY <1>1
<1>4. ASSUME NEW s \in ToSet(services)
      PROVE  \E t \in ToSet(parsed) : s[Len(s)] = t[3]
  <2>1. PICK i \in DOMAIN services : s = services[i]
    BY <1>4 DEF ToSet
  <2>2. parsed[i] \in ToSet(parsed)
    BY <1>3 DEF ToSet
  <2> QED BY <1>2, <2>1, <2>2
<1> QED BY <1>3, <1>4

\* What create and save make of an image's flags.
LEMMA ImageMade ==
  ASSUME kind = "image", NEW given, Parsed(given), NEW map, NEW spec \in MakeSpec(given, map)
  PROVE  /\ HasFields(spec)
         /\ DestinationFits(given) => AsAsked(given, DeclaredFlags(kind) \ OnlyOfUpdates, spec)
         /\ NoneIsNoSource => Whole(spec)
<1> DEFINE flags == WithDefaults(given, Defaults)
<1>1. DOMAIN flags = DOMAIN given /\ \A flag \in DOMAIN given : flags[flag] = given[flag]
  <2>1. DOMAIN Defaults = {}
    BY DEF Defaults
  <2>2. DOMAIN flags = DOMAIN given \cup DOMAIN Defaults
    BY GivenStays
  <2>3. \A flag \in DOMAIN given : flags[flag] = given[flag]
    BY GivenStays
  <2> HIDE DEF flags
  <2> QED BY <2>1, <2>2, <2>3
<1>2. spec \in MakeImage(flags)
  BY DEF MakeSpec
<1> HIDE DEF flags
<1> DEFINE plain == [f \in PlainFields |-> Plain(flags, f, IF f = "account" THEN "default" ELSE NoValue)]
           source == MakeSource(flags)
<1>3. PICK services \in ParseServiceBindings(Flag(flags, "services", <<>>)) :
        /\ Given(flags, "tag") /\ ValidCreate(flags)
        /\ spec = Assemble(flags.tag, source, Flag(flags, "tags", <<>>), Flag(flags, "env", <<>>), services,
                           BuilderOf(flags, <<"ClusterBuilder", "default">>), plain)
  BY <1>2 DEF MakeImage
<1>4. Sources(flags) \in {{"git"}, {"blob"}, {"localPath"}} /\ IsSource(flags, source)
  BY <1>3, SourceMade
<1>5. \A f \in PlainFields \cap DOMAIN flags : plain[f] = Plain(flags, f, NoValue)
  BY DEF Plain, Flag, Given
<1> HIDE DEF plain, source
<1>6. DOMAIN source = SourceFields
  BY <1>4 DEF IsSource
<1>7. /\ HasFields(spec)
      /\ \A f \in SourceFields : spec[f] = source[f]
      /\ spec.tag = flags.tag /\ spec.tags = Flag(flags, "tags", <<>>) /\ spec.env = Flag(flags, "env", <<>>)
      /\ spec.services = services /\ spec.builder = BuilderOf(flags, <<"ClusterBuilder", "default">>)
      /\ \A f \in PlainFields : spec[f] = plain[f]
  BY <1>3, <1>6, Assembled
<1>8. RevisionFits(flags) /\ OneBuilder(flags)
  BY <1>3 DEF ValidCreate
<1>9. ASSUME DestinationFits(given)
      PROVE  AsAsked(flags, DeclaredFlags(kind) \ OnlyOfUpdates, spec)
  <2>1. AsAsked(flags, {"git", "gitRevision", "blob", "localPath", "destination"}, spec)
    <3>1. DestinationFits(flags)
      BY <1>1, <1>9 DEF DestinationFits
    <3> QED BY <1>4, <1>7, <1>8, <3>1, SourceShows
  <2>2. AsAsked(flags, {"builder", "clusterBuilder"} \cup PlainFields, spec)
    <3>1. \A f \in PlainFields \cap DOMAIN flags : spec[f] = Plain(flags, f, NoValue)
      BY <1>5, <1>7
    <3> QED BY <1>7, <1>8, <3>1, RestShows
  <2>3. "tag" \in DOMAIN flags => Shown("tag", flags["tag"], spec)
    BY <1>7 DEF Shown
  <2>4. "tags" \in DOMAIN flags => Shown("tags", flags["tags"], spec)
    BY <1>7 DEF Shown, Flag, Given
  <2>5. "env" \in DOMAIN flags => Shown("env", flags["env"], spec)
    BY <1>7 DEF Shown, Flag, Given
  <2>6. "services" \in DOMAIN flags => Shown("services", flags["services"], spec)
    <3>1. SUFFICES ASSUME "services" \in DOMAIN flags PROVE Shown("services", flags["services"], spec)
      OBVIOUS
    <3>2. services \in ParseServiceBindings(flags.services)
      BY <1>3, <3>1 DEF Flag, Given
    <3>3. \A s \in ToSet(flags.services) : s[Len(s)] \in {t[3] : t \in ToSet(services)}
      BY <3>2, BindingsParsed
    <3> QED BY <1>7, <3>3 DEF Shown
  <2>7. DeclaredFlags(kind) \ OnlyOfUpdates \subseteq
          {"git", "gitRevision", "blob", "localPath", "destination"} \cup ({"builder", "clusterBuilder"} \cup PlainFields)
          \cup {"tag", "tags", "env", "services"}
    BY DEF DeclaredFlags, ImageFlags, OnlyOfUpdates, PlainFields
  <2> QED BY <2>1, <2>2, <2>3, <2>4, <2>5, <2>6, <2>7 DEF AsAsked
<1>10. DestinationFits(given) => AsAsked(given, DeclaredFlags(kind) \ OnlyOfUpdates, spec)
  BY <1>1, <1>9 DEF AsAsked
<1>11. ASSUME NoneIsNoSource PROVE Whole(spec)
  <2>1. \A flag \in DOMAIN flags : flags[flag] # NoValue
    BY <1>1 DEF Parsed
  <2> QED BY <1>4, <1>7, <1>11, <2>1, GivenSourceWhole
<1> QED BY <1>7, <1>10, <1>11

\* Lists that no flag mentions stay as they are.
LEMMA ListsStay ==
  ASSUME NEW flags, NEW image
  PROVE  /\ DOMAIN flags \cap {"tags", "deleteTags", "replaceTags"} = {} =>
              SetAdditionalTags(flags, image) = image.tags
         /\ DOMAIN flags \cap {"env", "deleteEnv"} = {} => SetEnv(flags, image) = image.env
<1>1. DOMAIN <<>> = {}
  OBVIOUS
<1>2. ASSUME DOMAIN flags \cap {"tags", "deleteTags", "replaceTags"} = {}
      PROVE  SetAdditionalTags(flags, image) = image.tags
  <2>1. Flag(flags, "tags", <<>>) = <<>> /\ Flag(flags, "deleteTags", <<>>) = <<>> /\ ~Given(flags, "replaceTags")
    BY <1>2 DEF Flag, Given
  <2>2. SetAdditionalTags(flags, image) =
          FoldLeft(LAMBDA tags, t : IF t \in ToSet(tags) THEN tags ELSE Append(tags, t),
                   FoldLeft(LAMBDA tags, t : RemoveFirst(tags, t), image.tags, <<>>), <<>>)
    BY <2>1, Zenon DEF SetAdditionalTags
  <2>3. FoldLeft(LAMBDA tags, t : RemoveFirst(tags, t), image.tags, <<>>) = image.tags
    BY <1>1, NoTagsDeleted, Zenon
  <2>4. FoldLeft(LAMBDA tags, t : IF t \in ToSet(tags) THEN tags ELSE Append(tags, t), image.tags, <<>>) = image.tags
    BY <1>1, NoTagsAdded, Zenon
  <2> QED BY <2>2, <2>3, <2>4, Zenon
<1>3. ASSUME DOMAIN flags \cap {"env", "deleteEnv"} = {}
      PROVE  SetEnv(flags, image) = image.env
  <2>1. Flag(flags, "env", <<>>) = <<>> /\ Flag(flags, "deleteEnv", <<>>) = <<>>
    BY <1>3 DEF Flag, Given
  <2>2. SetEnv(flags, image) =
          FoldLeft(SetVariable,
                   FoldLeft(LAMBDA env, n : RemoveFirstMatch(env, LAMBDA e : e[1] = n), image.env, <<>>), <<>>)
    BY <2>1, Zenon DEF SetEnv
  <2>3. FoldLeft(LAMBDA env, n : RemoveFirstMatch(env, LAMBDA e : e[1] = n), image.env, <<>>) = image.env
    BY <1>1, NoVariablesDeleted, Zenon
  <2>4. FoldLeft(SetVariable, image.env, <<>>) = image.env
    BY <1>1, NoVariablesSet, Zenon
  <2> QED BY <2>2, <2>3, <2>4, Zenon
<1> QED BY <1>2, <1>3

\* And so do bindings.
LEMMA BindingsStay ==
  ASSUME NEW services, NEW deleted, NEW added, DOMAIN deleted = {}, DOMAIN added = {}
  PROVE  SetServices(services, deleted, added) = services
<1>1. FoldLeft(LAMBDA bound, s : RemoveFirst(bound, s), services, deleted) = services
  BY NoTagsDeleted, Zenon
<1>2. FoldLeft(LAMBDA bound, s : IF s \in ToSet(bound) THEN bound ELSE bound \o added, services, added) = services
  <2> DEFINE Turn(iter) ==
        [s \in SUBSET DOMAIN added |->
           IF s = {} THEN services
           ELSE IF added[Max(s)] \in ToSet(iter[s \ {Max(s)}]) THEN iter[s \ {Max(s)}] ELSE iter[s \ {Max(s)}] \o added]
  <2>1. FoldLeft(LAMBDA bound, s : IF s \in ToSet(bound) THEN bound ELSE bound \o added, services, added) =
          (CHOOSE iter : iter = Turn(iter))[DOMAIN added]
    BY Zenon DEF FoldLeft, MapThenFoldSet
  <2>2. PICK it : it = (CHOOSE iter : iter = Turn(iter)) /\ it = Turn(it)
    <3> DEFINE once == [s \in SUBSET DOMAIN added |-> services]
    <3>1. SUBSET DOMAIN added = {{}}
      OBVIOUS
    <3>2. Turn(once) = once
      BY <3>1, Zenon
    <3> QED BY <3>2
  <2>3. Turn(it)[DOMAIN added] = services
    BY Zenon
  <2> QED BY <2>1, <2>2, <2>3, Zenon
<1> QED BY <1>1, <1>2, Zenon DEF SetServices

\* What patch and save make of an image.
LEMMA ImageUpdated ==
  ASSUME kind = "image", NEW flags, Parsed(flags), NEW map, NEW old, HasFields(old),
         NEW spec \in UpdateSpec(flags, old, map)
  PROVE  /\ HasFields(spec) /\ Named(flags, old, spec)
         /\ DestinationFits(flags) => AsAsked(flags, DeclaredFlags(kind) \ (ListFlags \cup {"tag"}), spec)
         /\ NoneIsNoSource /\ Whole(old) => Whole(spec)
<1> DEFINE plain == [f \in PlainFields |-> Plain(flags, f, old[f])]
           source == SetSource(flags, old)
<1>1. spec \in UpdateImage(flags, old)
  BY DEF UpdateSpec
<1>2. PICK deleted \in ParseServiceBindings(Flag(flags, "deleteServices", <<>>)),
           added \in ParseServiceBindings(Flag(flags, "services", <<>>)) :
        /\ ValidUpdate(flags, old)
        /\ spec = Assemble(old.tag, source, SetAdditionalTags(flags, old), SetEnv(flags, old),
                           SetServices(old.services, deleted, added), BuilderOf(flags, old.builder), plain)
  BY <1>1 DEF UpdateImage
<1>3. RevisionFits(flags) /\ OneBuilder(flags) /\ ValidSourceUpdate(flags, old)
  BY <1>2 DEF ValidUpdate, ValidSourceUpdate
<1>4. /\ Sources(flags) \in {{}, {"git"}, {"blob"}, {"localPath"}}
      /\ IsSource(flags, source)
      /\ Sources(flags) = {} =>
           /\ \A f \in SourceFields \ {"gitRevision"} : source[f] = old[f]
           /\ source.gitRevision = Flag(flags, "gitRevision", old.gitRevision)
  BY <1>3, SourceSet
<1>5. \A f \in PlainFields : plain[f] = IF f \in DOMAIN flags THEN Plain(flags, f, NoValue) ELSE old[f]
  BY DEF Plain, Flag, Given
<1> HIDE DEF plain, source
<1>6. DOMAIN source = SourceFields
  BY <1>4 DEF IsSource
<1>7. /\ HasFields(spec)
      /\ \A f \in SourceFields : spec[f] = source[f]
      /\ spec.tag = old.tag /\ spec.tags = SetAdditionalTags(flags, old) /\ spec.env = SetEnv(flags, old)
      /\ spec.services = SetServices(old.services, deleted, added) /\ spec.builder = BuilderOf(flags, old.builder)
      /\ \A f \in PlainFields : spec[f] = plain[f]
  BY <1>2, <1>6, Assembled
<1>8. Named(flags, old, spec)
  <2>1. \A f \in SourceFields : spec[f] # old[f] => \E flag \in DOMAIN flags : f \in FieldsOf(flag)
    <3>1. \A flag \in {"git", "gitRevision", "blob", "localPath"} : FieldsOf(flag) = SourceFields
      BY DEF FieldsOf, SourceFields
    <3>2. CASE Sources(flags) = {}
      <4>1. \A f \in SourceFields : spec[f] # old[f] => "gitRevision" \in DOMAIN flags
        BY <1>4, <1>7, <3>2 DEF Flag, Given, SourceFields
      <4> QED BY <3>1, <4>1
    <3>3. CASE Sources(flags) # {}
      <4>1. PICK flag \in {"git", "blob", "localPath"} : flag \in DOMAIN flags
        BY <3>3 DEF Sources
      <4> QED BY <3>1, <4>1
    <3> QED BY <3>2, <3>3
  <2>2. spec.tags # old.tags => \E flag \in DOMAIN flags : "tags" \in FieldsOf(flag)
    <3>1. \A flag \in {"tags", "deleteTags", "replaceTags"} : FieldsOf(flag) = {"tags"}
      BY DEF FieldsOf
    <3>2. spec.tags # old.tags => DOMAIN flags \cap {"tags", "deleteTags", "replaceTags"} # {}
      BY <1>7, ListsStay
    <3> QED BY <3>1, <3>2
  <2>3. spec.env # old.env => \E flag \in DOMAIN flags : "env" \in FieldsOf(flag)
    <3>1. \A flag \in {"env", "deleteEnv"} : FieldsOf(flag) = {"env"}
      BY DEF FieldsOf
    <3>2. spec.env # old.env => DOMAIN flags \cap {"env", "deleteEnv"} # {}
      BY <1>7, ListsStay
    <3> QED BY <3>1, <3>2
  <2>4. spec.services # old.services => \E flag \in DOMAIN flags : "services" \in FieldsOf(flag)
    <3>1. \A flag \in {"services", "deleteServices"} : FieldsOf(flag) = {"services"}
      BY DEF FieldsOf
    <3>2. ASSUME DOMAIN flags \cap {"services", "deleteServices"} = {}
          PROVE  spec.services = old.services
      <4>1. Flag(flags, "services", <<>>) = <<>> /\ Flag(flags, "deleteServices", <<>>) = <<>>
        BY <3>2 DEF Flag, Given
      <4>2. DOMAIN deleted = {} /\ DOMAIN added = {}
        BY <1>2, <4>1, BindingsParsed
      <4> QED BY <1>7, <4>2, BindingsStay
    <3> QED BY <3>1, <3>2
  <2>5. spec.builder # old.builder => \E flag \in DOMAIN flags : "builder" \in FieldsOf(flag)
    <3>1. \A flag \in {"builder", "clusterBuilder"} : FieldsOf(flag) = {"builder"}
      BY DEF FieldsOf
    <3>2. spec.builder # old.builder => "builder" \in DOMAIN flags \/ "clusterBuilder" \in DOMAIN flags
      BY <1>7 DEF BuilderOf, Given
    <3> QED BY <3>1, <3>2
  <2>6. \A f \in PlainFields : spec[f] # old[f] => \E flag \in DOMAIN flags : f \in FieldsOf(flag)
    <3>1. \A f \in PlainFields : FieldsOf(f) = {f}
      BY DEF FieldsOf, PlainFields
    <3>2. \A f \in PlainFields : spec[f] # old[f] => f \in DOMAIN flags
      BY <1>5, <1>7
    <3> QED BY <3>1, <3>2
  <2>7. SpecFields = {"tag", "tags", "builder", "env", "services"} \cup SourceFields \cup PlainFields
    BY DEF SpecFields, ImageFields, SourceFields, PlainFields
  <2>8. ASSUME NEW f \in SpecFields, spec[f] # old[f]
        PROVE  \E flag \in DOMAIN flags : f \in FieldsOf(flag)
    <3>1. f # "tag"
      BY <1>7, <2>8
    <3> QED BY <2>1, <2>2, <2>3, <2>4, <2>5, <2>6, <2>7, <2>8, <3>1
  <2> QED BY <2>8 DEF Named
<1>9. ASSUME DestinationFits(flags)
      PROVE  AsAsked(flags, DeclaredFlags(kind) \ (ListFlags \cup {"tag"}), spec)
  <2>1. AsAsked(flags, {"git", "gitRevision", "blob", "localPath", "destination"}, spec)
    <3>1. Sources(flags) = {} /\ "gitRevision" \in DOMAIN flags => source.gitRevision = flags.gitRevision
      BY <1>4 DEF Flag, Given
    <3> QED BY <1>3, <1>4, <1>7, <1>9, <3>1, SourceShows
  <2>2. AsAsked(flags, {"builder", "clusterBuilder"} \cup PlainFields, spec)
    <3>1. \A f \in PlainFields \cap DOMAIN flags : spec[f] = Plain(flags, f, NoValue)
      BY <1>5, <1>7
    <3> QED BY <1>3, <1>7, <3>1, RestShows
  <2>3. "replaceTags" \in DOMAIN flags => Shown("replaceTags", flags["replaceTags"], spec)
    <3>1. "replaceTags" \in DOMAIN flags => spec.tags = flags.replaceTags
      BY <1>7 DEF SetAdditionalTags, Given
    <3> QED BY <3>1 DEF Shown
  <2>4. DeclaredFlags(kind) \ (ListFlags \cup {"tag"}) \subseteq
          {"git", "gitRevision", "blob", "localPath", "destination"} \cup ({"builder", "clusterBuilder"} \cup PlainFields)
          \cup {"replaceTags"}
    BY DEF DeclaredFlags, ImageFlags, ListFlags, PlainFields
  <2> QED BY <2>1, <2>2, <2>3, <2>4 DEF AsAsked
<1>10. ASSUME NoneIsNoSource, Whole(old) PROVE Whole(spec)
  <2>1. CASE Sources(flags) # {}
    BY <1>4, <1>7, <1>10, <2>1, GivenSourceWhole DEF Parsed
  <2>2. CASE Sources(flags) = {}
    <3>1. /\ spec.gitUrl = old.gitUrl /\ spec.blob = old.blob /\ spec.registry = old.registry
          /\ spec.gitRevision = Flag(flags, "gitRevision", old.gitRevision)
      BY <1>4, <1>7, <2>2 DEF SourceFields
    <3>2. {f \in {"gitUrl", "blob", "registry"} : spec[f] # NoValue}
            = {f \in {"gitUrl", "blob", "registry"} : old[f] # NoValue}
      BY <3>1
    <3>3. /\ Cardinality({f \in {"gitUrl", "blob", "registry"} : old[f] # NoValue}) = 1
          /\ old.gitUrl = NoValue <=> old.gitRevision = NoValue
      BY <1>10 DEF Whole
    <3>4. "gitRevision" \in DOMAIN flags => old.gitUrl # NoValue /\ flags.gitRevision # NoValue
      BY <1>3, <2>2 DEF ValidSourceUpdate, Given, Parsed
    <3>5. spec.gitUrl = NoValue <=> spec.gitRevision = NoValue
      BY <3>1, <3>3, <3>4 DEF Flag, Given
    <3> QED BY <3>2, <3>3, <3>5 DEF Whole
  <2> QED BY <2>1, <2>2
<1> QED BY <1>7, <1>8, <1>9, <1>10

-----------------------------------------------------------------------------
(* From the command line to the request                                    *)

Asking == DeclaredFlags(kind) \ (IF kind = "image" THEN OnlyOfUpdates ELSE {})
AskingUpdates == DeclaredFlags(kind) \ (IF kind = "image" THEN ListFlags \cup {"tag"} ELSE {})

\* What create and save make, of any kind.
LEMMA Made ==
  ASSUME kind \in AllKinds, NEW given, Parsed(given), NEW map, NEW spec \in MakeSpec(given, map)
  PROVE  /\ HasFields(spec)
         /\ DestinationFits(given) => AsAsked(given, Asking, spec)
         /\ NoneIsNoSource => Whole(spec)
<1>1. CASE kind = "image"
  <2>1. Asking = DeclaredFlags(kind) \ OnlyOfUpdates
    BY <1>1 DEF Asking
  <2> QED BY <1>1, <2>1, ImageMade
<1>2. CASE kind # "image"
  <2>1. Asking = DeclaredFlags(kind)
    BY <1>2 DEF Asking
  <2>2. HasFields(spec) /\ AsAsked(given, DeclaredFlags(kind), spec) /\ Whole(spec)
    BY <1>2, StackMade, LifecycleMade, BuildpackMade, BuilderMade, ConfigMade
       DEF AllKinds, ClusterKinds, BuilderKinds
  <2> QED BY <2>1, <2>2
<1> QED BY <1>1, <1>2

\* What patch and save make, of any kind.
LEMMA Updated ==
  ASSUME kind \in AllKinds, NEW flags, Parsed(flags), NEW map, NEW old, HasFields(old),
         NEW spec \in UpdateSpec(flags, old, map)
  PROVE  /\ HasFields(spec) /\ Named(flags, old, spec)
         /\ DestinationFits(flags) => AsAsked(flags, AskingUpdates, spec)
         /\ NoneIsNoSource /\ Whole(old) => Whole(spec)
<1>1. CASE kind = "image"
  <2>1. AskingUpdates = DeclaredFlags(kind) \ (ListFlags \cup {"tag"})
    BY <1>1 DEF AskingUpdates
  <2> QED BY <1>1, <2>1, ImageUpdated
<1>2. CASE kind # "image"
  <2>1. AskingUpdates = DeclaredFlags(kind)
    BY <1>2 DEF AskingUpdates
  <2>2. HasFields(spec) /\ Named(flags, old, spec) /\ AsAsked(flags, DeclaredFlags(kind), spec) /\ Whole(spec)
    BY <1>2, StackUpdated, LifecycleUpdated, BuildpackUpdated, BuilderUpdated, ConfigUpdated
       DEF AllKinds, ClusterKinds, BuilderKinds
  <2> QED BY <2>1, <2>2
<1> QED BY <1>1, <1>2

\* A patch loses no field.
LEMMA MergeKeepsFields ==
  ASSUME NEW o, HasFields(o), NEW patch
  PROVE  HasFields(ApplyMergePatch(o, patch))
<1>1. DOMAIN o = SpecFields
  BY DEF HasFields
<1> QED BY <1>1 DEF HasFields, ApplyMergePatch

\* What a process knows: its command line, what it has read, and where what it is about to
\* write comes from.
Due(p) ==
  /\ pc[p] # "idle" => line[p] \in Lines[kind]
  /\ pc[p] \in {"get", "make", "update", "create", "patch"} => line[p].verb # "delete"
  /\ pc[p] \in {"get", "update", "patch"} => line[p].verb # "create"
  /\ pc[p] \in {"update", "patch"} => HasFields(base[p].spec)
  /\ pc[p] = "create" => \E map : next[p] \in MakeSpec(line[p].flags, map)
  /\ pc[p] = "patch" => \E map : next[p] \in UpdateSpec(line[p].flags, base[p].spec, map)

DueInv ==
  /\ Shape /\ kind \in Kinds
  /\ line = [p \in Procs |-> line[p]] /\ base = [p \in Procs |-> base[p]]
  /\ object # NoValue => HasFields(object.spec)
  /\ \A p \in Procs : Due(p)

\* The parser has seen to the flags.
LEMMA LineParsed ==
  ASSUME DueInv, NEW p \in Procs, pc[p] \in {"get", "make", "update", "create", "patch"}
  PROVE  kind \in AllKinds /\ Parsed(line[p].flags)
<1>1. line[p] \in Lines[kind] /\ line[p].verb # "delete" /\ kind \in Kinds
  BY DEF DueInv, Due
<1> QED BY <1>1, LinesAssumption, ResourceAssumption DEF Parsed

\* The other processes keep their command lines and what they have read.
LEMMA LinesApart ==
  ASSUME DueInv, NEW p \in Procs, Steps(p)
  PROVE  Apart(line', line, p) /\ Apart(base', base, p)
<1>0. line = [q \in Procs |-> line[q]] /\ base = [q \in Procs |-> base[q]]
  BY DEF DueInv
<1>1. /\ line' = line => Apart(line', line, p)
      /\ base' = base => Apart(base', base, p)
  BY <1>0 DEF Apart
<1>2. ASSUME NEW x, line' = [line EXCEPT ![p] = x] PROVE Apart(line', line, p)
  BY <1>0, <1>2, ExceptApart
<1>3. ASSUME NEW x, base' = [base EXCEPT ![p] = x] PROVE Apart(base', base, p)
  BY <1>0, <1>3, ExceptApart
<1>4. ASSUME NEW l, Stop(p, l) PROVE Apart(line', line, p) /\ Apart(base', base, p)
  BY <1>1, <1>3, <1>4 DEF Stop
<1>5. CASE Fail(p)
  BY <1>4, <1>5 DEF Fail
<1>6. CASE Start(p)
  <2>1. base' = base /\ \E l : line' = [line EXCEPT ![p] = l]
    BY <1>6 DEF Start
  <2> QED BY <1>1, <1>2, <2>1
<1>7. CASE Finish(p)
  BY <1>1, <1>2, <1>7 DEF Finish
<1>8. CASE Get(p) /\ ~Fail(p)
  <2>1. line' = line /\ (base' = base \/ base' = [base EXCEPT ![p] = object])
    BY <1>8 DEF Get, locals
  <2> QED BY <1>1, <1>3, <2>1
<1>9. CASE (Make(p) \/ Update(p)) /\ ~Fail(p)
  <2>1. Stop(p, "ok") \/ UNCHANGED <<line, base>>
    <3>1. CASE Make(p)
      BY <1>9, <3>1 DEF Make
    <3>2. CASE Update(p)
      BY <1>9, <3>2 DEF Update
    <3> QED BY <1>9, <3>1, <3>2
  <2> QED BY <1>1, <1>4, <2>1
<1>10. ASSUME NEW given, Written(p, given) PROVE Apart(line', line, p) /\ Apart(base', base, p)
  BY <1>1, <1>3, <1>4, <1>10 DEF Written
<1>11. CASE (Create(p) \/ Patch(p)) /\ ~Fail(p)
  <2>1. \E given : Written(p, given)
    BY <1>11 DEF Create, Patch
  <2> QED BY <1>10, <2>1
<1>12. CASE Delete(p) /\ ~Fail(p)
  BY <1>4, <1>12 DEF Delete
<1>13. CASE Wait(p)
  BY <1>4, <1>13 DEF Wait
<1> QED BY <1>5, <1>6, <1>7, <1>8, <1>9, <1>11, <1>12, <1>13 DEF Steps, Command, Crash

\* A command that is over, or waits, has nothing due.
LEMMA OverDue ==
  ASSUME DueInv, NEW p \in Procs, pc[p] # "idle", kind' = kind, line'[p] = line[p],
         pc'[p] \in {"ok", "failed", "wait"}
  PROVE  Due(p)'
BY DEF DueInv, Due

\* The process that takes the step.
LEMMA OwnDue ==
  ASSUME DueInv, NEW p \in Procs, Steps(p)
  PROVE  Due(p)'
<1>0. /\ \A l : Goto(p, l) => pc'[p] = l
      /\ \A x : base' = [base EXCEPT ![p] = x] => base'[p] = x
      /\ \A x : next' = [next EXCEPT ![p] = x] => next'[p] = x
      /\ \A x : line' = [line EXCEPT ![p] = x] => line'[p] = x
  BY DEF DueInv, Shape, LocalsShape, Goto
<1>1. kind' = kind
  BY OthersUnmoved DEF DueInv, Shape, Moves
<1>2. Due(p)
  BY DEF DueInv
<1>3. ASSUME NEW l \in {"ok", "failed"}, Stop(p, l), pc[p] # "idle" PROVE Due(p)'
  BY <1>0, <1>1, <1>3, OverDue DEF Stop
<1>4. CASE Fail(p) /\ pc[p] # "idle"
  BY <1>3, <1>4 DEF Fail
<1>5. CASE Start(p)
  <2>1. PICK c \in Lines[kind] :
          /\ line' = [line EXCEPT ![p] = c]
          /\ Goto(p, CASE c.verb = "create" -> "make" [] c.verb = "delete" -> "delete" [] OTHER -> "get")
    BY <1>5 DEF Start
  <2>2. line'[p] = c
    BY <1>0, <2>1
  <2>3. CASE c.verb = "delete"
    <3>1. pc'[p] = "delete"
      BY <1>0, <2>1, <2>3
    <3> QED BY <1>1, <2>2, <3>1 DEF Due
  <2>4. CASE c.verb # "delete"
    <3>1. pc'[p] = "make" \/ (pc'[p] = "get" /\ c.verb # "create")
      <4>1. CASE c.verb = "create"
        BY <1>0, <2>1, <4>1
      <4>2. CASE c.verb # "create"
        BY <1>0, <2>1, <2>4, <4>2
      <4> QED BY <4>1, <4>2
    <3> QED BY <1>1, <2>2, <2>4, <3>1 DEF Due
  <2> QED BY <2>3, <2>4
<1>6. CASE Finish(p)
  <2>1. pc'[p] = "idle"
    BY <1>0, <1>6 DEF Finish
  <2> QED BY <2>1 DEF Due
<1>7. CASE Get(p) /\ ~Fail(p)
  <2>1. pc[p] = "get" /\ line' = line
    BY <1>7 DEF Get, locals
  <2>2. CASE object # NoValue /\ base' = [base EXCEPT ![p] = object] /\ Goto(p, "update")
    <3>1. pc'[p] = "update" /\ base'[p] = object /\ HasFields(object.spec)
      BY <1>0, <2>2 DEF DueInv
    <3> QED BY <1>1, <1>2, <2>1, <3>1 DEF Due, HasFields, SpecFields
  <2>3. CASE Goto(p, "make")
    <3>1. pc'[p] = "make"
      BY <1>0, <2>3
    <3> QED BY <1>1, <1>2, <2>1, <3>1 DEF Due
  <2> QED BY <1>7, <2>2, <2>3 DEF Get
<1>8. CASE Make(p) /\ ~Fail(p)
  <2>1. pc[p] = "make"
    BY <1>8 DEF Make
  <2>2. CASE Stop(p, "ok")
    BY <1>3, <2>1, <2>2
  <2>3. CASE ~Stop(p, "ok")
    <3>1. PICK map \in {config, NoValue} : \E spec \in MakeSpec(line[p].flags, map) :
            next' = [next EXCEPT ![p] = spec] /\ Goto(p, "create") /\ UNCHANGED <<line, base>>
      BY <1>8, <2>3 DEF Make
    <3>2. PICK spec \in MakeSpec(line[p].flags, map) :
            next' = [next EXCEPT ![p] = spec] /\ Goto(p, "create") /\ UNCHANGED <<line, base>>
      BY <3>1
    <3>3. pc'[p] = "create" /\ next'[p] = spec /\ line' = line
      BY <1>0, <3>2
    <3>4. spec \in MakeSpec(line[p].flags, map)'
      BY <1>1, <3>2, <3>3, Zenon DEF MakeSpec, Defaults
    <3>5. \E m : next'[p] \in MakeSpec(line[p].flags, m)'
      BY <3>3, <3>4
    <3> QED BY <1>1, <1>2, <2>1, <3>3, <3>5 DEF Due
  <2> QED BY <2>2, <2>3
<1>9. CASE Update(p) /\ ~Fail(p)
  <2>1. pc[p] = "update"
    BY <1>9 DEF Update
  <2>2. CASE Stop(p, "ok")
    BY <1>3, <2>1, <2>2
  <2>3. CASE ~Stop(p, "ok")
    <3>1. PICK map \in {config, NoValue} : \E spec \in UpdateSpec(line[p].flags, base[p].spec, map) :
            next' = [next EXCEPT ![p] = spec] /\ Goto(p, "patch") /\ UNCHANGED <<line, base>>
      BY <1>9, <2>3 DEF Update
    <3>2. PICK spec \in UpdateSpec(line[p].flags, base[p].spec, map) :
            next' = [next EXCEPT ![p] = spec] /\ Goto(p, "patch") /\ UNCHANGED <<line, base>>
      BY <3>1
    <3>3. pc'[p] = "patch" /\ next'[p] = spec /\ line' = line /\ base' = base
      BY <1>0, <3>2
    <3>4. spec \in UpdateSpec(line[p].flags, base[p].spec, map)'
      BY <1>1, <3>2, <3>3, Zenon DEF UpdateSpec
    <3>5. \E m : next'[p] \in UpdateSpec(line[p].flags, base[p].spec, m)'
      BY <3>3, <3>4
    <3> QED BY <1>1, <1>2, <2>1, <3>3, <3>5 DEF Due, HasFields, SpecFields
  <2> QED BY <2>2, <2>3
<1>10. ASSUME NEW given, Written(p, given), pc[p] # "idle" PROVE Due(p)'
  <2>1. CASE Stop(p, "ok")
    BY <1>3, <1>10, <2>1
  <2>2. CASE Goto(p, "wait") /\ line' = line
    BY <1>0, <1>1, <1>10, <2>2, OverDue
  <2> QED BY <1>10, <2>1, <2>2 DEF Written
<1>11. CASE (Create(p) \/ Patch(p)) /\ ~Fail(p)
  <2>1. pc[p] # "idle" /\ \E given : Written(p, given)
    BY <1>11 DEF Create, Patch
  <2> QED BY <1>10, <2>1
<1>12. CASE Delete(p) /\ ~Fail(p)
  BY <1>3, <1>12 DEF Delete
<1>13. CASE Wait(p)
  <2>1. PICK status : Stop(p, IF status.ready = "False" THEN "failed" ELSE "ok")
    BY <1>13 DEF Wait
  <2>2. Stop(p, "failed") \/ Stop(p, "ok")
    BY <2>1
  <2> QED BY <1>3, <1>13, <2>2 DEF Wait
<1>14. Fail(p) => pc[p] # "idle" \/ Start(p) \/ Finish(p)
  BY DEF Steps, Command, Crash, Get, Make, Update, Create, Patch, Delete, Wait
<1> QED BY <1>4, <1>5, <1>6, <1>7, <1>8, <1>9, <1>11, <1>12, <1>13, <1>14 DEF Steps, Command, Crash

\* An invariant of every step.
LEMMA DueNext == ASSUME DueInv, [Next]_vars PROVE DueInv'
<1>0. Shape /\ Shape'
  BY ShapeNext DEF DueInv
<1>1. ASSUME NEW p \in Procs, Steps(p) PROVE DueInv'
  <2>1. Moves(p) /\ Apart(line', line, p) /\ Apart(base', base, p)
    BY <1>0, <1>1, OthersUnmoved, LinesApart DEF Shape
  <2>2. kind' = kind /\ kind' \in Kinds
    BY <2>1 DEF Moves, DueInv
  <2>3. line' = [q \in Procs |-> line'[q]] /\ base' = [q \in Procs |-> base'[q]]
    BY <2>1 DEF Apart
  <2>4. ASSUME NEW q \in Procs \ {p} PROVE Due(q)'
    <3>1. Due(q)
      BY DEF DueInv
    <3>2. pc'[q] = pc[q] /\ next'[q] = next[q] /\ line'[q] = line[q] /\ base'[q] = base[q]
      BY <2>1 DEF Moves, Apart
    <3>3. pc[q] = "create" => \E map : next'[q] \in MakeSpec(line[q].flags, map)'
      <4>1. SUFFICES ASSUME pc[q] = "create" PROVE \E map : next'[q] \in MakeSpec(line[q].flags, map)'
        OBVIOUS
      <4>2. PICK map : next[q] \in MakeSpec(line[q].flags, map)
        BY <3>1, <4>1 DEF Due
      <4>3. next'[q] \in MakeSpec(line[q].flags, map)'
        BY <2>2, <3>2, <4>2, Zenon DEF MakeSpec, Defaults
      <4> QED BY <4>3
    <3>4. pc[q] = "patch" => \E map : next'[q] \in UpdateSpec(line[q].flags, base[q].spec, map)'
      <4>1. SUFFICES ASSUME pc[q] = "patch" PROVE \E map : next'[q] \in UpdateSpec(line[q].flags, base[q].spec, map)'
        OBVIOUS
      <4>2. PICK map : next[q] \in UpdateSpec(line[q].flags, base[q].spec, map)
        BY <3>1, <4>1 DEF Due
      <4>3. next'[q] \in UpdateSpec(line[q].flags, base[q].spec, map)'
        BY <2>2, <3>2, <4>2, Zenon DEF UpdateSpec
      <4> QED BY <4>3
    <3> QED BY <2>2, <3>1, <3>2, <3>3, <3>4 DEF Due, HasFields, SpecFields
  <2>5. object' # NoValue => HasFields(object'.spec)
    <3>1. CASE object' = object \/ object' = NoValue
      BY <3>1 DEF DueInv
    <3>2. CASE /\ pc[p] = "create"
               /\ object' = [spec |-> next[p], gen |-> 1, observed |-> 0, ready |-> "Unknown"]
      <4>1. PICK map : next[p] \in MakeSpec(line[p].flags, map)
        BY <3>2 DEF DueInv, Due
      <4>2. kind \in AllKinds /\ Parsed(line[p].flags)
        BY <3>2, LineParsed
      <4> QED BY <3>2, <4>1, <4>2, Made
    <3>3. ASSUME object # NoValue, NEW gen \in Nat,
                 object' = [spec |-> ApplyMergePatch(object.spec, CreatePatch(base[p].spec, next[p])),
                            gen |-> gen, observed |-> object.observed, ready |-> object.ready]
          PROVE  HasFields(object'.spec)
      <4>1. HasFields(object.spec)
        BY <3>3 DEF DueInv
      <4>2. object'.spec = ApplyMergePatch(object.spec, CreatePatch(base[p].spec, next[p]))
        BY <3>3
      <4> QED BY <4>1, <4>2, MergeKeepsFields
    <3> QED BY <1>0, <1>1, <3>1, <3>2, <3>3, ObjectSteps DEF Shape
  <2>6. (object # NoValue => HasFields(object.spec))'
    BY <2>2, <2>5 DEF HasFields, SpecFields
  <2> QED BY <1>0, <1>1, <2>2, <2>3, <2>4, <2>6, OwnDue DEF DueInv
<1>2. CASE SetConfig \/ Reconcile \/ UNCHANGED vars
  <2>1. /\ UNCHANGED <<kind, pc, next>>
        /\ object' # NoValue => object # NoValue /\ object'.spec = object.spec
    BY <1>0, <1>2, OthersForm DEF Shape
  <2>2. UNCHANGED <<line, base>>
    BY <1>2 DEF SetConfig, Reconcile, vars, locals
  <2>3. ASSUME NEW q \in Procs PROVE Due(q)'
    BY <2>1, <2>2, Zenon DEF DueInv, Due, MakeSpec, Defaults, UpdateSpec, HasFields, SpecFields
  <2> QED BY <1>0, <2>1, <2>2, <2>3 DEF DueInv, HasFields, SpecFields
<1> QED BY <1>1, <1>2 DEF Next, Steps

\* At the start nothing is due.
LEMMA DueInit == Init => DueInv
BY ShapeInit DEF Init, DueInv, Due

-----------------------------------------------------------------------------
(* What a request does                                                     *)

\* A patch between two specs of a kind, sent to the first of them, makes it the second; and
\* there is none only between equal ones.
LEMMA PatchOfFields ==
  ASSUME NEW old, HasFields(old), NEW new, HasFields(new)
  PROVE  /\ ApplyMergePatch(old, CreatePatch(old, new)) = new
         /\ ~HasPatch(CreatePatch(old, new)) => new = old
<1> DEFINE V == {old[f] : f \in SpecFields} \cup {new[f] : f \in SpecFields}
<1>1. old \in [SpecFields -> V] /\ new \in [SpecFields -> V]
  BY DEF HasFields
<1> HIDE DEF V
<1> QED BY <1>1, PatchCompletes, NoPatchNoChange

\* Only its own step takes a command further.
LEMMA OwnStep ==
  ASSUME DueInv, [Next]_vars, NEW p \in Procs, pc'[p] # pc[p]
  PROVE  Steps(p)
<1>1. CASE SetConfig \/ Reconcile \/ UNCHANGED vars
  BY <1>1, OthersForm DEF DueInv, Shape
<1>2. ASSUME NEW q \in Procs, Steps(q), q # p PROVE FALSE
  BY <1>2, OthersUnmoved DEF DueInv, Shape, Moves, Apart
<1> QED BY <1>1, <1>2 DEF Next, Steps

\* The request of create.
LEMMA CreateRequest ==
  ASSUME DueInv, NEW p \in Procs, Steps(p), pc[p] = "create", pc'[p] \in {"wait", "ok"}
  PROVE  object'.spec = next[p]
<1>1. \A l : Stop(p, l) => pc'[p] = l
  BY DEF DueInv, Shape, LocalsShape, Stop, Goto
<1>2. ~Fail(p)
  BY <1>1 DEF Fail
<1>3. Create(p)
  BY <1>2 DEF Steps, Command, Crash, Start, Get, Make, Update, Patch, Delete, Wait, Finish
<1> QED BY <1>2, <1>3 DEF Create

\* A patch that is not sent because nothing changes.
LEMMA NothingToSend ==
  ASSUME DueInv, NEW p \in Procs, Steps(p), pc[p] = "update", pc'[p] \in {"wait", "ok"}, ~IsDryRun(p)
  PROVE  object' = object /\ \E map : base[p].spec \in UpdateSpec(line[p].flags, base[p].spec, map)
<1>0. \A l : Goto(p, l) => pc'[p] = l
  BY DEF DueInv, Shape, LocalsShape, Goto
<1>1. \A l : Stop(p, l) => pc'[p] = l
  BY <1>0 DEF Stop
<1>2. ~Fail(p)
  BY <1>1 DEF Fail
<1>3. Update(p)
  BY <1>2 DEF Steps, Command, Crash, Start, Get, Make, Create, Patch, Delete, Wait, Finish
<1>4. PICK map \in {config, NoValue} : \E spec \in UpdateSpec(line[p].flags, base[p].spec, map) :
        /\ ~HasPatch(CreatePatch(base[p].spec, spec))
        /\ object' = object
  BY <1>0, <1>2, <1>3 DEF Update, Sends
<1>5. PICK spec \in UpdateSpec(line[p].flags, base[p].spec, map) :
        ~HasPatch(CreatePatch(base[p].spec, spec)) /\ object' = object
  BY <1>4
<1>6. HasFields(base[p].spec) /\ HasFields(spec)
  <2>1. HasFields(base[p].spec)
    BY DEF DueInv, Due
  <2> QED BY <2>1, LineParsed, Updated
<1>7. spec = base[p].spec
  BY <1>5, <1>6, PatchOfFields
<1> QED BY <1>5, <1>7

\* The request of patch.
LEMMA PatchRequest ==
  ASSUME DueInv, NEW p \in Procs, Steps(p), pc[p] = "patch", pc'[p] \in {"wait", "ok"}
  PROVE  /\ object # NoValue
         /\ object'.spec = ApplyMergePatch(object.spec, CreatePatch(base[p].spec, next[p]))
<1>1. \A l : Stop(p, l) => pc'[p] = l
  BY DEF DueInv, Shape, LocalsShape, Stop, Goto
<1>2. ~Fail(p)
  BY <1>1 DEF Fail
<1>3. Patch(p)
  BY <1>2 DEF Steps, Command, Crash, Start, Get, Make, Update, Create, Delete, Wait, Finish
<1>4. /\ object # NoValue
      /\ \E gen \in Nat : object' = [spec |-> ApplyMergePatch(object.spec, CreatePatch(base[p].spec, next[p])),
                                     gen |-> gen, observed |-> object.observed, ready |-> object.ready]
  BY <1>2, <1>3, PatchForm DEF DueInv, Shape
<1> QED BY <1>4

\* A patch brings in what its command line names, and nothing else.
LEMMA PatchIsNamed == ASSUME DueInv, [Next]_vars PROVE AssumesNoDefaults
<1> SUFFICES ASSUME NEW p \in Procs, Patches(p), NEW f \in DOMAIN object.spec, object'.spec[f] # object.spec[f]
             PROVE  \E flag \in DOMAIN line[p].flags : f \in FieldsOf(flag)
  BY DEF AssumesNoDefaults
<1>1. pc[p] = "patch" /\ pc'[p] \in {"wait", "ok"} /\ object # NoValue
  BY DEF Patches
<1>2. object'.spec = ApplyMergePatch(object.spec, CreatePatch(base[p].spec, next[p]))
  BY <1>1, OwnStep, PatchRequest
<1>3. PICK map : next[p] \in UpdateSpec(line[p].flags, base[p].spec, map)
  BY <1>1 DEF DueInv, Due
<1>4. HasFields(base[p].spec) /\ HasFields(object.spec)
  BY <1>1 DEF DueInv, Due
<1>5. HasFields(next[p]) /\ Named(line[p].flags, base[p].spec, next[p])
  BY <1>1, <1>3, <1>4, LineParsed, Updated
<1>6. f \in SpecFields
  BY <1>4 DEF HasFields
<1>7. next[p][f] # base[p].spec[f]
  <2>1. object'.spec[f] = IF f \in DOMAIN CreatePatch(base[p].spec, next[p])
                          THEN CreatePatch(base[p].spec, next[p])[f] ELSE object.spec[f]
    BY <1>2 DEF ApplyMergePatch
  <2> QED BY <2>1 DEF CreatePatch
<1> QED BY <1>5, <1>6, <1>7 DEF Named

\* Whoever else works on the object, and however old what it has read is, a patch changes
\* nothing that its command line does not name (docs/kp_builder_save.md: "No defaults will be
\* assumed for patches").
THEOREM NoDefaultsForPatchesCorrect == Spec => NoDefaultsForPatches
<1>1. DueInv /\ [Next]_vars => DueInv'
  BY DueNext
<1>2. DueInv /\ [Next]_vars => [AssumesNoDefaults]_vars
  BY PatchIsNamed
<1> QED BY DueInit, <1>1, <1>2, PTL DEF Spec, NoDefaultsForPatches

\* A command that ends well when nobody else has changed the object since it was read.
Succeeds(p) ==
  /\ pc[p] \in {"create", "update", "patch"} /\ pc'[p] \in {"wait", "ok"}
  /\ ~IsDryRun(p)
  /\ pc[p] # "create" => object # NoValue /\ object.spec = base[p].spec

\* The flags that edit a list of an image.
EditsList(p, flag) == kind = "image" /\ pc[p] # "create" /\ flag \in ListFlags

\* The object is then what the command line asks for.
LEMMA SuccessShows ==
  ASSUME DueInv, [Next]_vars, NEW p \in Procs, Succeeds(p), DestinationFits(line[p].flags),
         NEW flag \in DOMAIN line[p].flags, Counts(p, flag), ~EditsList(p, flag)
  PROVE  Shown(flag, line[p].flags[flag], object'.spec)
<1> DEFINE flags == line[p].flags
<1>1. Steps(p) /\ kind \in AllKinds /\ Parsed(flags)
  BY OwnStep, LineParsed DEF Succeeds
<1>2. flag \in DeclaredFlags(kind)
  BY <1>1 DEF Parsed
<1>3. CASE pc[p] = "create"
  <2>1. PICK map : next[p] \in MakeSpec(flags, map)
    BY <1>3 DEF DueInv, Due
  <2>2. flag \in Asking
    BY <1>2, <1>3 DEF Asking, Counts, OnlyOfUpdates
  <2>3. AsAsked(flags, Asking, next[p])
    BY <1>1, <2>1, Made
  <2>4. object'.spec = next[p]
    BY <1>1, <1>3, CreateRequest DEF Succeeds
  <2> QED BY <2>2, <2>3, <2>4 DEF AsAsked
<1>4. CASE pc[p] \in {"update", "patch"}
  <2>1. HasFields(base[p].spec) /\ object.spec = base[p].spec
    BY <1>4 DEF DueInv, Due, Succeeds
  <2>2. \E map : object'.spec \in UpdateSpec(flags, base[p].spec, map)
    <3>1. CASE pc[p] = "update"
      BY <1>1, <2>1, <3>1, NothingToSend DEF Succeeds
    <3>2. CASE pc[p] = "patch"
      <4>1. PICK map : next[p] \in UpdateSpec(flags, base[p].spec, map)
        BY <3>2 DEF DueInv, Due
      <4>2. HasFields(next[p])
        BY <1>1, <2>1, <4>1, Updated
      <4>3. object'.spec = next[p]
        BY <1>1, <2>1, <3>2, <4>2, PatchRequest, PatchOfFields DEF Succeeds
      <4> QED BY <4>1, <4>3
    <3> QED BY <1>4, <3>1, <3>2
  <2>3. AsAsked(flags, AskingUpdates, object'.spec)
    BY <1>1, <2>1, <2>2, Updated
  <2>4. flag \in AskingUpdates
    BY <1>2, <1>4 DEF AskingUpdates, Counts, EditsList
  <2> QED BY <2>3, <2>4 DEF AsAsked
<1> QED BY <1>3, <1>4 DEF Succeeds

\* TakesEffect for all flags but those that edit the lists of an image that exists.
DoesAsAskedButLists ==
  \A p \in Procs : Succeeds(p) /\ DestinationFits(line[p].flags) =>
    \A flag \in DOMAIN line[p].flags :
      Counts(p, flag) /\ ~EditsList(p, flag) => Shown(flag, line[p].flags[flag], object'.spec)

\* Whatever else a command line has, the flags that do not edit a list take effect.
THEOREM TakesEffectButLists == Spec => [][DoesAsAskedButLists]_vars
<1>1. DueInv /\ [Next]_vars => DueInv'
  BY DueNext
<1>2. DueInv /\ [Next]_vars => [DoesAsAskedButLists]_vars
  BY SuccessShows DEF DoesAsAskedButLists
<1> QED BY DueInit, <1>1, <1>2, PTL DEF Spec

\* No sequence of commands that do not overlap takes apart what belongs together: the id of a
\* stack and its two images, the one source of an image and its revision.
THEOREM StaysWholeCorrect == ASSUME NoneIsNoSource PROVE Spec => StaysWhole
<1>1. DueInv /\ [Next]_vars => DueInv'
  BY DueNext
<1>2. ASSUME DueInv, [Next]_vars PROVE KeepsWhole
  <2> SUFFICES ASSUME NEW p \in Procs, pc[p] \in {"create", "patch"}, pc'[p] \in {"wait", "ok"},
                      pc[p] = "patch" => object # NoValue /\ object.spec = base[p].spec /\ Whole(object.spec)
               PROVE  Whole(object'.spec)
    BY DEF KeepsWhole
  <2>1. Steps(p) /\ kind \in AllKinds /\ Parsed(line[p].flags)
    BY <1>2, OwnStep, LineParsed
  <2>2. CASE pc[p] = "create"
    <3>1. PICK map : next[p] \in MakeSpec(line[p].flags, map)
      BY <1>2, <2>2 DEF DueInv, Due
    <3>2. object'.spec = next[p]
      BY <1>2, <2>1, <2>2, CreateRequest
    <3> QED BY <2>1, <3>1, <3>2, Made
  <2>3. CASE pc[p] = "patch"
    <3>1. PICK map : next[p] \in UpdateSpec(line[p].flags, base[p].spec, map)
      BY <1>2, <2>3 DEF DueInv, Due
    <3>2. HasFields(base[p].spec)
      BY <1>2, <2>3 DEF DueInv, Due
    <3>3. HasFields(next[p]) /\ Whole(next[p])
      BY <2>1, <2>3, <3>1, <3>2, Updated
    <3>4. object'.spec = ApplyMergePatch(base[p].spec, CreatePatch(base[p].spec, next[p]))
      BY <1>2, <2>1, <2>3, PatchRequest
    <3>5. object'.spec = next[p]
      BY <3>2, <3>3, <3>4, PatchOfFields
    <3> QED BY <3>3, <3>5
  <2> QED BY <2>2, <2>3
<1>3. DueInv /\ [Next]_vars => [KeepsWhole]_vars
  BY <1>2
<1> QED BY DueInit, <1>1, <1>3, PTL DEF Spec, StaysWhole
=============================================================================
