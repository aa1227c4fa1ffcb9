--------------------------- MODULE StoreContents ---------------------------
(***************************************************************************)
(* What `kp clusterstore` promises, free of patches, uploads and statuses: *)
(* a store holds a set of buildpackages, and a run of kp changes that set  *)
(* at most once, in the step in which it is done, by what its own command  *)
(* line names and in no other way.                                         *)
(***************************************************************************)
CONSTANTS
  Procs,        \* runs of kp
  CommandLines, \* what they may be asked for: a kind, whether it is for real, names
  NoLine        \* the line of a process that runs no command

VARIABLES
  exists, contents, \* the store
  phase,            \* of each process: idle, running, done or stopped
  line              \* what it was asked for

vars == <<exists, contents, phase, line>>
store == <<exists, contents>>

Init ==
  /\ ~exists /\ contents = {}
  /\ phase = [p \in Procs |-> "idle"]
  /\ line = [p \in Procs |-> NoLine]

Moves(p, from, to) == phase[p] = from /\ phase' = [phase EXCEPT ![p] = to]

Begin(p) ==
  /\ Moves(p, "idle", "running")
  /\ \E l \in CommandLines : line' = [line EXCEPT ![p] = l]
  /\ UNCHANGED store

\* From here on a save is an add to the store, or the creation of one.
Resolve(p) ==
  /\ phase[p] = "running" /\ line[p].kind = "save"
  /\ line' = [line EXCEPT ![p].kind = IF exists THEN "add" ELSE "create"]
  /\ UNCHANGED <<store, phase>>

\* The one step in which a command of that kind may change the store.
Takes(p, kind) ==
  /\ Moves(p, "running", "done")
  /\ line[p].kind = kind /\ line[p].live
  /\ UNCHANGED line

Create(p) == Takes(p, "create") /\ ~exists /\ exists' /\ line[p].names # {} /\ contents' = line[p].names

Add(p) == Takes(p, "add") /\ exists /\ exists' /\ contents' = contents \cup line[p].names

\* A remove may report success and take out less than it names: it counts off the images a
\* status lists, and a stale status lists images that are gone under another name.
Remove(p) ==
  /\ Takes(p, "remove")
  /\ exists /\ exists'
  /\ \E t \in SUBSET line[p].names : contents' = contents \ t

Delete(p) == Takes(p, "delete") /\ exists /\ ~exists' /\ contents' = {}

\* The user is asked, and says no.
Decline(p) == Takes(p, "delete") /\ UNCHANGED store

DryRun(p) ==
  /\ Moves(p, "running", "done")
  /\ ~line[p].live
  /\ line[p].kind \in {"add", "remove"} => exists
  /\ UNCHANGED <<store, line>>

\* A failure, before the store is changed or while the controller is waited for.
Stop(p) == (Moves(p, "running", "stopped") \/ Moves(p, "done", "stopped")) /\ UNCHANGED <<store, line>>

End(p) ==
  /\ Moves(p, "done", "idle") \/ Moves(p, "stopped", "idle")
  /\ line' = [line EXCEPT ![p] = NoLine]
  /\ UNCHANGED store

Step(p) ==
  \/ Begin(p) \/ Resolve(p) \/ Create(p) \/ Add(p) \/ Remove(p) \/ Delete(p) \/ Decline(p)
  \/ DryRun(p) \/ Stop(p) \/ End(p)

Next == \E p \in Procs : Step(p)

Spec == Init /\ [][Next]_vars
=============================================================================
