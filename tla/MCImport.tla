------------------------------ MODULE MCImport ------------------------------
(***************************************************************************)
(* Instances of Import small enough for TLC.                               *)
(***************************************************************************)
EXTENDS Import, TLC

CONSTANTS p1, p2, r1, r2, i1, i2, i3, j1, k1, k2

\* The images of two stacks, and the buildpackages and the lifecycle that have no stack id.
OneId == [i \in Images |-> "id"]
TwoIds == [i \in Images |-> IF i = j1 THEN "id2" ELSE "id"]

NoDefaults == [lifecycles |-> <<>>, buildpacks |-> <<>>, stores |-> <<>>, stacks |-> <<>>,
               builders |-> <<>>, defaultLifecycle |-> NoName,
               defaultStack |-> NoName, defaultBuilder |-> NoName]

Image(name, image) == [name |-> name, image |-> image]
StoreOf(name, images) == [name |-> name, images |-> images]
StackOf(name, build, run) == [name |-> name, build |-> build, run |-> run]
BuilderOf(name, stack, store) == [name |-> name, stack |-> stack, store |-> store]

Cmd(descriptor, mode) == [descriptor |-> descriptor, mode |-> mode, show |-> FALSE]
Show(descriptor, mode) == [Cmd(descriptor, mode) EXCEPT !.show = TRUE]

\* A release, and the next one: a new run image, one more buildpackage.
Release(images, run) ==
  [NoDefaults EXCEPT !.stores = <<StoreOf("s", images)>>, !.stacks = <<StackOf("s", i1, run)>>,
                     !.builders = <<BuilderOf("s", "s", "s")>>]
First == Release(<<k1>>, i2)
Second == Release(<<k2, k1, k2>>, i3)

\* A release with the run image of another stack.
Mismatch == [NoDefaults EXCEPT !.stacks = <<StackOf("s", i1, j1)>>]

SequentialCommands == {Show(First, "live"), Show(Second, "live")}

\* A store that is listed without buildpackages.
Empty == [NoDefaults EXCEPT !.stores = <<StoreOf("s", <<>>)>>]

ReleaseCommands == SequentialCommands \cup {Cmd(Mismatch, "live"), Cmd(Empty, "live")}

\* Every kind of resource and every default; and another run image in an older format.
Full ==
  [NoDefaults EXCEPT !.lifecycles = <<Image("s", i1)>>, !.buildpacks = <<Image("s", k1)>>, !.stores = <<StoreOf("s", <<k1>>)>>,
                     !.stacks = <<StackOf("s", i1, i2)>>, !.builders = <<BuilderOf("s", "s", "s")>>,
                     !.defaultLifecycle = "s", !.defaultStack = "s", !.defaultBuilder = "s"]
Invalid == [NoDefaults EXCEPT !.stacks = <<StackOf("s", i1, i2), StackOf("s", i1, i2)>>]
V1Alpha3 ==
  FromV1Alpha3([lifecycle |-> <<i1>>, stores |-> <<StoreOf("s", <<k1, k2>>)>>,
                stacks |-> <<StackOf("s", i1, i3)>>,
                builders |-> <<>>, defaultStack |-> NoName, defaultBuilder |-> NoName])
FullCommands == {Show(Full, m) : m \in Modes} \cup {Show(V1Alpha3, "live"), Cmd(Invalid, "live")}

ABuilder == {<<"builder", "s">>}
AStore == {<<"store", "s">>}

\* Imports that overlap.
SmallCommands ==
  {Cmd([NoDefaults EXCEPT !.stores = <<StoreOf("s", <<k1, k2>>)>>,
                          !.stacks = <<StackOf("s", i1, i2)>>], "live"),
   Cmd([NoDefaults EXCEPT !.stores = <<StoreOf("s", <<k2>>)>>], "upload"),
   Cmd([NoDefaults EXCEPT !.stacks = <<StackOf("s", i1, i3)>>], "dry")}

\* No command line names a process or a repository.
Symmetry == Permutations(Procs) \cup Permutations(Repos)
=============================================================================
