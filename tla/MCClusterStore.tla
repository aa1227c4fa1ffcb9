--------------------------- MODULE MCClusterStore ---------------------------
(***************************************************************************)
(* Instances of ClusterStore small enough for TLC.                         *)
(***************************************************************************)
EXTENDS ClusterStore, TLC

CONSTANTS p1, p2, r1, r2, k1, k2, k3, b1, b2

Cmd(kind, mode, packages, buildpacks) ==
  [kind |-> kind, mode |-> mode, packages |-> packages, buildpacks |-> buildpacks]

\* k1 and k2 hold one buildpack each, of their own.
OneEach == [k \in Packages |-> {b \in Buildpacks : <<k, b>> \in {<<k1, b1>>, <<k2, b2>>}}]

\* k1 is a composite: it holds its own buildpack and one that k2 holds, too.
Overlapping == [k \in Packages |-> IF k = k1 THEN {b1, b2} ELSE {b2}]

Delete == Cmd("delete", "live", <<>>, <<>>)

\* One terminal: every kind of command, in every mode it has.
Sequential ==
  {Cmd("create", m, <<k1, k2>>, <<>>) : m \in {"live", "dry", "upload"}}
  \cup {Cmd("add", m, s, <<>>) : m \in {"live", "dry", "upload"}, s \in {<<k2>>, <<k1, k1>>}}
  \cup {Cmd("save", m, <<k1>>, <<>>) : m \in {"live", "dry"}}
  \cup {Cmd("remove", m, <<>>, s) : m \in {"live", "dry"}, s \in {<<b1>>, <<b2, b1, b2>>}}
  \cup {Delete}

\* Commands that overlap.
Concurrent ==
  {Cmd("save", "live", <<k1>>, <<>>), Cmd("add", "live", <<k2>>, <<>>),
   Cmd("create", "upload", <<k2, k1>>, <<>>), Cmd("remove", "live", <<>>, <<b1>>), Delete}

\* Two people add different buildpackages to one store, and nothing is ever removed.
OnlyAdding == {Cmd("create", "live", <<k3>>, <<>>), Cmd("add", "live", <<k1>>, <<>>),
               Cmd("add", "live", <<k2>>, <<>>)}

\* No command line names a repository or a process.
Symmetry == Permutations({p1, p2}) \cup Permutations({r1, r2})
=============================================================================
