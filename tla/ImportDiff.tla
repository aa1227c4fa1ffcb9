------------------------------ MODULE ImportDiff ------------------------------
(***************************************************************************)
(* The summary that `kp import --show-changes` prints before it asks       *)
(* whether to go on (pkg/import): what of each resource is compared, and   *)
(* with what.  It is made before anything is uploaded, so the references   *)
(* the images will have are worked out from their digests.                 *)
(***************************************************************************)
EXTENDS Descriptor

CONSTANT NoRepo  \* default.repository is not set

\* RelocatedImage: the repository and the digest.
Relocated(dst, images) == {<<dst, i>> : i \in images}

\* It fails without a default repository; a builder has no image to ask it for.
CanSummarize(item, dst) == item.images # <<>> => dst # NoRepo

\* Bug: the run image of a stack is not looked at.
ComparedFieldsWithoutRunImage(kind) ==
  CASE kind \in {"lifecycle", "buildpack"} -> {"image"}
    [] kind = "stack" -> {"build"}
    [] kind = "store" -> {"sources"}
    [] kind = "builder" -> {"stack", "store"}

\* What the Diffable of each kind holds: not the tag of a builder, nor its account.
ComparedFields(kind) ==
  CASE kind \in {"lifecycle", "buildpack"} -> {"image"}
    [] kind = "stack" -> {"build", "run"}
    [] kind = "store" -> {"sources"}
    [] kind = "builder" -> {"stack", "store"}

Compared(kind, spec) == [f \in ComparedFields(kind) |-> spec[f]]

\* DiffClusterStore: only references that the store lacks, and none for an empty store
\* even if it is new.
DiffClusterStore(item, object, dst) ==
  Relocated(dst, {item.images[k] : k \in DOMAIN item.images})
    \ (IF object.exists THEN object.spec.sources ELSE {}) # {}

\* The other kinds: the resource is new, or differs in a field that is compared.
DiffOther(item, object, new) ==
  object.exists => Compared(item.kind, object.spec) # Compared(item.kind, new)
===============================================================================
