-------------------------- MODULE MergePatchProofs --------------------------
(***************************************************************************)
(* What a merge patch does to an object, whoever changed it in between.    *)
(***************************************************************************)
EXTENDS MergePatch, TLAPS

\* On the object it was computed from, a patch is the whole edit: what
\* CreatePatch leaves out (pkg/k8s/patch.go) is what the edit did not change.
THEOREM PatchCompletes ==
  ASSUME NEW F, NEW V, NEW original \in [F -> V], NEW updated \in [F -> V]
  PROVE  ApplyMergePatch(original, CreatePatch(original, updated)) = updated
<1> DEFINE patch == CreatePatch(original, updated)
<1>1. DOMAIN patch = {f \in F : original[f] # updated[f]}
  BY DEF CreatePatch
<1>2. \A f \in DOMAIN patch : patch[f] = updated[f]
  BY DEF CreatePatch
<1> HIDE DEF patch
<1>3. \A f \in F : (IF f \in DOMAIN patch THEN patch[f] ELSE original[f]) = updated[f]
  BY <1>1, <1>2
<1>4. ApplyMergePatch(original, patch)
        = [f \in F |-> IF f \in DOMAIN patch THEN patch[f] ELSE original[f]]
  BY DEF ApplyMergePatch
<1> QED
  BY <1>3, <1>4 DEF patch

\* On any other object it keeps every field the edit did not touch, and it replaces
\* the touched ones whole: nothing another writer put into them survives.
THEOREM PatchFrame ==
  ASSUME NEW F, NEW V, NEW object \in [F -> V],
         NEW original \in [F -> V], NEW updated \in [F -> V], NEW f \in F
  PROVE  ApplyMergePatch(object, CreatePatch(original, updated))[f]
           = IF original[f] = updated[f] THEN object[f] ELSE updated[f]
<1> DEFINE patch == CreatePatch(original, updated)
<1>1. DOMAIN patch = {g \in F : original[g] # updated[g]}
  BY DEF CreatePatch
<1>2. \A g \in DOMAIN patch : patch[g] = updated[g]
  BY DEF CreatePatch
<1> HIDE DEF patch
<1>3. ApplyMergePatch(object, patch)
        = [g \in F |-> IF g \in DOMAIN patch THEN patch[g] ELSE object[g]]
  BY DEF ApplyMergePatch
<1> QED
  BY <1>1, <1>2, <1>3 DEF patch

\* Nothing is sent exactly when the edit changed nothing (len(patch) > 0).
THEOREM NoPatchNoChange ==
  ASSUME NEW F, NEW V, NEW original \in [F -> V], NEW updated \in [F -> V]
  PROVE  HasPatch(CreatePatch(original, updated)) <=> original # updated
<1>1. DOMAIN CreatePatch(original, updated) = {f \in F : original[f] # updated[f]}
  BY DEF CreatePatch
<1>2. original # updated <=> \E f \in F : original[f] # updated[f]
  OBVIOUS
<1> QED
  BY <1>1, <1>2 DEF HasPatch
=============================================================================
