----------------------------- MODULE MergePatch -----------------------------
(***************************************************************************)
(* JSON merge patches, the only way kp updates a Kubernetes object.        *)
(*                                                                         *)
(* Every update command reads an object, edits a copy, diffs the two with  *)
(* CreatePatch (pkg/k8s/patch.go) and sends the difference.  An object is  *)
(* a function from field names to values.  A list is ONE field: a merge    *)
(* patch replaces it whole, and where both sides of the diff come from the *)
(* same read (everywhere but in LifecycleConfig) the resource version is   *)
(* never part of the patch, so that the server has nothing to detect a     *)
(* concurrent change with.                                                 *)
(***************************************************************************)

\* The fields an edit changed, with their new values.
CreatePatch(original, updated) ==
  LET changed == {f \in DOMAIN updated : original[f] # updated[f]}
  IN  [f \in changed |-> updated[f]]

\* CreatePatch returns nil bytes for "{}", and callers test len(patch) > 0.
HasPatch(patch) == DOMAIN patch # {}

\* The API server's merge: fields of the patch win, the others stay as they are.
ApplyMergePatch(object, patch) ==
  [f \in DOMAIN object |-> IF f \in DOMAIN patch THEN patch[f] ELSE object[f]]
=============================================================================
