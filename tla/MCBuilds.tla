------------------------------ MODULE MCBuilds ------------------------------
(***************************************************************************)
(* An instance of Builds small enough for TLC.  The commands of Builds get *)
(* their client from KpackCompat: that its wrapper answers as a v1alpha2   *)
(* server would is checked here for one field of each sort.                *)
(***************************************************************************)
EXTENDS Builds, ImageList, KpackCompat, TLC

CONSTANTS p1, x, y

MCAsked == {[build |-> "latest"], [build |-> "number", number |-> 2], [build |-> "not a number"]}

MCV1Name ==
  [kind \in ConvertibleKinds |-> "source" :> "source" @@ "serviceAccountName" :> "serviceAccount"]

\* BuildsProofs proves this for all constants.
ASSUME WrapperAgrees ==
  \A c \in ConvertingClients, store \in Stores(Objects) :
    RequestsAgree(c, store) /\ PatchesAgree(c, store) /\ OtherPatchesAreLost(c, store)
=============================================================================
