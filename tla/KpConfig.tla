------------------------------ MODULE KpConfig ------------------------------
(***************************************************************************)
(* The ConfigMap kp-config in the namespace kpack (pkg/config): which      *)
(* repository kp uploads to, and which service account new cluster-scoped  *)
(* resources get.  Every setting is kept under two keys, a current and a   *)
(* historical one; readers prefer the current one.                         *)
(*                                                                         *)
(* A map is a record of all six keys.  A map whose keys are all unset has  *)
(* no data at all.                                                         *)
(***************************************************************************)
EXTENDS Fields

CONSTANTS
  DefaultAccount,  \* the service account "default" in the namespace "kpack"
  KpackNamespace   \* the namespace "kpack"

\* Where each setting is kept: under a current and a historical key.
Settings == {"repository", "account", "namespace"}
ConfigKeys == Settings \X {"default", "canonical"}

NoData == [k \in ConfigKeys |-> NoValue]

\* The setting in a map: the current key, or else the historical one.
Setting(map, s) ==
  IF map[<<s, "default">>] # NoValue THEN map[<<s, "default">>] ELSE map[<<s, "canonical">>]

\* GetKpConfig: a map that cannot be read, for whatever reason, is one without data.
GetKpConfig(map) == IF map = NoValue THEN NoData ELSE map

\* DefaultRepository() fails if there is none: the set of what it may return.
DefaultRepository(map) == {Setting(GetKpConfig(map), "repository")} \ {NoValue}

\* ServiceAccount(): without a name the namespace does not count either.
ServiceAccount(map) ==
  LET config    == GetKpConfig(map)
      namespace == Setting(config, "namespace")
  IN  IF Setting(config, "account") = NoValue THEN DefaultAccount
      ELSE <<Setting(config, "account"), IF namespace = NoValue THEN KpackNamespace ELSE namespace>>

\* Bug: only the current key is set when the map is there already.
WithSettingsCurrent(map, settings) ==
  [k \in ConfigKeys |-> IF Given(settings, k[1]) /\ k[2] = "default" THEN settings[k[1]] ELSE map[k]]

\* The edit of updateDefaultRepository and updateDefaultServiceAccount.
WithSettings(map, settings) ==
  [k \in ConfigKeys |-> Flag(settings, k[1], map[k])]

\* createKpConfigMap's data.
NewConfigMap(settings) == WithSettings(NoData, settings)

\* Writing to the data of a map that has none ends the process (assignment to a nil map).
UpdateConfigMap(map, settings) == Only(WithSettings(map, settings), map # NoData)

\* Both keys of a setting say the same: kpack and older versions of kp, which read the
\* historical keys, use the repository and the account that this kp uses.
KeysMatch(map) == \A s \in Settings : map[<<s, "default">>] = map[<<s, "canonical">>]
=============================================================================
