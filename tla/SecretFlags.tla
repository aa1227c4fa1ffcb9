---------------------------- MODULE SecretFlags ----------------------------
(***************************************************************************)
(* Which secret the flags of `kp secret create` ask for                    *)
(* (Factory.MakeSecret, pkg/secret/factory.go).  A command line is the set *)
(* of the flags that are not empty, whether they were typed or filled in   *)
(* from GCR_SERVICE_ACCOUNT_PATH and GIT_SSH_KEY_PATH.                     *)
(***************************************************************************)
EXTENDS FiniteSets

Flags == {"dockerhub", "registry", "gcr", "git", "registry-user", "git-user", "git-ssh-key"}

\* The shape of --git-url: what the two regular expressions of the factory accept.
UrlForms == {"https", "ssh", "host", "other"}
GitHttpUrl == {"https", "host"}
GitSshUrl == {"ssh", "host"}

\* validate(): f is the set of flags, url the form of --git-url.
Valid(f, url) ==
  /\ Cardinality(f \cap {"dockerhub", "registry", "gcr", "git"}) = 1
  /\ "dockerhub" \in f => f = {"dockerhub"}
  /\ "gcr" \in f => f = {"gcr"}
  /\ "registry" \in f => "registry-user" \in f /\ Cardinality(f) = 2
  /\ "git" \in f => /\ "git-user" \in f \/ "git-ssh-key" \in f
                    /\ ~({"git-user", "git-ssh-key"} \subseteq f)
                    /\ Cardinality(f) = 2
  /\ "git-user" \in f => url \in GitHttpUrl
  /\ "git-ssh-key" \in f => url \in GitSshUrl

\* getSecretKind(): the first match wins.
SecretKind(f) ==
  IF "dockerhub" \in f THEN "dockerhub"
  ELSE IF {"registry", "registry-user"} \subseteq f THEN "registry"
  ELSE IF "gcr" \in f THEN "gcr"
  ELSE IF {"git", "git-ssh-key"} \subseteq f THEN "git ssh"
  ELSE IF {"git", "git-user"} \subseteq f THEN "git basic auth"
  ELSE "unknown"

\* The type of the secret of each kind.
SecretType(kind) ==
  CASE kind = "git ssh"        -> "ssh-auth"
    [] kind = "git basic auth" -> "basic-auth"
    [] OTHER                   -> "dockerconfigjson"

\* What MakeSecret returns for the command lines that it does not refuse.
MadeTypes == {SecretType(SecretKind(f)) : f \in {f \in SUBSET Flags : \E url \in UrlForms : Valid(f, url)}}

\* The parameters each kind of secret is made from.
Needs(kind) ==
  CASE kind = "dockerhub"      -> {"dockerhub"}
    [] kind = "registry"       -> {"registry", "registry-user"}
    [] kind = "gcr"            -> {"gcr"}
    [] kind = "git ssh"        -> {"git", "git-ssh-key"}
    [] kind = "git basic auth" -> {"git", "git-user"}
    [] OTHER                   -> {}

\* Validation and the choice of the kind are written apart and agree: no flag that was
\* given is silently left out of the secret, and none it needs is missing.
ASSUME NothingIgnored ==
  \A f \in SUBSET Flags, url \in UrlForms : Valid(f, url) => f # {} /\ f = Needs(SecretKind(f))

\* No flags that some kind needs are turned away, but for the form of the url.
ASSUME NothingRefused ==
  \A f \in SUBSET Flags, url \in UrlForms :
    f # {} /\ f = Needs(SecretKind(f)) /\ ~Valid(f, url) => "git" \in f /\ url # "host"
=============================================================================
