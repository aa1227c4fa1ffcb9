----------------------- MODULE ServiceAccountSecrets -----------------------
(***************************************************************************)
(* `kp secret create` and `kp secret delete`: two objects, the secret and  *)
(* the service account that lists it, changed by two requests.             *)
(*                                                                         *)
(* create reads the account, creates the secret, and patches the account;  *)
(* delete reads the account, patches it, and deletes the secret.  A crash  *)
(* or another kp may come in between.                                      *)
(***************************************************************************)
EXTENDS Naturals, FiniteSets, MergePatch, SecretFlags

CONSTANTS
  Procs,     \* runs of kp that may overlap
  Accounts,  \* service accounts of the namespace
  Names,     \* names of secrets
  MaxRefs    \* bound: no command starts while an account lists a name this often

Types == {"dockerconfigjson", "ssh-auth", "basic-auth"}
None == "none"

ASSUME SecretsAssumption == MaxRefs \in Nat

CommandType == [kind: {"create", "delete"}, name: Names, type: Types,
                account: Accounts, dryRun: BOOLEAN]

\* .secrets and .imagePullSecrets as the number of times each name is listed, and the
\* kpack.io/managedSecret annotation as the target it has for each name.  A target is
\* known by the type of its secret.
Account == [secrets: [Names -> Nat], pull: [Names -> Nat], managed: [Names -> Types \cup {None}]]

NoRefs == [n \in Names |-> 0]
EmptyAccount == [secrets |-> NoRefs, pull |-> NoRefs, managed |-> [n \in Names |-> None]]

VARIABLES
  secret,   \* the type of each secret of the namespace, None if it does not exist
  account,  \* the service accounts
  pc,       \* where each process is
  cmd,      \* the command it runs
  base,     \* the account it read
  next      \* the account it wants

vars == <<secret, account, pc, cmd, base, next>>

PCs == {"idle", "get", "createSecret", "patch", "deleteSecret", "ok", "failed"}

TypeOK ==
  /\ secret \in [Names -> Types \cup {None}]
  /\ account \in [Accounts -> Account]
  /\ pc \in [Procs -> PCs]
  /\ DOMAIN cmd = Procs
  /\ \A p \in Procs : pc[p] # "idle" => cmd[p] \in CommandType
  /\ base \in [Procs -> Account]
  /\ next \in [Procs -> Account]

Init ==
  /\ secret = [n \in Names |-> None]
  /\ account = [a \in Accounts |-> EmptyAccount]
  /\ pc = [p \in Procs |-> "idle"]
  /\ cmd = [p \in Procs |-> None]
  /\ base = [p \in Procs |-> EmptyAccount]
  /\ next = [p \in Procs |-> EmptyAccount]

-----------------------------------------------------------------------------

\* Bug: counted off although it is not there.
DecAlways(n) == n - 1

Dec(n) == IF n = 0 THEN 0 ELSE n - 1

\* The edits of create and updateManagedSecretsAnnotation.
Attach(sa, name, type) ==
  [secrets |-> [sa.secrets EXCEPT ![name] = @ + 1],
   pull |-> IF type = "dockerconfigjson" THEN [sa.pull EXCEPT ![name] = @ + 1] ELSE sa.pull,
   managed |-> [sa.managed EXCEPT ![name] = type]]

\* Bug: the image pull secrets are forgotten.
DetachSecretsOnly(sa, name) ==
  [secrets |-> [sa.secrets EXCEPT ![name] = Dec(@)],
   pull |-> sa.pull,
   managed |-> [sa.managed EXCEPT ![name] = None]]

\* deleteSecretsFromServiceAccount: the first match goes from either list, and the
\* annotation's entry goes only with one of them.
Detach(sa, name) ==
  [secrets |-> [sa.secrets EXCEPT ![name] = Dec(@)],
   pull |-> [sa.pull EXCEPT ![name] = Dec(@)],
   managed |-> IF sa.secrets[name] > 0 \/ sa.pull[name] > 0
               THEN [sa.managed EXCEPT ![name] = None] ELSE sa.managed]

Goto(p, label) == pc' = [pc EXCEPT ![p] = label]
Stop(p, label) == Goto(p, label) /\ UNCHANGED <<secret, account, cmd, base, next>>

Start(p) ==
  /\ pc[p] = "idle"
  /\ \E c \in CommandType :
       /\ c.kind = "create" => c.type \in MadeTypes
       /\ c.kind = "create" => \A a \in Accounts, n \in Names : account[a].secrets[n] < MaxRefs
       /\ c.kind = "delete" => ~c.dryRun /\ c.type = "basic-auth"  \* it has no such flags
       /\ cmd' = [cmd EXCEPT ![p] = c]
  /\ Goto(p, "get")
  /\ UNCHANGED <<secret, account, base, next>>

\* Bug: delete patches only when there is nothing to patch.
GetAccountSkipsPatch(p) ==
  /\ pc[p] = "get"
  /\ LET c == cmd[p]
         sa == account[c.account]
         updated == IF c.kind = "create" THEN Attach(sa, c.name, c.type) ELSE Detach(sa, c.name)
     IN  /\ base' = [base EXCEPT ![p] = sa]
         /\ next' = [next EXCEPT ![p] = updated]
         /\ Goto(p, IF c.kind = "create" THEN "createSecret"
                    ELSE IF HasPatch(CreatePatch(sa, updated)) THEN "deleteSecret" ELSE "patch")
  /\ UNCHANGED <<secret, account, cmd>>

\* "First check that service account is available before secret is created"
GetAccount(p) ==
  /\ pc[p] = "get"
  /\ LET c == cmd[p]
         sa == account[c.account]
         updated == IF c.kind = "create" THEN Attach(sa, c.name, c.type) ELSE Detach(sa, c.name)
     IN  /\ base' = [base EXCEPT ![p] = sa]
         /\ next' = [next EXCEPT ![p] = updated]
         /\ Goto(p, IF c.kind = "create" THEN "createSecret"
                    ELSE IF HasPatch(CreatePatch(sa, updated)) THEN "patch" ELSE "deleteSecret")
  /\ UNCHANGED <<secret, account, cmd>>

\* Bug: a secret that is there is overwritten.
CreateSecretApplies(p) ==
  /\ pc[p] = "createSecret"
  /\ \/ cmd[p].dryRun /\ Stop(p, "ok")
     \/ /\ ~cmd[p].dryRun
        /\ secret' = [secret EXCEPT ![cmd[p].name] = cmd[p].type]
        /\ Goto(p, "patch")
        /\ UNCHANGED <<account, cmd, base, next>>

\* The API refuses a name that is taken.
CreateSecret(p) ==
  /\ pc[p] = "createSecret"
  /\ \/ cmd[p].dryRun /\ Stop(p, "ok")
     \/ ~cmd[p].dryRun /\ secret[cmd[p].name] # None /\ Stop(p, "failed")
     \/ /\ ~cmd[p].dryRun /\ secret[cmd[p].name] = None
        /\ secret' = [secret EXCEPT ![cmd[p].name] = cmd[p].type]
        /\ Goto(p, "patch")
        /\ UNCHANGED <<account, cmd, base, next>>

PatchAccount(p) ==
  /\ pc[p] = "patch"
  /\ LET a == cmd[p].account IN
       account' = [account EXCEPT ![a] = ApplyMergePatch(account[a], CreatePatch(base[p], next[p]))]
  /\ Goto(p, IF cmd[p].kind = "create" THEN "ok" ELSE "deleteSecret")
  /\ UNCHANGED <<secret, cmd, base, next>>

DeleteSecret(p) ==
  /\ pc[p] = "deleteSecret"
  /\ \/ secret[cmd[p].name] = None /\ Stop(p, "failed")
     \/ /\ secret[cmd[p].name] # None
        /\ secret' = [secret EXCEPT ![cmd[p].name] = None]
        /\ Goto(p, "ok")
        /\ UNCHANGED <<account, cmd, base, next>>

\* An API error, an account or an annotation that cannot be read, or the end of the process.
Crash(p) == pc[p] \notin {"idle", "ok", "failed"} /\ Stop(p, "failed")

Finish(p) ==
  /\ pc[p] \in {"ok", "failed"}
  /\ Goto(p, "idle")
  /\ cmd' = [cmd EXCEPT ![p] = None]
  /\ base' = [base EXCEPT ![p] = EmptyAccount]
  /\ next' = [next EXCEPT ![p] = EmptyAccount]
  /\ UNCHANGED <<secret, account>>

Command(p) ==
  GetAccount(p) \/ CreateSecret(p) \/ PatchAccount(p) \/ DeleteSecret(p)

Next == \E p \in Procs : Start(p) \/ Command(p) \/ Crash(p) \/ Finish(p)

Spec == Init /\ [][Next]_vars

-----------------------------------------------------------------------------
(* What the two commands owe their user *)

Attached(a) == {n \in Names : account[a].secrets[n] > 0 \/ account[a].pull[n] > 0}
Succeeded(p, kind) == pc[p] = "ok" /\ cmd[p].kind = kind /\ ~cmd[p].dryRun

\* An account never lists a secret that does not exist: the secret comes first on the
\* way in and goes last on the way out, so that a crash leaves a secret nobody lists
\* rather than a reference to nothing.
NoDanglingReference == \A a \in Accounts : \A n \in Attached(a) : secret[n] # None

\* The two lists and the annotation of an account agree with each other and with the
\* secrets: each name is there once, has a target if and only if it is attached, which is
\* the one of the secret that is there, and pulls images if that is a docker secret.
AccountIsConsistent ==
  \A a \in Accounts, n \in Names :
    LET sa == account[a] IN
    /\ sa.secrets[n] = IF sa.managed[n] = None THEN 0 ELSE 1
    /\ sa.pull[n] = IF sa.managed[n] = "dockerconfigjson" THEN 1 ELSE 0
    /\ sa.managed[n] \in {None, secret[n]}

\* After a successful create the secret is attached; after a successful delete neither
\* the secret nor a reference to it is left (delete_test.go: "deletes the secret and
\* removes it from the default service account").
CommandsTakeEffect ==
  \A p \in Procs :
    LET c == cmd[p] IN
    /\ Succeeded(p, "create") => secret[c.name] = c.type /\ c.name \in Attached(c.account)
    /\ Succeeded(p, "delete") => secret[c.name] = None /\ c.name \notin Attached(c.account)
=============================================================================
