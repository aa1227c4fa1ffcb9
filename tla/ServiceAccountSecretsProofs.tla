--------------------- MODULE ServiceAccountSecretsProofs ---------------------
(***************************************************************************)
(* Proofs about `kp secret create` and `kp secret delete`: the types for   *)
(* any number of commands, and for one command at a time on one account    *)
(* everything else, whatever crashes in between.                           *)
(***************************************************************************)
EXTENDS ServiceAccountSecrets, MergePatchProofs

-----------------------------------------------------------------------------
(* What the edits make of an account                                       *)

\* create's edit of an account is an account.
LEMMA AttachTyped ==
  ASSUME NEW sa \in Account, NEW name \in Names, NEW type \in Types
  PROVE  Attach(sa, name, type) \in Account
BY DEF Attach, Account, Types

\* So is delete's.
LEMMA DetachTyped ==
  ASSUME NEW sa \in Account, NEW name \in Names
  PROVE  Detach(sa, name) \in Account
<1>1. \A n \in Nat : Dec(n) \in Nat
  BY DEF Dec
<1>2. [sa.secrets EXCEPT ![name] = Dec(@)] \in [Names -> Nat]
  BY <1>1 DEF Account
<1>3. [sa.pull EXCEPT ![name] = Dec(@)] \in [Names -> Nat]
  BY <1>1 DEF Account
<1>4. [sa.managed EXCEPT ![name] = None] \in [Names -> Types \cup {None}]
  BY DEF Account
<1> QED BY <1>2, <1>3, <1>4 DEF Detach, Account

\* And what the server makes of an account and the patch of any such edit.
LEMMA PatchedAccount ==
  ASSUME NEW sa \in Account, NEW a \in Account, NEW b \in Account
  PROVE  ApplyMergePatch(sa, CreatePatch(a, b)) \in Account
<1> DEFINE m == ApplyMergePatch(sa, CreatePatch(a, b))
<1>0. DOMAIN sa = {"secrets", "pull", "managed"} /\ DOMAIN b = {"secrets", "pull", "managed"}
  BY DEF Account
<1>1. m = [secrets |-> m.secrets, pull |-> m.pull, managed |-> m.managed]
  BY <1>0 DEF ApplyMergePatch
<1>2. /\ m.secrets \in {sa.secrets, b.secrets}
      /\ m.pull \in {sa.pull, b.pull}
      /\ m.managed \in {sa.managed, b.managed}
  BY <1>0 DEF ApplyMergePatch, CreatePatch
<1>3. /\ m.secrets \in [Names -> Nat]
      /\ m.pull \in [Names -> Nat]
      /\ m.managed \in [Names -> Types \cup {None}]
  BY <1>2 DEF Account
<1> HIDE DEF m
<1>4. m \in Account
  BY <1>1, <1>3 DEF Account
<1> QED BY <1>4 DEF m

\* On the account it was computed from, the patch is the edit, and there is one if and
\* only if the edit changes something.
LEMMA PatchedAsEdited ==
  ASSUME NEW a \in Account, NEW b \in Account
  PROVE  /\ ApplyMergePatch(a, CreatePatch(a, b)) = b
         /\ HasPatch(CreatePatch(a, b)) <=> a # b
<1> DEFINE F == {"secrets", "pull", "managed"}
           V == [Names -> Nat] \cup [Names -> Types \cup {None}]
<1>1. a \in [F -> V] /\ b \in [F -> V]
  BY DEF Account
<1> HIDE DEF F, V
<1> QED BY <1>1, PatchCompletes, NoPatchNoChange

-----------------------------------------------------------------------------
(* Types                                                                   *)

\* Every step of every command keeps the types of its variables, so that no count of
\* an account ever goes below zero.
THEOREM TypeCorrect == Spec => []TypeOK
<1>1. Init => TypeOK
  BY DEF Init, TypeOK, Account, EmptyAccount, NoRefs, PCs
<1>2. TypeOK /\ [Next]_vars => TypeOK'
  <2> SUFFICES ASSUME TypeOK, [Next]_vars PROVE TypeOK'
    OBVIOUS
  <2>1. CASE UNCHANGED vars
    BY <2>1 DEF vars, TypeOK
  <2>2. ASSUME NEW p \in Procs, Start(p) PROVE TypeOK'
    <3>1. PICK c \in CommandType : cmd' = [cmd EXCEPT ![p] = c]
      BY <2>2 DEF Start
    <3> QED BY <2>2, <3>1 DEF Start, Goto, TypeOK, PCs
  <2>3. ASSUME NEW p \in Procs, GetAccount(p) PROVE TypeOK'
    <3>1. cmd[p] \in CommandType
      BY <2>3 DEF GetAccount, TypeOK
    <3> DEFINE c == cmd[p]
               sa == account[c.account]
               updated == IF c.kind = "create" THEN Attach(sa, c.name, c.type) ELSE Detach(sa, c.name)
    <3>2. sa \in Account /\ c.name \in Names /\ c.type \in Types
      BY <3>1 DEF TypeOK, CommandType
    <3>3. updated \in Account
      BY <3>2, AttachTyped, DetachTyped
    <3>4. /\ base' = [base EXCEPT ![p] = sa] /\ next' = [next EXCEPT ![p] = updated]
          /\ UNCHANGED <<secret, account, cmd>>
          /\ \E label \in PCs : pc' = [pc EXCEPT ![p] = label]
      BY <2>3 DEF GetAccount, Goto, PCs
    <3> HIDE DEF updated, sa, c
    <3> QED BY <2>3, <3>2, <3>3, <3>4 DEF TypeOK, GetAccount
  <2>4. ASSUME NEW p \in Procs, CreateSecret(p) PROVE TypeOK'
    <3>1. cmd[p] \in CommandType
      BY <2>4 DEF CreateSecret, TypeOK
    <3> QED BY <2>4, <3>1 DEF CreateSecret, Stop, Goto, TypeOK, PCs, CommandType
  <2>5. ASSUME NEW p \in Procs, PatchAccount(p) PROVE TypeOK'
    <3>1. cmd[p].account \in Accounts
      BY <2>5 DEF PatchAccount, TypeOK, CommandType
    <3> DEFINE a == cmd[p].account
               merged == ApplyMergePatch(account[a], CreatePatch(base[p], next[p]))
    <3>2. merged \in Account
      BY <3>1, PatchedAccount DEF TypeOK
    <3>3. /\ account' = [account EXCEPT ![a] = merged]
          /\ UNCHANGED <<secret, cmd, base, next>>
          /\ \E label \in PCs : pc' = [pc EXCEPT ![p] = label]
      BY <2>5 DEF PatchAccount, Goto, PCs
    <3>4. pc[p] # "idle" /\ a \in Accounts
      BY <2>5, <3>1 DEF PatchAccount
    <3> HIDE DEF merged, a
    <3> QED BY <3>2, <3>3, <3>4 DEF TypeOK
  <2>6. ASSUME NEW p \in Procs, DeleteSecret(p) PROVE TypeOK'
    <3>1. cmd[p].name \in Names
      BY <2>6 DEF DeleteSecret, TypeOK, CommandType
    <3> QED BY <2>6, <3>1 DEF DeleteSecret, Stop, Goto, TypeOK, PCs
  <2>7. ASSUME NEW p \in Procs, Crash(p) PROVE TypeOK'
    BY <2>7 DEF Crash, Stop, Goto, TypeOK, PCs
  <2>8. ASSUME NEW p \in Procs, Finish(p) PROVE TypeOK'
    <3>1. EmptyAccount \in Account
      BY DEF Account, EmptyAccount, NoRefs
    <3> QED BY <2>8, <3>1 DEF Finish, Goto, TypeOK, PCs
  <2> QED BY <2>1, <2>2, <2>3, <2>4, <2>5, <2>6, <2>7, <2>8 DEF Next, Command
<1> QED BY <1>1, <1>2, PTL DEF Spec

-----------------------------------------------------------------------------
(* One command at a time on one account                                    *)

\* AccountIsConsistent, of one account and one name.
Agrees(sa, n) ==
  /\ sa.secrets[n] = IF sa.managed[n] = None THEN 0 ELSE 1
  /\ sa.pull[n] = IF sa.managed[n] = "dockerconfigjson" THEN 1 ELSE 0
  /\ sa.managed[n] \in {None, secret[n]}

\* What a command on account a relies on between its requests: the account is still as
\* it was read, a secret that create has made is not attached yet, and one that delete
\* is about to delete no longer is.
InProgress(p, a) ==
  LET c == cmd[p]
      sa == account[a]
  IN  /\ pc[p] = "createSecret" =>
           /\ c.kind = "create" /\ base[p] = sa /\ next[p] = Attach(sa, c.name, c.type)
      /\ pc[p] = "patch" =>
           /\ base[p] = sa
           /\ \/ /\ c.kind = "create" /\ next[p] = Attach(sa, c.name, c.type)
                 /\ secret[c.name] = c.type /\ sa.managed[c.name] = None
              \/ c.kind = "delete" /\ next[p] = Detach(sa, c.name)
      /\ pc[p] = "deleteSecret" => c.kind = "delete" /\ sa.managed[c.name] = None

\* What the account and the secrets are after a command that succeeded.
TookEffect(p, a) ==
  LET c == cmd[p] IN
  pc[p] = "ok" /\ ~c.dryRun =>
    /\ c.kind = "create" => secret[c.name] = c.type /\ account[a].secrets[c.name] > 0
    /\ c.kind = "delete" => secret[c.name] = None /\ account[a].managed[c.name] = None

\* Attaching a name that is not attached keeps an account consistent with its secrets.
LEMMA AttachAgrees ==
  ASSUME NEW sa \in Account, NEW name \in Names, NEW type \in Types,
         sa.managed[name] = None, secret[name] = type,
         \A n \in Names : Agrees(sa, n)
  PROVE  /\ \A n \in Names : Agrees(Attach(sa, name, type), n)
         /\ Attach(sa, name, type).secrets[name] = 1
<1>1. /\ sa.secrets[name] = 0 /\ sa.pull[name] = 0
  BY DEF Agrees, Types, None
<1>2. ASSUME NEW n \in Names, n # name PROVE Agrees(Attach(sa, name, type), n)
  <2>1. Agrees(sa, n)
    OBVIOUS
  <2> QED BY <1>2, <2>1 DEF Agrees, Attach, Account
<1>3. /\ Attach(sa, name, type).secrets[name] = 1
      /\ Attach(sa, name, type).managed[name] = type
      /\ Attach(sa, name, type).pull[name] = IF type = "dockerconfigjson" THEN 1 ELSE 0
  BY <1>1 DEF Attach, Account
<1>4. Agrees(Attach(sa, name, type), name)
  BY <1>3 DEF Agrees, Types, None
<1> QED BY <1>2, <1>3, <1>4

\* So does detaching one, which leaves nothing of it.
LEMMA DetachAgrees ==
  ASSUME NEW sa \in Account, NEW name \in Names, \A n \in Names : Agrees(sa, n)
  PROVE  /\ \A n \in Names : Agrees(Detach(sa, name), n)
         /\ Detach(sa, name).managed[name] = None
<1>1. ASSUME NEW n \in Names, n # name PROVE Agrees(Detach(sa, name), n)
  <2>1. Agrees(sa, n)
    OBVIOUS
  <2> QED BY <1>1, <2>1 DEF Agrees, Detach, Account
<1>2. /\ Detach(sa, name).secrets[name] = Dec(sa.secrets[name])
      /\ Detach(sa, name).pull[name] = Dec(sa.pull[name])
      /\ Detach(sa, name).managed[name] =
           IF sa.secrets[name] > 0 \/ sa.pull[name] > 0 THEN None ELSE sa.managed[name]
  BY DEF Detach, Account
<1>3. Agrees(sa, name)
  OBVIOUS
<1>4. Dec(0) = 0 /\ Dec(1) = 0
  BY DEF Dec
<1>5. /\ Detach(sa, name).secrets[name] = 0
      /\ Detach(sa, name).pull[name] = 0
      /\ Detach(sa, name).managed[name] = None
  BY <1>2, <1>3, <1>4 DEF Agrees, None
<1>6. Agrees(Detach(sa, name), name)
  BY <1>5 DEF Agrees, None
<1> QED BY <1>1, <1>5, <1>6

\* The invariant of one command at a time on one account.
SecretsInv(p, a) ==
  /\ TypeOK
  /\ \A n \in Names : Agrees(account[a], n)
  /\ InProgress(p, a)
  /\ TookEffect(p, a)

\* It holds from the start.
LEMMA SecretsInvInit ==
  ASSUME NEW p \in Procs, NEW a \in Accounts, Init, TypeOK
  PROVE  SecretsInv(p, a)
<1>1. account[a] = EmptyAccount /\ pc[p] = "idle"
  BY DEF Init
<1>2. ASSUME NEW n \in Names PROVE Agrees(EmptyAccount, n)
  BY DEF Agrees, EmptyAccount, NoRefs, None
<1> QED BY <1>1, <1>2 DEF SecretsInv, InProgress, TookEffect

\* And every step keeps it.
LEMMA SecretsInvStep ==
  ASSUME NEW p, NEW a, Procs = {p}, Accounts = {a},
         SecretsInv(p, a), TypeOK', [Next]_vars
  PROVE  SecretsInv(p, a)'
<1> USE DEF SecretsInv
<1>0. /\ account[a] \in Account /\ DOMAIN cmd = Procs
      /\ pc[p] # "idle" => /\ cmd[p] \in CommandType /\ cmd[p].account = a
                           /\ cmd[p].name \in Names /\ cmd[p].type \in Types
                           /\ cmd[p].kind \in {"create", "delete"}
  BY DEF TypeOK, CommandType
<1>1. CASE UNCHANGED vars
  BY <1>1 DEF vars, InProgress, TookEffect, Agrees
<1>2. CASE Start(p)
  BY <1>2 DEF Start, Goto, TypeOK, InProgress, TookEffect, Agrees
<1>3. CASE GetAccount(p)
  <2> DEFINE c == cmd[p]
             sa == account[a]
  <2>1. UNCHANGED <<secret, account, cmd>> /\ base'[p] = sa
    BY <1>0, <1>3 DEF GetAccount, TypeOK
  <2>2. CASE c.kind = "create"
    <3>1. pc'[p] = "createSecret" /\ next'[p] = Attach(sa, c.name, c.type)
      BY <1>0, <1>3, <2>2 DEF GetAccount, Goto, TypeOK
    <3> QED BY <2>1, <2>2, <3>1 DEF InProgress, TookEffect, Agrees
  <2>3. CASE c.kind = "delete"
    <3> DEFINE d == Detach(sa, c.name)
    <3>1. d \in Account /\ d.managed[c.name] = None
      BY <1>0, <1>3, DetachTyped, DetachAgrees DEF GetAccount
    <3>2. /\ next'[p] = d
          /\ pc'[p] = IF HasPatch(CreatePatch(sa, d)) THEN "patch" ELSE "deleteSecret"
      BY <1>0, <1>3, <2>3 DEF GetAccount, Goto, TypeOK
    <3>3. HasPatch(CreatePatch(sa, d)) <=> sa # d
      BY <1>0, <3>1, PatchedAsEdited
    <3>4. pc'[p] = "deleteSecret" => sa.managed[c.name] = None
      BY <3>1, <3>2, <3>3
    <3> QED BY <2>1, <2>3, <3>2, <3>4 DEF InProgress, TookEffect, Agrees
  <2> QED BY <1>0, <1>3, <2>2, <2>3 DEF GetAccount
<1>4. CASE CreateSecret(p)
  <2>1. CASE (Stop(p, "ok") /\ cmd[p].dryRun) \/ Stop(p, "failed")
    BY <2>1 DEF Stop, Goto, TypeOK, InProgress, TookEffect, Agrees
  <2>2. CASE ~Stop(p, "failed") /\ ~cmd[p].dryRun
    <3>1. /\ pc[p] = "createSecret" /\ secret[cmd[p].name] = None
          /\ secret' = [secret EXCEPT ![cmd[p].name] = cmd[p].type]
          /\ pc'[p] = "patch"
          /\ UNCHANGED <<account, cmd, base, next>>
      BY <1>4, <2>2 DEF CreateSecret, Goto, TypeOK
    <3>2. account[a].managed[cmd[p].name] = None
      BY <1>0, <3>1 DEF Agrees
    <3>3. secret'[cmd[p].name] = cmd[p].type
      BY <1>0, <3>1 DEF TypeOK
    <3>4. ASSUME NEW n \in Names PROVE Agrees(account[a], n)'
      BY <1>0, <3>1, <3>2 DEF Agrees, TypeOK
    <3> QED BY <3>1, <3>2, <3>3, <3>4 DEF InProgress, TookEffect
  <2> QED BY <1>4, <2>1, <2>2 DEF CreateSecret
<1>5. CASE PatchAccount(p)
  <2>1. /\ pc[p] = "patch" /\ UNCHANGED <<secret, cmd>>
        /\ pc'[p] = IF cmd[p].kind = "create" THEN "ok" ELSE "deleteSecret"
    BY <1>5 DEF PatchAccount, Goto, TypeOK
  <2>2. account'[a] = ApplyMergePatch(account[a], CreatePatch(base[p], next[p]))
    BY <1>0, <1>5 DEF PatchAccount, TypeOK
  <2>3. account'[a] = next[p]
    <3>1. next[p] \in Account /\ base[p] = account[a]
      BY <2>1 DEF TypeOK, InProgress
    <3> QED BY <1>0, <2>2, <3>1, PatchedAsEdited
  <2>4. CASE cmd[p].kind = "create"
    <3>1. /\ next[p] = Attach(account[a], cmd[p].name, cmd[p].type)
          /\ secret[cmd[p].name] = cmd[p].type /\ account[a].managed[cmd[p].name] = None
      BY <2>1, <2>4 DEF InProgress
    <3>2. /\ \A n \in Names : Agrees(next[p], n)
          /\ next[p].secrets[cmd[p].name] = 1
      BY <1>0, <2>1, <3>1, AttachAgrees
    <3> QED BY <2>1, <2>3, <2>4, <3>1, <3>2 DEF InProgress, TookEffect, Agrees
  <2>5. CASE cmd[p].kind = "delete"
    <3>1. next[p] = Detach(account[a], cmd[p].name)
      BY <2>1, <2>5 DEF InProgress
    <3>2. /\ \A n \in Names : Agrees(next[p], n)
          /\ next[p].managed[cmd[p].name] = None
      BY <1>0, <2>1, <3>1, DetachAgrees
    <3> QED BY <2>1, <2>3, <2>5, <3>2 DEF InProgress, TookEffect, Agrees
  <2> QED BY <1>0, <2>1, <2>4, <2>5
<1>6. CASE DeleteSecret(p)
  <2>1. CASE Stop(p, "failed")
    BY <2>1 DEF Stop, Goto, TypeOK, InProgress, TookEffect, Agrees
  <2>2. CASE ~Stop(p, "failed")
    <3>1. /\ pc[p] = "deleteSecret" /\ pc'[p] = "ok"
          /\ secret' = [secret EXCEPT ![cmd[p].name] = None]
          /\ UNCHANGED <<account, cmd>>
      BY <1>6, <2>2 DEF DeleteSecret, Goto, TypeOK
    <3>2. cmd[p].kind = "delete" /\ account[a].managed[cmd[p].name] = None
      BY <3>1 DEF InProgress
    <3>3. ASSUME NEW n \in Names PROVE Agrees(account[a], n)'
      BY <1>0, <3>1, <3>2 DEF Agrees, TypeOK
    <3> QED BY <1>0, <3>1, <3>2, <3>3 DEF InProgress, TookEffect, TypeOK
  <2> QED BY <2>1, <2>2
<1>7. CASE Crash(p)
  BY <1>7 DEF Crash, Stop, Goto, TypeOK, InProgress, TookEffect, Agrees
<1>8. CASE Finish(p)
  BY <1>8 DEF Finish, Goto, TypeOK, InProgress, TookEffect, Agrees
<1> QED BY <1>1, <1>2, <1>3, <1>4, <1>5, <1>6, <1>7, <1>8 DEF Next, Command

\* The invariant holds at all times.
LEMMA SecretsInvHolds ==
  ASSUME NEW p, NEW a, Procs = {p}, Accounts = {a}
  PROVE  Spec => []SecretsInv(p, a)
<1>1. Init /\ TypeOK => SecretsInv(p, a)
  BY SecretsInvInit
<1>2. SecretsInv(p, a) /\ TypeOK' /\ [Next]_vars => SecretsInv(p, a)'
  BY SecretsInvStep
<1> QED BY <1>1, <1>2, TypeCorrect, PTL DEF Spec

\* One kp at a time, whatever crashes: the lists of the account and its annotation agree
\* with each other and with the secrets that are there.
THEOREM AccountIsConsistentCorrect ==
  ASSUME NEW p, NEW a, Procs = {p}, Accounts = {a}
  PROVE  Spec => []AccountIsConsistent
<1>1. SecretsInv(p, a) => AccountIsConsistent
  BY DEF SecretsInv, Agrees, AccountIsConsistent
<1> QED BY <1>1, SecretsInvHolds, PTL

\* And the account never lists a secret that is not there, between any two requests.
THEOREM NoDanglingReferenceCorrect ==
  ASSUME NEW p, NEW a, Procs = {p}, Accounts = {a}
  PROVE  Spec => []NoDanglingReference
<1>1. SecretsInv(p, a) => NoDanglingReference
  BY DEF SecretsInv, Agrees, NoDanglingReference, Attached, None
<1> QED BY <1>1, SecretsInvHolds, PTL

\* A create that succeeded has attached its secret, a delete has left nothing of it.
THEOREM CommandsTakeEffectCorrect ==
  ASSUME NEW p, NEW a, Procs = {p}, Accounts = {a}
  PROVE  Spec => []CommandsTakeEffect
<1>1. SecretsInv(p, a) => CommandsTakeEffect
  <2> SUFFICES ASSUME SecretsInv(p, a), pc[p] = "ok", ~cmd[p].dryRun
               PROVE  LET c == cmd[p] IN
                      /\ c.kind = "create" => secret[c.name] = c.type /\ c.name \in Attached(a)
                      /\ c.kind = "delete" => secret[c.name] = None /\ c.name \notin Attached(a)
    BY DEF SecretsInv, TypeOK, CommandType, CommandsTakeEffect, Succeeded
  <2>1. cmd[p].name \in Names
    BY DEF SecretsInv, TypeOK, CommandType
  <2>2. Agrees(account[a], cmd[p].name) /\ TookEffect(p, a)
    BY <2>1 DEF SecretsInv
  <2> QED BY <2>1, <2>2 DEF TookEffect, Agrees, Attached, None
<1> QED BY <1>1, SecretsInvHolds, PTL
=============================================================================
