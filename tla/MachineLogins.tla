------------------------------ MODULE MachineLogins ------------------------------
(***************************************************************************)
(* The two kinds of secrets the server looks after: the service principal  *)
(* of each cloud environment, encrypted in a row of its own                *)
(* (credential.service), and the login of each machine, kept in the        *)
(* Key Vault of the environment the node belongs to, under a name made     *)
(* from the node's rowid, next to the access_targets row that says a login *)
(* is there. The row does not say in which vault: it is looked for in that *)
(* of the environment the node belongs to now, and a discovery may hand    *)
(* the node to another environment or replace the environment's vault.     *)
(*                                                                         *)
(* The vault is away: what a request asks of it happens between the start  *)
(* of the request and the write that follows the answer, and answers get   *)
(* lost. A deleted secret lingers, first leaving, then recoverable.        *)
(***************************************************************************)
EXTENDS Naturals, FiniteSets, FiniteSetsExt

CONSTANTS Secrets,          \* of service principals
          Logins,           \* a login: a user name and the password entered with it
          Vaults,           \* the Key Vaults the environments' discoveries come upon
          Requests,
          MaxEnv, MaxNode,  \* bounds on rowids
          MaxTries          \* attempts to recover a secret that is still leaving

ASSUME LoginsAssumption == MaxEnv \in Nat /\ MaxNode \in Nat /\ MaxTries \in Nat \ {0}

VARIABLES
    envs,      \* [EnvIds -> id of its credential or None]
    creds,     \* [CredIds -> secret or NoSecret]
    entered,   \* history: the secret last entered for, or copied to, each environment
    hosts,     \* [NodeIds -> environment or None]
    uri,       \* [EnvIds -> key_vault_uri, or NoVault]
    targets,   \* [NodeIds -> access_targets row or NoTarget]
    vault,     \* [Vaults \X NodeIds -> state and value of the secret named after the node]
    requests,  \* [Requests -> request under way or Idle]
    doubt,     \* history: nodes whose last save failed or was overlapped
    shown      \* history: the last login shown to somebody

secretVars == <<envs, creds, entered>>
loginVars == <<hosts, uri, targets, vault, requests, doubt, shown>>
keyVars == <<secretVars, loginVars>>

None == 0
NoSecret == "no secret"
NoVault == "no vault"
NoTarget == [stored |-> FALSE, user |-> NoSecret, enabled |-> FALSE, row |-> FALSE, in |-> NoVault]
Idle == [op |-> "idle", node |-> None]
NoLogin == [user |-> NoSecret, password |-> NoSecret, clean |-> FALSE]

EnvIds == 1..MaxEnv
CredIds == 1..MaxEnv
NodeIds == 1..MaxNode
EnvRows == {e \in EnvIds : envs[e] # None}
CredRows == {c \in CredIds : creds[c] # NoSecret}
HostRows == {n \in NodeIds : hosts[n] # None}
NewRow(rows) == IF rows = {} THEN 1 ELSE Max(rows) + 1

ASSUME SecretsAreSecrets == NoSecret \notin Secrets
ASSUME VaultsAreVaults == NoVault \notin Vaults

\* in is no column but history: the vault the login was saved to
Target == [stored : BOOLEAN, user : Logins \cup {NoSecret}, enabled : BOOLEAN, row : BOOLEAN,
           in : Vaults \cup {NoVault}]
\* in: the vault a request goes to, read when it begins
Save == [op : {"save"}, at : {"set", "recover", "again", "stored"}, in : Vaults, node : NodeIds, login : Logins,
         tries : Nat, clean : BOOLEAN]
Removal == [op : {"remove"}, at : {"ask", "wait"}, in : Vaults, node : NodeIds, clean : BOOLEAN]
Show == [op : {"show"}, at : {"ask"}, in : Vaults, node : NodeIds, login : Logins \cup {NoSecret}, clean : BOOLEAN]
Entry == [is : {"absent", "live", "leaving", "deleted"}, password : Logins \cup {NoSecret}]

KeysTypeOK ==
    /\ envs \in [EnvIds -> CredIds \cup {None}]
    /\ creds \in [CredIds -> Secrets \cup {NoSecret}]
    /\ entered \in [EnvIds -> Secrets \cup {NoSecret}]
    /\ hosts \in [NodeIds -> EnvIds \cup {None}]
    /\ uri \in [EnvIds -> Vaults \cup {NoVault}]
    /\ targets \in [NodeIds -> Target]
    /\ vault \in [Vaults \X NodeIds -> Entry]
    /\ requests \in [Requests -> Save \cup Removal \cup Show \cup {Idle}]
    /\ doubt \in SUBSET NodeIds
    /\ shown \in [user : Logins \cup {NoSecret}, password : Logins \cup {NoSecret}, clean : BOOLEAN]

-----------------------------------------------------------------------------
(* Service principals                                                       *)

CreateEnvironment(secret, stored, c) ==
    LET e == NewRow(EnvRows)
    IN  /\ e \in EnvIds
        /\ creds' = stored
        /\ envs' = [envs EXCEPT ![e] = c]
        /\ entered' = [entered EXCEPT ![e] = secret]

RegisterEnvironment(secret) ==
    LET c == NewRow(CredRows)
    IN  /\ c \in CredIds
        /\ CreateEnvironment(secret, [creds EXCEPT ![c] = secret], c)
        /\ UNCHANGED loginVars

\* copyCredential: a row of its own with the same secret
CopyCredential(c) == <<[creds EXCEPT ![NewRow(CredRows)] = creds[c]], NewRow(CredRows)>>

RegisterCopyOf(e) ==
    /\ NewRow(CredRows) \in CredIds
    /\ LET copy == CopyCredential(envs[e]) IN CreateEnvironment(creds[envs[e]], copy[1], copy[2])
    /\ UNCHANGED loginVars

UpdateEnvironment(e, secret) ==
    /\ creds' = [creds EXCEPT ![envs[e]] = secret]
    /\ entered' = [entered EXCEPT ![e] = secret]
    /\ UNCHANGED <<envs, loginVars>>

-----------------------------------------------------------------------------
(* Machines                                                                 *)

Working(n) == {r \in Requests : requests[r].node = n}
\* the requests, once something else has happened to the machines they are for
Overlapped(machines) == [r \in Requests |-> IF requests[r].node \in machines THEN [requests[r] EXCEPT !.clean = FALSE]
                                            ELSE requests[r]]

\* what goes with the rows of hosts
ForgetHosts(gone) ==
    /\ targets' = [n \in NodeIds |-> IF n \in gone THEN NoTarget ELSE targets[n]]
    /\ requests' = Overlapped(gone)
    /\ UNCHANGED <<vault, doubt, shown>>

\* A discovery comes upon a vault, or upon none and leaves the one on record; takes over machines that
\* are there, whoever had them; drops those of its own it does not find; and adds one, whose rowid may be
\* that of one dropped before it from another scenario. A machine with a row in access_targets does not
\* go: the foreign key refuses, and of such a discovery only the vault stays on record.
DiscoverHosts(e, v, found, gone, fresh) ==
    /\ fresh \in NodeIds \cup {None}
    /\ \A n \in gone : ~targets[n].row
    /\ uri' = IF v = NoVault THEN uri ELSE [uri EXCEPT ![e] = v]
    /\ hosts' = [n \in NodeIds |-> IF n \in found \cup {fresh} THEN e ELSE IF n \in gone THEN None ELSE hosts[n]]
    /\ ForgetHosts(gone)
    /\ UNCHANGED secretVars

DeleteHosts(gone) ==
    /\ hosts' = [n \in NodeIds |-> IF n \in gone THEN None ELSE hosts[n]]
    /\ ForgetHosts(gone)

DeleteHost(n) == DeleteHosts({n}) /\ UNCHANGED <<secretVars, uri>>

\* deleteEnvironment; deleteIfUnreferenced spares a credential somebody else refers to
DeleteEnvironmentWithSecrets(e) ==
    /\ envs' = [envs EXCEPT ![e] = None]
    /\ creds' = IF \E f \in EnvRows \ {e} : envs[f] = envs[e] THEN creds ELSE [creds EXCEPT ![envs[e]] = NoSecret]
    /\ entered' = [entered EXCEPT ![e] = NoSecret]
    /\ uri' = [uri EXCEPT ![e] = NoVault]
    /\ DeleteHosts({n \in HostRows : hosts[n] = e})

\* PATCH .../access-target: a login is not needed for remote access
EnableAccess(n, on) ==
    /\ on \/ targets[n].row
    /\ targets' = [targets EXCEPT ![n].row = TRUE, ![n].enabled = on]
    /\ UNCHANGED <<secretVars, hosts, uri, vault, requests, doubt, shown>>

-----------------------------------------------------------------------------
(* PUT .../access-target                                                    *)

VaultOf(n) == uri[hosts[n]]

SaveLogin(r, n, login) ==
    /\ requests[r] = Idle /\ VaultOf(n) # NoVault
    /\ requests' = [Overlapped({n}) EXCEPT ![r] = [op |-> "save", at |-> "set", in |-> VaultOf(n), node |-> n,
                                              login |-> login, tries |-> 0, clean |-> Working(n) = {}]]
    /\ UNCHANGED <<secretVars, hosts, uri, targets, vault, doubt, shown>>

At(r, op, at) == requests[r].op = op /\ requests[r].at = at
Moves(r, at) == requests' = [requests EXCEPT ![r].at = at]
\* the secret a request is about
Key(r) == <<requests[r].in, requests[r].node>>
Linger(k) == vault[k].is \in {"leaving", "deleted"}

\* setSecret: refused with 409 while a deleted secret of that name lingers
SetSecret(r) ==
    /\ requests[r].op = "save" /\ requests[r].at \in {"set", "again"}
    /\ IF Linger(Key(r))
       THEN /\ requests[r].at = "set"
            /\ Moves(r, "recover")
            /\ UNCHANGED vault
       ELSE /\ vault' = [vault EXCEPT ![Key(r)] = [is |-> "live", password |-> requests[r].login]]
            /\ Moves(r, "stored")
    /\ UNCHANGED <<secretVars, hosts, uri, targets, doubt, shown>>

\* Mutant: recovering the secret is taken for storing it.
AfterRecovery_Stored == "stored"
AfterRecovery == "again"

\* beginRecoverDeletedSecret: 409 while the delete is in flight
RecoverDeletedSecret(r) ==
    /\ At(r, "save", "recover")
    /\ \/ /\ vault[Key(r)].is = "deleted"
          /\ vault' = [vault EXCEPT ![Key(r)].is = "live"]
          /\ Moves(r, AfterRecovery)
       \/ /\ vault[Key(r)].is = "leaving" /\ requests[r].tries < MaxTries - 1
          /\ requests' = [requests EXCEPT ![r].tries = @ + 1]
          /\ UNCHANGED vault
    /\ UNCHANGED <<secretVars, hosts, uri, targets, doubt, shown>>

\* the upsert of the row, which keeps the switch of a row that is there
SaveRow(r) ==
    LET n == requests[r].node
    IN  /\ At(r, "save", "stored")
        /\ hosts[n] # None
        /\ targets' = [targets EXCEPT ![n] = [stored |-> TRUE, user |-> requests[r].login, row |-> TRUE,
                                              enabled |-> @.row => @.enabled, in |-> requests[r].in]]
        /\ doubt' = IF requests[r].clean THEN doubt \ {n} ELSE doubt \cup {n}
        /\ requests' = [requests EXCEPT ![r] = Idle]
        /\ UNCHANGED <<secretVars, hosts, uri, vault, shown>>

\* any answer but those: a firewall, a permission, attempts used up, a timeout
RequestFails(r) ==
    /\ requests[r].op # "idle"
    /\ requests' = [requests EXCEPT ![r] = Idle]
    /\ doubt' = IF requests[r].op = "save" THEN doubt \cup {requests[r].node} ELSE doubt
    /\ shown' = IF requests[r].op = "show" THEN NoLogin ELSE shown
    /\ UNCHANGED <<secretVars, hosts, uri, targets, vault>>

\* a restart; also what becomes of the process when the upsert meets a machine that is gone (the
\* rejection of an async handler is nobody's to catch)
Restart ==
    /\ \E r \in Requests : requests[r] # Idle
    /\ requests' = [r \in Requests |-> Idle]
    /\ doubt' = doubt \cup {requests[r].node : r \in {q \in Requests : requests[q].op = "save"}}
    /\ UNCHANGED <<secretVars, hosts, uri, targets, vault, shown>>

-----------------------------------------------------------------------------
(* DELETE .../access-target                                                 *)

\* the secret is left alone when the environment has no vault now
RemoveLogin(r, n) ==
    /\ requests[r] = Idle /\ targets[n].row
    /\ targets' = [targets EXCEPT ![n] = NoTarget]
    /\ requests' = [Overlapped({n}) EXCEPT ![r] =
                       IF targets[n].stored /\ VaultOf(n) # NoVault
                       THEN [op |-> "remove", at |-> "ask", in |-> VaultOf(n), node |-> n, clean |-> TRUE] ELSE Idle]
    /\ UNCHANGED <<secretVars, hosts, uri, vault, doubt, shown>>

\* beginDeleteSecret; a failure is only logged
DeleteSecret(r) ==
    /\ At(r, "remove", "ask")
    /\ IF vault[Key(r)].is = "live"
       THEN vault' = [vault EXCEPT ![Key(r)].is = "leaving"] /\ Moves(r, "wait")
       ELSE requests' = [requests EXCEPT ![r] = Idle] /\ UNCHANGED vault
    /\ UNCHANGED <<secretVars, hosts, uri, targets, doubt, shown>>

SecretIsDeleted(k) ==
    /\ vault[k].is = "leaving"
    /\ vault' = [vault EXCEPT ![k].is = "deleted"]
    /\ UNCHANGED <<secretVars, hosts, uri, targets, requests, doubt, shown>>

RemovalIsAnswered(r) ==
    /\ At(r, "remove", "wait") /\ vault[Key(r)].is = "deleted"
    /\ requests' = [requests EXCEPT ![r] = Idle]
    /\ UNCHANGED <<secretVars, hosts, uri, targets, vault, doubt, shown>>

-----------------------------------------------------------------------------
(* Show / Copy in the session box                                           *)

\* the row's user name and where the secret would be now; and then that vault
ShowLogin(r, n) ==
    /\ requests[r] = Idle /\ targets[n].stored /\ VaultOf(n) # NoVault
    /\ requests' = [requests EXCEPT ![r] =
                       [op |-> "show", at |-> "ask", in |-> VaultOf(n), node |-> n, login |-> targets[n].user,
                        clean |-> Working(n) = {} /\ n \notin doubt /\ VaultOf(n) = targets[n].in]]
    /\ UNCHANGED <<secretVars, hosts, uri, targets, vault, doubt, shown>>

LoginIsShown(r) ==
    /\ At(r, "show", "ask") /\ vault[Key(r)].is = "live"
    /\ shown' = [user |-> requests[r].login, password |-> vault[Key(r)].password, clean |-> requests[r].clean]
    /\ requests' = [requests EXCEPT ![r] = Idle]
    /\ UNCHANGED <<secretVars, hosts, uri, targets, vault, doubt>>

-----------------------------------------------------------------------------

LoginsInit ==
    /\ envs = [e \in EnvIds |-> None] /\ creds = [c \in CredIds |-> NoSecret] /\ entered = [e \in EnvIds |-> NoSecret]
    /\ hosts = [n \in NodeIds |-> None] /\ uri = [e \in EnvIds |-> NoVault]
    /\ targets = [n \in NodeIds |-> NoTarget]
    /\ vault = [k \in Vaults \X NodeIds |-> [is |-> "absent", password |-> NoSecret]]
    /\ requests = [r \in Requests |-> Idle] /\ doubt = {} /\ shown = NoLogin

Environments ==
    \/ \E secret \in Secrets : RegisterEnvironment(secret) \/ \E e \in EnvRows : UpdateEnvironment(e, secret)
    \/ \E e \in EnvRows : RegisterCopyOf(e) \/ DeleteEnvironmentWithSecrets(e)

MachinesAndLogins ==
    \/ \E e \in EnvRows, v \in Vaults \cup {NoVault}, found \in SUBSET HostRows :
         \E gone \in SUBSET {n \in HostRows \ found : hosts[n] = e} :
         \E fresh \in {None, NewRow(HostRows), NewRow(HostRows \ gone)} : DiscoverHosts(e, v, found, gone, fresh)
    \/ \E n \in HostRows :
         \/ DeleteHost(n)
         \/ \E on \in BOOLEAN : EnableAccess(n, on)
         \/ \E r \in Requests : RemoveLogin(r, n) \/ ShowLogin(r, n) \/ \E login \in Logins : SaveLogin(r, n, login)
    \/ \E r \in Requests :
         \/ SetSecret(r) \/ RecoverDeletedSecret(r) \/ SaveRow(r) \/ RequestFails(r)
         \/ DeleteSecret(r) \/ RemovalIsAnswered(r) \/ LoginIsShown(r)
    \/ (\E k \in Vaults \X NodeIds : SecretIsDeleted(k)) \/ Restart

LoginsNext == Environments \/ MachinesAndLogins

LoginsSpec == LoginsInit /\ [][LoginsNext]_keyVars

-----------------------------------------------------------------------------
(* Properties                                                               *)

\* Every environment works with the secret last entered for it, from a row that is nobody else's, and
\* no row is left over: whichever of a copied environment and its source is rotated or deleted first,
\* and whatever rowids are given again (copyCredential: "rotating or deleting one environment's
\* credential never touches the other").
CredentialsAreOwn ==
    /\ \A e \in EnvRows : creds[envs[e]] = entered[e]
    /\ \A e, f \in EnvRows : envs[e] = envs[f] => e = f
    /\ CredRows = {envs[e] : e \in EnvRows}

\* A machine said to have a login has it in the vault it was saved to, name and password from one save,
\* once nobody is at work on it; and so has what is shown of it, as long as that vault is still the one of
\* the environment the machine belongs to: through removals, recoveries, deletions of machines whose rowid
\* is given again, hand-overs between environments and back, and changes of an environment's vault, unless
\* the last save failed, or a save, a removal or the deletion of the machine overlapped it. Those pairs do
\* come apart; and where the environment has another vault by now, the login is out of reach there, or what
\* an earlier machine of that rowid left in that vault is shown in its place.
LoginsBelong ==
    /\ \A n \in HostRows \ doubt : targets[n].stored /\ Working(n) = {} =>
         vault[<<targets[n].in, n>>] = [is |-> "live", password |-> targets[n].user]
    /\ shown.clean => shown.user = shown.password

\* No environment and no machine works with, or shows, what was entered for another: the secrets of
\* service principals and the logins of machines, of which each is kept in two places.
SecretsAreTheirOwn == CredentialsAreOwn /\ LoginsBelong
===================================================================================
