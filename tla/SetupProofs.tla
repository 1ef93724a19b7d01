-------------------------------- MODULE SetupProofs --------------------------------
(***************************************************************************)
(* Safety theorems about what an event is set up with: the logins of its   *)
(* machines (MachineLogins), the drawings of its topologies (LabDrawing)   *)
(* and the upgrade of its database (Upgrade), for every value of their     *)
(* constants.                                                              *)
(***************************************************************************)
EXTENDS MachineLogins, LabDrawing, Upgrade, FiniteSetTheorems, WellFoundedInduction, TLAPS

-------------------------------------------------------------------------------
(* Rowids                                                                   *)

\* A non-empty set of rowids has a last one: among the sets of larger rowids, one is minimal.
LEMMA LastRow ==
    ASSUME NEW N \in Nat, NEW T \in SUBSET (1..N), T # {}
    PROVE  \E x \in T : \A y \in T : y <= x
<1> DEFINE Above(i) == {k \in 1..N : k > i}
           A == {Above(i) : i \in T}
<1>1. IsFiniteSet(1..N)
  BY FS_Interval
<1>2. FiniteSubsetsOf(1..N) = SUBSET (1..N)
  BY <1>1, FS_FiniteSubsetsOfFinite
<1>3. IsWellFoundedOn(StrictSubsetOrdering(1..N), SUBSET (1..N))
  BY <1>2, FS_StrictSubsetOrderingWellFounded
<1>4. A \subseteq SUBSET (1..N) /\ A # {}
  OBVIOUS
<1>5. PICK a \in A : \A b \in A : ~ (<<b, a>> \in StrictSubsetOrdering(1..N))
  <2> HIDE DEF A
  <2>1. QED  BY <1>3, <1>4, WFMin
<1>6. PICK x \in T : a = Above(x)
  BY <1>5
<1>7. ASSUME NEW y \in T, ~(y <= x)  PROVE FALSE
  <2>1. Above(y) \subseteq Above(x) /\ y \in Above(x) /\ y \notin Above(y)
    BY <1>7
  <2>2. <<Above(y), Above(x)>> \in StrictSubsetOrdering(1..N)
    BY <2>1 DEF StrictSubsetOrdering
  <2>3. QED  BY <1>5, <1>6, <2>2
<1>8. QED  BY <1>6, <1>7

\* The rowid of a new row is nobody's.
LEMMA NewRowIsFree ==
    ASSUME NEW N \in Nat, NEW T \in SUBSET (1..N)
    PROVE  NewRow(T) \in Nat \ {0} /\ NewRow(T) \notin T
<1>1. CASE T = {}
  BY <1>1 DEF NewRow
<1>2. CASE T # {}
  <2>1. \E x \in T : \A y \in T : x >= y
    BY <1>2, LastRow
  <2>2. Max(T) \in T /\ \A y \in T : Max(T) >= y
    BY <2>1 DEF Max
  <2>3. PICK m \in T : m = Max(T)
    BY <2>2
  <2>4. NewRow(T) = m + 1 /\ \A y \in T : m >= y
    BY <1>2, <2>2, <2>3 DEF NewRow
  <2>5. m \in Nat
    OBVIOUS
  <2>6. m + 1 \notin T
    BY <2>4, <2>5
  <2>7. QED  BY <2>4, <2>5, <2>6
<1>3. QED  BY <1>1, <1>2

LEMMA NoneIsNoRow == None \notin EnvIds /\ None \notin CredIds /\ None \notin NodeIds
BY DEF None, EnvIds, CredIds, NodeIds

LEMMA NewRows ==
    /\ NewRow(EnvRows) \notin EnvRows
    /\ NewRow(CredRows) \notin CredRows
    /\ NewRow(HostRows) \notin HostRows
BY NewRowIsFree, LoginsAssumption DEF EnvRows, EnvIds, CredRows, CredIds, HostRows, NodeIds

-------------------------------------------------------------------------------
(* Service principals                                                       *)

PrincipalsTypeOK ==
    /\ envs \in [EnvIds -> CredIds \cup {None}]
    /\ creds \in [CredIds -> Secrets \cup {NoSecret}]
    /\ entered \in [EnvIds -> Secrets \cup {NoSecret}]

LEMMA CredentialOf ==
    ASSUME PrincipalsTypeOK, CredentialsAreOwn, NEW e \in EnvRows
    PROVE  envs[e] \in CredIds /\ envs[e] \in CredRows /\ creds[envs[e]] \in Secrets /\ e \in EnvIds
BY DEF PrincipalsTypeOK, CredentialsAreOwn, EnvRows, CredRows

\* A new environment with a new row of its own.
LEMMA CreateKeepsOwn ==
    ASSUME PrincipalsTypeOK, CredentialsAreOwn, NEW secret \in Secrets, NewRow(CredRows) \in CredIds,
           CreateEnvironment(secret, [creds EXCEPT ![NewRow(CredRows)] = secret], NewRow(CredRows))
    PROVE  PrincipalsTypeOK' /\ CredentialsAreOwn'
<1>1. PICK e \in EnvIds, c \in CredIds : e = NewRow(EnvRows) /\ c = NewRow(CredRows)
  BY DEF CreateEnvironment
<1>2. e \notin EnvRows /\ c \notin CredRows /\ c # None
  BY <1>1, NewRows, NoneIsNoRow
<1>3. /\ creds' = [creds EXCEPT ![c] = secret] /\ envs' = [envs EXCEPT ![e] = c]
      /\ entered' = [entered EXCEPT ![e] = secret]
  BY <1>1 DEF CreateEnvironment
<1>4. PrincipalsTypeOK'
  BY <1>3 DEF PrincipalsTypeOK
<1>5. EnvRows' = EnvRows \cup {e} /\ envs'[e] = c /\ entered'[e] = secret
      /\ \A f \in EnvRows : envs'[f] = envs[f] /\ entered'[f] = entered[f]
  BY <1>2, <1>3 DEF EnvRows, PrincipalsTypeOK
<1>6. CredRows' = CredRows \cup {c} /\ creds'[c] = secret /\ \A d \in CredRows : creds'[d] = creds[d]
  BY <1>2, <1>3, SecretsAreSecrets DEF CredRows, PrincipalsTypeOK
<1>7. \A f \in EnvRows : envs[f] \in CredRows
  BY CredentialOf
<1>8. CredentialsAreOwn'
  <2>1. \A f \in EnvRows' : creds'[envs'[f]] = entered'[f]
    BY <1>2, <1>5, <1>6, <1>7 DEF CredentialsAreOwn
  <2>2. \A f, g \in EnvRows' : envs'[f] = envs'[g] => f = g
    BY <1>2, <1>5, <1>7 DEF CredentialsAreOwn
  <2>3. CredRows' = {envs'[f] : f \in EnvRows'}
    BY <1>5, <1>6 DEF CredentialsAreOwn
  <2>4. QED  BY <2>1, <2>2, <2>3 DEF CredentialsAreOwn
<1>9. QED  BY <1>4, <1>8

LEMMA PrincipalsStep ==
    PrincipalsTypeOK /\ CredentialsAreOwn /\ [LoginsNext]_keyVars => PrincipalsTypeOK' /\ CredentialsAreOwn'
<1> SUFFICES ASSUME PrincipalsTypeOK, CredentialsAreOwn, [LoginsNext]_keyVars
             PROVE  PrincipalsTypeOK' /\ CredentialsAreOwn'
  OBVIOUS
<1>1. ASSUME NEW secret \in Secrets, RegisterEnvironment(secret)  PROVE PrincipalsTypeOK' /\ CredentialsAreOwn'
  <2>1. NewRow(CredRows) \in CredIds
        /\ CreateEnvironment(secret, [creds EXCEPT ![NewRow(CredRows)] = secret], NewRow(CredRows))
    BY <1>1 DEF RegisterEnvironment
  <2>2. QED  BY <2>1, CreateKeepsOwn
<1>2. ASSUME NEW e \in EnvRows, RegisterCopyOf(e)  PROVE PrincipalsTypeOK' /\ CredentialsAreOwn'
  <2>1. creds[envs[e]] \in Secrets
    BY CredentialOf
  <2>2. NewRow(CredRows) \in CredIds
        /\ CreateEnvironment(creds[envs[e]], [creds EXCEPT ![NewRow(CredRows)] = creds[envs[e]]], NewRow(CredRows))
    BY <1>2 DEF RegisterCopyOf, CopyCredential
  <2>3. QED  BY <2>1, <2>2, CreateKeepsOwn
<1>3. ASSUME NEW e \in EnvRows, NEW secret \in Secrets, UpdateEnvironment(e, secret)
      PROVE  PrincipalsTypeOK' /\ CredentialsAreOwn'
  <2>1. envs[e] \in CredIds /\ envs[e] \in CredRows /\ e \in EnvIds
    BY CredentialOf
  <2>2. /\ creds' = [creds EXCEPT ![envs[e]] = secret] /\ entered' = [entered EXCEPT ![e] = secret]
        /\ envs' = envs
    BY <1>3 DEF UpdateEnvironment
  <2>3. PrincipalsTypeOK'
    BY <2>2 DEF PrincipalsTypeOK
  <2>4. EnvRows' = EnvRows /\ CredRows' = CredRows
    BY <2>1, <2>2, SecretsAreSecrets DEF EnvRows, CredRows, PrincipalsTypeOK
  <2>5. \A f \in EnvRows : creds'[envs'[f]] = entered'[f]
    <3>1. creds'[envs[e]] = secret /\ entered'[e] = secret
      BY <2>1, <2>2 DEF PrincipalsTypeOK
    <3>2. \A f \in EnvRows \ {e} : envs[f] # envs[e] /\ entered'[f] = entered[f] /\ creds'[envs[f]] = creds[envs[f]]
      BY <2>1, <2>2 DEF PrincipalsTypeOK, CredentialsAreOwn, EnvRows
    <3>3. QED  BY <2>2, <3>1, <3>2 DEF CredentialsAreOwn
  <2>6. QED  BY <2>2, <2>3, <2>4, <2>5 DEF CredentialsAreOwn
<1>4. ASSUME NEW e \in EnvRows, DeleteEnvironmentWithSecrets(e)  PROVE PrincipalsTypeOK' /\ CredentialsAreOwn'
  <2>1. envs[e] \in CredIds /\ envs[e] \in CredRows /\ e \in EnvIds
    BY CredentialOf
  <2>2. \A f \in EnvRows \ {e} : envs[f] # envs[e]
    BY DEF CredentialsAreOwn
  <2>3. /\ envs' = [envs EXCEPT ![e] = None] /\ entered' = [entered EXCEPT ![e] = NoSecret]
        /\ creds' = [creds EXCEPT ![envs[e]] = NoSecret]
    BY <1>4, <2>2 DEF DeleteEnvironmentWithSecrets
  <2>4. PrincipalsTypeOK'
    BY <2>3 DEF PrincipalsTypeOK
  <2>5. EnvRows' = EnvRows \ {e} /\ CredRows' = CredRows \ {envs[e]}
    BY <2>1, <2>3 DEF EnvRows, CredRows, PrincipalsTypeOK
  <2>6. \A f \in EnvRows' : envs'[f] = envs[f] /\ entered'[f] = entered[f] /\ creds'[envs[f]] = creds[envs[f]]
    BY <2>1, <2>2, <2>3, <2>5 DEF EnvRows, PrincipalsTypeOK
  <2>7. CredentialsAreOwn'
    <3>1. CredRows' = {envs'[f] : f \in EnvRows'}
      BY <2>2, <2>5, <2>6 DEF CredentialsAreOwn
    <3>2. QED  BY <2>5, <2>6, <3>1 DEF CredentialsAreOwn
  <2>8. QED  BY <2>4, <2>7
<1>5. ASSUME UNCHANGED secretVars  PROVE PrincipalsTypeOK' /\ CredentialsAreOwn'
  <2>1. EnvRows' = EnvRows /\ CredRows' = CredRows
    BY <1>5, Zenon DEF secretVars, EnvRows, CredRows
  <2>2. QED  BY <1>5, <2>1 DEF secretVars, PrincipalsTypeOK, CredentialsAreOwn
<1>6. MachinesAndLogins => UNCHANGED secretVars
  BY DEF MachinesAndLogins, DiscoverHosts, DeleteHost, EnableAccess, RemoveLogin, ShowLogin, SaveLogin, SetSecret,
         RecoverDeletedSecret, SaveRow, RequestFails, DeleteSecret, RemovalIsAnswered, LoginIsShown,
         SecretIsDeleted, Restart
<1>7. QED  BY <1>1, <1>2, <1>3, <1>4, <1>5, <1>6 DEF LoginsNext, Environments, keyVars

\* Every environment works with the secret last entered for it, from a credential row that is nobody
\* else's, and no row is left over: whichever of a copied environment and its source is rotated or
\* deleted first (copyCredential, updateCredential, deleteIfUnreferenced).
THEOREM CredentialsStayOwn == LoginsSpec => []CredentialsAreOwn
<1>1. LoginsInit => PrincipalsTypeOK /\ CredentialsAreOwn
  BY DEF LoginsInit, PrincipalsTypeOK, CredentialsAreOwn, EnvRows, CredRows
<1>2. QED  BY <1>1, PrincipalsStep, PTL DEF LoginsSpec

-------------------------------------------------------------------------------
(* Requests                                                                 *)

Request == Save \cup Removal \cup Show

VaultKeys == Vaults \X NodeIds

LoginsTypeOK ==
    /\ uri \in [EnvIds -> Vaults \cup {NoVault}]
    /\ hosts \in [NodeIds -> EnvIds \cup {None}]
    /\ targets \in [NodeIds -> Target]
    /\ vault \in [VaultKeys -> Entry]
    /\ requests \in [Requests -> Request \cup {Idle}]
    /\ doubt \in SUBSET NodeIds
    /\ shown \in [user : Logins \cup {NoSecret}, password : Logins \cup {NoSecret}, clean : BOOLEAN]

LEMMA Kinds ==
    ASSUME LoginsTypeOK, NEW q \in Requests
    PROVE  /\ requests[q].op \in {"save", "remove", "show", "idle"}
           /\ requests[q].op = "save" => requests[q] \in Save
           /\ requests[q].op = "remove" => requests[q] \in Removal
           /\ requests[q].op = "show" => requests[q] \in Show
           /\ requests[q].op = "idle" <=> requests[q] = Idle
           /\ requests[q].op # "idle" => requests[q].node \in NodeIds /\ Key(q) \in VaultKeys
           /\ requests[q].op = "idle" => requests[q].node = None
BY DEF LoginsTypeOK, Request, Save, Removal, Show, Idle, Key, VaultKeys

LEMMA VaultIsAVault ==
    ASSUME LoginsTypeOK, NEW n \in HostRows, VaultOf(n) # NoVault
    PROVE  VaultOf(n) \in Vaults /\ <<VaultOf(n), n>> \in VaultKeys
BY DEF LoginsTypeOK, HostRows, VaultOf, VaultKeys

\* What an update of one field makes of a request.
Unclean(q) == [q EXCEPT !.clean = FALSE]
StepTo(q, stage) == [q EXCEPT !.at = stage]
TriedOnce(q) == [q EXCEPT !.tries = @ + 1]

LEMMA RequestUpdates ==
    /\ \A q \in Request : /\ Unclean(q) \in Request /\ ~Unclean(q).clean
                          /\ Unclean(q).op = q.op /\ Unclean(q).node = q.node /\ Unclean(q).at = q.at
                          /\ Unclean(q).in = q.in
    /\ \A q \in Save \cup Show : Unclean(q).login = q.login
    /\ \A q \in Save, stage \in {"set", "recover", "again", "stored"} :
          /\ StepTo(q, stage) \in Request /\ StepTo(q, stage).op = q.op /\ StepTo(q, stage).node = q.node /\ StepTo(q, stage).in = q.in
          /\ StepTo(q, stage).login = q.login /\ StepTo(q, stage).clean = q.clean /\ StepTo(q, stage).at = stage
    /\ \A q \in Removal, stage \in {"ask", "wait"} :
          /\ StepTo(q, stage) \in Request /\ StepTo(q, stage).op = q.op /\ StepTo(q, stage).node = q.node /\ StepTo(q, stage).in = q.in
    /\ \A q \in Save :
          /\ TriedOnce(q) \in Request /\ TriedOnce(q).op = q.op /\ TriedOnce(q).node = q.node /\ TriedOnce(q).in = q.in
          /\ TriedOnce(q).login = q.login /\ TriedOnce(q).clean = q.clean /\ TriedOnce(q).at = q.at
<1>1. \A q \in Request : Unclean(q) \in Request
  BY DEF Request, Save, Removal, Show, Unclean
<1>2. \A q \in Request : /\ ~Unclean(q).clean
                         /\ Unclean(q).op = q.op /\ Unclean(q).node = q.node /\ Unclean(q).at = q.at
                          /\ Unclean(q).in = q.in
  BY DEF Request, Save, Removal, Show, Unclean
<1>3. \A q \in Save \cup Show : Unclean(q).login = q.login
  BY DEF Save, Show, Unclean
<1>4. \A q \in Save, stage \in {"set", "recover", "again", "stored"} :
          /\ StepTo(q, stage) \in Save /\ StepTo(q, stage).op = q.op /\ StepTo(q, stage).node = q.node /\ StepTo(q, stage).in = q.in
          /\ StepTo(q, stage).login = q.login /\ StepTo(q, stage).clean = q.clean /\ StepTo(q, stage).at = stage
  BY DEF Save, StepTo
<1>5. \A q \in Removal, stage \in {"ask", "wait"} :
          StepTo(q, stage) \in Removal /\ StepTo(q, stage).op = q.op /\ StepTo(q, stage).node = q.node /\ StepTo(q, stage).in = q.in
  BY DEF Removal, StepTo
<1>6. \A q \in Save :
          /\ TriedOnce(q) \in Save /\ TriedOnce(q).op = q.op /\ TriedOnce(q).node = q.node /\ TriedOnce(q).in = q.in
          /\ TriedOnce(q).login = q.login /\ TriedOnce(q).clean = q.clean /\ TriedOnce(q).at = q.at
  BY DEF Save, TriedOnce
<1>7. QED  BY <1>1, <1>2, <1>3, <1>4, <1>5, <1>6 DEF Request

\* A request is the same one after the step, perhaps further on, perhaps no longer clean.
Ongoing(q) ==
    /\ requests'[q].op = requests[q].op /\ requests'[q].node = requests[q].node /\ requests'[q].in = requests[q].in
    /\ requests[q].op \in {"save", "show"} =>
         requests'[q].login = requests[q].login /\ (requests'[q].clean => requests[q].clean)

SameStage(q) == Ongoing(q) /\ (requests[q].op = "save" => requests'[q].at = requests[q].at)

LEMMA OverlappedType ==
    ASSUME LoginsTypeOK, NEW M \in SUBSET NodeIds
    PROVE  /\ Overlapped(M) \in [Requests -> Request \cup {Idle}]
           /\ \A q \in Requests : Overlapped(M)[q] = IF requests[q].node \in M THEN Unclean(requests[q]) ELSE requests[q]
           /\ \A q \in Requests : requests[q].node \in M => requests[q] \in Request
<1>1. \A q \in Requests : requests[q].node \in M => requests[q] \in Request
  BY Kinds, NoneIsNoRow DEF LoginsTypeOK, Idle
<1>2. \A q \in Requests : Overlapped(M)[q] = IF requests[q].node \in M THEN Unclean(requests[q]) ELSE requests[q]
  BY DEF Overlapped, Unclean
<1>3. \A q \in Requests : Overlapped(M)[q] \in Request \cup {Idle}
  BY <1>1, <1>2, RequestUpdates DEF LoginsTypeOK
<1>4. Overlapped(M) = [q \in Requests |-> Overlapped(M)[q]]
  BY DEF Overlapped
<1>5. QED  BY <1>1, <1>2, <1>3, <1>4

\* What happens to the machines M leaves no request for them clean.
LEMMA OverlappedRequests ==
    ASSUME LoginsTypeOK, NEW M \in SUBSET NodeIds, NEW q \in Requests, requests'[q] = Overlapped(M)[q]
    PROVE  /\ SameStage(q)
           /\ requests[q].op \in {"save", "show"} /\ requests'[q].clean => requests[q].node \notin M
<1>1. CASE requests[q].node \in M
  <2>1. requests'[q] = Unclean(requests[q]) /\ requests[q] \in Request
    BY <1>1, OverlappedType
  <2>2. requests[q].op \in {"save", "show"} => requests[q] \in Save \cup Show
    BY Kinds
  <2>3. QED  BY <2>1, <2>2, RequestUpdates DEF SameStage, Ongoing
<1>2. CASE requests[q].node \notin M
  BY <1>2, OverlappedType DEF SameStage, Ongoing
<1>3. QED  BY <1>1, <1>2

-------------------------------------------------------------------------------
(* The invariant of the logins                                              *)

Writing(r) == requests[r].op \in {"save", "remove"}
CleanRequest(r) == requests[r].op \in {"save", "show"} /\ requests[r].clean

\* The row of a login goes with its machine; it was saved to some vault.
TargetsHaveHosts == \A n \in NodeIds : targets[n].stored => n \in HostRows /\ targets[n].in \in Vaults

\* Where the login of a machine was saved.
SecretOf(n) == <<targets[n].in, n>>

\* A machine said to have a login has it there, unless it is in doubt or being written.
StoredIsInVault == \A n \in HostRows \ doubt :
    targets[n].stored /\ (\A r \in Working(n) : ~Writing(r)) =>
      vault[SecretOf(n)] = [is |-> "live", password |-> targets[n].user]

\* A removal under way leaves no login behind it that nobody doubts.
RemovalsAreDoubted == \A r \in Requests :
    requests[r].op = "remove" /\ targets[requests[r].node].stored => requests[r].node \in doubt

\* Nobody else writes for a machine while a clean save or a clean look at it is under way.
CleanIsAlone == \A r \in Requests : CleanRequest(r) => \A q \in Working(requests[r].node) \ {r} : ~Writing(q)

\* What a clean save has stored, and what a clean look is for, is in the vault.
Settled(r) == CleanRequest(r) /\ (requests[r].op = "save" => requests[r].at = "stored")
CleanIsInVault == \A r \in Requests :
    Settled(r) => vault[Key(r)] = [is |-> "live", password |-> requests[r].login]

ShownBelongs == shown.clean => shown.user = shown.password

LoginsInv ==
    TargetsHaveHosts /\ StoredIsInVault /\ RemovalsAreDoubted /\ CleanIsAlone /\ CleanIsInVault /\ ShownBelongs

\* Requests go on or end; none starts.
NoneStarts == \A q \in Requests : Ongoing(q) \/ requests'[q] = Idle

LEMMA IdleIsNobody ==
    Idle.op = "idle" /\ Idle.node = None /\ \A q : requests[q] = Idle => ~Writing(q) /\ ~CleanRequest(q)
BY DEF Idle, Writing, CleanRequest

LEMMA AloneKept == ASSUME LoginsTypeOK, CleanIsAlone, NoneStarts PROVE CleanIsAlone'
<1> SUFFICES ASSUME NEW r \in Requests, CleanRequest(r)', NEW q \in Requests, q # r,
                    requests'[q].node = requests'[r].node, Writing(q)'
             PROVE  FALSE
  BY DEF CleanIsAlone, Working
<1>1. Ongoing(r) /\ Ongoing(q)
  BY DEF NoneStarts, CleanRequest, Writing, Idle
<1>2. CleanRequest(r) /\ Writing(q) /\ requests[q].node = requests[r].node
  BY <1>1 DEF Ongoing, CleanRequest, Writing
<1>3. QED  BY <1>2 DEF CleanIsAlone, Working

LEMMA RemovalsKept ==
    ASSUME LoginsTypeOK, RemovalsAreDoubted, NoneStarts,
           \A n \in NodeIds : targets'[n].stored => targets[n].stored \/ n \in doubt',
           doubt \subseteq doubt'
    PROVE  RemovalsAreDoubted'
<1> SUFFICES ASSUME NEW r \in Requests, requests'[r].op = "remove", targets'[requests'[r].node].stored
             PROVE  requests'[r].node \in doubt'
  BY DEF RemovalsAreDoubted
<1>1. Ongoing(r)
  BY DEF NoneStarts, Idle
<1>2. requests[r].op = "remove" /\ requests'[r].node = requests[r].node /\ requests[r].node \in NodeIds
  BY <1>1, Kinds DEF Ongoing
<1>3. QED  BY <1>2 DEF RemovalsAreDoubted

\* The vault changes only where a writer is at work, or where nothing is live.
VaultIsWritten(r) == \A k \in VaultKeys : vault'[k] = vault[k] \/ vault[k].is # "live" \/ (k = Key(r) /\ Writing(r))

LEMMA InVaultKept ==
    ASSUME LoginsTypeOK, CleanIsAlone, CleanIsInVault, NEW r \in Requests, VaultIsWritten(r),
           \A q \in Requests \ {r} : SameStage(q) \/ requests'[q] = Idle,
           Settled(r)' => vault'[Key(r)'] = [is |-> "live", password |-> requests'[r].login]
    PROVE  CleanIsInVault'
<1> SUFFICES ASSUME NEW q \in Requests \ {r}, Settled(q)'
             PROVE  vault'[Key(q)'] = [is |-> "live", password |-> requests'[q].login]
  BY DEF CleanIsInVault
<1>1. SameStage(q)
  BY DEF Settled, CleanRequest, Idle
<1>2. Settled(q) /\ Key(q)' = Key(q) /\ requests'[q].login = requests[q].login
  BY <1>1 DEF SameStage, Ongoing, Settled, CleanRequest, Key
<1>3. Key(q) \in VaultKeys /\ vault[Key(q)] = [is |-> "live", password |-> requests[q].login]
  BY <1>2, Kinds DEF Settled, CleanRequest, CleanIsInVault
<1>4. ~(Key(q) = Key(r) /\ Writing(r))
  BY <1>2 DEF CleanIsAlone, Settled, Working, Key
<1>5. vault'[Key(q)] = vault[Key(q)]
  BY <1>3, <1>4 DEF VaultIsWritten
<1>6. QED  BY <1>2, <1>3, <1>5

\* A machine's login and its vault entry stay, and so does somebody who writes for it.
LoginStays(n) ==
    /\ n \in HostRows \ doubt /\ targets'[n].stored = targets[n].stored /\ targets'[n].user = targets[n].user
    /\ targets'[n].in = targets[n].in
    /\ vault'[SecretOf(n)] = vault[SecretOf(n)] \/ vault[SecretOf(n)].is # "live"
    /\ \A r \in Working(n) : Writing(r) => Ongoing(r)

LEMMA StoredKept ==
    ASSUME LoginsTypeOK, StoredIsInVault,
           \A n \in HostRows' \ doubt' :
               \/ LoginStays(n) \/ ~targets'[n].stored
               \/ \E r \in Working(n)' : Writing(r)'
               \/ vault'[SecretOf(n)'] = [is |-> "live", password |-> targets'[n].user]
    PROVE  StoredIsInVault'
<1> SUFFICES ASSUME NEW n \in HostRows' \ doubt', targets'[n].stored, \A r \in Working(n)' : ~Writing(r)', LoginStays(n)
             PROVE  vault'[SecretOf(n)'] = [is |-> "live", password |-> targets'[n].user]
  BY DEF StoredIsInVault
<1>1. \A r \in Working(n) : ~Writing(r)
  BY DEF LoginStays, Ongoing, Working, Writing
<1>2. SecretOf(n)' = SecretOf(n)
  BY DEF LoginStays, SecretOf
<1>3. QED  BY <1>1, <1>2 DEF LoginStays, StoredIsInVault

-------------------------------------------------------------------------------
(* The steps of the requests                                                *)

\* One request moves on, the others stay.
LEMMA OneRequest ==
    ASSUME LoginsTypeOK, NEW r \in Requests, NEW new \in Request \cup {Idle}, requests' = [requests EXCEPT ![r] = new]
    PROVE  /\ requests' \in [Requests -> Request \cup {Idle}] /\ requests'[r] = new
           /\ \A q \in Requests \ {r} : requests'[q] = requests[q] /\ SameStage(q) /\ Ongoing(q)
BY DEF LoginsTypeOK, SameStage, Ongoing

LEMMA SaveLoginStep ==
    ASSUME LoginsTypeOK, LoginsInv, NEW r \in Requests, NEW n \in HostRows, NEW login \in Logins, SaveLogin(r, n, login)
    PROVE  LoginsTypeOK' /\ LoginsInv'
<1> DEFINE new == [op |-> "save", at |-> "set", in |-> VaultOf(n), node |-> n, login |-> login, tries |-> 0,
                   clean |-> Working(n) = {}]
<1>1. n \in NodeIds /\ {n} \in SUBSET NodeIds /\ requests[r] = Idle /\ VaultOf(n) \in Vaults
  BY VaultIsAVault DEF HostRows, SaveLogin
<1>2. requests' = [Overlapped({n}) EXCEPT ![r] = new] /\ UNCHANGED <<hosts, uri, targets, vault, doubt, shown>>
  BY DEF SaveLogin
<1>3. new \in Save /\ new.op = "save" /\ new.at = "set" /\ new.node = n /\ (new.clean <=> Working(n) = {})
  BY <1>1 DEF Save
<1>4. requests'[r] = new /\ \A q \in Requests \ {r} : requests'[q] = Overlapped({n})[q]
  BY <1>1, <1>2, OverlappedType
<1> HIDE DEF new
<1>5. LoginsTypeOK'
  BY <1>1, <1>2, <1>3, OverlappedType DEF LoginsTypeOK, Request
<1>6. \A q \in Requests \ {r} :
         /\ SameStage(q)
         /\ requests[q].op \in {"save", "show"} /\ requests'[q].clean => requests[q].node # n
  BY <1>1, <1>4, OverlappedRequests
<1>7. ~Writing(r) /\ requests[r].node = None /\ ~CleanRequest(r)
  BY <1>1, IdleIsNobody
<1>8. CleanIsAlone'
  <2> SUFFICES ASSUME NEW p \in Requests, CleanRequest(p)', NEW q \in Requests, q # p,
                      requests'[q].node = requests'[p].node, Writing(q)'
               PROVE  FALSE
    BY DEF CleanIsAlone, Working
  <2>1. CASE p = r
    <3>1. requests[q].node = n /\ Working(n) = {}
      BY <1>3, <1>4, <1>6, <2>1 DEF CleanRequest, SameStage, Ongoing
    <3>2. QED  BY <3>1 DEF Working
  <2>2. CASE p # r
    <3>1. requests[p].node # n /\ CleanRequest(p) /\ requests'[p].node = requests[p].node
      BY <1>6, <2>2 DEF CleanRequest, SameStage, Ongoing
    <3>2. q # r
      BY <1>3, <1>4, <3>1
    <3>3. Writing(q) /\ requests[q].node = requests[p].node
      BY <1>6, <3>1, <3>2 DEF Writing, SameStage, Ongoing
    <3>4. QED  BY <3>1, <3>3 DEF LoginsInv, CleanIsAlone, Working
  <2>3. QED  BY <2>1, <2>2
<1>9. CleanIsInVault'
  <2>1. VaultIsWritten(r)
    BY <1>2 DEF VaultIsWritten
  <2>2. ~Settled(r)'
    BY <1>3, <1>4 DEF Settled
  <2>3. QED  BY <1>6, <2>1, <2>2, InVaultKept DEF LoginsInv
<1>10. RemovalsAreDoubted'
  <2> SUFFICES ASSUME NEW q \in Requests, requests'[q].op = "remove", targets'[requests'[q].node].stored
               PROVE  requests'[q].node \in doubt'
    BY DEF RemovalsAreDoubted
  <2>1. q # r
    BY <1>3, <1>4
  <2>2. requests[q].op = "remove" /\ requests'[q].node = requests[q].node
    BY <1>6, <2>1 DEF SameStage, Ongoing
  <2>3. QED  BY <1>2, <2>2 DEF LoginsInv, RemovalsAreDoubted
<1>11. StoredIsInVault'
  <2>1. r \in Working(n)' /\ Writing(r)'
    BY <1>3, <1>4 DEF Working, Writing
  <2>2. HostRows' = HostRows
    BY <1>2 DEF HostRows
  <2>3. \A m \in HostRows \ doubt : m # n => LoginStays(m)
    <3>1. \A m, q : q \in Working(m) /\ Writing(q) => q \in Requests \ {r}
      BY <1>7 DEF Working
    <3>2. QED  BY <1>2, <1>6, <3>1 DEF LoginStays, SameStage
  <2>4. QED  BY <1>2, <2>1, <2>2, <2>3, StoredKept DEF LoginsInv
<1>12. TargetsHaveHosts' /\ ShownBelongs'
  BY <1>2 DEF LoginsInv, TargetsHaveHosts, ShownBelongs, HostRows
<1>13. QED  BY <1>5, <1>8, <1>9, <1>10, <1>11, <1>12 DEF LoginsInv

LEMMA RemoveLoginStep ==
    ASSUME LoginsTypeOK, LoginsInv, NEW r \in Requests, NEW n \in HostRows, RemoveLogin(r, n)
    PROVE  LoginsTypeOK' /\ LoginsInv'
<1>1. n \in NodeIds /\ {n} \in SUBSET NodeIds /\ requests[r] = Idle
  BY DEF HostRows, RemoveLogin
<1>2. /\ targets' = [targets EXCEPT ![n] = NoTarget]
      /\ UNCHANGED <<hosts, uri, vault, doubt, shown>>
  BY DEF RemoveLogin
<1>3. PICK new \in Removal \cup {Idle} :
        /\ requests' = [Overlapped({n}) EXCEPT ![r] = new]
        /\ new.op \in {"remove", "idle"} /\ (new.op = "remove" => new.node = n)
  <2> DEFINE removal == [op |-> "remove", at |-> "ask", in |-> VaultOf(n), node |-> n, clean |-> TRUE]
  <2>1. VaultOf(n) # NoVault => removal \in Removal /\ removal.op = "remove" /\ removal.node = n
    BY <1>1, VaultIsAVault DEF Removal
  <2>2. \/ VaultOf(n) # NoVault /\ requests' = [Overlapped({n}) EXCEPT ![r] = removal]
        \/ requests' = [Overlapped({n}) EXCEPT ![r] = Idle]
    BY DEF RemoveLogin
  <2> HIDE DEF removal
  <2>3. QED  BY <2>1, <2>2, IdleIsNobody
<1>4. requests'[r] = new /\ \A q \in Requests \ {r} : requests'[q] = Overlapped({n})[q]
  BY <1>1, <1>3, OverlappedType
<1>5. NoTarget \in Target /\ ~NoTarget.stored
  BY DEF NoTarget, Target
<1>6. LoginsTypeOK'
  BY <1>1, <1>2, <1>3, <1>5, OverlappedType DEF LoginsTypeOK, Request
<1>7. ~targets'[n].stored /\ \A m \in NodeIds \ {n} : targets'[m] = targets[m]
  BY <1>1, <1>2, <1>5 DEF LoginsTypeOK
<1>8. \A q \in Requests \ {r} :
         /\ SameStage(q)
         /\ requests[q].op \in {"save", "show"} /\ requests'[q].clean => requests[q].node # n
  BY <1>1, <1>4, OverlappedRequests
<1>9. ~Writing(r) /\ requests[r].node = None /\ ~CleanRequest(r)
  BY <1>1, IdleIsNobody
<1>10. ~CleanRequest(r)'
  BY <1>3, <1>4 DEF CleanRequest
<1>11. CleanIsAlone'
  <2> SUFFICES ASSUME NEW p \in Requests, CleanRequest(p)', NEW q \in Requests, q # p,
                      requests'[q].node = requests'[p].node, Writing(q)'
               PROVE  FALSE
    BY DEF CleanIsAlone, Working
  <2>1. p # r
    BY <1>10
  <2>2. requests[p].node # n /\ CleanRequest(p) /\ requests'[p].node = requests[p].node
    BY <1>8, <2>1 DEF CleanRequest, SameStage, Ongoing
  <2>3. q # r
    BY <1>3, <1>4, <2>2 DEF Writing
  <2>4. Writing(q) /\ requests[q].node = requests[p].node
    BY <1>8, <2>2, <2>3 DEF Writing, SameStage, Ongoing
  <2>5. QED  BY <2>2, <2>4 DEF LoginsInv, CleanIsAlone, Working
<1>12. CleanIsInVault'
  <2>1. VaultIsWritten(r) /\ ~Settled(r)'
    BY <1>2, <1>10 DEF VaultIsWritten, Settled
  <2>2. QED  BY <1>8, <2>1, InVaultKept DEF LoginsInv
<1>13. RemovalsAreDoubted'
  <2> SUFFICES ASSUME NEW q \in Requests, requests'[q].op = "remove", targets'[requests'[q].node].stored
               PROVE  requests'[q].node \in doubt'
    BY DEF RemovalsAreDoubted
  <2>1. q # r
    BY <1>3, <1>4, <1>7
  <2>2. requests[q].op = "remove" /\ requests'[q].node = requests[q].node /\ requests[q].node \in NodeIds
    BY <1>8, <2>1, Kinds DEF SameStage, Ongoing
  <2>3. targets[requests[q].node].stored
    BY <1>7, <2>2
  <2>4. QED  BY <1>2, <2>2, <2>3 DEF LoginsInv, RemovalsAreDoubted
<1>14. StoredIsInVault'
  <2>1. HostRows' = HostRows
    BY <1>2 DEF HostRows
  <2>2. \A m \in HostRows \ doubt : m # n => LoginStays(m)
    <3>1. \A m, q : q \in Working(m) /\ Writing(q) => q \in Requests \ {r}
      BY <1>9 DEF Working
    <3>2. HostRows \subseteq NodeIds
      BY DEF HostRows
    <3>3. QED  BY <1>2, <1>7, <1>8, <3>1, <3>2 DEF LoginStays, SameStage
  <2>3. QED  BY <1>2, <1>7, <2>1, <2>2, StoredKept DEF LoginsInv
<1>15. TargetsHaveHosts' /\ ShownBelongs'
  BY <1>2, <1>7 DEF LoginsInv, TargetsHaveHosts, ShownBelongs, HostRows
<1>16. QED  BY <1>6, <1>11, <1>12, <1>13, <1>14, <1>15 DEF LoginsInv

LEMMA ShowLoginStep ==
    ASSUME LoginsTypeOK, LoginsInv, NEW r \in Requests, NEW n \in HostRows, ShowLogin(r, n)
    PROVE  LoginsTypeOK' /\ LoginsInv'
<1> DEFINE new == [op |-> "show", at |-> "ask", in |-> VaultOf(n), node |-> n, login |-> targets[n].user,
                   clean |-> Working(n) = {} /\ n \notin doubt /\ VaultOf(n) = targets[n].in]
<1>1. /\ n \in NodeIds /\ requests[r] = Idle /\ targets[n].stored /\ targets[n].user \in Logins \cup {NoSecret}
      /\ VaultOf(n) \in Vaults
  BY VaultIsAVault DEF HostRows, ShowLogin, LoginsTypeOK, Target
<1>2. requests' = [requests EXCEPT ![r] = new] /\ UNCHANGED <<hosts, uri, targets, vault, doubt, shown>>
  BY DEF ShowLogin
<1>3. /\ new \in Show /\ new.op = "show" /\ new.node = n /\ new.login = targets[n].user
      /\ new.clean => new.in = targets[n].in /\ Working(n) = {} /\ n \notin doubt
  BY <1>1 DEF Show
<1> HIDE DEF new
<1>4. /\ requests' \in [Requests -> Request \cup {Idle}] /\ requests'[r] = new
      /\ \A q \in Requests \ {r} : requests'[q] = requests[q] /\ SameStage(q) /\ Ongoing(q)
  BY <1>2, <1>3, OneRequest DEF Request
<1>5. LoginsTypeOK'
  BY <1>2, <1>4 DEF LoginsTypeOK
<1>6. ~Writing(r) /\ requests[r].node = None /\ ~Writing(r)'
  BY <1>1, <1>3, <1>4, IdleIsNobody DEF Writing
<1>7. CleanIsAlone'
  <2> SUFFICES ASSUME NEW p \in Requests, CleanRequest(p)', NEW q \in Requests, q # p,
                      requests'[q].node = requests'[p].node, Writing(q)'
               PROVE  FALSE
    BY DEF CleanIsAlone, Working
  <2>1. q # r /\ requests'[q] = requests[q] /\ Writing(q)
    <3>1. q # r
      BY <1>6
    <3>2. QED  BY <1>4, <3>1 DEF Writing
  <2>2. p = r => Working(n) = {} /\ requests[q].node = n
    BY <1>3, <1>4, <2>1 DEF CleanRequest
  <2>3. p # r => CleanRequest(p) /\ requests[p].node = requests[q].node
    BY <1>4, <2>1 DEF CleanRequest
  <2>4. QED  BY <2>1, <2>2, <2>3 DEF LoginsInv, CleanIsAlone, Working
<1>8. CleanIsInVault'
  <2>1. VaultIsWritten(r)
    BY <1>2 DEF VaultIsWritten
  <2>2. Settled(r)' => vault'[Key(r)'] = [is |-> "live", password |-> requests'[r].login]
    <3>1. Settled(r)' => Working(n) = {} /\ n \notin doubt /\ Key(r)' = SecretOf(n)
      BY <1>3, <1>4 DEF Settled, CleanRequest, Key, SecretOf
    <3>2. Settled(r)' => vault[SecretOf(n)] = [is |-> "live", password |-> targets[n].user]
      BY <1>1, <3>1 DEF LoginsInv, StoredIsInVault
    <3>3. QED  BY <1>2, <1>3, <1>4, <3>1, <3>2
  <2>3. QED  BY <1>4, <2>1, <2>2, InVaultKept DEF LoginsInv
<1>9. RemovalsAreDoubted'
  <2> SUFFICES ASSUME NEW q \in Requests, requests'[q].op = "remove", targets'[requests'[q].node].stored
               PROVE  requests'[q].node \in doubt'
    BY DEF RemovalsAreDoubted
  <2>1. q # r
    BY <1>3, <1>4
  <2>2. QED  BY <1>2, <1>4, <2>1 DEF LoginsInv, RemovalsAreDoubted
<1>10. StoredIsInVault'
  <2>1. \A m, q : q \in Working(m) /\ Writing(q) => q \in Requests \ {r}
    BY <1>6 DEF Working
  <2>2. \A m \in HostRows \ doubt : LoginStays(m)
    BY <1>2, <1>4, <2>1 DEF LoginStays
  <2>3. HostRows' = HostRows
    BY <1>2 DEF HostRows
  <2>4. QED  BY <1>2, <2>2, <2>3, StoredKept DEF LoginsInv
<1>11. TargetsHaveHosts' /\ ShownBelongs'
  BY <1>2 DEF LoginsInv, TargetsHaveHosts, ShownBelongs, HostRows
<1>12. QED  BY <1>5, <1>7, <1>8, <1>9, <1>10, <1>11 DEF LoginsInv

\* A step of a save or a removal that goes on: only its own machine's vault entry may change.
LEMMA WriterStep ==
    ASSUME LoginsTypeOK, LoginsInv, NEW r \in Requests, Writing(r), NEW new \in Request,
           requests' = [requests EXCEPT ![r] = new], new.op = requests[r].op, new.node = requests[r].node,
           new.in = requests[r].in,
           new.op = "save" => new.login = requests[r].login /\ new.clean = requests[r].clean,
           UNCHANGED <<hosts, uri, targets, doubt, shown>>,
           vault' \in [VaultKeys -> Entry],
           VaultIsWritten(r),
           new.op = "save" /\ new.at = "stored" =>
               \/ vault'[Key(r)] = [is |-> "live", password |-> new.login]
               \/ vault' = vault /\ requests[r].at = "stored"
    PROVE  LoginsTypeOK' /\ LoginsInv'
<1>1. /\ requests' \in [Requests -> Request \cup {Idle}] /\ requests'[r] = new
      /\ \A q \in Requests \ {r} : requests'[q] = requests[q] /\ SameStage(q) /\ Ongoing(q)
  BY OneRequest
<1>2. LoginsTypeOK'
  BY <1>1 DEF LoginsTypeOK
<1>3. Ongoing(r) /\ NoneStarts
  BY <1>1 DEF Ongoing, Writing, NoneStarts
<1>4. CleanIsInVault'
  <2>1. Settled(r)' => vault'[Key(r)'] = [is |-> "live", password |-> requests'[r].login]
    <3> SUFFICES ASSUME Settled(r)'  PROVE vault'[Key(r)] = [is |-> "live", password |-> new.login]
      BY <1>1 DEF Key
    <3>1. new.op = "save" /\ new.at = "stored" /\ new.clean
      BY <1>1 DEF Settled, CleanRequest, Writing
    <3>2. vault' = vault /\ requests[r].at = "stored" => Settled(r)
      BY <3>1 DEF Settled, CleanRequest
    <3>3. QED  BY <3>1, <3>2 DEF LoginsInv, CleanIsInVault
  <2>2. QED  BY <1>1, <2>1, InVaultKept DEF LoginsInv
<1>5. CleanIsAlone' /\ RemovalsAreDoubted'
  BY <1>3, AloneKept, RemovalsKept DEF LoginsInv
<1>6. StoredIsInVault'
  <2>1. HostRows' = HostRows
    BY DEF HostRows
  <2>2. \A n \in HostRows \ doubt : requests[r].node = n => r \in Working(n)' /\ Writing(r)'
    BY <1>1 DEF Working, Writing
  <2>3. \A n \in HostRows \ doubt : requests[r].node # n /\ targets[n].stored => LoginStays(n)
    <3>1. \A n \in HostRows : requests[r].node # n /\ targets[n].stored =>
            vault'[SecretOf(n)] = vault[SecretOf(n)] \/ vault[SecretOf(n)].is # "live"
      BY DEF VaultIsWritten, HostRows, LoginsInv, TargetsHaveHosts, SecretOf, Key, VaultKeys
    <3>2. \A n, q : q \in Working(n) => Ongoing(q)
      BY <1>1, <1>3 DEF Working
    <3>3. QED  BY <3>1, <3>2 DEF LoginStays
  <2>4. QED  BY <2>1, <2>2, <2>3, StoredKept DEF LoginsInv
<1>7. TargetsHaveHosts' /\ ShownBelongs'
  BY DEF LoginsInv, TargetsHaveHosts, ShownBelongs, HostRows
<1>8. QED  BY <1>2, <1>4, <1>5, <1>6, <1>7 DEF LoginsInv

LEMMA VaultEntry ==
    ASSUME LoginsTypeOK, NEW k \in VaultKeys, NEW new \in Entry, vault' = [vault EXCEPT ![k] = new]
    PROVE  /\ vault' \in [VaultKeys -> Entry]
           /\ vault'[k] = new /\ \A j \in VaultKeys \ {k} : vault'[j] = vault[j]
BY DEF LoginsTypeOK

LEMMA SetSecretStep ==
    ASSUME LoginsTypeOK, LoginsInv, NEW r \in Requests, SetSecret(r)
    PROVE  LoginsTypeOK' /\ LoginsInv'
<1>1. requests[r] \in Save /\ Writing(r) /\ requests[r].op = "save" /\ Key(r) \in VaultKeys
  BY Kinds DEF SetSecret, Writing
<1>2. UNCHANGED <<hosts, uri, targets, doubt, shown>>
  BY DEF SetSecret
<1>3. CASE requests' = [requests EXCEPT ![r].at = "recover"] /\ vault' = vault
  <2>1. requests' = [requests EXCEPT ![r] = StepTo(requests[r], "recover")]
    BY <1>3 DEF StepTo, LoginsTypeOK
  <2>2. VaultIsWritten(r)
    BY <1>3 DEF VaultIsWritten
  <2>3. QED  BY <1>1, <1>2, <1>3, <2>1, <2>2, RequestUpdates, WriterStep DEF LoginsTypeOK
<1>4. ASSUME requests' = [requests EXCEPT ![r].at = "stored"],
             vault' = [vault EXCEPT ![Key(r)] = [is |-> "live", password |-> requests[r].login]]
      PROVE  LoginsTypeOK' /\ LoginsInv'
  <2>1. requests' = [requests EXCEPT ![r] = StepTo(requests[r], "stored")]
    BY <1>4 DEF StepTo, LoginsTypeOK
  <2>2. [is |-> "live", password |-> requests[r].login] \in Entry
    BY <1>1 DEF Save, Entry
  <2>3. VaultIsWritten(r) /\ vault'[Key(r)] = [is |-> "live", password |-> requests[r].login]
    BY <1>1, <1>4, <2>2, VaultEntry DEF VaultIsWritten
  <2>4. vault' \in [VaultKeys -> Entry]
    BY <1>1, <1>4, <2>2, VaultEntry
  <2>5. StepTo(requests[r], "stored") \in Request
        /\ StepTo(requests[r], "stored").op = "save"
        /\ StepTo(requests[r], "stored").node = requests[r].node
        /\ StepTo(requests[r], "stored").in = requests[r].in
        /\ StepTo(requests[r], "stored").login = requests[r].login
        /\ StepTo(requests[r], "stored").clean = requests[r].clean
    BY <1>1, RequestUpdates
  <2>6. QED  BY <1>1, <1>2, <2>1, <2>3, <2>4, <2>5, WriterStep
<1>5. QED  BY <1>3, <1>4 DEF SetSecret, Moves

LEMMA RecoverStep ==
    ASSUME LoginsTypeOK, LoginsInv, NEW r \in Requests, RecoverDeletedSecret(r)
    PROVE  LoginsTypeOK' /\ LoginsInv'
<1>1. requests[r] \in Save /\ Writing(r) /\ requests[r].op = "save" /\ Key(r) \in VaultKeys
      /\ requests[r].at = "recover"
  BY Kinds DEF RecoverDeletedSecret, At, Writing
<1>2. UNCHANGED <<hosts, uri, targets, doubt, shown>>
  BY DEF RecoverDeletedSecret
<1>3. ASSUME requests' = [requests EXCEPT ![r].at = "again"],
             vault' = [vault EXCEPT ![Key(r)].is = "live"], vault[Key(r)].is = "deleted"
      PROVE  LoginsTypeOK' /\ LoginsInv'
  <2>1. requests' = [requests EXCEPT ![r] = StepTo(requests[r], "again")]
    BY <1>3 DEF StepTo, LoginsTypeOK
  <2>2. [vault[Key(r)] EXCEPT !.is = "live"] \in Entry
    BY <1>1 DEF LoginsTypeOK, Entry
  <2>3. vault' = [vault EXCEPT ![Key(r)] = [vault[Key(r)] EXCEPT !.is = "live"]]
    BY <1>3 DEF LoginsTypeOK
  <2>4. VaultIsWritten(r)
        /\ vault' \in [VaultKeys -> Entry]
    BY <1>1, <2>2, <2>3, VaultEntry DEF VaultIsWritten
  <2>5. StepTo(requests[r], "again") \in Request
        /\ StepTo(requests[r], "again").op = "save"
        /\ StepTo(requests[r], "again").node = requests[r].node
        /\ StepTo(requests[r], "again").in = requests[r].in
        /\ StepTo(requests[r], "again").login = requests[r].login
        /\ StepTo(requests[r], "again").clean = requests[r].clean
        /\ StepTo(requests[r], "again").at = "again"
    BY <1>1, RequestUpdates
  <2>6. QED  BY <1>1, <1>2, <2>1, <2>4, <2>5, WriterStep
<1>4. ASSUME requests' = [requests EXCEPT ![r].tries = @ + 1], vault' = vault
      PROVE  LoginsTypeOK' /\ LoginsInv'
  <2>1. requests' = [requests EXCEPT ![r] = TriedOnce(requests[r])]
    BY <1>4 DEF TriedOnce, LoginsTypeOK
  <2>2. TriedOnce(requests[r]) \in Request
        /\ TriedOnce(requests[r]).op = "save"
        /\ TriedOnce(requests[r]).node = requests[r].node
        /\ TriedOnce(requests[r]).in = requests[r].in
        /\ TriedOnce(requests[r]).login = requests[r].login
        /\ TriedOnce(requests[r]).clean = requests[r].clean
        /\ TriedOnce(requests[r]).at = "recover"
    BY <1>1, RequestUpdates
  <2>3. VaultIsWritten(r)
    BY <1>4 DEF VaultIsWritten
  <2>4. QED  BY <1>1, <1>2, <1>4, <2>1, <2>2, <2>3, WriterStep DEF LoginsTypeOK
<1>5. QED  BY <1>3, <1>4 DEF RecoverDeletedSecret, Moves, AfterRecovery

\* A request ends without writing anything but its outcome.
LEMMA EndStep ==
    ASSUME LoginsTypeOK, LoginsInv, NEW r \in Requests, requests' = [requests EXCEPT ![r] = Idle],
           UNCHANGED <<hosts, uri, targets, vault>>, doubt \subseteq doubt', doubt' \in SUBSET NodeIds,
           requests[r].op = "save" => requests[r].node \in doubt',
           shown' \in [user : Logins \cup {NoSecret}, password : Logins \cup {NoSecret}, clean : BOOLEAN],
           ShownBelongs'
    PROVE  LoginsTypeOK' /\ LoginsInv'
<1>1. /\ requests' \in [Requests -> Request \cup {Idle}] /\ requests'[r] = Idle
      /\ \A q \in Requests \ {r} : requests'[q] = requests[q] /\ SameStage(q) /\ Ongoing(q)
  BY OneRequest
<1>2. LoginsTypeOK'
  BY <1>1 DEF LoginsTypeOK
<1>3. NoneStarts
  BY <1>1 DEF NoneStarts
<1>4. CleanIsInVault'
  <2>1. VaultIsWritten(r) /\ ~Settled(r)'
    BY <1>1 DEF VaultIsWritten, Settled, CleanRequest, Idle
  <2>2. QED  BY <1>1, <2>1, InVaultKept DEF LoginsInv
<1>5. CleanIsAlone' /\ RemovalsAreDoubted'
  BY <1>3, AloneKept, RemovalsKept DEF LoginsInv
<1>6. StoredIsInVault'
  <2>1. HostRows' = HostRows
    BY DEF HostRows
  <2>2. ASSUME NEW n \in HostRows \ doubt', targets[n].stored  PROVE LoginStays(n)
    <3>1. \A q \in Working(n) : Writing(q) => q \in Requests \ {r}
      BY <2>2 DEF LoginsInv, RemovalsAreDoubted, Working, Writing
    <3>2. QED  BY <1>1, <2>2, <3>1 DEF LoginStays
  <2>3. QED  BY <2>1, <2>2, StoredKept DEF LoginsInv
<1>7. TargetsHaveHosts'
  BY DEF LoginsInv, TargetsHaveHosts, HostRows
<1>8. QED  BY <1>2, <1>4, <1>5, <1>6, <1>7 DEF LoginsInv

LEMMA RequestFailsStep ==
    ASSUME LoginsTypeOK, LoginsInv, NEW r \in Requests, RequestFails(r)
    PROVE  LoginsTypeOK' /\ LoginsInv'
<1>1. requests' = [requests EXCEPT ![r] = Idle] /\ UNCHANGED <<hosts, uri, targets, vault>> /\ requests[r].node \in NodeIds
  BY Kinds DEF RequestFails
<1>2. doubt' = IF requests[r].op = "save" THEN doubt \cup {requests[r].node} ELSE doubt
  BY DEF RequestFails
<1>3. NoLogin \in [user : Logins \cup {NoSecret}, password : Logins \cup {NoSecret}, clean : BOOLEAN] /\ ~NoLogin.clean
  BY DEF NoLogin
<1>4. shown' = NoLogin \/ shown' = shown
  BY DEF RequestFails
<1>5. shown' \in [user : Logins \cup {NoSecret}, password : Logins \cup {NoSecret}, clean : BOOLEAN] /\ ShownBelongs'
  <2>1. CASE shown' = NoLogin
    BY <1>3, <2>1 DEF ShownBelongs
  <2>2. CASE shown' = shown
    BY <2>2 DEF LoginsTypeOK, LoginsInv, ShownBelongs
  <2>3. QED  BY <1>4, <2>1, <2>2
<1>6. doubt \subseteq doubt' /\ doubt' \in SUBSET NodeIds /\ (requests[r].op = "save" => requests[r].node \in doubt')
  BY <1>1, <1>2 DEF LoginsTypeOK
<1>7. QED  BY <1>1, <1>5, <1>6, EndStep

LEMMA LoginIsShownStep ==
    ASSUME LoginsTypeOK, LoginsInv, NEW r \in Requests, LoginIsShown(r)
    PROVE  LoginsTypeOK' /\ LoginsInv'
<1>1. requests[r].op = "show" /\ requests[r] \in Show /\ Key(r) \in VaultKeys
  BY Kinds DEF LoginIsShown, At
<1>2. /\ requests' = [requests EXCEPT ![r] = Idle] /\ UNCHANGED <<hosts, uri, targets, vault, doubt>>
      /\ shown' = [user |-> requests[r].login, password |-> vault[Key(r)].password, clean |-> requests[r].clean]
  BY DEF LoginIsShown
<1>3. requests[r].clean => vault[Key(r)] = [is |-> "live", password |-> requests[r].login]
  BY <1>1 DEF LoginsInv, CleanIsInVault, Settled, CleanRequest
<1>4. ShownBelongs'
  BY <1>2, <1>3 DEF ShownBelongs
<1>5. shown' \in [user : Logins \cup {NoSecret}, password : Logins \cup {NoSecret}, clean : BOOLEAN]
  BY <1>1, <1>2 DEF LoginsTypeOK, Show, Entry
<1>6. doubt' \in SUBSET NodeIds
  BY <1>2 DEF LoginsTypeOK
<1>7. QED  BY <1>1, <1>2, <1>4, <1>5, <1>6, EndStep

LEMMA RemovalStep ==
    ASSUME LoginsTypeOK, LoginsInv, NEW r \in Requests, DeleteSecret(r) \/ RemovalIsAnswered(r)
    PROVE  LoginsTypeOK' /\ LoginsInv'
<1>1. requests[r].op = "remove" /\ requests[r] \in Removal /\ Key(r) \in VaultKeys /\ Writing(r)
  BY Kinds DEF DeleteSecret, RemovalIsAnswered, At, Writing
<1>2. UNCHANGED <<hosts, uri, targets, doubt, shown>>
  BY DEF DeleteSecret, RemovalIsAnswered
<1>3. CASE requests' = [requests EXCEPT ![r] = Idle] /\ vault' = vault
  <2>1. doubt' \in SUBSET NodeIds /\ ShownBelongs'
        /\ shown' \in [user : Logins \cup {NoSecret}, password : Logins \cup {NoSecret}, clean : BOOLEAN]
    BY <1>2 DEF LoginsTypeOK, LoginsInv, ShownBelongs
  <2>2. QED  BY <1>1, <1>2, <1>3, <2>1, EndStep
<1>4. ASSUME requests' = [requests EXCEPT ![r].at = "wait"], vault' = [vault EXCEPT ![Key(r)].is = "leaving"]
      PROVE  LoginsTypeOK' /\ LoginsInv'
  <2>1. requests' = [requests EXCEPT ![r] = StepTo(requests[r], "wait")]
    BY <1>4 DEF StepTo, LoginsTypeOK
  <2>2. [vault[Key(r)] EXCEPT !.is = "leaving"] \in Entry
    BY <1>1 DEF LoginsTypeOK, Entry
  <2>3. vault' = [vault EXCEPT ![Key(r)] = [vault[Key(r)] EXCEPT !.is = "leaving"]]
    BY <1>4 DEF LoginsTypeOK
  <2>4. VaultIsWritten(r)
        /\ vault' \in [VaultKeys -> Entry]
    BY <1>1, <2>2, <2>3, VaultEntry DEF VaultIsWritten
  <2>5. StepTo(requests[r], "wait") \in Request
        /\ StepTo(requests[r], "wait").op = "remove"
        /\ StepTo(requests[r], "wait").node = requests[r].node
        /\ StepTo(requests[r], "wait").in = requests[r].in
    BY <1>1, RequestUpdates
  <2>6. QED  BY <1>1, <1>2, <2>1, <2>4, <2>5, WriterStep
<1>5. QED  BY <1>3, <1>4 DEF DeleteSecret, RemovalIsAnswered, Moves

LEMMA SaveRowStep ==
    ASSUME LoginsTypeOK, LoginsInv, NEW r \in Requests, SaveRow(r)
    PROVE  LoginsTypeOK' /\ LoginsInv'
<1> DEFINE row == [stored |-> TRUE, user |-> requests[r].login, row |-> TRUE,
                   enabled |-> targets[requests[r].node].row => targets[requests[r].node].enabled,
                   in |-> requests[r].in]
<1>1. requests[r].op = "save" /\ requests[r].at = "stored" /\ requests[r] \in Save /\ requests[r].node \in HostRows
  BY Kinds DEF SaveRow, At, HostRows
<1>2. PICK n \in HostRows : n = requests[r].node
  BY <1>1
<1>3. targets' = [targets EXCEPT ![n] = row] /\ requests' = [requests EXCEPT ![r] = Idle]
      /\ UNCHANGED <<hosts, uri, vault, shown>>
      /\ doubt' = IF requests[r].clean THEN doubt \ {n} ELSE doubt \cup {n}
  BY <1>2 DEF SaveRow
<1>4. row \in Target /\ row.stored /\ row.user = requests[r].login /\ row.in = requests[r].in
      /\ requests[r].in \in Vaults
  BY <1>1 DEF Target, Save
<1> HIDE DEF row
<1>5. n \in NodeIds /\ targets'[n].stored /\ targets'[n].user = requests[r].login /\ SecretOf(n)' = Key(r)
      /\ \A m \in NodeIds \ {n} : targets'[m] = targets[m]
  BY <1>2, <1>3, <1>4 DEF LoginsTypeOK, HostRows, SecretOf, Key
<1>6. /\ requests' \in [Requests -> Request \cup {Idle}] /\ requests'[r] = Idle
      /\ \A q \in Requests \ {r} : requests'[q] = requests[q] /\ SameStage(q) /\ Ongoing(q)
  BY <1>3, OneRequest
<1>7. LoginsTypeOK'
  BY <1>3, <1>4, <1>5, <1>6 DEF LoginsTypeOK
<1>8. CleanIsAlone'
  BY <1>6, AloneKept DEF NoneStarts, LoginsInv
<1>9. CleanIsInVault'
  <2>1. VaultIsWritten(r) /\ ~Settled(r)'
    BY <1>3, <1>6 DEF VaultIsWritten, Settled, CleanRequest, Idle
  <2>2. QED  BY <1>6, <2>1, InVaultKept DEF LoginsInv
<1>10. requests[r].clean => /\ vault[Key(r)] = [is |-> "live", password |-> requests[r].login]
                            /\ \A q \in Requests \ {r} : requests[q].node = n => ~Writing(q)
  BY <1>1, <1>2 DEF LoginsInv, CleanIsInVault, CleanIsAlone, Settled, CleanRequest, Working
<1>11. RemovalsAreDoubted'
  <2> SUFFICES ASSUME NEW q \in Requests, requests'[q].op = "remove", targets'[requests'[q].node].stored
               PROVE  requests'[q].node \in doubt'
    BY DEF RemovalsAreDoubted
  <2>1. q # r /\ requests'[q] = requests[q] /\ requests[q].op = "remove" /\ Writing(q) /\ requests[q].node \in NodeIds
    <3>1. q # r
      BY <1>6 DEF Idle
    <3>2. QED  BY <1>6, <3>1, Kinds DEF Writing
  <2>2. CASE requests[q].node = n
    BY <1>3, <1>10, <2>1, <2>2
  <2>3. CASE requests[q].node # n
    <3>1. requests[q].node \in doubt
      BY <1>5, <2>1, <2>3 DEF LoginsInv, RemovalsAreDoubted
    <3>2. QED  BY <1>3, <2>1, <2>3, <3>1
  <2>4. QED  BY <2>2, <2>3
<1>12. StoredIsInVault'
  <2>1. HostRows' = HostRows
    BY <1>3 DEF HostRows
  <2>2. n \in HostRows' \ doubt' => vault'[SecretOf(n)'] = [is |-> "live", password |-> targets'[n].user]
    BY <1>3, <1>5, <1>10
  <2>3. \A m \in HostRows \ doubt' : m # n => LoginStays(m)
    <3>1. \A m \in HostRows : m # n => m \in NodeIds /\ \A q \in Working(m) : q \in Requests \ {r}
      BY <1>2 DEF Working, HostRows
    <3>2. QED  BY <1>3, <1>5, <1>6, <3>1 DEF LoginStays
  <2>4. QED  BY <2>1, <2>2, <2>3, StoredKept DEF LoginsInv
<1>13. TargetsHaveHosts' /\ ShownBelongs'
  BY <1>3, <1>4, <1>5 DEF LoginsInv, TargetsHaveHosts, ShownBelongs, HostRows, SecretOf, Key
<1>14. QED  BY <1>7, <1>8, <1>9, <1>11, <1>12, <1>13 DEF LoginsInv

LEMMA RestartStep ==
    ASSUME LoginsTypeOK, LoginsInv, Restart
    PROVE  LoginsTypeOK' /\ LoginsInv'
<1>1. requests' = [r \in Requests |-> Idle] /\ UNCHANGED <<hosts, uri, targets, vault, shown>>
      /\ doubt' = doubt \cup {requests[r].node : r \in {q \in Requests : requests[q].op = "save"}}
  BY DEF Restart
<1>2. \A q \in Requests : requests[q].op = "save" => requests[q].node \in NodeIds /\ requests[q].node \in doubt'
  BY <1>1, Kinds
<1>3. doubt \subseteq doubt' /\ doubt' \subseteq NodeIds
  BY <1>1, Kinds DEF LoginsTypeOK
<1>4. LoginsTypeOK'
  BY <1>1, <1>3 DEF LoginsTypeOK
<1>5. NoneStarts /\ \A q \in Requests : ~CleanRequest(q)'
  BY <1>1 DEF NoneStarts, CleanRequest, Idle
<1>6. CleanIsAlone' /\ RemovalsAreDoubted' /\ CleanIsInVault'
  BY <1>1, <1>3, <1>5, RemovalsKept DEF LoginsInv, CleanIsAlone, CleanIsInVault, Settled
<1>7. StoredIsInVault'
  <2>1. HostRows' = HostRows
    BY <1>1 DEF HostRows
  <2>2. ASSUME NEW n \in HostRows \ doubt', targets[n].stored  PROVE LoginStays(n)
    <3>1. \A q \in Working(n) : ~Writing(q)
      BY <1>2, <1>3, <2>2 DEF LoginsInv, RemovalsAreDoubted, Working, Writing
    <3>2. QED  BY <1>1, <1>3, <2>2, <3>1 DEF LoginStays
  <2>3. QED  BY <1>1, <2>1, <2>2, StoredKept DEF LoginsInv
<1>8. TargetsHaveHosts' /\ ShownBelongs'
  BY <1>1 DEF LoginsInv, TargetsHaveHosts, ShownBelongs, HostRows
<1>9. QED  BY <1>4, <1>6, <1>7, <1>8 DEF LoginsInv

\* Requests stay as they are, and so does what the vault has of every login.
LEMMA QuietStep ==
    ASSUME LoginsTypeOK, LoginsInv, UNCHANGED <<requests, doubt, shown>>, LoginsTypeOK', TargetsHaveHosts',
           \A k \in VaultKeys : vault'[k] = vault[k] \/ vault[k].is # "live",
           \A n \in NodeIds : targets'[n].stored =>
              n \in HostRows /\ targets[n].stored /\ targets'[n].user = targets[n].user
              /\ targets'[n].in = targets[n].in
    PROVE  LoginsInv'
<1>1. NoneStarts /\ \A q \in Requests : SameStage(q) /\ Ongoing(q)
  BY DEF NoneStarts, SameStage, Ongoing
<1>2. CleanIsAlone' /\ RemovalsAreDoubted'
  BY <1>1, AloneKept, RemovalsKept DEF LoginsInv
<1>3. CleanIsInVault'
  <2> SUFFICES ASSUME NEW q \in Requests, Settled(q)
               PROVE  vault'[Key(q)] = [is |-> "live", password |-> requests[q].login]
    BY DEF CleanIsInVault, Settled, CleanRequest, Key
  <2>1. Key(q) \in VaultKeys /\ vault[Key(q)] = [is |-> "live", password |-> requests[q].login]
    BY Kinds DEF LoginsInv, CleanIsInVault, Settled, CleanRequest
  <2>2. QED  BY <2>1
<1>4. StoredIsInVault'
  <2>1. ASSUME NEW n \in HostRows' \ doubt', targets'[n].stored  PROVE LoginStays(n)
    <3>1. n \in NodeIds
      BY <2>1 DEF HostRows
    <3>2. n \in HostRows /\ targets[n].stored /\ targets'[n].user = targets[n].user
          /\ targets'[n].in = targets[n].in /\ SecretOf(n) \in VaultKeys
      BY <2>1, <3>1 DEF LoginsInv, TargetsHaveHosts, SecretOf, VaultKeys
    <3>3. \A q \in Working(n) : Ongoing(q)
      BY <1>1 DEF Working
    <3>4. QED  BY <2>1, <3>1, <3>2, <3>3 DEF LoginStays
  <2>2. QED  BY <2>1, StoredKept DEF LoginsInv
<1>5. QED  BY <1>2, <1>3, <1>4 DEF LoginsInv, ShownBelongs

LEMMA SecretIsDeletedStep ==
    ASSUME LoginsTypeOK, LoginsInv, NEW k \in VaultKeys, SecretIsDeleted(k)
    PROVE  LoginsTypeOK' /\ LoginsInv'
<1>1. vault[k].is = "leaving" /\ vault' = [vault EXCEPT ![k] = [vault[k] EXCEPT !.is = "deleted"]]
      /\ UNCHANGED <<hosts, uri, targets, requests, doubt, shown>>
  BY DEF SecretIsDeleted, LoginsTypeOK
<1>2. [vault[k] EXCEPT !.is = "deleted"] \in Entry
  BY DEF LoginsTypeOK, Entry
<1>3. /\ vault' \in [VaultKeys -> Entry]
      /\ \A j \in VaultKeys : vault'[j] = vault[j] \/ vault[j].is # "live"
  BY <1>1, <1>2, VaultEntry
<1>4. LoginsTypeOK' /\ TargetsHaveHosts'
  BY <1>1, <1>3 DEF LoginsTypeOK, LoginsInv, TargetsHaveHosts, HostRows
<1>5. \A m \in NodeIds : targets'[m].stored => m \in HostRows /\ targets'[m] = targets[m]
  BY <1>1 DEF LoginsInv, TargetsHaveHosts
<1>6. QED  BY <1>1, <1>3, <1>4, <1>5, QuietStep

LEMMA EnableAccessStep ==
    ASSUME LoginsTypeOK, LoginsInv, NEW n \in HostRows, NEW on \in BOOLEAN, EnableAccess(n, on)
    PROVE  LoginsTypeOK' /\ LoginsInv'
<1> DEFINE new == [targets[n] EXCEPT !.row = TRUE, !.enabled = on]
<1>1. n \in NodeIds /\ targets[n] \in Target
  BY DEF HostRows, LoginsTypeOK
<1>2. new \in Target /\ new.stored = targets[n].stored /\ new.user = targets[n].user /\ new.in = targets[n].in
  BY <1>1 DEF Target
<1>3. targets' = [targets EXCEPT ![n] = new] /\ UNCHANGED <<hosts, uri, vault, requests, doubt, shown>>
  BY <1>1 DEF EnableAccess, LoginsTypeOK
<1> HIDE DEF new
<1>4. \A m \in NodeIds : targets'[m].stored = targets[m].stored /\ targets'[m].user = targets[m].user
                         /\ targets'[m].in = targets[m].in
  BY <1>1, <1>2, <1>3 DEF LoginsTypeOK
<1>5. LoginsTypeOK'
  BY <1>1, <1>2, <1>3 DEF LoginsTypeOK
<1>6. TargetsHaveHosts' /\ \A m \in NodeIds : targets'[m].stored => m \in HostRows
  BY <1>3, <1>4 DEF LoginsInv, TargetsHaveHosts, HostRows
<1>7. QED  BY <1>3, <1>4, <1>5, <1>6, QuietStep

\* The rows of some machines go, with what hangs on them; those left belong to whom they may.
LEMMA ForgetStep ==
    ASSUME LoginsTypeOK, LoginsInv, NEW gone \in SUBSET HostRows, ForgetHosts(gone),
           hosts' \in [NodeIds -> EnvIds \cup {None}], uri' \in [EnvIds -> Vaults \cup {NoVault}],
           HostRows \ gone \subseteq HostRows'
    PROVE  LoginsTypeOK' /\ LoginsInv'
<1>1. gone \subseteq NodeIds
  BY DEF HostRows
<1>2. /\ targets' = [n \in NodeIds |-> IF n \in gone THEN NoTarget ELSE targets[n]]
      /\ requests' = Overlapped(gone) /\ UNCHANGED <<vault, doubt, shown>>
  BY DEF ForgetHosts
<1>3. NoTarget \in Target /\ ~NoTarget.stored
  BY DEF NoTarget, Target
<1>4. LoginsTypeOK'
  BY <1>1, <1>2, <1>3, OverlappedType DEF LoginsTypeOK
<1>5. \A n \in NodeIds : IF n \in gone THEN ~targets'[n].stored ELSE targets'[n] = targets[n]
  BY <1>2, <1>3
<1>6. \A q \in Requests : SameStage(q) /\ Ongoing(q)
  BY <1>1, <1>2, OverlappedRequests DEF SameStage
<1>7. CleanIsAlone' /\ RemovalsAreDoubted'
  BY <1>2, <1>5, <1>6, AloneKept, RemovalsKept DEF LoginsInv, NoneStarts
<1>8. CleanIsInVault'
  <2> SUFFICES ASSUME NEW q \in Requests, Settled(q)'
               PROVE  vault'[Key(q)'] = [is |-> "live", password |-> requests'[q].login]
    BY DEF CleanIsInVault
  <2>1. Settled(q) /\ Key(q)' = Key(q) /\ requests'[q].login = requests[q].login
    BY <1>6 DEF SameStage, Ongoing, Settled, CleanRequest, Key
  <2>2. QED  BY <1>2, <2>1 DEF LoginsInv, CleanIsInVault
<1>9. \A n \in NodeIds : targets'[n].stored => n \in HostRows \ gone /\ targets'[n] = targets[n]
  BY <1>5 DEF LoginsInv, TargetsHaveHosts
<1>10. StoredIsInVault'
  <2>1. \A n \in HostRows' \ doubt' : targets'[n].stored =>
           n \in HostRows \ doubt /\ targets'[n] = targets[n] /\ vault' = vault
    BY <1>2, <1>9 DEF HostRows
  <2>2. \A n, q : q \in Working(n) => Ongoing(q)
    BY <1>6 DEF Working
  <2>3. \A n \in HostRows' \ doubt' : targets'[n].stored => LoginStays(n)
    BY <2>1, <2>2 DEF LoginStays
  <2>4. QED  BY <2>3, StoredKept DEF LoginsInv
<1>11. TargetsHaveHosts' /\ ShownBelongs'
  BY <1>2, <1>9 DEF LoginsInv, TargetsHaveHosts, ShownBelongs
<1>12. QED  BY <1>4, <1>7, <1>8, <1>10, <1>11 DEF LoginsInv

LEMMA DeleteHostsStep ==
    ASSUME LoginsTypeOK, LoginsInv, NEW gone \in SUBSET HostRows, DeleteHosts(gone),
           uri' \in [EnvIds -> Vaults \cup {NoVault}]
    PROVE  LoginsTypeOK' /\ LoginsInv'
<1>1. hosts' = [n \in NodeIds |-> IF n \in gone THEN None ELSE hosts[n]] /\ ForgetHosts(gone)
  BY DEF DeleteHosts
<1>2. hosts' \in [NodeIds -> EnvIds \cup {None}] /\ HostRows \ gone \subseteq HostRows'
  BY <1>1 DEF LoginsTypeOK, HostRows
<1>3. QED  BY <1>1, <1>2, ForgetStep

LEMMA DiscoverHostsStep ==
    ASSUME LoginsTypeOK, LoginsInv, NEW e \in EnvRows, NEW v \in Vaults \cup {NoVault}, NEW found \in SUBSET HostRows,
           NEW gone \in SUBSET HostRows, NEW fresh, DiscoverHosts(e, v, found, gone, fresh)
    PROVE  LoginsTypeOK' /\ LoginsInv'
<1>1. /\ hosts' = [n \in NodeIds |-> IF n \in found \cup {fresh} THEN e ELSE IF n \in gone THEN None ELSE hosts[n]]
      /\ uri' = IF v = NoVault THEN uri ELSE [uri EXCEPT ![e] = v]
      /\ ForgetHosts(gone) /\ e \in EnvIds
  BY DEF DiscoverHosts, EnvRows
<1>2. uri' \in [EnvIds -> Vaults \cup {NoVault}] /\ hosts' \in [NodeIds -> EnvIds \cup {None}]
  BY <1>1 DEF LoginsTypeOK
<1>3. HostRows \ gone \subseteq HostRows'
  BY <1>1, NoneIsNoRow DEF LoginsTypeOK, HostRows
<1>4. QED  BY <1>1, <1>2, <1>3, ForgetStep

LEMMA LoginsStep == LoginsTypeOK /\ LoginsInv /\ [LoginsNext]_keyVars => LoginsTypeOK' /\ LoginsInv'
<1> SUFFICES ASSUME LoginsTypeOK, LoginsInv, [LoginsNext]_keyVars  PROVE LoginsTypeOK' /\ LoginsInv'
  OBVIOUS
<1>1. UNCHANGED loginVars => LoginsTypeOK' /\ LoginsInv'
  <2> SUFFICES ASSUME UNCHANGED loginVars  PROVE LoginsTypeOK' /\ LoginsInv'
    OBVIOUS
  <2>1. UNCHANGED <<hosts, uri, targets, vault, requests, doubt, shown>>
    BY DEF loginVars
  <2>2. LoginsTypeOK' /\ TargetsHaveHosts'
    BY <2>1 DEF LoginsTypeOK, LoginsInv, TargetsHaveHosts, HostRows
  <2>3. \A n \in NodeIds : targets[n].stored => n \in HostRows
    BY DEF LoginsInv, TargetsHaveHosts
  <2>4. QED  BY <2>1, <2>2, <2>3, QuietStep
<1>2. ASSUME NEW e \in EnvRows, DeleteEnvironmentWithSecrets(e)  PROVE LoginsTypeOK' /\ LoginsInv'
  <2>1. DeleteHosts({n \in HostRows : hosts[n] = e}) /\ uri' \in [EnvIds -> Vaults \cup {NoVault}]
    BY <1>2 DEF DeleteEnvironmentWithSecrets, LoginsTypeOK
  <2>2. {n \in HostRows : hosts[n] = e} \in SUBSET HostRows
    OBVIOUS
  <2>3. QED  BY <2>1, <2>2, DeleteHostsStep
<1>3. Environments => UNCHANGED loginVars \/ \E e \in EnvRows : DeleteEnvironmentWithSecrets(e)
  BY DEF Environments, RegisterEnvironment, UpdateEnvironment, RegisterCopyOf
<1>4. ASSUME NEW n \in HostRows, DeleteHost(n)  PROVE LoginsTypeOK' /\ LoginsInv'
  BY <1>4, DeleteHostsStep DEF DeleteHost, LoginsTypeOK
<1>5. ASSUME NEW n \in HostRows, NEW r \in Requests,
             RemoveLogin(r, n) \/ ShowLogin(r, n) \/ \E login \in Logins : SaveLogin(r, n, login)
      PROVE  LoginsTypeOK' /\ LoginsInv'
  BY <1>5, RemoveLoginStep, ShowLoginStep, SaveLoginStep
<1>6. ASSUME NEW r \in Requests,
             \/ SetSecret(r) \/ RecoverDeletedSecret(r) \/ SaveRow(r) \/ RequestFails(r)
             \/ DeleteSecret(r) \/ RemovalIsAnswered(r) \/ LoginIsShown(r)
      PROVE  LoginsTypeOK' /\ LoginsInv'
  BY <1>6, SetSecretStep, RecoverStep, SaveRowStep, RequestFailsStep, RemovalStep, LoginIsShownStep
<1>7. ASSUME NEW e \in EnvRows, NEW v \in Vaults \cup {NoVault}, NEW found \in SUBSET HostRows,
             NEW gone \in SUBSET {n \in HostRows \ found : hosts[n] = e}, NEW fresh, DiscoverHosts(e, v, found, gone, fresh)
      PROVE  LoginsTypeOK' /\ LoginsInv'
  <2>1. gone \in SUBSET HostRows
    OBVIOUS
  <2>2. QED  BY <1>7, <2>1, DiscoverHostsStep
<1>8. MachinesAndLogins => LoginsTypeOK' /\ LoginsInv'
  BY <1>4, <1>5, <1>6, <1>7, EnableAccessStep, SecretIsDeletedStep, RestartStep DEF MachinesAndLogins, VaultKeys
<1>9. QED  BY <1>1, <1>2, <1>3, <1>8 DEF LoginsNext, keyVars

LEMMA LoginsStart == LoginsInit => LoginsTypeOK /\ LoginsInv
<1> SUFFICES ASSUME LoginsInit  PROVE LoginsTypeOK /\ LoginsInv
  OBVIOUS
<1>1. NoTarget \in Target /\ ~NoTarget.stored /\ ~NoLogin.clean
      /\ NoLogin \in [user : Logins \cup {NoSecret}, password : Logins \cup {NoSecret}, clean : BOOLEAN]
  BY DEF NoTarget, NoLogin, Target
<1>2. LoginsTypeOK
  BY <1>1 DEF LoginsInit, LoginsTypeOK, VaultKeys, Entry
<1>3. HostRows = {} /\ (\A n \in NodeIds : ~targets[n].stored) /\ \A r \in Requests : requests[r] = Idle
  BY <1>1 DEF LoginsInit, HostRows
<1>4. \A r \in Requests : ~CleanRequest(r) /\ requests[r].op # "remove"
  BY <1>3 DEF CleanRequest, Idle
<1>5. LoginsInv
  BY <1>1, <1>3, <1>4
  DEF LoginsInit, LoginsInv, TargetsHaveHosts, StoredIsInVault, RemovalsAreDoubted, CleanIsAlone, CleanIsInVault,
      Settled, ShownBelongs
<1>6. QED  BY <1>2, <1>5

\* A machine said to have a login has it in the vault it was saved to, the name and the password of one
\* save, and a login that is shown from there is such a pair: through saves that had to recover a deleted
\* secret, removals, restarts, rowids given again, hand-overs and changed vaults, unless the last save
\* failed or something else happened to the machine meanwhile (setSecret, the upsert of access_targets,
\* upsertForCyberRange, the credential route of the broker).
THEOREM LoginsStayTogether == LoginsSpec => []LoginsBelong
<1>1. LoginsTypeOK /\ LoginsInv => LoginsBelong
  BY DEF LoginsInv, LoginsBelong, StoredIsInVault, ShownBelongs, SecretOf, Working, Writing
<1>2. QED  BY <1>1, LoginsStart, LoginsStep, PTL DEF LoginsSpec

\* Both kinds of secrets stay with what they were entered for.
THEOREM SecretsStayTheirOwn == LoginsSpec => []SecretsAreTheirOwn
<1>1. CredentialsAreOwn /\ LoginsBelong => SecretsAreTheirOwn
  BY DEF SecretsAreTheirOwn
<1>2. QED  BY <1>1, CredentialsStayOwn, LoginsStayTogether, PTL

\* Types, of the secrets and of the logins.
THEOREM KeysTypeCorrect == LoginsSpec => []KeysTypeOK
<1>1. LoginsInit => PrincipalsTypeOK /\ CredentialsAreOwn
  BY DEF LoginsInit, PrincipalsTypeOK, CredentialsAreOwn, EnvRows, CredRows
<1>2. PrincipalsTypeOK /\ LoginsTypeOK => KeysTypeOK
  BY DEF PrincipalsTypeOK, LoginsTypeOK, KeysTypeOK, Request, VaultKeys
<1>3. QED  BY <1>1, <1>2, PrincipalsStep, LoginsStart, LoginsStep, PTL DEF LoginsSpec

-------------------------------------------------------------------------------
(* The drawing: rows                                                        *)

LEMMA GreatestRow ==
    ASSUME NEW N \in Nat, NEW T \in SUBSET (1..N)
    PROVE  /\ Max({Unzoned} \cup T) \in {Unzoned} \cup T
           /\ NextRow(T) \in Nat /\ \A y \in T : y < NextRow(T)
           /\ NextRow(T) > 0
<1>1. CASE T = {}
  <2>1. Max({Unzoned} \cup T) \in {Unzoned} \cup T
    BY <1>1 DEF Max, Unzoned
  <2>2. QED  BY <1>1, <2>1 DEF NextRow
<1>2. CASE T # {}
  <2>1. PICK x \in T : \A y \in T : y <= x
    BY <1>2, LastRow
  <2>2. \E m \in {Unzoned} \cup T : \A y \in {Unzoned} \cup T : m >= y
    BY <2>1 DEF Unzoned
  <2>3. \E m \in T : \A y \in T : m >= y
    BY <2>1
  <2>4. Max({Unzoned} \cup T) \in {Unzoned} \cup T
    BY <2>2 DEF Max
  <2>5. Max(T) \in T /\ \A y \in T : Max(T) >= y
    BY <2>3 DEF Max
  <2>6. PICK m \in T : m = Max(T)
    BY <2>5
  <2>7. m \in Nat /\ NextRow(T) = m + 1
    BY <1>2, <2>6 DEF NextRow
  <2>8. QED  BY <2>4, <2>5, <2>6, <2>7
<1>3. QED  BY <1>1, <1>2

LEMMA CountBefore ==
    ASSUME NEW new, IsFiniteSet(new), new \subseteq Nat
    PROVE  /\ \A i \in new : Cardinality({k \in new : k < i}) \in Nat
           /\ \A i \in new : Cardinality({k \in new : k < i}) < Cardinality(new)
           /\ \A i, j \in new : i < j => Cardinality({k \in new : k < i}) < Cardinality({k \in new : k < j})
<1> DEFINE before(i) == {k \in new : k < i}
<1>1. \A i \in new : IsFiniteSet(before(i))
  BY FS_Subset
<1>2. \A i \in new : Cardinality(before(i)) \in Nat
  BY <1>1, FS_CardinalityType
<1>3. ASSUME NEW i \in new, NEW T \in SUBSET new, before(i) \subseteq T, i \in T
      PROVE  Cardinality(before(i)) < Cardinality(T)
  <2>1. IsFiniteSet(T) /\ i \notin before(i)
    <3>1. i \in Nat
      OBVIOUS
    <3>2. ~(i < i)
      BY <3>1
    <3>3. QED  BY <3>2, FS_Subset
  <2>2. Cardinality(before(i)) <= Cardinality(T) /\ (Cardinality(before(i)) = Cardinality(T) => before(i) = T)
    <3>1. PICK S : S = before(i)
      OBVIOUS
    <3>2. S \in SUBSET T
      BY <1>3, <3>1
    <3>3. QED  BY <2>1, <3>1, <3>2, FS_Subset
  <2>3. Cardinality(T) \in Nat /\ before(i) # T
    BY <1>3, <2>1, FS_CardinalityType
  <2>4. QED  BY <1>2, <2>2, <2>3
<1>4. \A i \in new : Cardinality(before(i)) < Cardinality(new)
  BY <1>3
<1>5. ASSUME NEW i \in new, NEW j \in new, i < j  PROVE Cardinality(before(i)) < Cardinality(before(j))
  <2>1. before(i) \subseteq before(j) /\ i \in before(j) /\ before(j) \in SUBSET new
    <3>1. i \in Nat /\ j \in Nat /\ \A k \in new : k \in Nat
      OBVIOUS
    <3>2. \A k \in new : k < i => k < j
      BY <1>5, <3>1
    <3>3. i < j
      BY <1>5
    <3>4. QED  BY <3>2, <3>3
  <2>2. PICK T : T = before(j)
    OBVIOUS
  <2>3. Cardinality(before(i)) < Cardinality(T)
    BY <1>3, <2>1, <2>2
  <2>4. QED  BY <2>2, <2>3
<1>6. QED  BY <1>2, <1>4, <1>5

\* What an insertion adds to a table, and that it leaves the rows that are there alone.
LEMMA InsertedRows ==
    ASSUME NEW N \in Nat, NEW rows \in SUBSET (1..N), NEW table, DOMAIN table = 1..N, NEW entries,
           IsFiniteSet(DOMAIN entries), DOMAIN entries \subseteq Nat, NextRow(rows) + Cardinality(DOMAIN entries) <= N + 1
    PROVE  /\ DOMAIN Inserted(table, rows, entries) = 1..N
           /\ \A r \in rows : Inserted(table, rows, entries)[r] = table[r]
           /\ \A i \in DOMAIN entries : /\ RowFor(rows, DOMAIN entries, i) \in 1..N
                                        /\ Inserted(table, rows, entries)[RowFor(rows, DOMAIN entries, i)] = entries[i]
           /\ \A r \in 1..N : \/ Inserted(table, rows, entries)[r] = table[r]
                              \/ \E i \in DOMAIN entries : Inserted(table, rows, entries)[r] = entries[i]
<1> DEFINE new == DOMAIN entries
           first == NextRow(rows)
           count(i) == Cardinality({k \in new : k < i})
           of(r) == CHOOSE i \in new : RowFor(rows, new, i) = r
<1>1. first \in Nat /\ first > 0 /\ \A r \in rows : r < first
  BY GreatestRow
<1>2. /\ Cardinality(new) \in Nat
      /\ \A i \in new : count(i) \in Nat /\ count(i) < Cardinality(new)
      /\ \A i, j \in new : count(i) = count(j) => i = j
  <2>1. Cardinality(new) \in Nat
    BY FS_CardinalityType
  <2>2. \A i \in new : count(i) \in Nat /\ count(i) < Cardinality(new)
    BY CountBefore
  <2>3. \A i, j \in new : i < j => count(i) < count(j)
    BY CountBefore
  <2> HIDE DEF new, count
  <2>4. new \subseteq Nat
    BY DEF new
  <2>5. QED  BY <2>1, <2>2, <2>3, <2>4
<1>3. \A i \in new : RowFor(rows, new, i) = first + count(i)
  BY DEF RowFor
<1>4. Inserted(table, rows, entries) = [r \in 1..N |-> IF \E i \in new : RowFor(rows, new, i) = r THEN entries[of(r)] ELSE table[r]]
  BY DEF Inserted
<1> HIDE DEF new, first, count
<1>5. \A i \in new : RowFor(rows, new, i) \in 1..N /\ RowFor(rows, new, i) \notin rows
  <2>1. first + Cardinality(new) <= N + 1
    BY DEF first, new
  <2>2. QED  BY <1>1, <1>2, <1>3, <2>1
<1>6. \A i \in new : of(RowFor(rows, new, i)) = i
  BY <1>1, <1>2, <1>3
<1>7. \A r : (\E i \in new : RowFor(rows, new, i) = r) => of(r) \in new
  OBVIOUS
<1> HIDE DEF of
<1>8. QED  BY <1>4, <1>5, <1>6, <1>7 DEF new

-------------------------------------------------------------------------------
(* The drawing: its invariant                                               *)

CardFields == {"key", "zone", "x", "y", "shown"}
LabTypeOK ==
    /\ DOMAIN zones = ZoneIds /\ DOMAIN cards = CardIds
    /\ \A c \in CardIds : cards[c] = NoCard \/ (DOMAIN cards[c] = CardFields /\ cards[c].key # NoRow)

LabInv == LabTypeOK /\ DrawingsAreWhole

LEMMA Bounds == MaxCard \in Nat /\ MaxZone \in Nat
BY LabAssumption

LEMMA RowIds == CardRows \in SUBSET (1..MaxCard) /\ ZoneRows \in SUBSET (1..MaxZone)
BY DEF CardRows, CardIds, ZoneRows, ZoneIds

\* A row is a card if its key is an id or the mark of the instructor's.
LEMMA IsACard == \A r : r.key # NoRow => r # NoCard
BY DEF NoCard

LEMMA FreeRows ==
    /\ NextRow(CardRows) <= MaxCard => NextRow(CardRows) \in CardIds
    /\ NextRow(ZoneRows) <= MaxZone => NextRow(ZoneRows) \in ZoneIds
<1>1. NextRow(CardRows) \in Nat /\ NextRow(CardRows) > 0 /\ NextRow(ZoneRows) \in Nat /\ NextRow(ZoneRows) > 0
  <2>1. NextRow(CardRows) \in Nat /\ NextRow(CardRows) > 0
    BY RowIds, Bounds, GreatestRow
  <2>2. NextRow(ZoneRows) \in Nat /\ NextRow(ZoneRows) > 0
    BY RowIds, Bounds, GreatestRow
  <2>3. QED  BY <2>1, <2>2
<1>2. QED  BY <1>1, Bounds DEF CardIds, ZoneIds

LEMMA LabInitially == LabInit => LabInv
<1> SUFFICES ASSUME LabInit PROVE LabInv
  OBVIOUS
<1>1. CardRows = {} /\ lines = {} /\ snapshot = NoSnapshot
  BY DEF LabInit, CardRows
<1>2. LabTypeOK
  BY DEF LabInit, LabTypeOK
<1>3. QED  BY <1>1, <1>2 DEF LabInv, DrawingsAreWhole, Whole

\* An edit of the drawing that takes the lines away with their ends, and the cards out of a zone that goes.
LEMMA Edited ==
    ASSUME LabInv, LabTypeOK', UNCHANGED <<snapshot, unframed>>,
           \A l \in lines' : {l.from, l.to} \subseteq Ends',
           \A c \in CardRows' : cards'[c].zone \in ZoneRows' \cup {Unzoned}
    PROVE  LabInv'
<1>1. Whole'
  BY DEF Whole
<1>2. snapshot' # NoSnapshot =>
         /\ \A l \in snapshot'.lines : {l.from, l.to} \subseteq {NodeEnd(c) : c \in DOMAIN snapshot'.zoneOf}
                                                               \cup {ZoneEnd(z) : z \in snapshot'.zones}
         /\ \A c \in DOMAIN snapshot'.zoneOf : snapshot'.zoneOf[c] \in snapshot'.zones \cup {Unzoned} \cup unframed'
  BY DEF LabInv, DrawingsAreWhole
<1>3. QED  BY <1>1, <1>2 DEF LabInv, DrawingsAreWhole, NodeEnd, ZoneEnd

\* An edit that only adds rows, or moves cards and puts them into zones there are.
LEMMA Grown ==
    ASSUME LabInv, LabTypeOK', UNCHANGED <<snapshot, unframed>>,
           CardRows \subseteq CardRows', ZoneRows \subseteq ZoneRows',
           \A c \in CardRows' : cards'[c].zone \in ZoneRows' \cup {Unzoned},
           \A l \in lines' : l \in lines \/ {l.from, l.to} \subseteq Ends'
    PROVE  LabInv'
<1>1. Ends \subseteq Ends'
  BY DEF Ends, NodeEnd, ZoneEnd
<1>2. \A l \in lines' : {l.from, l.to} \subseteq Ends'
  BY <1>1 DEF LabInv, DrawingsAreWhole, Whole
<1>3. QED  BY <1>2, Edited

-------------------------------------------------------------------------------
(* The drawing: the instructor                                              *)

LEMMA NodeAdded == ASSUME LabInv, NEW z \in ZoneRows \cup {Unzoned}, AddNode(z) PROVE LabInv'
<1> DEFINE spot == NextPosition(Planner(CardRows), z, 1).spot
           card == [key |-> DrawnByHand, zone |-> z, x |-> spot[1], y |-> spot[2], shown |-> TRUE]
<1>1. PICK c \in CardIds : cards' = [cards EXCEPT ![c] = card] /\ UNCHANGED <<zones, lines, snapshot, unframed>>
  BY FreeRows DEF AddNode, Redrawn
<1>2. DOMAIN card = CardFields /\ card.key # NoRow /\ card.zone = z
  BY DEF CardFields, DrawnByHand, NoRow
<1>3. PICK new : new = card
  OBVIOUS
<1> HIDE DEF card
<1>4. LabTypeOK /\ new # NoCard
  BY <1>2, <1>3, IsACard DEF LabInv
<1>5. LabTypeOK' /\ CardRows' = CardRows \cup {c} /\ ZoneRows' = ZoneRows
  BY <1>1, <1>2, <1>3, <1>4 DEF LabTypeOK, CardRows, ZoneRows
<1>6. \A d \in CardRows' : cards'[d].zone \in ZoneRows' \cup {Unzoned}
  BY <1>1, <1>2, <1>3, <1>4, <1>5 DEF LabTypeOK, LabInv, DrawingsAreWhole, Whole
<1>7. QED  BY <1>1, <1>5, <1>6, Grown

\* A card is changed: its place, its zone or whether students see it.
LEMMA CardChanged ==
    ASSUME LabInv, NEW c \in CardRows, NEW new, DOMAIN new = CardFields, new.key = cards[c].key,
           new.zone \in ZoneRows \cup {Unzoned}, cards' = [cards EXCEPT ![c] = new],
           UNCHANGED <<zones, lines, snapshot, unframed>>
    PROVE  LabInv'
<1>1. LabTypeOK /\ c \in CardIds /\ new.key # NoRow /\ new # NoCard
  BY IsACard DEF LabInv, LabTypeOK, CardRows
<1>2. LabTypeOK' /\ CardRows' = CardRows /\ ZoneRows' = ZoneRows
  BY <1>1 DEF LabTypeOK, CardRows, ZoneRows
<1>3. \A d \in CardRows' : cards'[d].zone \in ZoneRows' \cup {Unzoned}
  BY <1>1, <1>2 DEF LabTypeOK, LabInv, DrawingsAreWhole, Whole, CardRows
<1>4. QED  BY <1>2, <1>3, Grown

LEMMA CardEdited ==
    ASSUME LabInv, NEW c \in CardRows,
           \/ \E spot \in Spots : MoveNode(c, spot)
           \/ \E z \in ZoneRows : PlaceInZone(c, z)
           \/ ShowOrHideNode(c)
    PROVE  LabInv'
<1>1. DOMAIN cards[c] = CardFields /\ c \in CardIds /\ DOMAIN cards = CardIds /\ cards[c].zone \in ZoneRows \cup {Unzoned}
  BY DEF LabInv, LabTypeOK, CardRows, DrawingsAreWhole, Whole
<1>2. CASE \E spot \in Spots : MoveNode(c, spot)
  <2>1. PICK spot \in Spots : MoveNode(c, spot)
    BY <1>2
  <2> DEFINE new == [cards[c] EXCEPT !.x = spot[1], !.y = spot[2]]
  <2>2. cards' = [cards EXCEPT ![c] = new] /\ UNCHANGED <<zones, lines, snapshot, unframed>>
    BY <1>1, <2>1 DEF MoveNode, Redrawn
  <2>3. DOMAIN new = CardFields /\ new.key = cards[c].key /\ new.zone = cards[c].zone
    BY <1>1 DEF CardFields
  <2> HIDE DEF new
  <2>4. QED  BY <1>1, <2>2, <2>3, CardChanged
<1>3. ASSUME NEW z \in ZoneRows, PlaceInZone(c, z)  PROVE LabInv'
  <2> DEFINE new == [cards[c] EXCEPT !.zone = z]
  <2>2. cards' = [cards EXCEPT ![c] = new] /\ UNCHANGED <<zones, lines, snapshot, unframed>>
    BY <1>1, <1>3 DEF PlaceInZone, Redrawn
  <2>3. DOMAIN new = CardFields /\ new.key = cards[c].key /\ new.zone = z
    BY <1>1 DEF CardFields
  <2> HIDE DEF new
  <2>4. QED  BY <2>2, <2>3, CardChanged
<1>4. CASE ShowOrHideNode(c)
  <2> DEFINE new == [cards[c] EXCEPT !.shown = ~@]
  <2>2. cards' = [cards EXCEPT ![c] = new] /\ UNCHANGED <<zones, lines, snapshot, unframed>>
    BY <1>1, <1>4 DEF ShowOrHideNode, Redrawn
  <2>3. DOMAIN new = CardFields /\ new.key = cards[c].key /\ new.zone = cards[c].zone
    BY <1>1 DEF CardFields
  <2> HIDE DEF new
  <2>4. QED  BY <1>1, <2>2, <2>3, CardChanged
<1>5. QED  BY <1>2, <1>3, <1>4

LEMMA NodeDeleted == ASSUME LabInv, NEW c \in CardRows, DeleteNode(c) PROVE LabInv'
<1>1. /\ cards' = WithoutCards({c}) /\ lines' = lines \ Touching({NodeEnd(c)}) /\ UNCHANGED <<zones, snapshot, unframed>>
  BY DEF DeleteNode, Redrawn
<1>2. LabTypeOK' /\ CardRows' = CardRows \ {c} /\ ZoneRows' = ZoneRows
  BY <1>1 DEF LabInv, LabTypeOK, WithoutCards, CardRows, ZoneRows
<1>3. \A d \in CardRows' : cards'[d] = cards[d]
  BY <1>1, <1>2 DEF WithoutCards, CardRows
<1>4. Ends' = Ends \ {NodeEnd(c)}
  BY <1>2 DEF Ends, NodeEnd, ZoneEnd
<1>5. \A l \in lines' : {l.from, l.to} \subseteq Ends'
  BY <1>1, <1>4 DEF LabInv, DrawingsAreWhole, Whole, Touching
<1>6. \A d \in CardRows' : cards'[d].zone \in ZoneRows' \cup {Unzoned}
  BY <1>2, <1>3 DEF LabInv, DrawingsAreWhole, Whole
<1>7. QED  BY <1>1, <1>2, <1>5, <1>6, Edited

LEMMA ZoneAdded == ASSUME LabInv, AddZone PROVE LabInv'
<1>1. PICK z \in ZoneIds : zones' = [zones EXCEPT ![z] = DrawnByHand] /\ UNCHANGED <<cards, lines, snapshot, unframed>>
  BY FreeRows DEF AddZone, Redrawn
<1>2. LabTypeOK' /\ CardRows' = CardRows /\ ZoneRows' = ZoneRows \cup {z}
  BY <1>1 DEF LabInv, LabTypeOK, CardRows, ZoneRows, DrawnByHand, NoRow
<1>3. \A d \in CardRows' : cards'[d].zone \in ZoneRows' \cup {Unzoned}
  BY <1>1, <1>2 DEF LabInv, DrawingsAreWhole, Whole
<1>4. QED  BY <1>1, <1>2, <1>3, Grown

\* The cards of zones that go, out of them.
LEMMA Ungrouped ==
    ASSUME NEW gone, NEW rows, DOMAIN rows = CardIds,
           \A c \in CardIds : rows[c] = NoCard \/ (DOMAIN rows[c] = CardFields /\ rows[c].key # NoRow)
    PROVE  /\ DOMAIN OutOf(gone, rows) = CardIds
           /\ \A c \in CardIds : rows[c] = NoCard => OutOf(gone, rows)[c] = NoCard
           /\ \A c \in CardIds : rows[c] # NoCard =>
                /\ DOMAIN OutOf(gone, rows)[c] = CardFields /\ OutOf(gone, rows)[c].key = rows[c].key
                /\ OutOf(gone, rows)[c] # NoCard
                /\ OutOf(gone, rows)[c].zone = IF rows[c].zone \in gone THEN Unzoned ELSE rows[c].zone
<1>1. DOMAIN OutOf(gone, rows) = CardIds
  BY DEF OutOf
<1>2. ASSUME NEW c \in CardIds, rows[c] = NoCard  PROVE OutOf(gone, rows)[c] = NoCard
  BY <1>2 DEF OutOf
<1>3. ASSUME NEW c \in CardIds, rows[c] # NoCard
      PROVE  /\ DOMAIN OutOf(gone, rows)[c] = CardFields /\ OutOf(gone, rows)[c].key = rows[c].key
             /\ OutOf(gone, rows)[c] # NoCard
             /\ OutOf(gone, rows)[c].zone = IF rows[c].zone \in gone THEN Unzoned ELSE rows[c].zone
  <2>1. DOMAIN rows[c] = CardFields /\ rows[c].key # NoRow
    BY <1>3
  <2>2. CASE rows[c].zone \in gone
    <3>1. OutOf(gone, rows)[c] = [rows[c] EXCEPT !.zone = Unzoned]
      BY <1>3, <2>2 DEF OutOf
    <3>2. DOMAIN OutOf(gone, rows)[c] = CardFields /\ OutOf(gone, rows)[c].key = rows[c].key /\ OutOf(gone, rows)[c].zone = Unzoned
      BY <2>1, <3>1 DEF CardFields
    <3>3. QED  BY <2>1, <2>2, <3>2, IsACard
  <2>3. CASE rows[c].zone \notin gone
    <3>1. OutOf(gone, rows)[c] = rows[c]
      BY <2>3 DEF OutOf
    <3>2. QED  BY <1>3, <2>1, <2>3, <3>1
  <2>4. QED  BY <2>2, <2>3
<1>4. QED  BY <1>1, <1>2, <1>3

LEMMA ZoneDeleted == ASSUME LabInv, NEW z \in ZoneRows, DeleteZone(z) PROVE LabInv'
<1>1. /\ zones' = WithoutZones({z}) /\ cards' = OutOf({z}, cards) /\ lines' = lines \ Touching({ZoneEnd(z)})
      /\ UNCHANGED <<snapshot, unframed>>
  BY DEF DeleteZone, Redrawn
<1>2. /\ DOMAIN cards = CardIds
      /\ \A c \in CardIds : cards[c] = NoCard \/ (DOMAIN cards[c] = CardFields /\ cards[c].key # NoRow)
  BY DEF LabInv, LabTypeOK
<1>3. LabTypeOK' /\ CardRows' = CardRows /\ ZoneRows' = ZoneRows \ {z}
  <2>1. DOMAIN zones' = ZoneIds /\ ZoneRows' = ZoneRows \ {z}
    BY <1>1 DEF WithoutZones, ZoneRows
  <2>2. QED  BY <1>1, <1>2, <2>1, Ungrouped DEF LabTypeOK, CardRows
<1>4. \A c \in CardRows' : cards'[c].zone \in ZoneRows' \cup {Unzoned}
  <2>1. \A c \in CardRows : c \in CardIds /\ cards[c] # NoCard /\ cards[c].zone \in ZoneRows \cup {Unzoned}
    BY DEF LabInv, DrawingsAreWhole, Whole, CardRows
  <2>2. QED  BY <1>1, <1>2, <1>3, <2>1, Ungrouped
<1>5. Ends' = Ends \ {ZoneEnd(z)}
  BY <1>3 DEF Ends, NodeEnd, ZoneEnd
<1>6. \A l \in lines' : {l.from, l.to} \subseteq Ends'
  BY <1>1, <1>5 DEF LabInv, DrawingsAreWhole, Whole, Touching
<1>7. QED  BY <1>1, <1>3, <1>4, <1>6, Edited

LEMMA EdgeAddedOrDeleted ==
    ASSUME LabInv, (\E from, to \in Ends : AddEdge(from, to)) \/ (\E l \in lines : DeleteEdge(l))
    PROVE  LabInv'
<1>1. UNCHANGED <<zones, cards, snapshot, unframed>>
  BY DEF AddEdge, DeleteEdge, Redrawn
<1>2. LabTypeOK' /\ CardRows' = CardRows /\ ZoneRows' = ZoneRows /\ Ends' = Ends
  BY <1>1 DEF LabInv, LabTypeOK, CardRows, ZoneRows, Ends
<1>3. \A l \in lines' : l \in lines \/ {l.from, l.to} \subseteq Ends
  <2>1. CASE \E from, to \in Ends : AddEdge(from, to)
    <3>1. PICK from \in Ends, to \in Ends : lines' = lines \cup {[from |-> from, to |-> to, by |-> "hand"]}
      BY <2>1 DEF AddEdge, Redrawn
    <3>2. QED  BY <3>1
  <2>2. CASE \E l \in lines : DeleteEdge(l)
    BY <2>2 DEF DeleteEdge, Redrawn
  <2>3. QED  BY <2>1, <2>2
<1>4. \A c \in CardRows' : cards'[c].zone \in ZoneRows' \cup {Unzoned}
  BY <1>1, <1>2 DEF LabInv, DrawingsAreWhole, Whole
<1>5. QED  BY <1>1, <1>2, <1>3, <1>4, Grown

LEMMA LaidOut == ASSUME LabInv, NEW order, AutoLayout(order) PROVE LabInv'
<1>1. /\ DOMAIN cards' = CardIds /\ \A c \in CardIds \ CardRows : cards'[c] = NoCard
      /\ \A c \in CardRows : \E x, y : cards'[c] = [cards[c] EXCEPT !.x = x, !.y = y]
      /\ UNCHANGED <<zones, lines, snapshot, unframed>>
  <2> DEFINE groups == Append(order, Unzoned)
             members(z) == MembersInOrder({c \in CardRows : cards[c].zone = z})
             sequence == FoldLeft(LAMBDA seq, z : seq \o members(z), <<>>, groups)
             spots == SpotsFor(StartingPlaces, [i \in DOMAIN sequence |->
                        [zone |-> cards[sequence[i]].zone, hint |-> Len(members(cards[sequence[i]].zone))]])
             place(c) == CHOOSE i \in DOMAIN sequence : sequence[i] = c
  <2>1. /\ cards' = [c \in CardIds |-> IF c \in CardRows
                       THEN [cards[c] EXCEPT !.x = spots[place(c)][1], !.y = spots[place(c)][2]] ELSE NoCard]
        /\ UNCHANGED <<zones, lines, snapshot, unframed>>
    BY DEF AutoLayout, Redrawn
  <2> HIDE DEF spots, place
  <2>2. CardRows \subseteq CardIds
    BY DEF CardRows
  <2>3. \A c \in CardRows : cards'[c] = [cards[c] EXCEPT !.x = spots[place(c)][1], !.y = spots[place(c)][2]]
    BY <2>1, <2>2
  <2>4. QED  BY <2>1, <2>3
<1>2. \A c \in CardRows : /\ DOMAIN cards'[c] = CardFields /\ cards'[c].key = cards[c].key /\ cards'[c].zone = cards[c].zone
                          /\ cards'[c].key # NoRow
  BY <1>1 DEF LabInv, LabTypeOK, CardRows, CardFields
<1>3. DOMAIN cards' = CardIds /\ \A c \in CardIds \ CardRows : cards'[c] = NoCard
  BY <1>1
<1>4. LabTypeOK' /\ CardRows' = CardRows /\ ZoneRows' = ZoneRows
  <2>1. \A c \in CardRows : cards'[c] # NoCard
    BY <1>2, IsACard
  <2>2. CardRows' = CardRows /\ ZoneRows' = ZoneRows
    BY <1>1, <1>3, <2>1 DEF CardRows, ZoneRows
  <2>3. QED  BY <1>1, <1>2, <1>3, <2>2 DEF LabInv, LabTypeOK
<1>5. \A c \in CardRows' : cards'[c].zone \in ZoneRows' \cup {Unzoned}
  BY <1>2, <1>4 DEF LabInv, DrawingsAreWhole, Whole
<1>6. QED  BY <1>1, <1>4, <1>5, Grown

-------------------------------------------------------------------------------
(* The drawing: publishing, and the environment's end                       *)

LEMMA DrawingPublished == ASSUME LabInv, PublishDrawing PROVE LabInv'
<1>1. UNCHANGED <<zones, cards, lines>> /\ snapshot' = StudentView
  BY DEF PublishDrawing, drawing
<1>2. LabTypeOK' /\ Whole'
  BY <1>1 DEF LabInv, LabTypeOK, DrawingsAreWhole, Whole, Ends, CardRows, ZoneRows
<1>3. /\ StudentView.zones = ZoneRows
      /\ DOMAIN StudentView.zoneOf = {d \in CardRows : cards[d].shown}
      /\ \A c \in DOMAIN StudentView.zoneOf : StudentView.zoneOf[c] = cards[c].zone
      /\ StudentView.lines = lines \ Touching({NodeEnd(c) : c \in {d \in CardRows : ~cards[d].shown}})
  BY DEF StudentView
<1>4. \A l \in StudentView.lines : {l.from, l.to} \subseteq {NodeEnd(c) : c \in DOMAIN StudentView.zoneOf}
                                                           \cup {ZoneEnd(z) : z \in StudentView.zones}
  <2> SUFFICES ASSUME NEW l \in StudentView.lines, NEW e \in {l.from, l.to}
               PROVE  e \in {NodeEnd(c) : c \in DOMAIN StudentView.zoneOf} \cup {ZoneEnd(z) : z \in StudentView.zones}
    OBVIOUS
  <2>1. e \in Ends
    BY <1>3 DEF LabInv, DrawingsAreWhole, Whole
  <2>2. CASE e \in {ZoneEnd(z) : z \in ZoneRows}
    BY <1>3, <2>2
  <2>3. ASSUME NEW c \in CardRows, e = NodeEnd(c)  PROVE e \in {NodeEnd(d) : d \in DOMAIN StudentView.zoneOf}
    <3>1. cards[c].shown
      <4>1. ASSUME ~cards[c].shown  PROVE FALSE
        <5>1. e \in {NodeEnd(d) : d \in {f \in CardRows : ~cards[f].shown}}
          BY <2>3, <4>1
        <5>2. l \in lines
          BY <1>3
        <5>3. l \in Touching({NodeEnd(d) : d \in {f \in CardRows : ~cards[f].shown}})
          BY <5>1, <5>2 DEF Touching
        <5>4. QED  BY <1>3, <5>3
      <4>2. QED  BY <4>1
    <3>2. QED  BY <1>3, <2>3, <3>1
  <2>4. QED  BY <2>1, <2>2, <2>3 DEF Ends
<1>5. \A c \in DOMAIN StudentView.zoneOf : StudentView.zoneOf[c] \in StudentView.zones \cup {Unzoned}
  BY <1>3 DEF LabInv, DrawingsAreWhole, Whole
<1>6. QED  BY <1>1, <1>2, <1>4, <1>5 DEF LabInv, DrawingsAreWhole, NodeEnd, ZoneEnd

LEMMA EndsDiffer == /\ \A c, d : NodeEnd(c) = NodeEnd(d) => c = d
                    /\ \A c, d : ZoneEnd(c) = ZoneEnd(d) => c = d
                    /\ \A c, z : NodeEnd(c) # ZoneEnd(z)
BY DEF NodeEnd, ZoneEnd

LEMMA EnvironmentDeleted == ASSUME LabInv, DeleteEnvironment PROVE LabInv'
<1> DEFINE ends == {NodeEnd(c) : c \in FoundCards} \cup {ZoneEnd(z) : z \in FoundZones}
           rows == WithoutCards(FoundCards)
<1>1. /\ zones' = WithoutZones(FoundZones) /\ cards' = OutOf(FoundZones, rows)
      /\ lines' \subseteq lines \ Touching(ends)
      /\ snapshot' = IF snapshot = NoSnapshot THEN NoSnapshot
                     ELSE [zones |-> snapshot.zones \ FoundZones,
                           zoneOf |-> [c \in DOMAIN snapshot.zoneOf \ FoundCards |-> snapshot.zoneOf[c]],
                           lines |-> {l \in snapshot.lines : l.from \notin ends /\ l.to \notin ends}]
      /\ unframed' = IF snapshot = NoSnapshot THEN {} ELSE unframed \cup FoundZones
  BY DEF DeleteEnvironment, Touching
<1>2. FoundCards \subseteq CardRows /\ CardRows \subseteq CardIds /\ FoundZones \subseteq ZoneRows
  BY DEF FoundCards, CardRows, FoundZones
<1>3. /\ DOMAIN rows = CardIds
      /\ \A c \in CardIds : rows[c] = IF c \in FoundCards THEN NoCard ELSE cards[c]
  BY DEF WithoutCards
<1>4. \A c \in CardIds : cards[c] = NoCard \/ (DOMAIN cards[c] = CardFields /\ cards[c].key # NoRow)
  BY DEF LabInv, LabTypeOK
<1> HIDE DEF rows
<1>5. LabTypeOK' /\ CardRows' = CardRows \ FoundCards /\ ZoneRows' = ZoneRows \ FoundZones
  <2>1. DOMAIN zones' = ZoneIds /\ ZoneRows' = ZoneRows \ FoundZones
    BY <1>1 DEF WithoutZones, ZoneRows, FoundZones
  <2>2. \A c \in CardIds : rows[c] = NoCard \/ (DOMAIN rows[c] = CardFields /\ rows[c].key # NoRow)
    BY <1>3, <1>4
  <2>3. DOMAIN cards' = CardIds /\ \A c \in CardIds : cards'[c] = NoCard <=> rows[c] = NoCard
    BY <1>1, <1>3, <2>2, Ungrouped
  <2>4. \A c \in CardIds : cards'[c] = NoCard \/ (DOMAIN cards'[c] = CardFields /\ cards'[c].key # NoRow)
    BY <1>1, <1>3, <2>2, Ungrouped
  <2>5. CardRows' = CardRows \ FoundCards
    BY <1>3, <2>3 DEF CardRows
  <2>6. QED  BY <2>1, <2>3, <2>4, <2>5 DEF LabTypeOK
<1>6. Whole'
  <2>1. \A c \in CardRows' : cards'[c].zone \in ZoneRows' \cup {Unzoned}
    <3> SUFFICES ASSUME NEW c \in CardRows'  PROVE cards'[c].zone \in ZoneRows' \cup {Unzoned}
      OBVIOUS
    <3>1. c \in CardRows /\ c \notin FoundCards /\ c \in CardIds
      BY <1>2, <1>5
    <3>2. rows[c] = cards[c] /\ cards[c] # NoCard /\ cards[c].zone \in ZoneRows \cup {Unzoned}
      BY <1>3, <3>1 DEF LabInv, DrawingsAreWhole, Whole, CardRows
    <3>3. cards'[c].zone = IF cards[c].zone \in FoundZones THEN Unzoned ELSE cards[c].zone
      BY <1>1, <1>3, <1>4, <3>1, <3>2, Ungrouped
    <3>4. QED  BY <1>5, <3>2, <3>3
  <2>2. Ends' = Ends \ ends
    BY <1>5, EndsDiffer DEF Ends
  <2>3. \A l \in lines' : {l.from, l.to} \subseteq Ends'
    BY <1>1, <2>2 DEF LabInv, DrawingsAreWhole, Whole, Touching
  <2>4. QED  BY <2>1, <2>3 DEF Whole
<1>7. ASSUME snapshot' # NoSnapshot
      PROVE  /\ \A l \in snapshot'.lines : {l.from, l.to} \subseteq {NodeEnd(c) : c \in DOMAIN snapshot'.zoneOf}
                                                                   \cup {ZoneEnd(z) : z \in snapshot'.zones}
             /\ \A c \in DOMAIN snapshot'.zoneOf : snapshot'.zoneOf[c] \in snapshot'.zones \cup {Unzoned} \cup unframed'
  <2>1. /\ snapshot # NoSnapshot /\ snapshot'.zones = snapshot.zones \ FoundZones
        /\ DOMAIN snapshot'.zoneOf = DOMAIN snapshot.zoneOf \ FoundCards
        /\ \A c \in DOMAIN snapshot'.zoneOf : snapshot'.zoneOf[c] = snapshot.zoneOf[c]
        /\ snapshot'.lines = {l \in snapshot.lines : l.from \notin ends /\ l.to \notin ends}
        /\ unframed' = unframed \cup FoundZones
    BY <1>1, <1>7
  <2>2. \A l \in snapshot.lines : {l.from, l.to} \subseteq {NodeEnd(c) : c \in DOMAIN snapshot.zoneOf}
                                                          \cup {ZoneEnd(z) : z \in snapshot.zones}
    BY <2>1 DEF LabInv, DrawingsAreWhole
  <2>3. \A c \in DOMAIN snapshot.zoneOf : snapshot.zoneOf[c] \in snapshot.zones \cup {Unzoned} \cup unframed
    BY <2>1 DEF LabInv, DrawingsAreWhole
  <2>4. ASSUME NEW l \in snapshot'.lines, NEW e \in {l.from, l.to}
        PROVE  e \in {NodeEnd(c) : c \in DOMAIN snapshot'.zoneOf} \cup {ZoneEnd(z) : z \in snapshot'.zones}
    <3>1. e \notin ends /\ e \in {NodeEnd(c) : c \in DOMAIN snapshot.zoneOf} \cup {ZoneEnd(z) : z \in snapshot.zones}
      BY <2>1, <2>2, <2>4
    <3>2. QED  BY <2>1, <3>1
  <2>5. \A c \in DOMAIN snapshot'.zoneOf : snapshot'.zoneOf[c] \in snapshot'.zones \cup {Unzoned} \cup unframed'
    BY <2>1, <2>3
  <2>6. QED  BY <2>4, <2>5
<1>8. QED  BY <1>5, <1>6, <1>7 DEF LabInv, DrawingsAreWhole, NodeEnd, ZoneEnd

-------------------------------------------------------------------------------
(* The drawing: a discovery                                                 *)

LEMMA FewPositions == ASSUME NEW n \in Nat, NEW T \in SUBSET (1..n) PROVE IsFiniteSet(T) /\ T \subseteq Nat
<1>1. IsFiniteSet(1..n)
  BY FS_Interval
<1>2. IsFiniteSet(T)
  BY <1>1, FS_Subset
<1>3. T \subseteq Nat
  OBVIOUS
<1>4. QED  BY <1>2, <1>3

LEMMA ZonesAdded ==
    ASSUME LabInv, NEW inv \in Inventories, NextRow(ZoneRows) + Cardinality(NewSubnets(inv)) <= MaxZone + 1
    PROVE  DOMAIN ZonesWith(inv) = ZoneIds /\ \A z \in ZoneRows : ZonesWith(inv)[z] = zones[z]
<1> DEFINE entries == [i \in NewSubnets(inv) |-> inv.subnets[i]]
<1>1. inv.subnets \in Seq(ToSet(inv.subnets))
  BY LabAssumption DEF Reported
<1>2. DOMAIN inv.subnets = 1..Len(inv.subnets) /\ Len(inv.subnets) \in Nat
  BY <1>1
<1>3. NewSubnets(inv) \subseteq 1..Len(inv.subnets)
  BY <1>2 DEF NewSubnets
<1>4. IsFiniteSet(NewSubnets(inv)) /\ NewSubnets(inv) \subseteq Nat
  BY <1>2, <1>3, FewPositions
<1>5. DOMAIN entries = NewSubnets(inv) /\ DOMAIN zones = ZoneIds /\ ZoneIds = 1..MaxZone
  BY DEF LabInv, LabTypeOK, ZoneIds
<1>6. ZonesWith(inv) = Inserted(zones, ZoneRows, entries)
  BY DEF ZonesWith
<1> HIDE DEF entries
<1>7. QED  BY <1>4, <1>5, <1>6, RowIds, Bounds, InsertedRows

LEMMA NewZoneOf ==
    ASSUME NEW inv \in Inventories, NEW rows, NEW r
    PROVE  Max({Unzoned} \cup {z \in ZoneIds : rows[z] \in ZoneKeys(inv, r)}) \in {Unzoned} \cup {z \in ZoneIds : rows[z] # NoRow}
<1>1. ZoneKeys(inv, r) \subseteq ToSet(inv.subnets)
  BY DEF ZoneKeys, SubnetOf
<1>2. NoRow \notin ToSet(inv.subnets)
  BY LabAssumption DEF Reported
<1>3. PICK T : T = {z \in ZoneIds : rows[z] \in ZoneKeys(inv, r)}
  OBVIOUS
<1>4. T \in SUBSET (1..MaxZone)
  BY <1>3 DEF ZoneIds
<1>5. Max({Unzoned} \cup T) \in {Unzoned} \cup T
  BY <1>4, Bounds, GreatestRow
<1>6. T \subseteq {z \in ZoneIds : rows[z] # NoRow}
  BY <1>1, <1>2, <1>3
<1>7. QED  BY <1>3, <1>5, <1>6

LEMMA Upserted ==
    ASSUME LabInv, NEW inv \in Inventories,
           NextRow(CardRows) + Cardinality(NewResources(inv)) <= MaxCard + 1,
           NextRow(ZoneRows) + Cardinality(NewSubnets(inv)) <= MaxZone + 1
    PROVE  /\ DOMAIN Upsert(inv).zones = ZoneIds /\ \A z \in ZoneRows : Upsert(inv).zones[z] = zones[z]
           /\ DOMAIN Upsert(inv).cards = CardIds /\ \A c \in CardRows : Upsert(inv).cards[c] = cards[c]
           /\ \A c \in CardIds : \/ Upsert(inv).cards[c] = NoCard
                                 \/ /\ DOMAIN Upsert(inv).cards[c] = CardFields /\ Upsert(inv).cards[c].key # NoRow
                                    /\ Upsert(inv).cards[c].zone \in {Unzoned} \cup {z \in ZoneIds : Upsert(inv).zones[z] # NoRow}
           /\ \A key \in Keys(inv) : \E c \in CardIds : Upsert(inv).cards[c] # NoCard /\ Upsert(inv).cards[c].key = key
<1> DEFINE rows == ZonesWith(inv)
           zoneOf(r) == Max({Unzoned} \cup {z \in ZoneIds : rows[z] \in ZoneKeys(inv, r)})
           new == NewResources(inv)
           hint(z) == Cardinality({i \in new : zoneOf(inv.resources[i]) = z})
           toPlace == SelectSeq(inv.resources, IsNew)
           spots == SpotsFor(Planner(CardRows),
                             [k \in DOMAIN toPlace |-> [zone |-> zoneOf(toPlace[k]), hint |-> hint(zoneOf(toPlace[k]))]])
           spot(i) == spots[1 + Cardinality({k \in new : k < i})]
           entries == [i \in new |-> [key |-> inv.resources[i].key, zone |-> zoneOf(inv.resources[i]),
                                     x |-> spot(i)[1], y |-> spot(i)[2], shown |-> inv.resources[i].kind = "vm"]]
<1>1. Upsert(inv).zones = rows /\ Upsert(inv).cards = Inserted(cards, CardRows, entries)
  BY DEF Upsert
<1>2. \A i \in new : zoneOf(inv.resources[i]) \in {Unzoned} \cup {z \in ZoneIds : rows[z] # NoRow}
  BY NewZoneOf
<1> HIDE DEF spots, zoneOf
<1>3. /\ DOMAIN entries = new
      /\ \A i \in new : /\ DOMAIN entries[i] = CardFields /\ entries[i].key = inv.resources[i].key
                        /\ entries[i].zone = zoneOf(inv.resources[i])
  BY DEF CardFields
<1> HIDE DEF entries
<1>4. /\ inv.resources \in Seq(ToSet(inv.resources)) /\ NoRow \notin Keys(inv) /\ DrawnByHand \notin Keys(inv)
  BY LabAssumption DEF Reported
<1>5. DOMAIN inv.resources = 1..Len(inv.resources) /\ Len(inv.resources) \in Nat
  BY <1>4
<1>6. new \subseteq DOMAIN inv.resources
  BY DEF NewResources
<1>7. \A i \in new : inv.resources[i].key # NoRow /\ entries[i] # NoCard
  <2>1. \A i \in new : inv.resources[i].key # NoRow
    BY <1>4, <1>6 DEF Keys
  <2>2. QED  BY <1>3, <2>1, IsACard
<1>8. IsFiniteSet(new) /\ new \subseteq Nat
  BY <1>5, <1>6, FewPositions
<1>9. DOMAIN cards = 1..MaxCard /\ CardIds = 1..MaxCard /\ NextRow(CardRows) + Cardinality(new) <= MaxCard + 1
  BY DEF LabInv, LabTypeOK, CardIds
<1>10. rows = ZonesWith(inv) /\ DOMAIN rows = ZoneIds /\ \A z \in ZoneRows : rows[z] = zones[z] /\ rows[z] # NoRow
  BY ZonesAdded DEF ZoneRows
<1> HIDE DEF rows, new
<1>11. /\ DOMAIN Upsert(inv).cards = CardIds
       /\ \A c \in CardRows : Upsert(inv).cards[c] = cards[c]
       /\ \A i \in new : \E c \in CardIds : Upsert(inv).cards[c] = entries[i]
       /\ \A c \in CardIds : Upsert(inv).cards[c] = cards[c] \/ \E i \in new : Upsert(inv).cards[c] = entries[i]
  <2>1. /\ IsFiniteSet(DOMAIN entries) /\ DOMAIN entries \subseteq Nat
        /\ NextRow(CardRows) + Cardinality(DOMAIN entries) <= MaxCard + 1
    BY <1>3, <1>8, <1>9
  <2>2. PICK t : t = Inserted(cards, CardRows, entries)
    OBVIOUS
  <2>3. /\ DOMAIN t = 1..MaxCard /\ \A r \in CardRows : t[r] = cards[r]
        /\ \A i \in DOMAIN entries : \E r \in 1..MaxCard : t[r] = entries[i]
        /\ \A r \in 1..MaxCard : t[r] = cards[r] \/ \E i \in DOMAIN entries : t[r] = entries[i]
    <3>1. MaxCard \in Nat /\ CardRows \in SUBSET (1..MaxCard) /\ DOMAIN cards = 1..MaxCard
      BY <1>9, RowIds, Bounds
    <3>2. PICK N, rowsThere, table, added : N = MaxCard /\ rowsThere = CardRows /\ table = cards /\ added = entries
      OBVIOUS
    <3>3. /\ N \in Nat /\ rowsThere \in SUBSET (1..N) /\ DOMAIN table = 1..N /\ IsFiniteSet(DOMAIN added)
          /\ DOMAIN added \subseteq Nat /\ NextRow(rowsThere) + Cardinality(DOMAIN added) <= N + 1
      BY <2>1, <3>1, <3>2
    <3>4. /\ DOMAIN Inserted(table, rowsThere, added) = 1..N
          /\ \A r \in rowsThere : Inserted(table, rowsThere, added)[r] = table[r]
          /\ \A i \in DOMAIN added : \E r \in 1..N : Inserted(table, rowsThere, added)[r] = added[i]
          /\ \A r \in 1..N : \/ Inserted(table, rowsThere, added)[r] = table[r]
                             \/ \E i \in DOMAIN added : Inserted(table, rowsThere, added)[r] = added[i]
      <4>1. DOMAIN Inserted(table, rowsThere, added) = 1..N /\ \A r \in rowsThere : Inserted(table, rowsThere, added)[r] = table[r]
        BY <3>3, InsertedRows
      <4>2. \A i \in DOMAIN added : \E r \in 1..N : Inserted(table, rowsThere, added)[r] = added[i]
        <5>1. \A i \in DOMAIN added : /\ RowFor(rowsThere, DOMAIN added, i) \in 1..N
                                      /\ Inserted(table, rowsThere, added)[RowFor(rowsThere, DOMAIN added, i)] = added[i]
          BY <3>3, InsertedRows
        <5>2. QED  BY <5>1
      <4>3. \A r \in 1..N : \/ Inserted(table, rowsThere, added)[r] = table[r]
                            \/ \E i \in DOMAIN added : Inserted(table, rowsThere, added)[r] = added[i]
        BY <3>3, InsertedRows
      <4>4. QED  BY <4>1, <4>2, <4>3
    <3>5. t = Inserted(table, rowsThere, added)
      BY <2>2, <3>2
    <3>6. QED  BY <3>2, <3>4, <3>5
  <2>4. QED  BY <1>1, <1>3, <1>9, <2>2, <2>3
<1>12. ASSUME NEW c \in CardIds
       PROVE  \/ Upsert(inv).cards[c] = NoCard
              \/ /\ DOMAIN Upsert(inv).cards[c] = CardFields /\ Upsert(inv).cards[c].key # NoRow
                 /\ Upsert(inv).cards[c].zone \in {Unzoned} \cup {z \in ZoneIds : Upsert(inv).zones[z] # NoRow}
  <2>1. CASE Upsert(inv).cards[c] = cards[c]
    <3>1. cards[c] = NoCard \/ (DOMAIN cards[c] = CardFields /\ cards[c].key # NoRow /\ cards[c].zone \in ZoneRows \cup {Unzoned})
      BY DEF LabInv, LabTypeOK, DrawingsAreWhole, Whole, CardRows
    <3>2. ZoneRows \subseteq {z \in ZoneIds : Upsert(inv).zones[z] # NoRow}
      BY <1>1, <1>10 DEF ZoneRows
    <3>3. QED  BY <2>1, <3>1, <3>2
  <2>2. ASSUME NEW i \in new, Upsert(inv).cards[c] = entries[i]
        PROVE  /\ DOMAIN Upsert(inv).cards[c] = CardFields /\ Upsert(inv).cards[c].key # NoRow
               /\ Upsert(inv).cards[c].zone \in {Unzoned} \cup {z \in ZoneIds : Upsert(inv).zones[z] # NoRow}
    BY <1>1, <1>2, <1>3, <1>7, <2>2
  <2>3. QED  BY <1>11, <2>1, <2>2
<1>13. ASSUME NEW key \in Keys(inv)
       PROVE  \E c \in CardIds : Upsert(inv).cards[c] # NoCard /\ Upsert(inv).cards[c].key = key
  <2>1. PICK i \in DOMAIN inv.resources : key = inv.resources[i].key
    BY DEF Keys
  <2>2. CASE i \in new
    <3>1. PICK c \in CardIds : Upsert(inv).cards[c] = entries[i]
      BY <1>11, <2>2
    <3>2. QED  BY <1>3, <1>7, <2>1, <2>2, <3>1
  <2>3. CASE i \notin new
    <3>1. PICK c \in FoundCards : cards[c].key = inv.resources[i].key
      BY <2>3 DEF new, NewResources, IsNew
    <3>2. c \in CardRows /\ c \in CardIds /\ cards[c] # NoCard
      BY DEF FoundCards, CardRows
    <3>3. QED  BY <1>11, <2>1, <3>1, <3>2
  <2>4. QED  BY <2>2, <2>3
<1>14. QED  BY <1>1, <1>10, <1>11, <1>12, <1>13

LEMMA Discovered == ASSUME LabInv, NEW inv \in Inventories, Discover(inv) PROVE LabInv'
<1> DEFINE up == Upsert(inv)
           staleCards == IF Clean(inv) THEN {c \in FoundCards : cards[c].key \notin Keys(inv)} ELSE {}
           staleZones == IF Clean(inv) THEN {z \in FoundZones : zones[z] \notin ToSet(inv.subnets)} ELSE {}
           cardOf(key) == CHOOSE c \in CardIds : up.cards[c] # NoCard /\ up.cards[c].key = key
           found == {[from |-> NodeEnd(cardOf(p[1])), to |-> NodeEnd(cardOf(p[2])), by |-> "azure"] : p \in Related(inv)}
           kept == IF Clean(inv) THEN {l \in lines : l.by = "hand"} ELSE lines
           blocking(ends) == {l \in kept : l.from \in ends \/ l.to \in ends}
           stale == {NodeEnd(c) : c \in staleCards} \cup {ZoneEnd(z) : z \in staleZones}
           left == [c \in CardIds |-> IF c \in staleCards THEN NoCard ELSE up.cards[c]]
<1>1. CASE UNCHANGED <<drawing, snapshot, arranged, unframed>>
  <2>1. UNCHANGED <<zones, cards, lines, snapshot, unframed>>
    BY <1>1 DEF drawing
  <2>2. QED  BY <2>1 DEF LabInv, LabTypeOK, DrawingsAreWhole, Whole, Ends, CardRows, ZoneRows, NodeEnd, ZoneEnd
<1>2. ASSUME blocking(stale) = {},
             zones' = [z \in ZoneIds |-> IF z \in staleZones THEN NoRow ELSE up.zones[z]],
             cards' = OutOf(staleZones, left), lines' = kept \cup found, UNCHANGED <<snapshot, unframed>>,
             NextRow(CardRows) + Cardinality(NewResources(inv)) <= MaxCard + 1,
             NextRow(ZoneRows) + Cardinality(NewSubnets(inv)) <= MaxZone + 1
      PROVE  LabInv'
  <2>1. /\ DOMAIN up.zones = ZoneIds /\ \A z \in ZoneRows : up.zones[z] = zones[z]
        /\ DOMAIN up.cards = CardIds /\ \A c \in CardRows : up.cards[c] = cards[c]
        /\ \A c \in CardIds : \/ up.cards[c] = NoCard
                              \/ /\ DOMAIN up.cards[c] = CardFields /\ up.cards[c].key # NoRow
                                 /\ up.cards[c].zone \in {Unzoned} \cup {z \in ZoneIds : up.zones[z] # NoRow}
        /\ \A key \in Keys(inv) : \E c \in CardIds : up.cards[c] # NoCard /\ up.cards[c].key = key
    BY <1>2, Upserted
  <2> HIDE DEF up
  <2>2. staleCards \subseteq FoundCards /\ \A c \in staleCards : cards[c].key \notin Keys(inv)
    OBVIOUS
  <2>3. FoundCards \subseteq CardRows /\ CardRows \subseteq CardIds /\ staleZones \subseteq ZoneRows
    BY DEF FoundCards, FoundZones, CardRows
  <2>4. kept \subseteq lines
    OBVIOUS
  <2>5. \A l \in kept : l.from \notin stale /\ l.to \notin stale
    BY <1>2
  <2>6. \A key \in Keys(inv) : cardOf(key) \in CardIds /\ up.cards[cardOf(key)] # NoCard /\ up.cards[cardOf(key)].key = key
    BY <2>1
  <2>7. \A p \in Related(inv) : p[1] \in Keys(inv) /\ p[2] \in Keys(inv)
    BY DEF Related, Relations, Keys, ToSet
  <2>8. \A l \in found : \E d, e \in Keys(inv) : l.from = NodeEnd(cardOf(d)) /\ l.to = NodeEnd(cardOf(e))
    BY <2>7
  <2> HIDE DEF staleCards, staleZones, cardOf, found, kept
  <2>9. /\ DOMAIN left = CardIds
        /\ \A c \in CardIds : left[c] = IF c \in staleCards THEN NoCard ELSE up.cards[c]
    OBVIOUS
  <2> HIDE DEF left
  <2>10. \A c \in CardIds : left[c] = NoCard \/ (DOMAIN left[c] = CardFields /\ left[c].key # NoRow)
    BY <2>1, <2>9
  <2>11. /\ DOMAIN cards' = CardIds
         /\ \A c \in CardIds : left[c] = NoCard => cards'[c] = NoCard
         /\ \A c \in CardIds : left[c] # NoCard =>
              /\ DOMAIN cards'[c] = CardFields /\ cards'[c].key = left[c].key /\ cards'[c] # NoCard
              /\ cards'[c].zone = IF left[c].zone \in staleZones THEN Unzoned ELSE left[c].zone
    BY <1>2, <2>9, <2>10, Ungrouped
  <2>12. DOMAIN zones' = ZoneIds /\ \A z \in ZoneIds : zones'[z] = IF z \in staleZones THEN NoRow ELSE up.zones[z]
    BY <1>2
  <2>13. LabTypeOK'
    BY <2>10, <2>11, <2>12 DEF LabTypeOK
  <2>14. \A c \in CardRows' : cards'[c].zone \in ZoneRows' \cup {Unzoned}
    <3> SUFFICES ASSUME NEW c \in CardRows'  PROVE cards'[c].zone \in ZoneRows' \cup {Unzoned}
      OBVIOUS
    <3>1. c \in CardIds /\ cards'[c] # NoCard
      BY DEF CardRows
    <3>2. left[c] # NoCard /\ left[c] = up.cards[c]
      BY <2>9, <2>11, <3>1
    <3>3. left[c].zone \in {Unzoned} \cup {z \in ZoneIds : up.zones[z] # NoRow}
      BY <2>1, <3>1, <3>2
    <3>4. cards'[c].zone = IF left[c].zone \in staleZones THEN Unzoned ELSE left[c].zone
      BY <2>11, <3>1, <3>2
    <3>5. \A z \in ZoneIds \ staleZones : up.zones[z] # NoRow => z \in ZoneRows'
      BY <2>12 DEF ZoneRows
    <3>6. QED  BY <3>3, <3>4, <3>5
  <2>15. \A c \in CardRows \ staleCards : c \in CardRows'
    BY <2>1, <2>3, <2>9, <2>11 DEF CardRows
  <2>16. \A z \in ZoneRows \ staleZones : z \in ZoneRows'
    BY <2>1, <2>12 DEF ZoneRows
  <2>17. \A key \in Keys(inv) : cardOf(key) \in CardRows'
    <3> SUFFICES ASSUME NEW key \in Keys(inv)  PROVE cardOf(key) \in CardRows'
      OBVIOUS
    <3>1. PICK c \in CardIds : c = cardOf(key) /\ up.cards[c] # NoCard /\ up.cards[c].key = key
      BY <2>6
    <3>2. c \notin staleCards
      BY <2>1, <2>2, <2>3, <3>1
    <3>3. left[c] # NoCard
      BY <2>9, <3>1, <3>2
    <3>4. QED  BY <2>11, <3>1, <3>3 DEF CardRows
  <2>18. ASSUME NEW l \in lines'  PROVE {l.from, l.to} \subseteq Ends'
    <3>1. CASE l \in kept
      <4>1. {l.from, l.to} \subseteq Ends
        BY <2>4, <3>1 DEF LabInv, DrawingsAreWhole, Whole
      <4>2. ASSUME NEW e \in {l.from, l.to}  PROVE e \in Ends'
        <5>1. e \in Ends /\ e \notin stale
          BY <2>5, <3>1, <4>1
        <5>2. \/ \E c \in CardRows \ staleCards : e = NodeEnd(c)
              \/ \E z \in ZoneRows \ staleZones : e = ZoneEnd(z)
          BY <5>1 DEF Ends
        <5>3. QED  BY <2>15, <2>16, <5>2 DEF Ends, NodeEnd, ZoneEnd
      <4>3. QED  BY <4>2
    <3>2. CASE l \in found
      <4>1. PICK d \in Keys(inv), e \in Keys(inv) : l.from = NodeEnd(cardOf(d)) /\ l.to = NodeEnd(cardOf(e))
        BY <2>8, <3>2
      <4>2. \A c \in CardRows' : NodeEnd(c) \in Ends'
        BY DEF Ends, NodeEnd
      <4>3. QED  BY <2>17, <4>1, <4>2
    <3>3. QED  BY <1>2, <3>1, <3>2
  <2>19. QED  BY <1>2, <2>13, <2>14, <2>18, Edited
<1>3. WriteAndPrune(inv, up)
  BY DEF Discover
<1>4. QED
  BY <1>1, <1>2, <1>3, Zenon DEF WriteAndPrune

LEMMA LabStep == LabInv /\ [LabNext]_labVars => LabInv'
<1> SUFFICES ASSUME LabInv, [LabNext]_labVars PROVE LabInv'
  OBVIOUS
<1>1. CASE Discovering
  BY <1>1, Discovered DEF Discovering
<1>2. CASE Drawing
  BY <1>2, NodeAdded, CardEdited, NodeDeleted, ZoneAdded, ZoneDeleted DEF Drawing
<1>3. CASE Arranging
  BY <1>3, CardEdited, LaidOut DEF Arranging
<1>4. CASE Referring
  BY <1>4, EdgeAddedOrDeleted, DrawingPublished, EnvironmentDeleted DEF Referring
<1>5. CASE UNCHANGED labVars
  <2>1. UNCHANGED <<zones, cards, lines, snapshot, unframed>>
    BY <1>5 DEF labVars, drawing
  <2>2. QED  BY <2>1 DEF LabInv, LabTypeOK, DrawingsAreWhole, Whole, Ends, CardRows, ZoneRows, NodeEnd, ZoneEnd
<1>6. QED  BY <1>1, <1>2, <1>3, <1>4, <1>5 DEF LabNext

\* However much Azure reports and however often, in whatever order a topology is discovered, drawn, regrouped,
\* connected, published and deleted, nothing drawn or published names what is not there (discovery.service,
\* routes/admin/topology, topologyPublication).
THEOREM DrawingsStayWhole == LabSpec => []DrawingsAreWhole
<1>1. LabInv => DrawingsAreWhole
  BY DEF LabInv
<1>2. QED  BY <1>1, LabInitially, LabStep, PTL DEF LabSpec

-------------------------------------------------------------------------------
(* Upgrades: the inductive invariant                                        *)

Starting(step) == server = "starting" /\ at = Position(step)
Past(step) == server \in {"starting", "serving"} /\ at > Position(step)

Db == [shape : [Tables -> {"new", "old", "absent"}], rows : SUBSET RebuiltTables,
       copy : [RebuiltTables -> {Nothing, "empty", "filled"}],
       column : BOOLEAN, cutoffs : BOOLEAN, template : BOOLEAN,
       staff : SUBSET Staff, linked : SUBSET Staff, accounts : SUBSET {Name(s) : s \in Staff}, admin : BOOLEAN,
       drawn : SUBSET {Drawn, Later}, published : SUBSET {Drawn, Later},
       run : {"none", "begun", "filled"}, scripts : SUBSET Library]

UpgradeTypeOK ==
    /\ disk \in Db /\ db \in Db /\ was \in Db
    /\ at \in 1..Len(Steps) /\ stmt \in Nat /\ hadTable \in BOOLEAN
    /\ server \in {"down", "starting", "failed", "serving"}
    /\ torn \subseteq {"edges", "sessions", "publications", "demo", "library"}
    /\ chosen \subseteq {Drawn, Later}
    /\ crashes \in Nat /\ changes \in Nat
    /\ server = "serving" => at = Len(Steps)

SameColumns(d, e)   == d.column = e.column /\ d.cutoffs = e.cutoffs /\ d.template = e.template
SameStaff(d, e)     == d.staff = e.staff /\ d.linked = e.linked /\ d.accounts = e.accounts
SamePublished(d, e) == d.drawn = e.drawn /\ d.published = e.published
SameRest(d, e)      == d.admin = e.admin /\ d.run = e.run /\ d.scripts = e.scripts

InTransaction == \E t \in Transactional : Starting(t) /\ stmt > 0
\* the connection is ahead of the disk in a transaction, and by its work only
AheadInTransactions ==
    /\ ~InTransaction => db = disk
    /\ \A t \in {"scores", "grants"} : Starting(t) =>
          /\ SameColumns(db, disk) /\ SameStaff(db, disk) /\ SamePublished(db, disk) /\ SameRest(db, disk)
          /\ \A u \in Tables \ {t} : db.shape[u] = disk.shape[u]
          /\ \A u \in RebuiltTables \ {t} : db.copy[u] = disk.copy[u] /\ (u \in db.rows <=> u \in disk.rows)
    /\ Starting("accounts") =>
          /\ db.shape = disk.shape /\ db.rows = disk.rows /\ db.copy = disk.copy
          /\ SameColumns(db, disk) /\ SamePublished(db, disk) /\ db.staff = disk.staff
          /\ db.run = disk.run /\ db.scripts = disk.scripts

TablesKept ==
    \A t \in RebuiltTables :
       LET halfway == Starting(t) /\ stmt > 0 /\ t \notin Transactional IN
       /\ t \notin torn => /\ t \in was.rows => t \in disk.rows \/ (halfway /\ stmt = 3)
                           /\ disk.copy[t] # Nothing => halfway
       /\ Starting(t) /\ stmt > 0 =>
             /\ stmt <= 3 /\ db.copy[t] # Nothing /\ db.shape[t] = (IF stmt = 3 THEN "absent" ELSE "old")
             /\ t \notin torn /\ t \in was.rows => (stmt < 3 => t \in db.rows) /\ (stmt > 1 => db.copy[t] = "filled")
       /\ Past(t) => db.shape[t] = "new"

ColumnsFilled ==
    /\ Past("column") => db.column
    /\ Past("cutoffs") => db.cutoffs
    /\ Past("template") => db.template
    /\ Past("admin") => db.admin

StaffLinked ==
    /\ was.linked \subseteq was.staff
    /\ \A d \in {disk, db} : d.staff = was.staff /\ d.linked \subseteq was.staff
    /\ disk.accounts = {} \/ disk.linked = was.staff
    /\ Past("accounts") => db.linked = was.staff
    /\ Past("guards") => ~SharedAccount([linked |-> was.staff])

OneTime == was.shape["publications"] = "absent" /\ was.drawn # {} /\ "publications" \notin torn
PublicationsMade ==
    /\ was.drawn \subseteq {Drawn}
    /\ \A d \in {disk, db} : was.drawn \subseteq d.drawn /\ d.published \subseteq was.published \cup was.drawn \cup chosen
    /\ disk.shape["publications"] # "old"
    /\ Past("schema") => disk.shape["publications"] = "new"
    /\ server = "starting" /\ hadTable => disk.shape["publications"] = "new"
    /\ disk.drawn # was.drawn => disk.shape["publications"] = "new" /\ (server = "starting" => hadTable)
    /\ OneTime => \/ server \in {"down", "failed"} /\ disk.shape["publications"] = "absent"
                  \/ server = "starting" /\ ~hadTable /\ at <= Position("publications")
                  \/ /\ \A t \in {"edges", "sessions"} : disk.shape[t] = "new"
                     /\ \/ Drawn \in disk.published
                        \/ SharedAccount([linked |-> was.staff]) /\ disk.linked = was.staff
    /\ OneTime => torn \cap {"edges", "sessions"} = {}

RunFilled ==
    /\ disk.run = "begun" => "demo" \in torn \/ (Starting("demo") /\ stmt > 0)
    /\ Past("demo") => disk.run # "none"
    /\ Starting("demo") /\ stmt > 0 => disk.run # "none"

ScriptsImported ==
    /\ changes = 0 /\ "library" \notin torn =>
          disk.scripts \in {{}, Library} \/ (Starting("library") /\ stmt > 0)
    /\ server = "serving" /\ changes = 0 /\ "library" \notin torn => disk.scripts = Library

FailuresExplained == server = "failed" => torn \cap RebuiltTables # {} \/ SharedAccount([linked |-> was.staff])

UpgradeInv ==
    /\ UpgradeTypeOK /\ AheadInTransactions /\ TablesKept /\ ColumnsFilled /\ StaffLinked
    /\ PublicationsMade /\ RunFilled /\ ScriptsImported /\ FailuresExplained


-------------------------------------------------------------------------------
(* Upgrades: the steps of a start                                           *)

LEMMA Places ==
    /\ Len(Steps) = 14
    /\ Position("schema") = 1 /\ Position("edges") = 2 /\ Position("sessions") = 3 /\ Position("column") = 4
    /\ Position("cutoffs") = 5 /\ Position("scores") = 6 /\ Position("template") = 7 /\ Position("grants") = 8
    /\ Position("accounts") = 9 /\ Position("guards") = 10 /\ Position("publications") = 11
    /\ Position("admin") = 12 /\ Position("demo") = 13 /\ Position("library") = 14
<1>1. Len(Steps) = 14 /\ DOMAIN Steps = 1..14
  BY DEF Steps
<1>2. /\ Steps[1] = "schema" /\ Steps[2] = "edges" /\ Steps[3] = "sessions" /\ Steps[4] = "column"
      /\ Steps[5] = "cutoffs" /\ Steps[6] = "scores" /\ Steps[7] = "template" /\ Steps[8] = "grants"
      /\ Steps[9] = "accounts" /\ Steps[10] = "guards" /\ Steps[11] = "publications"
      /\ Steps[12] = "admin" /\ Steps[13] = "demo" /\ Steps[14] = "library"
  BY DEF Steps
<1>3. \A i, j \in 1..14 : Steps[i] = Steps[j] => i = j
  BY <1>2
<1>4. \A i \in 1..14 : Position(Steps[i]) = i
  BY <1>1, <1>3 DEF Position
<1>5. QED  BY <1>1, <1>2, <1>4

StepNames == {"schema", "edges", "sessions", "column", "cutoffs", "scores", "template", "grants", "accounts",
              "guards", "publications", "admin", "demo", "library"}

LEMMA DoingIsStarting == ASSUME at \in 1..Len(Steps) PROVE \A s \in StepNames : Doing(s) <=> Starting(s)
<1>1. Len(Steps) = 14 /\ DOMAIN Steps = 1..14
  BY DEF Steps
<1>2. \A s \in StepNames : \E i \in 1..14 : Steps[i] = s /\ Position(s) = i
  BY Places DEF StepNames, Steps
<1>3. Position(Steps[at]) = at
  BY <1>1, Places DEF Steps
<1>4. QED  BY <1>1, <1>2, <1>3 DEF Doing, Starting

-------------------------------------------------------------------------------
(* Upgrades: what a step leaves alone                                       *)

SameTables(d, e)    == /\ d.rows = e.rows /\ d.copy = e.copy
                       /\ \A t \in RebuiltTables : e.shape[t] = "new" => d.shape[t] = "new"

\* A statement of step s: the last one of it, or not.
Advances(s) ==
    /\ s \in StepNames /\ Starting(s)
    /\ \/ at' = at + 1 /\ at' \in 1..Len(Steps) /\ stmt' = 0
       \/ at' = at /\ stmt' = stmt + 1
    /\ UNCHANGED <<server, hadTable, was, torn, chosen, crashes, changes>>

LEMMA PastMeans ==
    ASSUME UpgradeTypeOK, NEW s \in StepNames, Advances(s)
    PROVE  /\ \A u \in StepNames : Starting(u)' => (u = s /\ at' = at) \/ (Past(s)' /\ stmt' = 0)
           /\ \A u \in StepNames : Past(u)' => Past(u) \/ (u = s /\ at' = at + 1 /\ stmt' = 0)
           /\ \A u \in StepNames : Starting(u) => u = s
BY Places DEF UpgradeTypeOK, Advances, Starting, Past, StepNames

LEMMA TablesFrame ==
    ASSUME UpgradeInv, NEW s \in StepNames \ RebuiltTables, Advances(s), SameTables(disk', disk), SameTables(db', db)
    PROVE  TablesKept'
<1>1. UpgradeTypeOK /\ s \in StepNames /\ RebuiltTables \subseteq StepNames
  BY DEF UpgradeInv, RebuiltTables, StepNames
<1>2. \A t \in RebuiltTables : (Starting(t)' => stmt' = 0) /\ ~Starting(t) /\ (Past(t)' => Past(t))
  BY <1>1, PastMeans
<1>3. ASSUME NEW t \in RebuiltTables
      PROVE  /\ t \notin torn => /\ t \in was.rows => t \in disk.rows
                                 /\ disk.copy[t] = Nothing
             /\ Past(t) => db.shape[t] = "new"
  BY <1>2 DEF UpgradeInv, TablesKept
<1>4. UNCHANGED <<was, torn>> /\ stmt' \in Nat
  BY <1>1 DEF Advances, UpgradeTypeOK
<1>5. QED  BY <1>2, <1>3, <1>4 DEF TablesKept, SameTables

LEMMA ColumnsFrame ==
    ASSUME UpgradeInv, NEW s \in StepNames, Advances(s), SameColumns(db', db), db.admin => db'.admin,
           s \notin {"column", "cutoffs", "template", "admin"}
    PROVE  ColumnsFilled'
<1>1. \A u \in {"column", "cutoffs", "template", "admin"} : Past(u)' => Past(u)
  BY PastMeans DEF UpgradeInv, StepNames
<1>2. QED  BY <1>1 DEF ColumnsFilled, UpgradeInv, SameColumns

LEMMA StaffFrame ==
    ASSUME UpgradeInv, NEW s \in StepNames \ {"accounts", "guards"}, Advances(s), SameStaff(disk', disk), SameStaff(db', db)
    PROVE  StaffLinked'
<1>1. (Past("accounts")' => Past("accounts")) /\ (Past("guards")' => Past("guards"))
  BY PastMeans DEF UpgradeInv, StepNames
<1>2. was' = was
  BY DEF Advances
<1>3. QED  BY <1>1, <1>2 DEF StaffLinked, UpgradeInv, SameStaff, SharedAccount

LEMMA PublicationsFrame ==
    ASSUME UpgradeInv, NEW s \in StepNames \ {"schema", "publications"}, Advances(s),
           SamePublished(disk', disk), SamePublished(db', db),
           disk'.shape["publications"] = disk.shape["publications"],
           \A t \in {"edges", "sessions"} : disk.shape[t] = "new" => disk'.shape[t] = "new",
           disk.linked = was.staff => disk'.linked = was.staff
    PROVE  PublicationsMade'
<1>1. UNCHANGED <<server, hadTable, was, torn, chosen>> /\ UpgradeTypeOK
  BY DEF Advances, UpgradeInv
<1>2. Past("schema")' => Past("schema")
  BY PastMeans DEF UpgradeInv, StepNames
<1>3. at <= Position("publications") => at' <= Position("publications")
  BY <1>1, Places DEF Advances, Starting, StepNames, UpgradeTypeOK
<1>4. OneTime' = OneTime
  BY <1>1 DEF OneTime
<1>5. PublicationsMade
  BY DEF UpgradeInv
<1>6. OneTime => \/ server' \in {"down", "failed"} /\ disk'.shape["publications"] = "absent"
                 \/ server' = "starting" /\ ~hadTable' /\ at' <= Position("publications")
                 \/ /\ \A t \in {"edges", "sessions"} : disk'.shape[t] = "new"
                    /\ \/ Drawn \in disk'.published
                       \/ SharedAccount([linked |-> was.staff]) /\ disk'.linked = was.staff
  BY <1>1, <1>3, <1>5 DEF PublicationsMade, SamePublished
<1>7. QED  BY <1>1, <1>2, <1>4, <1>5, <1>6 DEF PublicationsMade, SamePublished, SharedAccount

LEMMA RunFrame ==
    ASSUME UpgradeInv, NEW s \in StepNames \ {"demo"}, Advances(s), disk'.run = disk.run
    PROVE  RunFilled'
<1>1. UpgradeTypeOK /\ "demo" \in StepNames /\ torn' = torn
  BY DEF UpgradeInv, StepNames, Advances
<1>2. (Starting("demo")' => stmt' = 0) /\ ~Starting("demo") /\ (Past("demo")' => Past("demo"))
  BY <1>1, PastMeans
<1>3. QED  BY <1>1, <1>2 DEF RunFilled, UpgradeInv

LEMMA ScriptsFrame ==
    ASSUME UpgradeInv, NEW s \in StepNames \ {"library"}, Advances(s), disk'.scripts = disk.scripts
    PROVE  ScriptsImported'
<1>1. UpgradeTypeOK /\ "library" \in StepNames /\ torn' = torn /\ changes' = changes /\ server' = "starting"
  BY DEF UpgradeInv, StepNames, Advances, Starting
<1>2. ~Starting("library")
  BY <1>1, PastMeans
<1>3. QED  BY <1>1, <1>2 DEF ScriptsImported, UpgradeInv

LEMMA FailuresFrame == ASSUME NEW s, Advances(s) PROVE FailuresExplained'
<1>1. server' = "starting"
  BY DEF Advances, Starting
<1>2. QED  BY <1>1 DEF FailuresExplained

LEMMA TypeFrame == ASSUME UpgradeInv, NEW s, Advances(s), disk' \in Db, db' \in Db PROVE UpgradeTypeOK'
<1>1. UpgradeTypeOK /\ server = "starting" /\ at' \in 1..Len(Steps) /\ stmt' \in Nat
  BY DEF UpgradeInv, UpgradeTypeOK, Advances, Starting
<1>2. was' \in Db
  BY <1>1 DEF UpgradeTypeOK, Advances
<1>3. QED  BY <1>1, <1>2 DEF UpgradeTypeOK, Advances

-------------------------------------------------------------------------------
(* Upgrades: the first start                                                *)

LEMMA DatabaseIsDb ==
    ASSUME NEW version \in 0..Len(Features), NEW staff \in SUBSET Staff
    PROVE  /\ Database(version, staff) \in Db
           /\ Database(version, staff).rows = RebuiltTables
           /\ \A t \in RebuiltTables : Database(version, staff).copy[t] = Nothing
           /\ Database(version, staff).staff = staff /\ Database(version, staff).linked \subseteq staff
           /\ Database(version, staff).accounts = {} \/ Database(version, staff).linked = staff
           /\ Database(version, staff).shape["publications"] # "old"
           /\ Database(version, staff).drawn = {Drawn} /\ Database(version, staff).published \subseteq {Drawn}
           /\ Database(version, staff).run = "filled" /\ Database(version, staff).scripts = Library
<1> DEFINE shape == [t \in Tables |-> IF Had(t, version) THEN "new" ELSE IF t = "publications" THEN "absent" ELSE "old"]
           copy == [t \in RebuiltTables |-> Nothing]
           d == Database(version, staff)
<1>1. shape \in [Tables -> {"new", "old", "absent"}] /\ copy \in [RebuiltTables -> {Nothing, "empty", "filled"}]
  OBVIOUS
<1>2. \A f : Had(f, version) \in BOOLEAN
  BY DEF Had
<1> HIDE DEF shape, copy
<1>3. d = [shape |-> shape, rows |-> RebuiltTables, copy |-> copy,
           column |-> Had("scores", version), cutoffs |-> Had("scores", version), template |-> Had("grants", version),
           staff |-> staff, linked |-> IF Had("accounts", version) THEN staff ELSE {},
           accounts |-> IF Had("accounts", version) THEN {Name(s) : s \in staff} ELSE {},
           admin |-> Had("accounts", version), drawn |-> {Drawn},
           published |-> IF Had("publications", version) THEN {Drawn} ELSE {},
           run |-> "filled", scripts |-> Library]
  BY DEF Database, shape, copy
<1>4. (IF Had("accounts", version) THEN {Name(s) : s \in staff} ELSE {}) \in SUBSET {Name(s) : s \in Staff}
  OBVIOUS
<1>5. (IF Had("accounts", version) THEN staff ELSE {}) \in SUBSET staff
  OBVIOUS
<1>6. (IF Had("publications", version) THEN {Drawn} ELSE {}) \in SUBSET {Drawn}
  OBVIOUS
<1>7. (IF Had("accounts", version) THEN {Name(s) : s \in staff} ELSE {}) = {} \/ (IF Had("accounts", version) THEN staff ELSE {}) = staff
  OBVIOUS
<1>8. d \in Db
  BY <1>1, <1>2, <1>3, <1>4, <1>5, <1>6 DEF Db
<1>9. (\A t \in RebuiltTables : copy[t] = Nothing) /\ shape["publications"] # "old"
  BY DEF copy, shape, Tables
<1>10. QED  BY <1>3, <1>5, <1>6, <1>7, <1>8, <1>9

LEMMA FreshIsDb ==
    /\ Fresh \in Db /\ Fresh.rows = {} /\ Fresh.staff = {} /\ Fresh.linked = {} /\ Fresh.drawn = {}
    /\ Fresh.published = {} /\ Fresh.run = "none" /\ Fresh.scripts = {}
    /\ Fresh.shape["publications"] # "old" /\ \A t \in RebuiltTables : Fresh.copy[t] = Nothing
<1> DEFINE d == Database(0, {})
<1>1. /\ d \in Db /\ d.staff = {} /\ d.linked \subseteq {} /\ d.published \subseteq {Drawn}
      /\ \A t \in RebuiltTables : d.copy[t] = Nothing
  <2>1. 0 \in 0..Len(Features) /\ {} \in SUBSET Staff
    BY DEF Features
  <2>2. QED  BY <2>1, DatabaseIsDb
<1>2. d.published = {}
  <2>1. ~Had("publications", 0)
    BY DEF Had
  <2>2. QED  BY <2>1 DEF Database
<1>3. Fresh = [d EXCEPT !.shape = [t \in Tables |-> "absent"], !.rows = {}, !.drawn = {}, !.run = "none", !.scripts = {}]
  BY DEF Fresh
<1>4. [t \in Tables |-> "absent"] \in [Tables -> {"new", "old", "absent"}] /\ "publications" \in Tables
  BY DEF Tables
<1> HIDE DEF d
<1>5. QED  BY <1>1, <1>2, <1>3, <1>4 DEF Db

LEMMA UpgradeInitially == UpgradeInit => UpgradeInv
<1> SUFFICES ASSUME UpgradeInit PROVE UpgradeInv
  OBVIOUS
<1>1. /\ disk = was /\ db = was /\ at = 1 /\ stmt = 0 /\ server = "down" /\ torn = {} /\ chosen = {}
      /\ crashes = 0 /\ changes = 0
  BY DEF UpgradeInit
<1>2. hadTable \in BOOLEAN
  BY Zenon DEF UpgradeInit
<1>3. /\ was \in Db /\ was.linked \subseteq was.staff /\ (was.accounts = {} \/ was.linked = was.staff)
      /\ was.drawn \subseteq {Drawn} /\ was.run # "begun" /\ was.scripts \in {{}, Library}
      /\ was.rows \in {{}, RebuiltTables} /\ \A t \in RebuiltTables : was.copy[t] = Nothing
      /\ was.shape["publications"] # "old"
  <2>1. PICK version \in 0..Len(Features) : \E staff \in SUBSET Staff : was \in {Fresh, Database(version, staff)}
    BY DEF UpgradeInit
  <2>2. PICK staff \in SUBSET Staff : was \in {Fresh, Database(version, staff)}
    BY <2>1
  <2>3. CASE was = Fresh
    BY <2>3, FreshIsDb
  <2>4. CASE was = Database(version, staff)
    BY <2>4, DatabaseIsDb
  <2>5. QED  BY <2>2, <2>3, <2>4
<1>4. UpgradeTypeOK
  BY <1>1, <1>2, <1>3, Places DEF UpgradeTypeOK
<1>5. AheadInTransactions
  BY <1>1 DEF AheadInTransactions, Starting
<1>6. TablesKept
  BY <1>1, <1>3 DEF TablesKept, Starting, Past
<1>7. ColumnsFilled
  BY <1>1 DEF ColumnsFilled, Past
<1>8. StaffLinked
  BY <1>1, <1>3 DEF StaffLinked, Past
<1>9. PublicationsMade
  BY <1>1, <1>3 DEF PublicationsMade, Past, OneTime
<1>10. RunFilled /\ ScriptsImported /\ FailuresExplained
  BY <1>1, <1>3 DEF RunFilled, ScriptsImported, FailuresExplained, Past, Starting
<1>11. QED  BY <1>4, <1>5, <1>6, <1>7, <1>8, <1>9, <1>10 DEF UpgradeInv


LEMMA AheadFrame == ASSUME db' = disk' PROVE AheadInTransactions'
<1>1. \A d : SameColumns(d, d) /\ SameStaff(d, d) /\ SamePublished(d, d) /\ SameRest(d, d)
  BY DEF SameColumns, SameStaff, SamePublished, SameRest
<1>2. SameColumns(db', disk') /\ SameStaff(db', disk') /\ SamePublished(db', disk') /\ SameRest(db', disk')
  BY <1>1
<1>3. /\ db'.shape = disk'.shape /\ db'.rows = disk'.rows /\ db'.copy = disk'.copy /\ db'.staff = disk'.staff
      /\ db'.run = disk'.run /\ db'.scripts = disk'.scripts
  OBVIOUS
<1>4. ~InTransaction' => db' = disk'
  OBVIOUS
<1>5. \A t \in {"scores", "grants"} :
        /\ \A u \in Tables \ {t} : db'.shape[u] = disk'.shape[u]
        /\ \A u \in RebuiltTables \ {t} : db'.copy[u] = disk'.copy[u] /\ (u \in db'.rows <=> u \in disk'.rows)
  BY <1>3
<1>6. QED  BY <1>2, <1>3, <1>4, <1>5 DEF AheadInTransactions

LEMMA OneStep == ASSUME NEW s \in StepNames, NEW u \in StepNames, Starting(s), Starting(u) PROVE s = u
<1>1. \A n \in StepNames : Steps[Position(n)] = n
  BY Places DEF Steps, StepNames
<1>2. Position(s) = Position(u)
  BY DEF Starting
<1>3. QED  BY <1>1, <1>2

LEMMA OnDisk ==
    ASSUME UpgradeInv, NEW s \in StepNames, Starting(s), s \notin Transactional \/ stmt = 0
    PROVE  db = disk
<1>1. \A t \in Transactional : Starting(t) => t = s
  BY OneStep DEF StepNames, Transactional
<1>2. ~InTransaction
  BY <1>1 DEF InTransaction
<1>3. QED  BY <1>2 DEF UpgradeInv, AheadInTransactions

\* A statement that commits by itself, on what is on disk.
Commits(s, new) == Advances(s) /\ db = disk /\ db' = new /\ disk' = new

LEMMA StatementCommits ==
    ASSUME UpgradeInv, NEW s \in StepNames, NEW new, Starting(s), s \notin Transactional \/ stmt = 0,
           NextStep \/ SameStep, NextStep => s # "library", Execute(new, FALSE)
    PROVE  Commits(s, new)
<1>1. UNCHANGED <<server, hadTable, was, torn, chosen, crashes, changes>> /\ db' = new /\ disk' = new
  BY DEF Execute, history
<1>2. UpgradeTypeOK
  BY DEF UpgradeInv
<1>3. Advances(s)
  BY <1>1, <1>2, Places DEF Advances, NextStep, SameStep, Starting, StepNames, UpgradeTypeOK
<1>4. QED  BY <1>1, <1>3, OnDisk DEF Commits

LEMMA SchemaCreated == ASSUME UpgradeInv, RunSchemaFiles PROVE UpgradeInv'
<1>1. UpgradeTypeOK /\ Starting("schema") /\ "schema" \in StepNames
  BY DoingIsStarting DEF RunSchemaFiles, UpgradeInv, UpgradeTypeOK, StepNames
<1>2. PICK new : /\ Commits("schema", new)
                 /\ \/ new = db /\ MissingTables = {} /\ at' = at + 1
                    \/ \E t \in Tables : new = [db EXCEPT !.shape[t] = "new"] /\ at' = at
  <2>1. CASE MissingTables = {} /\ NextStep /\ Execute(db, FALSE)
    BY <1>1, <2>1, StatementCommits DEF NextStep, Transactional
  <2>2. ASSUME NEW i \in MissingTables, SameStep, Execute([db EXCEPT !.shape[SchemaOrder[i]] = "new"], FALSE)
        PROVE  \E t \in Tables : Commits("schema", [db EXCEPT !.shape[t] = "new"]) /\ at' = at
    <3>1. SchemaOrder[i] \in Tables
      BY DEF MissingTables, SchemaOrder, Tables, RebuiltTables
    <3>2. Commits("schema", [db EXCEPT !.shape[SchemaOrder[i]] = "new"]) /\ at' = at
      BY <1>1, <2>2, StatementCommits DEF SameStep, NextStep, Transactional
    <3>3. QED  BY <3>1, <3>2
  <2>3. QED  BY <2>1, <2>2 DEF RunSchemaFiles
<1>3. Advances("schema") /\ db' = disk' /\ db = disk /\ db \in Db /\ disk' = new
  BY <1>1, <1>2 DEF Commits, UpgradeTypeOK
<1>4. /\ disk' \in Db /\ SameColumns(disk', disk) /\ SameStaff(disk', disk) /\ SamePublished(disk', disk)
      /\ disk'.admin = disk.admin
      /\ disk'.run = disk.run /\ disk'.scripts = disk.scripts /\ disk'.rows = disk.rows /\ disk'.copy = disk.copy
      /\ \A t \in Tables : disk'.shape[t] = disk.shape[t] \/ disk'.shape[t] = "new"
  <2>1. CASE new = db
    BY <1>3, <2>1 DEF SameColumns, SameStaff, SamePublished
  <2>2. CASE \E t \in Tables : new = [db EXCEPT !.shape[t] = "new"]
    <3>1. PICK t \in Tables : new = [db EXCEPT !.shape[t] = "new"]
      BY <2>2
    <3>2. QED  BY <1>3, <3>1 DEF SameColumns, SameStaff, SamePublished, Db
  <2>3. QED  BY <1>2, <2>1, <2>2
<1>5. MissingTables = {} => disk.shape["publications"] = "new"
  <2>1. MissingTables = {} => disk.shape["publications"] # "absent"
    BY <1>3 DEF MissingTables, SchemaOrder
  <2>2. disk.shape["publications"] \in {"new", "old", "absent"} /\ disk.shape["publications"] # "old"
    BY <1>3 DEF Db, Tables, UpgradeInv, PublicationsMade
  <2>3. QED  BY <2>1, <2>2
<1>6. SameTables(disk', disk) /\ UNCHANGED <<server, hadTable, was, torn, chosen>> /\ server = "starting" /\ at = 1
  BY <1>1, <1>2, <1>3, <1>4, Places DEF SameTables, Tables, Commits, Advances, Starting
<1>7. PublicationsMade'
  <2>1. disk'.shape["publications"] \in {disk.shape["publications"], "new"}
    BY <1>4 DEF Tables
  <2>2. Past("schema")' => disk'.shape["publications"] = "new"
    BY <1>2, <1>3, <1>5, <1>6, Places DEF Past
  <2>3. PublicationsMade /\ OneTime' = OneTime
    BY <1>6 DEF UpgradeInv, OneTime
  <2>4. /\ was'.drawn \subseteq {Drawn} /\ was'.drawn \subseteq disk'.drawn
        /\ disk'.published \subseteq was'.published \cup was'.drawn \cup chosen'
        /\ disk'.shape["publications"] # "old"
    BY <1>3, <1>4, <1>6, <2>1, <2>3 DEF PublicationsMade, SamePublished
  <2>5. /\ server' = "starting" /\ hadTable' => disk'.shape["publications"] = "new"
        /\ disk'.drawn # was'.drawn => disk'.shape["publications"] = "new" /\ (server' = "starting" => hadTable')
    BY <1>4, <1>6, <2>1, <2>3 DEF PublicationsMade, SamePublished
  <2>6. at' <= Position("publications")
    BY <1>2, <1>3, <1>6, Places DEF Advances
  <2>7. OneTime => \/ ~hadTable
                   \/ /\ \A t \in {"edges", "sessions"} : disk'.shape[t] = "new"
                      /\ \/ Drawn \in disk'.published
                         \/ SharedAccount([linked |-> was.staff]) /\ disk'.linked = was.staff
    <3>1. \A t \in {"edges", "sessions"} : disk.shape[t] = "new" => disk'.shape[t] = "new"
      BY <1>6 DEF SameTables, RebuiltTables
    <3>2. disk'.published = disk.published /\ disk'.linked = disk.linked
      BY <1>4 DEF SamePublished, SameStaff
    <3>3. QED  BY <1>6, <2>3, <3>1, <3>2 DEF PublicationsMade
  <2>8. OneTime => torn \cap {"edges", "sessions"} = {}
    BY <2>3 DEF PublicationsMade
  <2>9. QED  BY <1>3, <1>6, <2>2, <2>3, <2>4, <2>5, <2>6, <2>7, <2>8 DEF PublicationsMade, SharedAccount
<1>8. SameTables(db', db) /\ SameColumns(db', db) /\ SameStaff(db', db) /\ (db.admin => db'.admin)
  BY <1>3, <1>4, <1>6
<1>9. "schema" \in StepNames \ RebuiltTables /\ "schema" \notin {"column", "cutoffs", "template", "admin"}
      /\ "schema" \in StepNames \ {"accounts", "guards"} /\ "schema" \in StepNames \ {"demo"} /\ "schema" \in StepNames \ {"library"}
  BY DEF StepNames, RebuiltTables
<1>10. TablesKept'
  BY <1>3, <1>6, <1>8, <1>9, TablesFrame
<1>11. ColumnsFilled'
  BY <1>3, <1>8, <1>9, ColumnsFrame
<1>12. StaffLinked'
  BY <1>3, <1>4, <1>8, <1>9, StaffFrame
<1>13. RunFilled' /\ ScriptsImported' /\ FailuresExplained'
  BY <1>3, <1>4, <1>9, RunFrame, ScriptsFrame, FailuresFrame
<1>14. UpgradeTypeOK' /\ AheadInTransactions'
  BY <1>3, <1>4, TypeFrame, AheadFrame
<1>15. QED  BY <1>7, <1>10, <1>11, <1>12, <1>13, <1>14 DEF UpgradeInv

\* A statement that changes one part of the database and commits it: the other parts of the invariant go on.
LEMMA OtherPartsGoOn ==
    ASSUME UpgradeInv, NEW s \in StepNames, NEW new \in Db, Commits(s, new)
    PROVE  /\ UpgradeTypeOK' /\ AheadInTransactions' /\ FailuresExplained'
           /\ s \notin RebuiltTables /\ SameTables(new, db) => TablesKept'
           /\ s \notin {"column", "cutoffs", "template", "admin"} /\ SameColumns(new, db) /\ (db.admin => new.admin) => ColumnsFilled'
           /\ s \notin {"accounts", "guards"} /\ SameStaff(new, db) => StaffLinked'
           /\ /\ s \notin {"schema", "publications"} /\ SamePublished(new, db)
              /\ new.shape["publications"] = db.shape["publications"]
              /\ \A t \in {"edges", "sessions"} : db.shape[t] = "new" => new.shape[t] = "new"
              /\ db.linked = was.staff => new.linked = was.staff
              => PublicationsMade'
           /\ s # "demo" /\ new.run = db.run => RunFilled'
           /\ s # "library" /\ new.scripts = db.scripts => ScriptsImported'
<1>1. Advances(s) /\ db = disk /\ db' = new /\ disk' = new
  BY DEF Commits
<1>2. UpgradeTypeOK' /\ AheadInTransactions' /\ FailuresExplained'
  BY <1>1, TypeFrame, AheadFrame, FailuresFrame
<1>3. ASSUME s \notin RebuiltTables, SameTables(new, db)  PROVE TablesKept'
  <2>1. s \in StepNames \ RebuiltTables /\ SameTables(disk', disk) /\ SameTables(db', db)
    BY <1>1, <1>3
  <2>2. QED  BY <1>1, <2>1, TablesFrame
<1>4. ASSUME s \notin {"column", "cutoffs", "template", "admin"}, SameColumns(new, db), db.admin => new.admin  PROVE ColumnsFilled'
  BY <1>1, <1>4, ColumnsFrame
<1>5. ASSUME s \notin {"accounts", "guards"}, SameStaff(new, db)  PROVE StaffLinked'
  <2>1. s \in StepNames \ {"accounts", "guards"} /\ SameStaff(disk', disk) /\ SameStaff(db', db)
    BY <1>1, <1>5
  <2>2. QED  BY <1>1, <2>1, StaffFrame
<1>6. ASSUME s \notin {"schema", "publications"}, SamePublished(new, db),
             new.shape["publications"] = db.shape["publications"],
             \A t \in {"edges", "sessions"} : db.shape[t] = "new" => new.shape[t] = "new",
             db.linked = was.staff => new.linked = was.staff
      PROVE  PublicationsMade'
  <2>1. s \in StepNames \ {"schema", "publications"} /\ SamePublished(disk', disk) /\ SamePublished(db', db)
    BY <1>1, <1>6
  <2>2. QED  BY <1>1, <1>6, <2>1, PublicationsFrame
<1>7. ASSUME s # "demo", new.run = db.run  PROVE RunFilled'
  <2>1. s \in StepNames \ {"demo"} /\ disk'.run = disk.run
    BY <1>1, <1>7
  <2>2. QED  BY <1>1, <2>1, RunFrame
<1>8. ASSUME s # "library", new.scripts = db.scripts  PROVE ScriptsImported'
  <2>1. s \in StepNames \ {"library"} /\ disk'.scripts = disk.scripts
    BY <1>1, <1>8
  <2>2. QED  BY <1>1, <2>1, ScriptsFrame
<1>9. QED  BY <1>2, <1>3, <1>4, <1>5, <1>6, <1>7, <1>8

\* A column, the cutoffs, the template and the first admin.
LEMMA FlagSet ==
    ASSUME UpgradeInv, NEW s \in {"column", "cutoffs", "template", "admin"}, NEW new \in Db, Commits(s, new), at' = at + 1,
           new.shape = db.shape, new.rows = db.rows, new.copy = db.copy,
           SameStaff(new, db), SamePublished(new, db), new.run = db.run, new.scripts = db.scripts,
           db.column \/ s = "column" => new.column,
           db.cutoffs \/ s = "cutoffs" => new.cutoffs,
           db.template \/ s = "template" => new.template,
           db.admin \/ s = "admin" => new.admin
    PROVE  UpgradeInv'
<1>1. s \in StepNames /\ s \notin RebuiltTables /\ s \notin {"accounts", "guards", "schema", "publications", "demo", "library"}
  BY DEF StepNames, RebuiltTables
<1>2. SameTables(new, db) /\ (db.linked = was.staff => new.linked = was.staff)
  BY DEF SameTables, SameStaff
<1>3. /\ UpgradeTypeOK' /\ AheadInTransactions' /\ FailuresExplained' /\ TablesKept' /\ StaffLinked' /\ PublicationsMade'
      /\ RunFilled' /\ ScriptsImported'
  BY <1>1, <1>2, OtherPartsGoOn
<1>4. ColumnsFilled'
  <2>1. \A u \in {"column", "cutoffs", "template", "admin"} : Past(u)' => Past(u) \/ u = s
    BY <1>1, PastMeans DEF Commits, UpgradeInv, StepNames
  <2>2. ColumnsFilled /\ db' = new
    BY DEF UpgradeInv, Commits
  <2>3. QED  BY <2>1, <2>2 DEF ColumnsFilled
<1>5. QED  BY <1>3, <1>4 DEF UpgradeInv

LEMMA ColumnAdded == ASSUME UpgradeInv, AddColumnIfMissing PROVE UpgradeInv'
<1> DEFINE new == [db EXCEPT !.column = TRUE]
<1>1. db \in Db /\ "column" \in StepNames /\ "column" \notin Transactional /\ "column" # "library"
  BY DEF UpgradeInv, UpgradeTypeOK, StepNames, Transactional
<1>2. Starting("column")
  BY <1>1, DoingIsStarting DEF AddColumnIfMissing, UpgradeInv, UpgradeTypeOK
<1>3. Commits("column", new) /\ at' = at + 1
  BY <1>1, <1>2, StatementCommits DEF AddColumnIfMissing, NextStep
<1>4. /\ new \in Db /\ new.column
      /\ new.shape = db.shape /\ new.rows = db.rows /\ new.copy = db.copy
      /\ SameStaff(new, db) /\ SamePublished(new, db) /\ new.run = db.run /\ new.scripts = db.scripts
      /\ new.cutoffs = db.cutoffs /\ new.template = db.template /\ new.admin = db.admin
  BY <1>1 DEF Db, SameStaff, SamePublished
<1> HIDE DEF new
<1>5. QED  BY <1>3, <1>4, FlagSet

LEMMA CutoffsFilled == ASSUME UpgradeInv, BackfillCutoffs PROVE UpgradeInv'
<1> DEFINE new == [db EXCEPT !.cutoffs = TRUE]
<1>1. db \in Db /\ "cutoffs" \in StepNames /\ "cutoffs" \notin Transactional /\ "cutoffs" # "library"
  BY DEF UpgradeInv, UpgradeTypeOK, StepNames, Transactional
<1>2. Starting("cutoffs")
  BY <1>1, DoingIsStarting DEF BackfillCutoffs, UpgradeInv, UpgradeTypeOK
<1>3. Commits("cutoffs", new) /\ at' = at + 1
  BY <1>1, <1>2, StatementCommits DEF BackfillCutoffs, NextStep
<1>4. /\ new \in Db /\ new.cutoffs
      /\ new.shape = db.shape /\ new.rows = db.rows /\ new.copy = db.copy
      /\ SameStaff(new, db) /\ SamePublished(new, db) /\ new.run = db.run /\ new.scripts = db.scripts
      /\ new.column = db.column /\ new.template = db.template /\ new.admin = db.admin
  BY <1>1 DEF Db, SameStaff, SamePublished
<1> HIDE DEF new
<1>5. QED  BY <1>3, <1>4, FlagSet

LEMMA TemplateEnsured == ASSUME UpgradeInv, EnsureDefaultTemplate PROVE UpgradeInv'
<1> DEFINE new == [db EXCEPT !.template = TRUE]
<1>1. db \in Db /\ "template" \in StepNames /\ "template" \notin Transactional /\ "template" # "library"
  BY DEF UpgradeInv, UpgradeTypeOK, StepNames, Transactional
<1>2. Starting("template")
  BY <1>1, DoingIsStarting DEF EnsureDefaultTemplate, UpgradeInv, UpgradeTypeOK
<1>3. Commits("template", new) /\ at' = at + 1
  BY <1>1, <1>2, StatementCommits DEF EnsureDefaultTemplate, NextStep
<1>4. /\ new \in Db /\ new.template
      /\ new.shape = db.shape /\ new.rows = db.rows /\ new.copy = db.copy
      /\ SameStaff(new, db) /\ SamePublished(new, db) /\ new.run = db.run /\ new.scripts = db.scripts
      /\ new.column = db.column /\ new.cutoffs = db.cutoffs /\ new.admin = db.admin
  BY <1>1 DEF Db, SameStaff, SamePublished
<1> HIDE DEF new
<1>5. QED  BY <1>3, <1>4, FlagSet

LEMMA AdminEnsured == ASSUME UpgradeInv, EnsureInitialAdmin PROVE UpgradeInv'
<1> DEFINE new == [db EXCEPT !.admin = TRUE]
<1>1. db \in Db /\ "admin" \in StepNames /\ "admin" \notin Transactional /\ "admin" # "library"
  BY DEF UpgradeInv, UpgradeTypeOK, StepNames, Transactional
<1>2. Starting("admin")
  BY <1>1, DoingIsStarting DEF EnsureInitialAdmin, UpgradeInv, UpgradeTypeOK
<1>3. Commits("admin", new) /\ at' = at + 1
  BY <1>1, <1>2, StatementCommits DEF EnsureInitialAdmin, NextStep
<1>4. /\ new \in Db /\ new.admin
      /\ new.shape = db.shape /\ new.rows = db.rows /\ new.copy = db.copy
      /\ SameStaff(new, db) /\ SamePublished(new, db) /\ new.run = db.run /\ new.scripts = db.scripts
      /\ new.column = db.column /\ new.cutoffs = db.cutoffs /\ new.template = db.template
  BY <1>1 DEF Db, SameStaff, SamePublished
<1> HIDE DEF new
<1>5. QED  BY <1>3, <1>4, FlagSet

-------------------------------------------------------------------------------
(* Upgrades: a table is rebuilt                                             *)

LEMMA Executing ==
    ASSUME UpgradeInv, NEW s \in StepNames, Starting(s), NEW new, NEW open \in BOOLEAN,
           NextStep \/ SameStep, NextStep => s # "library", Execute(new, open)
    PROVE  Advances(s) /\ db' = new /\ disk' = IF open THEN disk ELSE new
<1>1. UNCHANGED <<server, hadTable, was, torn, chosen, crashes, changes>> /\ db' = new /\ disk' = IF open THEN disk ELSE new
  BY DEF Execute, history
<1>2. UpgradeTypeOK
  BY DEF UpgradeInv
<1>3. Advances(s)
  BY <1>1, <1>2, Places DEF Advances, NextStep, SameStep, Starting, StepNames, UpgradeTypeOK
<1>4. QED  BY <1>1, <1>3

LEMMA Committing ==
    ASSUME UpgradeInv, NEW s \in StepNames, Starting(s), NEW new, NextStep \/ SameStep, NextStep => s # "library",
           Execute(new, FALSE)
    PROVE  Advances(s) /\ db' = new /\ disk' = new
<1>1. UNCHANGED <<server, hadTable, was, torn, chosen, crashes, changes>> /\ db' = new /\ disk' = new
  BY DEF Execute, history
<1>2. UpgradeTypeOK
  BY DEF UpgradeInv
<1>3. Advances(s)
  BY <1>1, <1>2, Places DEF Advances, NextStep, SameStep, Starting, StepNames, UpgradeTypeOK
<1>4. QED  BY <1>1, <1>3

\* A statement of the rebuild of t touches t alone.
Touches(t, d, e) ==
    /\ SameColumns(d, e) /\ SameStaff(d, e) /\ SamePublished(d, e) /\ SameRest(d, e)
    /\ \A u \in Tables \ {t} : d.shape[u] = e.shape[u]
    /\ \A u \in RebuiltTables \ {t} : d.copy[u] = e.copy[u] /\ (u \in d.rows <=> u \in e.rows)

LEMMA RebuildGoesOn ==
    ASSUME UpgradeInv, NEW t \in RebuiltTables, Advances(t), disk' \in Db, db' \in Db, Touches(t, db', db),
           db.shape[t] = "new" => db'.shape[t] = "new",
           disk' = db' \/ (disk' = disk /\ t \in Transactional /\ at' = at /\ stmt' > 0)
    PROVE  /\ UpgradeTypeOK' /\ AheadInTransactions' /\ ColumnsFilled' /\ StaffLinked' /\ PublicationsMade'
           /\ RunFilled' /\ ScriptsImported' /\ FailuresExplained'
           /\ Touches(t, db, disk) /\ Touches(t, disk', disk)
<1>1. /\ t \in StepNames /\ Starting(t) /\ t \notin {"column", "cutoffs", "template", "admin", "accounts", "guards", "demo",
                                                     "library", "schema", "publications"}
      /\ RebuiltTables \subseteq StepNames /\ RebuiltTables \subseteq Tables /\ "publications" \in Tables \ {t}
  BY DEF Advances, RebuiltTables, StepNames, Tables
<1>2. Touches(t, db, disk)
  <2>1. CASE t \in Transactional
    BY <1>1, <2>1 DEF Touches, UpgradeInv, AheadInTransactions, RebuiltTables, Transactional
  <2>2. CASE t \notin Transactional
    <3>1. db = disk
      BY <1>1, <2>2, OnDisk
    <3>2. QED  BY <3>1 DEF Touches, SameColumns, SameStaff, SamePublished, SameRest
  <2>3. QED  BY <2>1, <2>2
<1>3. Touches(t, disk', disk) /\ Touches(t, db', disk)
  <2>1. Touches(t, db', disk)
    BY <1>2 DEF Touches, SameColumns, SameStaff, SamePublished, SameRest
  <2>2. Touches(t, disk, disk)
    BY DEF Touches, SameColumns, SameStaff, SamePublished, SameRest
  <2>3. QED  BY <2>1, <2>2
<1>4. UpgradeTypeOK' /\ FailuresExplained'
  BY TypeFrame, FailuresFrame
<1>5. AheadInTransactions'
  <2>1. CASE disk' = db'
    BY <2>1, AheadFrame
  <2>2. CASE disk' = disk /\ t \in Transactional /\ at' = at /\ stmt' > 0
    <3>1. Starting(t)' /\ \A u \in StepNames : Starting(u)' => u = t
      BY <1>1, <2>2, OneStep DEF Starting, Advances
    <3>2. InTransaction' /\ ~Starting("accounts")'
      <4>1. "accounts" \in StepNames
        BY DEF StepNames
      <4>2. QED  BY <1>1, <2>2, <3>1, <4>1 DEF InTransaction
    <3>3. Touches(t, db', disk')
      BY <1>3, <2>2
    <3>4. \A u \in {"scores", "grants"} : Starting(u)' => u = t
      BY <3>1 DEF StepNames
    <3>5. QED  BY <3>2, <3>3, <3>4 DEF AheadInTransactions, Touches
  <2>3. QED  BY <2>1, <2>2
<1>6. ColumnsFilled'
  <2>1. SameColumns(db', db) /\ (db.admin => db'.admin)
    BY DEF Touches, SameRest
  <2>2. QED  BY <1>1, <2>1, ColumnsFrame
<1>7. StaffLinked'
  <2>1. t \in StepNames \ {"accounts", "guards"} /\ SameStaff(disk', disk) /\ SameStaff(db', db)
    BY <1>1, <1>3 DEF Touches
  <2>2. QED  BY <2>1, StaffFrame
<1>8. PublicationsMade'
  <2>1. t \in StepNames \ {"schema", "publications"} /\ SamePublished(disk', disk) /\ SamePublished(db', db)
    BY <1>1, <1>3 DEF Touches
  <2>2. disk'.shape["publications"] = disk.shape["publications"] /\ (disk.linked = was.staff => disk'.linked = was.staff)
    BY <1>1, <1>3 DEF Touches, SameStaff
  <2>3. ASSUME NEW u \in {"edges", "sessions"}, disk.shape[u] = "new"  PROVE disk'.shape[u] = "new"
    <3>1. CASE u # t
      BY <1>1, <1>3, <2>3, <3>1 DEF Touches, RebuiltTables
    <3>2. CASE u = t
      <4>1. db = disk
        BY <1>1, <3>2, OnDisk DEF Transactional
      <4>2. QED  BY <2>3, <3>2, <4>1 DEF Transactional
    <3>3. QED  BY <3>1, <3>2
  <2>4. QED  BY <2>1, <2>2, <2>3, PublicationsFrame
<1>9. RunFilled'
  <2>1. t \in StepNames \ {"demo"} /\ disk'.run = disk.run
    BY <1>1, <1>3 DEF Touches, SameRest
  <2>2. QED  BY <2>1, RunFrame
<1>10. ScriptsImported'
  <2>1. t \in StepNames \ {"library"} /\ disk'.scripts = disk.scripts
    BY <1>1, <1>3 DEF Touches, SameRest
  <2>2. QED  BY <2>1, ScriptsFrame
<1>11. QED  BY <1>2, <1>3, <1>4, <1>5, <1>6, <1>7, <1>8, <1>9, <1>10

\* The other tables stay as they are while t is rebuilt.
LEMMA OtherTablesKept ==
    ASSUME UpgradeInv, NEW t \in RebuiltTables, Advances(t), Touches(t, db', db), Touches(t, disk', disk),
           NEW u \in RebuiltTables \ {t}
    PROVE  /\ ~Starting(u) /\ (Starting(u)' => stmt' = 0) /\ (Past(u)' => Past(u))
           /\ (u \in disk'.rows <=> u \in disk.rows) /\ disk'.copy[u] = disk.copy[u] /\ db'.shape[u] = db.shape[u]
<1>1. t \in StepNames /\ u \in StepNames /\ u \in Tables /\ UpgradeTypeOK
  BY DEF RebuiltTables, StepNames, Tables, UpgradeInv
<1>2. ~Starting(u) /\ (Starting(u)' => stmt' = 0) /\ (Past(u)' => Past(u))
  BY <1>1, PastMeans
<1>3. QED  BY <1>1, <1>2 DEF Touches

\* What is left to show of a statement of the rebuild of t: the table itself.
LEMMA TableGoesOn ==
    ASSUME UpgradeInv, NEW t \in RebuiltTables, Advances(t), disk' \in Db, db' \in Db, Touches(t, db', db),
           db.shape[t] = "new" => db'.shape[t] = "new",
           disk' = db' \/ (disk' = disk /\ t \in Transactional /\ at' = at /\ stmt' > 0),
           at' = at => /\ disk' = IF t \in Transactional THEN disk ELSE db'
                       /\ stmt' <= 3 /\ db'.copy[t] # Nothing /\ db'.shape[t] = (IF stmt' = 3 THEN "absent" ELSE "old")
                       /\ t \notin torn /\ t \in was.rows =>
                            (stmt' < 3 => t \in db'.rows) /\ (stmt' > 1 => db'.copy[t] = "filled"),
           at' # at => /\ disk' = db' /\ db'.shape[t] = "new"
                       /\ t \notin torn => db'.copy[t] = Nothing /\ (t \in was.rows => t \in db'.rows)
    PROVE  UpgradeInv'
<1>1. /\ UpgradeTypeOK' /\ AheadInTransactions' /\ ColumnsFilled' /\ StaffLinked' /\ PublicationsMade'
      /\ RunFilled' /\ ScriptsImported' /\ FailuresExplained' /\ Touches(t, disk', disk)
  BY RebuildGoesOn
<1>2. t \in StepNames /\ Starting(t) /\ UpgradeTypeOK /\ UNCHANGED <<was, torn>> /\ at \in Nat /\ stmt' \in Nat
  BY DEF Advances, UpgradeInv, UpgradeTypeOK, RebuiltTables, StepNames
<1>3. TablesKept'
  <2> DEFINE halfway(u) == Starting(u) /\ stmt > 0 /\ u \notin Transactional
             Kept(u) ==
               /\ u \notin torn => /\ u \in was.rows => u \in disk.rows \/ (halfway(u) /\ stmt = 3)
                                   /\ disk.copy[u] # Nothing => halfway(u)
               /\ Starting(u) /\ stmt > 0 =>
                     /\ stmt <= 3 /\ db.copy[u] # Nothing /\ db.shape[u] = (IF stmt = 3 THEN "absent" ELSE "old")
                     /\ u \notin torn /\ u \in was.rows => (stmt < 3 => u \in db.rows) /\ (stmt > 1 => db.copy[u] = "filled")
               /\ Past(u) => db.shape[u] = "new"
  <2>1. \A u \in RebuiltTables : Kept(u)
    BY DEF UpgradeInv, TablesKept
  <2>2. ASSUME NEW u \in RebuiltTables \ {t}  PROVE Kept(u)'
    <3>1. /\ ~Starting(u) /\ (Starting(u)' => stmt' = 0) /\ (Past(u)' => Past(u))
          /\ (u \in disk'.rows <=> u \in disk.rows) /\ disk'.copy[u] = disk.copy[u] /\ db'.shape[u] = db.shape[u]
      BY <1>1, OtherTablesKept
    <3>2. QED  BY <1>2, <2>1, <3>1
  <2>3. Kept(t)'
    <3>1. CASE at' = at
      <4>1. Starting(t)' /\ stmt' > 0 /\ ~Past(t)'
        BY <1>2, <3>1, Places DEF Advances, Starting, Past, UpgradeTypeOK
      <4>2. CASE t \notin Transactional
        <5>1. disk' = db' /\ stmt' \in {1, 2, 3}
          BY <1>2, <3>1, <4>1, <4>2
        <5>2. QED  BY <1>2, <3>1, <4>1, <4>2, <5>1
      <4>3. CASE t \in Transactional
        <5>1. disk' = disk
          BY <3>1, <4>3
        <5>2. QED  BY <1>2, <2>1, <3>1, <4>1, <4>3, <5>1
      <4>4. QED  BY <4>2, <4>3
    <3>2. CASE at' # at
      <4>1. at' = at + 1 /\ stmt' = 0 /\ ~Starting(t)'
        BY <1>2, <3>2, Places DEF Advances, Starting, UpgradeTypeOK
      <4>2. QED  BY <1>2, <3>2, <4>1
    <3>3. QED  BY <3>1, <3>2
  <2>4. QED  BY <2>2, <2>3 DEF TablesKept
<1>4. QED  BY <1>1, <1>3 DEF UpgradeInv

\* A rebuild that finds the copy of an earlier one fails, and takes nothing with it.
LEMMA RebuildThrows ==
    ASSUME UpgradeInv, NEW t \in RebuiltTables, Starting(t), stmt = 0, db.copy[t] # Nothing, Throw
    PROVE  UpgradeInv'
<1>1. server' = "failed" /\ db' = disk /\ UNCHANGED <<disk, at, stmt, hadTable, was, torn, chosen, crashes, changes>>
  BY DEF Throw, history
<1>2. t \in StepNames /\ server = "starting" /\ at = Position(t) /\ UpgradeTypeOK
  BY DEF RebuiltTables, StepNames, Starting, UpgradeInv
<1>3. db = disk
  BY <1>2, OnDisk
<1>4. t \in torn
  BY <1>3 DEF UpgradeInv, TablesKept
<1>5. \A u \in StepNames : ~Starting(u)' /\ ~Past(u)'
  BY <1>1 DEF Starting, Past
<1>6. UpgradeTypeOK' /\ AheadInTransactions'
  BY <1>1, <1>2, AheadFrame DEF UpgradeTypeOK
<1>7. TablesKept'
  <2>1. RebuiltTables \subseteq StepNames
    BY DEF RebuiltTables, StepNames
  <2>2. \A u \in RebuiltTables : ~(Starting(u) /\ stmt > 0)
    BY <1>2
  <2>3. QED  BY <1>1, <1>5, <2>1, <2>2 DEF TablesKept, UpgradeInv
<1>8. ColumnsFilled' /\ StaffLinked' /\ RunFilled' /\ ScriptsImported'
  <2>1. ~Past("column")' /\ ~Past("cutoffs")' /\ ~Past("template")' /\ ~Past("admin")' /\ ~Past("accounts")' /\ ~Past("guards")'
        /\ ~Past("demo")' /\ ~Starting("demo")' /\ ~Starting("library")'
    BY <1>5 DEF StepNames
  <2>2. stmt = 0 /\ server' # "serving" /\ (Starting("library") /\ stmt > 0 <=> FALSE) /\ (Starting("demo") /\ stmt > 0 <=> FALSE)
    BY <1>1
  <2>3. QED  BY <1>1, <2>1, <2>2 DEF ColumnsFilled, StaffLinked, RunFilled, ScriptsImported, UpgradeInv
<1>9. PublicationsMade'
  <2>1. PublicationsMade /\ ~Past("schema")'
    BY <1>5 DEF UpgradeInv, StepNames
  <2>2. t \notin {"edges", "sessions"} => FALSE
    BY <1>2, <1>4 DEF UpgradeTypeOK, RebuiltTables
  <2>3. ~OneTime
    BY <1>4, <2>1, <2>2 DEF PublicationsMade
  <2>4. ~OneTime'
    BY <1>1, <2>3 DEF OneTime
  <2>5. QED  BY <1>1, <2>1, <2>4 DEF PublicationsMade
<1>10. FailuresExplained'
  BY <1>1, <1>4 DEF FailuresExplained
<1>11. QED  BY <1>6, <1>7, <1>8, <1>9, <1>10 DEF UpgradeInv

LEMMA TableRebuilt == ASSUME UpgradeInv, NEW t \in RebuiltTables, Rebuild(t) PROVE UpgradeInv'
<1>1. t \in StepNames /\ t \in Tables /\ t # "library" /\ UpgradeTypeOK /\ (t \in Transactional) \in BOOLEAN
  BY DEF RebuiltTables, Tables, StepNames, UpgradeInv
<1>2. Starting(t)
  BY <1>1, DoingIsStarting DEF Rebuild, UpgradeTypeOK
<1>3. db \in Db /\ disk \in Db /\ stmt \in Nat
  BY <1>1 DEF UpgradeTypeOK
<1>4. stmt > 0 => /\ db.copy[t] # Nothing /\ db.shape[t] = (IF stmt = 3 THEN "absent" ELSE "old")
                  /\ t \notin torn /\ t \in was.rows => (stmt < 3 => t \in db.rows) /\ (stmt > 1 => db.copy[t] = "filled")
  BY <1>2 DEF UpgradeInv, TablesKept
<1>5. stmt = 0 => db = disk /\ (t \notin torn => disk.copy[t] = Nothing /\ (t \in was.rows => t \in disk.rows))
  <2>1. stmt = 0 => db = disk
    BY <1>1, <1>2, OnDisk
  <2>2. QED  BY <2>1 DEF UpgradeInv, TablesKept
<1>6. CASE stmt = 0 /\ db.shape[t] = "new" /\ NextStep /\ Execute(db, FALSE)
  <2>1. Advances(t) /\ db' = db /\ disk' = db /\ at' # at
    <3>1. Advances(t) /\ db' = db /\ disk' = db
      BY <1>1, <1>2, <1>6, Committing
    <3>2. QED  BY <1>1, <1>6, <3>1 DEF NextStep, UpgradeTypeOK
  <2>2. Touches(t, db', db)
    BY <2>1 DEF Touches, SameColumns, SameStaff, SamePublished, SameRest
  <2>3. QED  BY <1>3, <1>5, <1>6, <2>1, <2>2, TableGoesOn
<1>7. CASE stmt = 0 /\ db.copy[t] # Nothing /\ Throw
  BY <1>2, <1>7, RebuildThrows
<1>8. CASE stmt = 0 /\ db.shape[t] = "old" /\ db.copy[t] = Nothing /\ SameStep /\ CreateCopy(t)
  <2> DEFINE new == [db EXCEPT !.copy[t] = "empty"]
  <2>1. Advances(t) /\ db' = new /\ disk' = (IF t \in Transactional THEN disk ELSE new) /\ at' = at /\ stmt' = 1
    <3>1. Advances(t) /\ db' = new /\ disk' = IF t \in Transactional THEN disk ELSE new
      BY <1>1, <1>2, <1>8, Executing DEF CreateCopy, NextStep, SameStep
    <3>2. QED  BY <1>8, <3>1 DEF SameStep
  <2>2. new \in Db /\ Touches(t, new, db) /\ new.copy[t] = "empty" /\ new.shape = db.shape /\ new.rows = db.rows
    BY <1>1, <1>3 DEF Db, Touches, SameColumns, SameStaff, SamePublished, SameRest
  <2> HIDE DEF new
  <2>3. QED  BY <1>3, <1>5, <1>8, <2>1, <2>2, TableGoesOn DEF Nothing
<1>9. CASE stmt = 1 /\ SameStep /\ FillCopy(t)
  <2> DEFINE new == [db EXCEPT !.copy[t] = IF t \in db.rows THEN "filled" ELSE "empty"]
  <2>1. Advances(t) /\ db' = new /\ disk' = (IF t \in Transactional THEN disk ELSE new) /\ at' = at /\ stmt' = 2
    <3>1. Advances(t) /\ db' = new /\ disk' = IF t \in Transactional THEN disk ELSE new
      BY <1>1, <1>2, <1>9, Executing DEF FillCopy, NextStep, SameStep
    <3>2. QED  BY <1>9, <3>1 DEF SameStep
  <2>2. new \in Db /\ Touches(t, new, db) /\ new.copy[t] = (IF t \in db.rows THEN "filled" ELSE "empty")
        /\ new.shape = db.shape /\ new.rows = db.rows
    BY <1>1, <1>3 DEF Db, Touches, SameColumns, SameStaff, SamePublished, SameRest
  <2> HIDE DEF new
  <2>3. QED  BY <1>3, <1>4, <1>9, <2>1, <2>2, TableGoesOn DEF Nothing
<1>10. CASE stmt = 2 /\ SameStep /\ DropTable(t)
  <2> DEFINE new == [db EXCEPT !.shape[t] = "absent", !.rows = @ \ {t}]
  <2>1. Advances(t) /\ db' = new /\ disk' = (IF t \in Transactional THEN disk ELSE new) /\ at' = at /\ stmt' = 3
    <3>1. Advances(t) /\ db' = new /\ disk' = IF t \in Transactional THEN disk ELSE new
      BY <1>1, <1>2, <1>10, Executing DEF DropTable, NextStep, SameStep
    <3>2. QED  BY <1>10, <3>1 DEF SameStep
  <2>2. new \in Db /\ Touches(t, new, db) /\ new.copy = db.copy /\ new.shape[t] = "absent" /\ new.rows = db.rows \ {t}
    BY <1>1, <1>3 DEF Db, Touches, SameColumns, SameStaff, SamePublished, SameRest
  <2> HIDE DEF new
  <2>3. QED  BY <1>3, <1>4, <1>10, <2>1, <2>2, TableGoesOn DEF Nothing
<1>11. CASE stmt = 3 /\ NextStep /\ RenameCopy(t)
  <2> DEFINE rows == IF db.copy[t] = "filled" THEN db.rows \cup {t} ELSE db.rows
             new == [db EXCEPT !.shape[t] = "new", !.copy[t] = Nothing, !.rows = rows]
  <2>1. Advances(t) /\ db' = new /\ disk' = new /\ at' # at
    <3>1. Advances(t) /\ db' = new /\ disk' = new
      <4>1. Execute(new, FALSE)
        BY <1>11 DEF RenameCopy
      <4> HIDE DEF new
      <4>2. QED  BY <1>1, <1>2, <1>11, <4>1, Committing
    <3>2. QED  BY <1>1, <1>11, <3>1 DEF NextStep, UpgradeTypeOK
  <2>2. rows \in SUBSET RebuiltTables /\ \A u \in RebuiltTables \ {t} : u \in rows <=> u \in db.rows
    BY <1>3 DEF Db
  <2>3. db.copy[t] = "filled" => t \in rows
    OBVIOUS
  <2> HIDE DEF rows
  <2>4. new \in Db /\ Touches(t, new, db) /\ new.copy[t] = Nothing /\ new.shape[t] = "new" /\ new.rows = rows
    BY <1>1, <1>3, <2>2 DEF Db, Touches, SameColumns, SameStaff, SamePublished, SameRest
  <2> HIDE DEF new
  <2>5. QED  BY <1>3, <1>4, <1>11, <2>1, <2>3, <2>4, TableGoesOn
<1>12. QED  BY <1>6, <1>7, <1>8, <1>9, <1>10, <1>11 DEF Rebuild

-------------------------------------------------------------------------------
(* Upgrades: accounts and guards                                            *)

LEMMA AccountsGoOn ==
    ASSUME UpgradeInv, Advances("accounts"), disk' \in Db, db' \in Db,
           db'.shape = db.shape, db'.rows = db.rows, db'.copy = db.copy, SameColumns(db', db), SamePublished(db', db),
           db'.staff = db.staff, db'.run = db.run, db'.scripts = db.scripts, db.admin => db'.admin,
           db'.linked \subseteq was.staff,
           \/ disk' = db' /\ db'.linked = was.staff
           \/ disk' = disk /\ at' = at /\ stmt' > 0
    PROVE  UpgradeInv'
<1>1. "accounts" \in StepNames /\ Starting("accounts") /\ was' = was
  BY DEF StepNames, Advances
<1>2. /\ db.shape = disk.shape /\ db.rows = disk.rows /\ db.copy = disk.copy
      /\ SameColumns(db, disk) /\ SamePublished(db, disk) /\ db.staff = disk.staff
      /\ db.run = disk.run /\ db.scripts = disk.scripts
  BY <1>1 DEF UpgradeInv, AheadInTransactions
<1>3. /\ disk'.shape = disk.shape /\ disk'.rows = disk.rows /\ disk'.copy = disk.copy
      /\ SamePublished(disk', disk) /\ disk'.staff = disk.staff /\ disk'.run = disk.run /\ disk'.scripts = disk.scripts
  BY <1>2 DEF SamePublished
<1>4. UpgradeTypeOK' /\ FailuresExplained'
  BY TypeFrame, FailuresFrame
<1>5. AheadInTransactions'
  <2>1. CASE disk' = db'
    BY <2>1, AheadFrame
  <2>2. CASE disk' = disk /\ at' = at /\ stmt' > 0
    <3>1. Starting("accounts")' /\ \A u \in StepNames : Starting(u)' => u = "accounts"
      BY <1>1, <2>2, OneStep DEF Starting, Advances
    <3>2. InTransaction' /\ ~Starting("scores")' /\ ~Starting("grants")'
      BY <2>2, <3>1 DEF InTransaction, Transactional, StepNames
    <3>3. /\ db'.shape = disk'.shape /\ db'.rows = disk'.rows /\ db'.copy = disk'.copy
          /\ SameColumns(db', disk') /\ SamePublished(db', disk') /\ db'.staff = disk'.staff
          /\ db'.run = disk'.run /\ db'.scripts = disk'.scripts
      BY <1>2, <2>2 DEF SameColumns, SamePublished
    <3>4. QED  BY <3>2, <3>3 DEF AheadInTransactions
  <2>3. QED  BY <2>1, <2>2
<1>6. TablesKept'
  <2>1. "accounts" \in StepNames \ RebuiltTables /\ SameTables(disk', disk) /\ SameTables(db', db)
    BY <1>1, <1>3 DEF RebuiltTables, SameTables
  <2>2. QED  BY <2>1, TablesFrame
<1>7. ColumnsFilled'
  BY <1>1, ColumnsFrame
<1>8. StaffLinked'
  <2>1. StaffLinked /\ (Past("guards")' => Past("guards"))
    BY <1>1, PastMeans DEF UpgradeInv, StepNames
  <2>2. (Past("accounts")' => db'.linked = was.staff) /\ (disk'.linked \subseteq was.staff)
        /\ (disk'.accounts = {} \/ disk'.linked = was.staff)
    <3>1. CASE disk' = db' /\ db'.linked = was.staff
      BY <3>1
    <3>2. CASE disk' = disk /\ at' = at /\ stmt' > 0
      <4>1. ~Past("accounts")'
        BY <1>1, <3>2, Places DEF Past, Starting
      <4>2. QED  BY <2>1, <3>2, <4>1 DEF StaffLinked
    <3>3. QED  BY <3>1, <3>2
  <2>3. QED  BY <1>1, <1>3, <2>1, <2>2 DEF StaffLinked, SharedAccount
<1>9. PublicationsMade'
  <2>1. /\ "accounts" \in StepNames \ {"schema", "publications"} /\ disk'.shape["publications"] = disk.shape["publications"]
        /\ \A t \in {"edges", "sessions"} : disk.shape[t] = "new" => disk'.shape[t] = "new"
        /\ disk.linked = was.staff => disk'.linked = was.staff
    BY <1>1, <1>3
  <2>2. QED  BY <1>3, <2>1, PublicationsFrame
<1>10. RunFilled' /\ ScriptsImported'
  <2>1. "accounts" \in StepNames \ {"demo"} /\ "accounts" \in StepNames \ {"library"}
    BY <1>1
  <2>2. QED  BY <1>3, <2>1, RunFrame, ScriptsFrame
<1>11. QED  BY <1>4, <1>5, <1>6, <1>7, <1>8, <1>9, <1>10 DEF UpgradeInv

LEMMA AccountsBackfilled == ASSUME UpgradeInv, BackfillStaffAccounts PROVE UpgradeInv'
<1> DEFINE left == db.staff \ db.linked
           new(s) == [db EXCEPT !.linked = @ \cup {s}, !.accounts = @ \cup {Name(s)}, !.admin = TRUE]
<1>1. "accounts" \in StepNames /\ "accounts" # "library" /\ UpgradeTypeOK /\ "accounts" \in Transactional
  BY DEF StepNames, UpgradeInv, Transactional
<1>2. Starting("accounts")
  BY <1>1, DoingIsStarting DEF BackfillStaffAccounts, UpgradeTypeOK
<1>3. /\ db \in Db /\ db.staff = was.staff /\ db.linked \subseteq was.staff /\ was.staff \subseteq Staff
      /\ disk.accounts = {} \/ disk.linked = was.staff
  BY <1>1 DEF UpgradeTypeOK, UpgradeInv, StaffLinked, Db
<1>4. CASE stmt = 0 /\ (db.accounts # {} \/ left = {}) /\ NextStep /\ Execute(db, FALSE)
  <2>1. Advances("accounts") /\ db' = db /\ disk' = db
    BY <1>1, <1>2, <1>4, Committing
  <2>2. db = disk
    BY <1>1, <1>2, <1>4, OnDisk
  <2>3. db.linked = was.staff
    BY <1>3, <1>4, <2>2
  <2>4. QED  BY <1>3, <2>1, <2>3, AccountsGoOn DEF SameColumns, SamePublished
<1>5. ASSUME NEW s \in left, IF left = {s} THEN NextStep ELSE SameStep, Execute(new(s), "accounts" \in Transactional /\ left # {s})
      PROVE  UpgradeInv'
  <2>1. s \in Staff /\ s \in was.staff /\ Name(s) \in {Name(u) : u \in Staff}
    BY <1>3
  <2>2. /\ new(s) \in Db /\ new(s).shape = db.shape /\ new(s).rows = db.rows /\ new(s).copy = db.copy
        /\ SameColumns(new(s), db) /\ SamePublished(new(s), db)
        /\ new(s).staff = db.staff /\ new(s).run = db.run /\ new(s).scripts = db.scripts /\ new(s).admin
        /\ new(s).linked = db.linked \cup {s}
    BY <1>3, <2>1 DEF Db, SameColumns, SamePublished
  <2>3. PICK n : n = new(s)
    OBVIOUS
  <2> HIDE DEF new
  <2>4. CASE left = {s}
    <3>1. ("accounts" \in Transactional /\ left # {s}) = FALSE
      BY <2>4
    <3>2. Execute(n, FALSE) /\ NextStep
      BY <1>5, <2>3, <2>4, <3>1
    <3>3. Advances("accounts") /\ db' = n /\ disk' = n
      BY <1>1, <1>2, <3>2, Committing
    <3>4. n.linked = was.staff
      BY <1>3, <2>1, <2>2, <2>3, <2>4
    <3>5. QED  BY <2>2, <2>3, <3>3, <3>4, AccountsGoOn
  <2>5. CASE left # {s}
    <3>1. ("accounts" \in Transactional /\ left # {s}) = TRUE
      BY <1>1, <2>5
    <3>2. Execute(n, TRUE) /\ SameStep
      BY <1>5, <2>3, <2>5, <3>1
    <3>3. Advances("accounts") /\ db' = n /\ disk' = disk
      <4>1. TRUE \in BOOLEAN /\ (NextStep => "accounts" # "library")
        BY <1>1
      <4>2. Advances("accounts") /\ db' = n /\ disk' = IF TRUE THEN disk ELSE n
        BY <1>1, <1>2, <3>2, <4>1, Executing
      <4>3. QED  BY <4>2
    <3>4. at' = at /\ stmt' > 0 /\ disk \in Db /\ n.linked \subseteq was.staff
      BY <1>1, <1>3, <2>1, <2>2, <2>3, <3>2 DEF SameStep, UpgradeTypeOK
    <3>5. QED  BY <2>2, <2>3, <3>3, <3>4, AccountsGoOn
  <2>6. QED  BY <2>4, <2>5
<1>6. QED  BY <1>4, <1>5 DEF BackfillStaffAccounts

\* A start that fails leaves the database as it is on disk.
LEMMA StartFails ==
    ASSUME UpgradeInv, NEW s \in StepNames, Starting(s), s \notin Transactional \/ stmt = 0, stmt > 0 => s \notin RebuiltTables,
           s \notin {"demo", "library"}, Throw, PublicationsMade', FailuresExplained'
    PROVE  UpgradeInv'
<1>1. server' = "failed" /\ db' = disk /\ UNCHANGED <<disk, at, stmt, hadTable, was, torn, chosen, crashes, changes>>
  BY DEF Throw, history
<1>2. UpgradeTypeOK /\ RebuiltTables \subseteq StepNames
  BY DEF UpgradeInv, RebuiltTables, StepNames
<1>3. \A u \in StepNames : ~Starting(u)' /\ ~Past(u)'
  BY <1>1 DEF Starting, Past
<1>4. UpgradeTypeOK' /\ AheadInTransactions'
  BY <1>1, <1>2, AheadFrame DEF UpgradeTypeOK
<1>5. \A u \in StepNames : Starting(u) => u = s
  BY OneStep
<1>6. TablesKept'
  <2>1. \A u \in RebuiltTables : ~(Starting(u) /\ stmt > 0)
    BY <1>2, <1>5
  <2>2. QED  BY <1>1, <1>2, <1>3, <2>1 DEF TablesKept, UpgradeInv
<1>7. ColumnsFilled' /\ StaffLinked' /\ RunFilled' /\ ScriptsImported'
  <2>1. ~Past("column")' /\ ~Past("cutoffs")' /\ ~Past("template")' /\ ~Past("admin")' /\ ~Past("accounts")' /\ ~Past("guards")'
        /\ ~Past("demo")' /\ ~Starting("demo")' /\ ~Starting("library")'
    BY <1>3 DEF StepNames
  <2>2. ~Starting("library") /\ ~Starting("demo")
    BY <1>5 DEF StepNames
  <2>3. server' # "serving"
    BY <1>1
  <2>4. QED  BY <1>1, <2>1, <2>2, <2>3 DEF ColumnsFilled, StaffLinked, RunFilled, ScriptsImported, UpgradeInv
<1>8. QED  BY <1>4, <1>6, <1>7 DEF UpgradeInv

LEMMA GuardsAdded == ASSUME UpgradeInv, AddStaffMembershipGuards PROVE UpgradeInv'
<1>1. /\ "guards" \in StepNames /\ "guards" # "library" /\ UpgradeTypeOK /\ "guards" \notin Transactional
      /\ {"edges", "sessions", "accounts"} \subseteq StepNames
  BY DEF StepNames, UpgradeInv, Transactional
<1>2. Starting("guards") /\ server = "starting" /\ at = 10
  BY <1>1, DoingIsStarting, Places DEF AddStaffMembershipGuards, UpgradeTypeOK, Starting
<1>3. db = disk /\ db \in Db
  BY <1>1, <1>2, OnDisk DEF UpgradeTypeOK
<1>4. db.linked = was.staff /\ \A t \in {"edges", "sessions"} : disk.shape[t] = "new"
  <2>1. Past("accounts") /\ Past("edges") /\ Past("sessions")
    BY <1>2, Places DEF Past
  <2>2. QED  BY <1>3, <2>1 DEF UpgradeInv, StaffLinked, TablesKept, RebuiltTables
<1>5. SharedAccount(db) <=> SharedAccount([linked |-> was.staff])
  BY <1>4 DEF SharedAccount
<1>6. CASE SharedAccount(db) /\ Throw
  <2>1. server' = "failed" /\ db' = disk /\ UNCHANGED <<disk, at, stmt, hadTable, was, torn, chosen>>
    BY <1>6 DEF Throw, history
  <2>2. FailuresExplained'
    BY <1>5, <1>6, <2>1 DEF FailuresExplained, SharedAccount
  <2>3. PublicationsMade'
    <3>1. PublicationsMade /\ OneTime' = OneTime /\ ~Past("schema")'
      BY <2>1 DEF UpgradeInv, OneTime, Past
    <3>2. SharedAccount([linked |-> was'.staff])
      BY <1>5, <1>6, <2>1
    <3>3. QED  BY <1>3, <1>4, <2>1, <3>1, <3>2 DEF PublicationsMade
  <2>4. "guards" \notin {"demo", "library"} /\ "guards" \notin RebuiltTables
    BY DEF RebuiltTables
  <2>5. QED  BY <1>1, <1>2, <1>6, <2>2, <2>3, <2>4, StartFails
<1>7. CASE ~SharedAccount(db) /\ NextStep /\ Execute(db, FALSE)
  <2>1. Commits("guards", db)
    BY <1>1, <1>2, <1>7, StatementCommits
  <2>2. /\ "guards" \notin RebuiltTables
        /\ "guards" \notin {"column", "cutoffs", "template", "admin", "schema", "publications", "demo", "library"}
        /\ SameTables(db, db) /\ SameColumns(db, db) /\ SamePublished(db, db)
    BY DEF RebuiltTables, SameTables, SameColumns, SamePublished
  <2>3. /\ UpgradeTypeOK' /\ AheadInTransactions' /\ FailuresExplained' /\ TablesKept' /\ ColumnsFilled' /\ PublicationsMade'
        /\ RunFilled' /\ ScriptsImported'
    BY <1>1, <1>3, <2>1, <2>2, OtherPartsGoOn
  <2>4. StaffLinked'
    <3>1. StaffLinked /\ was' = was /\ db' = db /\ disk' = disk
      BY <1>3, <2>1 DEF UpgradeInv, Commits, Advances
    <3>2. ~SharedAccount([linked |-> was'.staff])
      BY <1>5, <1>7, <3>1
    <3>3. QED  BY <1>3, <1>4, <3>1, <3>2 DEF StaffLinked
  <2>5. QED  BY <2>3, <2>4 DEF UpgradeInv
<1>8. QED  BY <1>6, <1>7 DEF AddStaffMembershipGuards

-------------------------------------------------------------------------------
(* Upgrades: publication, demo run and scripts                              *)

LEMMA PublishedOnce == ASSUME UpgradeInv, PublishOnce PROVE UpgradeInv'
<1> DEFINE left == IF hadTable THEN {} ELSE db.drawn \ db.published
           new(r) == [db EXCEPT !.published = @ \cup {r}]
<1>1. /\ "publications" \in StepNames /\ "publications" # "library" /\ UpgradeTypeOK /\ "publications" \notin Transactional
      /\ "publications" \notin RebuiltTables
      /\ "publications" \notin {"column", "cutoffs", "template", "admin", "accounts", "guards", "demo"}
  BY DEF StepNames, UpgradeInv, Transactional, RebuiltTables
<1>2. Starting("publications") /\ server = "starting" /\ at = 11
  BY <1>1, DoingIsStarting, Places DEF PublishOnce, UpgradeTypeOK, Starting
<1>3. db = disk /\ db \in Db /\ PublicationsMade /\ at \in Nat
  BY <1>1, <1>2, OnDisk DEF UpgradeTypeOK, UpgradeInv
<1>4. \A t \in {"edges", "sessions"} : disk.shape[t] = "new"
  <2>1. Past("edges") /\ Past("sessions")
    BY <1>2, Places DEF Past
  <2>2. QED  BY <1>3, <2>1 DEF UpgradeInv, TablesKept, RebuiltTables
<1>5. disk.shape["publications"] = "new"
  <2>1. Past("schema")
    BY <1>2, Places DEF Past
  <2>2. QED  BY <1>3, <2>1 DEF PublicationsMade
<1>6. OneTime => ~hadTable \/ Drawn \in disk.published \/ (SharedAccount([linked |-> was.staff]) /\ disk.linked = was.staff)
  BY <1>2, <1>3 DEF PublicationsMade
<1>7. CASE left = {} /\ NextStep /\ Execute(db, FALSE)
  <2>1. Commits("publications", db) /\ at' = 12
    <3>1. Commits("publications", db)
      BY <1>1, <1>2, <1>7, StatementCommits
    <3>2. QED  BY <1>2, <1>7, <3>1 DEF NextStep
  <2>2. SameTables(db, db) /\ SameColumns(db, db) /\ SameStaff(db, db)
    BY DEF SameTables, SameColumns, SameStaff
  <2>3. /\ UpgradeTypeOK' /\ AheadInTransactions' /\ FailuresExplained' /\ TablesKept' /\ ColumnsFilled' /\ StaffLinked'
        /\ RunFilled' /\ ScriptsImported'
    BY <1>1, <1>3, <2>1, <2>2, OtherPartsGoOn
  <2>4. PublicationsMade'
    <3>1. UNCHANGED <<disk, db, server, hadTable, was, torn, chosen>>
      BY <1>3, <2>1 DEF Commits, Advances
    <3>2. OneTime /\ ~hadTable => Drawn \in disk.published
      BY <1>3, <1>7 DEF OneTime, PublicationsMade
    <3>3. OneTime' = OneTime
      BY <3>1 DEF OneTime
    <3>4. QED  BY <1>2, <1>3, <1>4, <1>5, <1>6, <3>1, <3>2, <3>3 DEF PublicationsMade, SharedAccount
  <2>5. QED  BY <2>3, <2>4 DEF UpgradeInv
<1>8. ASSUME NEW r \in left, SameStep, Execute(new(r), FALSE)  PROVE UpgradeInv'
  <2>1. ~hadTable /\ r \in db.drawn
    BY <1>8
  <2>2. r \in was.drawn /\ r \in {Drawn, Later}
    BY <1>2, <1>3, <2>1 DEF PublicationsMade, Db
  <2>3. /\ new(r) \in Db /\ SameTables(new(r), db) /\ SameColumns(new(r), db) /\ SameStaff(new(r), db)
        /\ new(r).admin = db.admin /\ new(r).run = db.run /\ new(r).scripts = db.scripts /\ new(r).drawn = db.drawn
        /\ new(r).published = db.published \cup {r} /\ new(r).shape = db.shape
    BY <1>3, <2>2 DEF Db, SameTables, SameColumns, SameStaff
  <2>4. PICK n : n = new(r)
    OBVIOUS
  <2> HIDE DEF new
  <2>5. Commits("publications", n) /\ at' = at
    BY <1>1, <1>2, <1>8, <2>4, StatementCommits DEF SameStep
  <2>6. /\ UpgradeTypeOK' /\ AheadInTransactions' /\ FailuresExplained' /\ TablesKept' /\ ColumnsFilled' /\ StaffLinked'
        /\ RunFilled' /\ ScriptsImported'
    BY <1>1, <2>3, <2>4, <2>5, OtherPartsGoOn
  <2>7. PublicationsMade'
    <3>1. UNCHANGED <<server, hadTable, was, torn, chosen>> /\ disk' = n /\ db' = n
      BY <2>5 DEF Commits, Advances
    <3>2. OneTime' = OneTime
      BY <3>1 DEF OneTime
    <3>3. /\ n.drawn = disk.drawn /\ n.published \subseteq was.published \cup was.drawn \cup chosen /\ n.shape = disk.shape
      BY <1>3, <2>2, <2>3, <2>4 DEF PublicationsMade
    <3>4. at' <= Position("publications")
      BY <1>2, <2>5, Places
    <3>5. QED  BY <1>2, <1>3, <1>5, <2>1, <3>1, <3>2, <3>3, <3>4 DEF PublicationsMade
  <2>8. QED  BY <2>6, <2>7 DEF UpgradeInv
<1>9. QED  BY <1>7, <1>8 DEF PublishOnce

LEMMA DemoSeeded == ASSUME UpgradeInv, SeedDemoRunData PROVE UpgradeInv'
<1>1. /\ "demo" \in StepNames /\ "demo" # "library" /\ UpgradeTypeOK /\ "demo" \notin Transactional /\ "demo" \notin RebuiltTables
      /\ "demo" \notin {"column", "cutoffs", "template", "admin", "accounts", "guards", "schema", "publications"}
  BY DEF StepNames, UpgradeInv, Transactional, RebuiltTables
<1>2. Starting("demo") /\ at = 13 /\ stmt \in Nat
  BY <1>1, DoingIsStarting, Places DEF SeedDemoRunData, UpgradeTypeOK, Starting
<1>3. db = disk /\ db \in Db /\ RunFilled
  BY <1>1, <1>2, OnDisk DEF UpgradeTypeOK, UpgradeInv
<1>4. PICK new \in Db :
        /\ Commits("demo", new) /\ SameTables(new, db) /\ SameColumns(new, db) /\ SameStaff(new, db) /\ SamePublished(new, db)
        /\ new.shape = db.shape /\ new.linked = db.linked /\ new.admin = db.admin /\ new.scripts = db.scripts
        /\ \/ stmt = 0 /\ new.run = db.run /\ db.run # "none"
           \/ at' = at /\ stmt' > 0 /\ new.run = "begun"
           \/ new.run = "filled"
  <2>1. CASE stmt = 0 /\ db.run # "none" /\ NextStep /\ Execute(db, FALSE)
    <3>1. Commits("demo", db)
      BY <1>1, <1>2, <2>1, StatementCommits
    <3>2. QED  BY <1>3, <2>1, <3>1 DEF SameTables, SameColumns, SameStaff, SamePublished
  <2>2. CASE stmt = 0 /\ db.run = "none" /\ SameStep /\ Execute([db EXCEPT !.run = "begun"], FALSE)
    <3>1. Commits("demo", [db EXCEPT !.run = "begun"])
      BY <1>1, <1>2, <2>2, StatementCommits
    <3>2. at' = at /\ stmt' > 0
      BY <1>2, <2>2 DEF SameStep
    <3>3. QED  BY <1>3, <3>1, <3>2 DEF SameTables, SameColumns, SameStaff, SamePublished, Db
  <2>3. CASE stmt = 1 /\ NextStep /\ Execute([db EXCEPT !.run = "filled"], FALSE)
    <3>1. Commits("demo", [db EXCEPT !.run = "filled"])
      BY <1>1, <1>2, <2>3, StatementCommits
    <3>2. QED  BY <1>3, <3>1 DEF SameTables, SameColumns, SameStaff, SamePublished, Db
  <2>4. QED  BY <2>1, <2>2, <2>3 DEF SeedDemoRunData
<1>5. /\ UpgradeTypeOK' /\ AheadInTransactions' /\ FailuresExplained' /\ TablesKept' /\ ColumnsFilled' /\ StaffLinked'
      /\ PublicationsMade' /\ ScriptsImported'
  BY <1>1, <1>4, OtherPartsGoOn
<1>6. RunFilled'
  <2>1. UNCHANGED <<server, torn>> /\ disk' = new
    BY <1>4 DEF Commits, Advances
  <2>2. CASE stmt = 0 /\ new.run = db.run /\ db.run # "none"
    BY <1>3, <2>1, <2>2 DEF RunFilled
  <2>3. CASE at' = at /\ stmt' > 0 /\ new.run = "begun"
    BY <1>2, <2>1, <2>3 DEF RunFilled, Starting
  <2>4. CASE new.run = "filled"
    BY <2>1, <2>4 DEF RunFilled
  <2>5. QED  BY <1>4, <2>2, <2>3, <2>4
<1>7. QED  BY <1>5, <1>6 DEF UpgradeInv

LEMMA ScriptImported == ASSUME UpgradeInv, ImportScriptLibrary PROVE UpgradeInv'
<1>1. /\ "library" \in StepNames /\ UpgradeTypeOK /\ "library" \notin Transactional /\ "library" \notin RebuiltTables
      /\ "library" \notin {"column", "cutoffs", "template", "admin", "accounts", "guards", "schema", "publications", "demo"}
  BY DEF StepNames, UpgradeInv, Transactional, RebuiltTables
<1>2. Starting("library") /\ stmt \in Nat /\ server = "starting"
  BY <1>1, DoingIsStarting DEF ImportScriptLibrary, UpgradeTypeOK, Starting
<1>3. db = disk /\ db \in Db
  BY <1>1, <1>2, OnDisk DEF UpgradeTypeOK
<1>4. PICK x \in Library : Execute([db EXCEPT !.scripts = @ \cup {x}], FALSE) /\ SameStep
  BY DEF ImportScriptLibrary
<1>5. PICK new : new = [db EXCEPT !.scripts = @ \cup {x}]
  OBVIOUS
<1>6. ~NextStep
  BY <1>1, <1>4 DEF NextStep, SameStep, UpgradeTypeOK
<1>7. Commits("library", new)
  BY <1>1, <1>2, <1>4, <1>5, <1>6, StatementCommits
<1>8. /\ new \in Db /\ SameTables(new, db) /\ SameColumns(new, db) /\ SameStaff(new, db) /\ SamePublished(new, db)
      /\ new.shape = db.shape /\ new.linked = db.linked /\ new.admin = db.admin /\ new.run = db.run
  BY <1>3, <1>5 DEF SameTables, SameColumns, SameStaff, SamePublished, Db
<1>9. /\ UpgradeTypeOK' /\ AheadInTransactions' /\ FailuresExplained' /\ TablesKept' /\ ColumnsFilled' /\ StaffLinked'
      /\ PublicationsMade' /\ RunFilled'
  BY <1>1, <1>7, <1>8, OtherPartsGoOn
<1>10. ScriptsImported'
  <2>1. Starting("library")' /\ stmt' > 0 /\ server' = "starting"
    BY <1>2, <1>4, <1>7 DEF Starting, SameStep, Commits, Advances
  <2>2. QED  BY <2>1 DEF ScriptsImported
<1>11. QED  BY <1>9, <1>10 DEF UpgradeInv

-------------------------------------------------------------------------------
(* Upgrades: the process, and what people do while it serves                *)

LEMMA Listens == ASSUME UpgradeInv, Listen PROVE UpgradeInv'
<1>1. "library" \in StepNames /\ UpgradeTypeOK /\ "library" \notin Transactional
  BY DEF StepNames, UpgradeInv, Transactional
<1>2. Starting("library") /\ at = 14 /\ server = "starting" /\ stmt \in Nat
  BY <1>1, DoingIsStarting, Places DEF Listen, UpgradeTypeOK, Starting
<1>3. /\ db = disk /\ server' = "serving" /\ UNCHANGED <<disk, db, at, stmt, hadTable, was, torn, chosen, crashes, changes>>
  BY <1>1, <1>2, OnDisk DEF Listen, history
<1>4. \A u \in StepNames : ~Starting(u)' /\ (Past(u)' <=> Past(u)) /\ (Starting(u) => u = "library")
  BY <1>1, <1>2, <1>3, OneStep DEF Starting, Past
<1>5. UpgradeTypeOK' /\ AheadInTransactions'
  BY <1>1, <1>2, <1>3, AheadFrame, Places DEF UpgradeTypeOK
<1>6. TablesKept'
  <2>1. RebuiltTables \subseteq StepNames /\ "library" \notin RebuiltTables
    BY DEF RebuiltTables, StepNames
  <2>2. QED  BY <1>3, <1>4, <2>1 DEF TablesKept, UpgradeInv
<1>7. ColumnsFilled' /\ StaffLinked' /\ RunFilled'
  <2>1. \A u \in {"column", "cutoffs", "template", "admin", "accounts", "guards", "demo"} :
           ~Starting(u)' /\ ~Starting(u) /\ (Past(u)' <=> Past(u))
    BY <1>4 DEF StepNames
  <2>2. QED  BY <1>3, <2>1 DEF ColumnsFilled, StaffLinked, RunFilled, UpgradeInv, SharedAccount
<1>8. PublicationsMade'
  <2>1. OneTime' = OneTime /\ (Past("schema")' <=> Past("schema")) /\ PublicationsMade
    BY <1>3, <1>4 DEF OneTime, StepNames, UpgradeInv
  <2>2. ~(at <= Position("publications"))
    BY <1>2, Places
  <2>3. QED  BY <1>2, <1>3, <2>1, <2>2 DEF PublicationsMade, SharedAccount
<1>9. ScriptsImported'
  <2>1. changes = 0 /\ "library" \notin torn => disk.scripts = Library
    <3>1. CASE stmt = 0
      BY <1>3, <3>1 DEF Listen, UpgradeInv, ScriptsImported
    <3>2. CASE stmt > 0
      BY <1>3, <3>2 DEF Listen
    <3>3. QED  BY <1>2, <3>1, <3>2
  <2>2. QED  BY <1>3, <2>1 DEF ScriptsImported
<1>10. FailuresExplained'
  BY <1>3 DEF FailuresExplained
<1>11. QED  BY <1>5, <1>6, <1>7, <1>8, <1>9, <1>10 DEF UpgradeInv

\* Between starts the connection shows what is on disk.
LEMMA AtRest == ASSUME UpgradeInv, server # "starting" PROVE db = disk /\ \A u : ~Starting(u)
BY DEF UpgradeInv, AheadInTransactions, InTransaction, Starting

LEMMA Started == ASSUME UpgradeInv, StartServer PROVE UpgradeInv'
<1>1. /\ server \in {"down", "failed"} /\ server' = "starting" /\ at' = 1 /\ stmt' = 0
      /\ hadTable' = (disk.shape["publications"] = "new")
      /\ UNCHANGED <<disk, db, was, torn, chosen, crashes, changes>>
  BY DEF StartServer, history
<1>2. UpgradeTypeOK /\ db = disk /\ \A u : ~Starting(u)
  BY <1>1, AtRest DEF UpgradeInv
<1>3. \A u \in StepNames : ~Past(u)' /\ ~(Starting(u)' /\ stmt' > 0)
  BY <1>1, Places DEF Past, StepNames
<1>4. UpgradeTypeOK' /\ AheadInTransactions'
  <2>1. hadTable' \in BOOLEAN
    BY <1>1
  <2>2. QED  BY <1>1, <1>2, <2>1, AheadFrame, Places DEF UpgradeTypeOK
<1>5. TablesKept'
  <2>1. RebuiltTables \subseteq StepNames
    BY DEF RebuiltTables, StepNames
  <2>2. QED  BY <1>1, <1>2, <1>3, <2>1 DEF TablesKept, UpgradeInv
<1>6. ColumnsFilled' /\ StaffLinked' /\ RunFilled' /\ ScriptsImported'
  <2>1. \A u \in {"column", "cutoffs", "template", "admin", "accounts", "guards", "demo", "library"} :
           ~Past(u)' /\ ~(Starting(u)' /\ stmt' > 0)
    BY <1>3 DEF StepNames
  <2>2. server' # "serving"
    BY <1>1
  <2>3. QED  BY <1>1, <1>2, <2>1, <2>2 DEF ColumnsFilled, StaffLinked, RunFilled, ScriptsImported, UpgradeInv, SharedAccount
<1>7. PublicationsMade'
  <2>1. OneTime' = OneTime /\ ~Past("schema")' /\ PublicationsMade /\ at' <= Position("publications")
    BY <1>1, <1>3, Places DEF OneTime, StepNames, UpgradeInv
  <2>2. hadTable' => disk.shape["publications"] = "new"
    BY <1>1
  <2>3. disk.shape["publications"] = "new" => hadTable'
    BY <1>1
  <2>4. QED  BY <1>1, <1>2, <2>1, <2>2, <2>3 DEF PublicationsMade, SharedAccount
<1>8. FailuresExplained'
  BY <1>1 DEF FailuresExplained
<1>9. QED  BY <1>4, <1>5, <1>6, <1>7, <1>8 DEF UpgradeInv

LEMMA Crashed == ASSUME UpgradeInv, Crash PROVE UpgradeInv'
<1>1. /\ server \in {"starting", "serving"} /\ server' = "down" /\ db' = disk /\ torn' = torn \cup Torn
      /\ crashes' = crashes + 1 /\ UNCHANGED <<disk, at, stmt, hadTable, was, chosen, changes>>
  BY DEF Crash
<1>2. UpgradeTypeOK
  BY DEF UpgradeInv
<1>3. /\ \A t \in {"edges", "sessions", "demo", "library"} : t \in Torn <=> (Starting(t) /\ stmt > 0)
      /\ "publications" \in Torn <=> /\ server = "starting" /\ ~hadTable /\ disk.shape["publications"] = "new"
                                     /\ at <= Position("publications") /\ db.drawn # {}
      /\ Torn \subseteq {"edges", "sessions", "publications", "demo", "library"}
  <2>1. \A t \in {"edges", "sessions", "demo", "library"} : Doing(t) <=> Starting(t)
    BY <1>2, DoingIsStarting DEF StepNames, UpgradeTypeOK
  <2>2. Torn = {t \in {"edges", "sessions"} : Doing(t) /\ stmt > 0}
               \cup {t \in {"publications"} : /\ server = "starting" /\ ~hadTable /\ disk.shape[t] = "new"
                                              /\ at <= Position(t) /\ db.drawn # {}}
               \cup {t \in {"demo", "library"} : Doing(t) /\ stmt > 0}
    BY DEF Torn, RebuiltTables
  <2>3. QED  BY <2>1, <2>2
<1>4. \A u \in StepNames : ~Starting(u)' /\ ~Past(u)'
  BY <1>1 DEF Starting, Past
<1>5. UpgradeTypeOK' /\ AheadInTransactions'
  <2>1. crashes' \in Nat /\ torn' \subseteq {"edges", "sessions", "publications", "demo", "library"}
    BY <1>1, <1>2, <1>3 DEF UpgradeTypeOK
  <2>2. QED  BY <1>1, <1>2, <2>1, AheadFrame DEF UpgradeTypeOK
<1>6. TablesKept'
  <2>1. \A t \in RebuiltTables \ Transactional : Starting(t) /\ stmt > 0 => t \in torn'
    BY <1>1, <1>3 DEF RebuiltTables, Transactional
  <2>2. \A t \in RebuiltTables : ~Starting(t)' /\ ~Past(t)' /\ (t \notin torn' => t \notin torn)
    BY <1>1, <1>4 DEF RebuiltTables, StepNames
  <2>3. \A t \in RebuiltTables : t \notin torn' => (t \in was.rows => t \in disk.rows) /\ ~(disk.copy[t] # Nothing)
    BY <2>1, <2>2 DEF TablesKept, UpgradeInv
  <2>4. QED  BY <1>1, <2>2, <2>3 DEF TablesKept
<1>7. ColumnsFilled' /\ StaffLinked' /\ RunFilled' /\ ScriptsImported'
  <2>1. /\ ~Past("column")' /\ ~Past("cutoffs")' /\ ~Past("template")' /\ ~Past("admin")' /\ ~Past("accounts")'
        /\ ~Past("guards")' /\ ~Past("demo")' /\ ~Starting("demo")'
    BY <1>4 DEF StepNames
  <2>2. server' # "serving"
    BY <1>1
  <2>3. /\ Starting("demo") /\ stmt > 0 => "demo" \in torn'
        /\ Starting("library") /\ stmt > 0 => "library" \in torn'
        /\ torn \subseteq torn'
    BY <1>1, <1>3
  <2>4. QED  BY <1>1, <2>1, <2>2, <2>3 DEF ColumnsFilled, StaffLinked, RunFilled, ScriptsImported, UpgradeInv, SharedAccount
<1>8. PublicationsMade'
  <2>1. PublicationsMade /\ ~Past("schema")' /\ server' = "down" /\ server \notin {"down", "failed"}
    BY <1>1, <1>4 DEF UpgradeInv, StepNames
  <2>2. OneTime' => OneTime /\ "publications" \notin Torn
    BY <1>1 DEF OneTime
  <2>3. OneTime' /\ server = "starting" /\ ~hadTable /\ at <= Position("publications") => disk.shape["publications"] = "absent"
    <3>1. OneTime' => db.drawn # {}
      BY <2>1, <2>2 DEF OneTime, PublicationsMade
    <3>2. disk.shape["publications"] \in {"new", "absent"}
      BY <1>2, <2>1 DEF UpgradeTypeOK, Db, Tables, PublicationsMade
    <3>3. QED  BY <1>3, <2>2, <3>1, <3>2
  <2>4. OneTime' => \/ disk.shape["publications"] = "absent"
                    \/ /\ \A t \in {"edges", "sessions"} : disk.shape[t] = "new"
                       /\ \/ Drawn \in disk.published
                          \/ SharedAccount([linked |-> was.staff]) /\ disk.linked = was.staff
    BY <2>1, <2>2, <2>3 DEF PublicationsMade
  <2>5. ASSUME OneTime', NEW t \in {"edges", "sessions"}, Starting(t), stmt > 0  PROVE FALSE
    <3>1. t \in StepNames /\ t \notin Transactional /\ t \in RebuiltTables
      BY DEF StepNames, Transactional, RebuiltTables
    <3>2. db = disk
      BY <2>5, <3>1, OnDisk
    <3>3. disk.shape[t] # "new"
      BY <2>5, <3>1, <3>2 DEF UpgradeInv, TablesKept
    <3>4. Past("schema")
      BY <2>5, Places DEF Past, Starting
    <3>5. disk.shape["publications"] = "new"
      BY <2>1, <3>4 DEF PublicationsMade
    <3>6. QED  BY <2>4, <2>5, <3>3, <3>5
  <2>6. OneTime' => torn' \cap {"edges", "sessions"} = {}
    BY <1>1, <1>3, <2>1, <2>2, <2>5 DEF PublicationsMade
  <2>7. QED  BY <1>1, <2>1, <2>4, <2>6 DEF PublicationsMade, SharedAccount
<1>9. FailuresExplained'
  BY <1>1 DEF FailuresExplained
<1>10. QED  BY <1>5, <1>6, <1>7, <1>8, <1>9 DEF UpgradeInv

LEMMA Changed ==
    ASSUME UpgradeInv, NEW new \in Db, NEW published \in SUBSET {Drawn, Later}, Change(new, published),
           SameTables(new, db), SameColumns(new, db), SameStaff(new, db), new.shape = db.shape, new.admin = db.admin,
           new.run = db.run, db.drawn \subseteq new.drawn, db.published \subseteq new.published,
           new.published \subseteq db.published \cup published
    PROVE  UpgradeInv'
<1>1. /\ server = "serving" /\ db' = new /\ disk' = new /\ changes' = changes + 1 /\ chosen' = chosen \cup published
      /\ UNCHANGED <<at, stmt, hadTable, server, was, torn, crashes>>
  BY DEF Change
<1>2. UpgradeTypeOK /\ db = disk
  BY <1>1, AtRest DEF UpgradeInv
<1>3. \A u \in StepNames : ~Starting(u)' /\ ~Starting(u) /\ (Past(u)' <=> Past(u))
  BY <1>1 DEF Starting, Past
<1>4. UpgradeTypeOK' /\ AheadInTransactions'
  BY <1>1, <1>2, AheadFrame DEF UpgradeTypeOK
<1>5. TablesKept'
  <2>1. RebuiltTables \subseteq StepNames
    BY DEF RebuiltTables, StepNames
  <2>2. QED  BY <1>1, <1>2, <1>3, <2>1 DEF TablesKept, UpgradeInv, SameTables
<1>6. ColumnsFilled' /\ StaffLinked' /\ RunFilled'
  <2>1. \A u \in {"column", "cutoffs", "template", "admin", "accounts", "guards", "demo"} :
           ~Starting(u)' /\ ~Starting(u) /\ (Past(u)' <=> Past(u))
    BY <1>3 DEF StepNames
  <2>2. ColumnsFilled' /\ RunFilled'
    BY <1>1, <1>2, <2>1 DEF ColumnsFilled, RunFilled, UpgradeInv, SameColumns
  <2>3. StaffLinked'
    BY <1>1, <1>2, <2>1 DEF StaffLinked, UpgradeInv, SameStaff, SharedAccount
  <2>4. QED  BY <2>2, <2>3
<1>7. PublicationsMade'
  <2>1. PublicationsMade /\ Past("schema") /\ OneTime' = OneTime
    <3>1. at = 14
      BY <1>1, <1>2, Places DEF UpgradeTypeOK
    <3>2. QED  BY <1>1, <3>1, Places DEF OneTime, UpgradeInv, Past
  <2>2. disk.linked = was.staff => new.linked = was.staff
    BY <1>2 DEF SameStaff
  <2>3. QED  BY <1>1, <1>2, <2>1, <2>2 DEF PublicationsMade, SharedAccount
<1>8. ScriptsImported' /\ FailuresExplained'
  <2>1. changes' # 0 /\ server' # "failed"
    BY <1>1, <1>2 DEF UpgradeTypeOK
  <2>2. QED  BY <2>1 DEF ScriptsImported, FailuresExplained
<1>9. QED  BY <1>4, <1>5, <1>6, <1>7, <1>8 DEF UpgradeInv

LEMMA UpgradeStep == UpgradeInv /\ [UpgradeNext]_upgradeVars => UpgradeInv'
<1> SUFFICES ASSUME UpgradeInv, [UpgradeNext]_upgradeVars PROVE UpgradeInv'
  OBVIOUS
<1>1. db \in Db
  BY DEF UpgradeInv, UpgradeTypeOK
<1>2. CASE Migrate
  BY <1>2, SchemaCreated, TableRebuilt, ColumnAdded, CutoffsFilled, TemplateEnsured, AccountsBackfilled, GuardsAdded,
     PublishedOnce DEF Migrate
<1>3. CASE DrawNode
  <2> DEFINE new == [db EXCEPT !.drawn = @ \cup {Later}]
  <2>1. /\ new \in Db /\ SameTables(new, db) /\ SameColumns(new, db) /\ SameStaff(new, db) /\ new.shape = db.shape
        /\ new.admin = db.admin /\ new.run = db.run /\ db.drawn \subseteq new.drawn /\ new.published = db.published
    BY <1>1 DEF Db, SameTables, SameColumns, SameStaff
  <2>2. Change(new, {}) /\ {} \in SUBSET {Drawn, Later}
    BY <1>3 DEF DrawNode
  <2> HIDE DEF new
  <2>3. QED  BY <2>1, <2>2, Changed
<1>4. ASSUME NEW r \in {Drawn, Later}, PublishTopology(r)  PROVE UpgradeInv'
  <2> DEFINE new == [db EXCEPT !.published = @ \cup {r}]
  <2>1. /\ new \in Db /\ SameTables(new, db) /\ SameColumns(new, db) /\ SameStaff(new, db) /\ new.shape = db.shape
        /\ new.admin = db.admin /\ new.run = db.run /\ new.drawn = db.drawn /\ new.published = db.published \cup {r}
    BY <1>1 DEF Db, SameTables, SameColumns, SameStaff
  <2>2. Change(new, {r}) /\ {r} \in SUBSET {Drawn, Later}
    BY <1>4 DEF PublishTopology
  <2> HIDE DEF new
  <2>3. QED  BY <2>1, <2>2, Changed
<1>5. ASSUME NEW x \in Library, DeleteScript(x)  PROVE UpgradeInv'
  <2> DEFINE new == [db EXCEPT !.scripts = @ \ {x}]
  <2>1. /\ new \in Db /\ SameTables(new, db) /\ SameColumns(new, db) /\ SameStaff(new, db) /\ new.shape = db.shape
        /\ new.admin = db.admin /\ new.run = db.run /\ new.drawn = db.drawn /\ new.published = db.published
    BY <1>1 DEF Db, SameTables, SameColumns, SameStaff
  <2>2. Change(new, {}) /\ {} \in SUBSET {Drawn, Later}
    BY <1>5 DEF DeleteScript
  <2> HIDE DEF new
  <2>3. QED  BY <2>1, <2>2, Changed
<1>6. CASE UNCHANGED upgradeVars
  <2>1. UNCHANGED <<disk, db, at, stmt, hadTable, server, was, torn, chosen, crashes, changes>>
    BY <1>6 DEF upgradeVars
  <2>2. UpgradeTypeOK' /\ StaffLinked' /\ FailuresExplained'
    BY <2>1 DEF UpgradeInv, UpgradeTypeOK, StaffLinked, FailuresExplained, SharedAccount, Past
  <2>3. AheadInTransactions'
    BY <2>1 DEF UpgradeInv, AheadInTransactions, InTransaction, Starting, SameColumns, SameStaff, SamePublished, SameRest
  <2>4. TablesKept'
    BY <2>1 DEF UpgradeInv, TablesKept, Starting, Past
  <2>5. ColumnsFilled' /\ RunFilled' /\ ScriptsImported'
    BY <2>1 DEF UpgradeInv, ColumnsFilled, RunFilled, ScriptsImported, Starting, Past
  <2>6. PublicationsMade'
    BY <2>1 DEF UpgradeInv, PublicationsMade, OneTime, SharedAccount, Past
  <2>7. QED  BY <2>2, <2>3, <2>4, <2>5, <2>6 DEF UpgradeInv
<1>7. QED
  BY <1>2, <1>3, <1>4, <1>5, <1>6, Started, AdminEnsured, DemoSeeded, ScriptImported, Listens, Crashed DEF UpgradeNext

LEMMA UpgradeInvariance == UpgradeSpec => []UpgradeInv
BY UpgradeInitially, UpgradeStep, PTL DEF UpgradeSpec

\* The database, its connection, the step of a start and what a crash left keep their types (db/index.ts,
\* migrate.ts, seed.ts).
THEOREM UpgradeTypeCorrect == UpgradeSpec => []UpgradeTypeOK
<1>1. UpgradeInv => UpgradeTypeOK
  BY DEF UpgradeInv
<1>2. QED  BY <1>1, UpgradeInvariance, PTL

LEMMA InvKeepsRecords == UpgradeInv => UpgradesKeepRecords
<1> SUFFICES ASSUME UpgradeInv PROVE UpgradesKeepRecords
  OBVIOUS
<1>1. UpgradeTypeOK /\ TablesKept /\ ColumnsFilled /\ StaffLinked /\ PublicationsMade /\ RunFilled /\ ScriptsImported
      /\ FailuresExplained
  BY DEF UpgradeInv
<1>2. ASSUME server = "serving"
      PROVE  Upgraded /\ (changes = 0 /\ "library" \notin torn => db.scripts = Library)
  <2>1. db = disk /\ at = 14 /\ \A u : ~Starting(u)
    BY <1>1, <1>2, AtRest, Places DEF UpgradeTypeOK
  <2>2. \A u \in StepNames \ {"library"} : Past(u)
    BY <1>2, <2>1, Places DEF Past, StepNames
  <2>3. was.rows \ torn \subseteq db.rows
    <3>1. was.rows \subseteq RebuiltTables
      BY <1>1 DEF UpgradeTypeOK, Db
    <3>2. QED  BY <1>1, <2>1, <3>1 DEF TablesKept
  <2>4. db.linked = was.staff /\ db.admin /\ db.template /\ db.column /\ db.cutoffs /\ ~SharedAccount([linked |-> was.staff])
    BY <1>1, <2>2 DEF StaffLinked, ColumnsFilled, StepNames
  <2>5. "demo" \notin torn => db.run = "filled"
    <3>1. db.run \in {"none", "begun", "filled"}
      BY <1>1 DEF UpgradeTypeOK, Db
    <3>2. db.run # "none"
      BY <1>1, <2>1, <2>2 DEF RunFilled, StepNames
    <3>3. QED  BY <1>1, <2>1, <3>1, <3>2 DEF RunFilled
  <2>6. was.shape["publications"] = "absent" => was.drawn \subseteq db.published \cup {r \in {Drawn} : "publications" \in torn}
    <3>1. was.drawn \subseteq {Drawn}
      BY <1>1 DEF PublicationsMade
    <3>2. OneTime => Drawn \in db.published
      BY <1>1, <1>2, <2>1, <2>4 DEF PublicationsMade
    <3>3. QED  BY <3>1, <3>2 DEF OneTime
  <2>7. Upgraded
    BY <2>3, <2>4, <2>5, <2>6 DEF Upgraded
  <2>8. QED  BY <1>1, <1>2, <2>1, <2>7 DEF ScriptsImported
<1>3. db.published \subseteq was.published \cup was.drawn \cup chosen
  BY <1>1 DEF PublicationsMade
<1>4. server = "failed" => torn \cap RebuiltTables # {} \/ SharedAccount([linked |-> was.staff])
  BY <1>1 DEF FailuresExplained
<1>5. QED  BY <1>2, <1>3, <1>4 DEF UpgradesKeepRecords

\* However many staff, scripts, crashes and changes: a server that listens after an upgrade has kept what it
\* had to keep, and published nothing nobody chose; one that cannot start has a reason (migrate.ts, seed.ts).
THEOREM RecordsSurviveUpgrades == UpgradeSpec => []UpgradesKeepRecords
BY UpgradeInvariance, InvKeepsRecords, PTL
=====================================================================================
