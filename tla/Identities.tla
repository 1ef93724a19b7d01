-------------------------------- MODULE Identities --------------------------------
(***************************************************************************)
(* Who may sign in, as what, and how that ends: staff accounts             *)
(* (accounts.service, routes/admin/accounts), students (routes/admin/users,*)
(* auth.routes /register), profiles (profile.service), bearer tokens       *)
(* (authz/principal) and the sockets opened with them (sockets/index).     *)
(*                                                                         *)
(* Every handler runs without an await and is one action. A socket keeps   *)
(* the principal of its handshake; only a revocation that kicks, or the    *)
(* timer, closes it when the token no longer stands for that principal.    *)
(***************************************************************************)
EXTENDS Integers, FiniteSets

CONSTANTS
    Accounts,     \* rows accounts may hold
    Students,     \* student rows users may hold
    Teams,        \* rows teams may hold
    Names,        \* usernames, by spelling
    Fold,         \* [Names -> Names]: the spelling NOCASE compares by
    Tokens,       \* bearer tokens
    None,         \* a row, token or socket that is not there
    First,        \* the account of the first start, an admin
    FirstName,
    Swapping      \* bound: the spellings a profile edit may choose

ASSUME NamesFold ==
    /\ Fold \in [Names -> Names] /\ \A n \in Names : Fold[Fold[n]] = Fold[n]
    /\ First \in Accounts /\ FirstName \in Names /\ Swapping \subseteq Names
    /\ Accounts \cap Students = {}

VARIABLES
    accounts,      \* [Accounts -> row]
    joined,        \* accounts that have a membership row in the active run
    students,      \* [Students -> row], of the active run
    teams,         \* teams of the active run
    tokens,        \* [Tokens -> row of auth_tokens]
    sockets,       \* [Tokens -> principal of the handshake]
    open,          \* a join code is set (isRegistrationOpen)
    instructorsOn  \* ENABLE_SCOPED_INSTRUCTORS, read by scopedInstructorsEnabled

people == <<accounts, joined, students>>
vars == <<people, teams, tokens, sockets, open, instructorsOn>>

Roles == {"admin", "instructor"}
NoTeam == "no team"

Principal == [who : Accounts \cup Students, role : Roles \cup {"student"}, team : Teams \cup {NoTeam}]
StaffRow == [name : Names, role : Roles, enabled : BOOLEAN]
StudentRow == [name : Names, team : Teams, active : BOOLEAN]
Token == [owner : Accounts \cup Students, role : Roles \cup {"student"}, team : Teams \cup {NoTeam},
          outdated : BOOLEAN, expired : BOOLEAN]
TypeOK ==
    /\ accounts \in [Accounts -> StaffRow \cup {None}]
    /\ joined \subseteq Accounts
    /\ students \in [Students -> StudentRow \cup {None}]
    /\ teams \subseteq Teams
    /\ tokens \in [Tokens -> Token \cup {None}]
    /\ sockets \in [Tokens -> Principal \cup {None}]
    /\ open \in BOOLEAN /\ instructorsOn \in BOOLEAN

ASSUME NoneIsNoRow ==
    None \notin UNION {StaffRow, StudentRow, Token, Tokens, Accounts, Students}

-------------------------------------------------------------------------------
(* Tokens and sockets                                                       *)

Account(a) == accounts[a] # None
Student(u) == students[u] # None

\* what an account or a student is, once its token is accepted
StaffPrincipal(a) == [who |-> a, role |-> accounts[a].role, team |-> NoTeam]
StudentPrincipal(u) == [who |-> u, role |-> "student", team |-> students[u].team]

MaySignIn(a) ==
    /\ Account(a) /\ accounts[a].enabled
    /\ accounts[a].role = "instructor" => instructorsOn

\* authenticateToken, but for the expiry
Stands(k) ==
    IF tokens[k] = None THEN None
    ELSE LET p == tokens[k].owner IN
         IF p \in Accounts THEN (IF MaySignIn(p) THEN StaffPrincipal(p) ELSE None)
         ELSE IF Student(p) /\ students[p].active THEN StudentPrincipal(p) ELSE None
Authenticate(k) == IF tokens[k] # None /\ tokens[k].expired THEN None ELSE Stands(k)

\* requireAuth and requirePermission: the token's principal has one of the roles
Acts(k, roles) == Authenticate(k) # None /\ Authenticate(k).role \in roles

\* DELETE FROM auth_tokens of these owners, but for the token itself
Revoked(owners, except) ==
    [k \in Tokens |-> IF tokens[k] # None /\ tokens[k].owner \in owners /\ k # except THEN None ELSE tokens[k]]

\* Mutant: sockets are left to the timer.
KickRevokedSockets_Later == sockets' = sockets
\* kickRevokedSockets, revalidateSockets: after the handler's own writes
KickRevokedSockets ==
    sockets' = [k \in Tokens |-> IF sockets[k] # None /\ Authenticate(k)' # sockets[k] THEN None ELSE sockets[k]]

Issue(p, role, team) ==
    \E k \in Tokens :
      /\ tokens[k] = None /\ sockets[k] = None
      /\ tokens' = [tokens EXCEPT ![k] =
           [owner |-> p, role |-> role, team |-> team, outdated |-> FALSE, expired |-> FALSE]]

\* an outdated token was issued under an earlier password, and did not change it
Outdate(owner, except, rows) ==
    [k \in Tokens |-> IF rows[k] # None /\ rows[k].owner = owner /\ k # except
                      THEN [rows[k] EXCEPT !.outdated = TRUE] ELSE rows[k]]

-------------------------------------------------------------------------------
(* Names                                                                    *)

\* Mutant: a disabled account's name is free.
UsernameTaken_Enabled(n, who) ==
    \/ \E a \in Accounts \ {who} : Account(a) /\ accounts[a].enabled /\ Fold[accounts[a].name] = Fold[n]
    \/ \E u \in Students \ {who} : Student(u) /\ Fold[students[u].name] = Fold[n]
\* usernameTaken: one namespace, disabled accounts and deactivated students included
UsernameTaken(n, who) ==
    \/ \E a \in Accounts \ {who} : Account(a) /\ Fold[accounts[a].name] = Fold[n]
    \/ \E u \in Students \ {who} : Student(u) /\ Fold[students[u].name] = Fold[n]

-------------------------------------------------------------------------------
(* Signing in and out                                                       *)

\* POST /auth/login by staff: ensureStaffMembership inserts the run's users row, whose
\* username is unique in the run to the letter
LoginStaff(a) ==
    /\ MaySignIn(a)
    /\ a \in joined \/ \A u \in Students : Student(u) => students[u].name # accounts[a].name
    /\ joined' = joined \cup {a}
    /\ Issue(a, accounts[a].role, NoTeam)
    /\ UNCHANGED <<accounts, students, teams, sockets, open, instructorsOn>>

\* by a student: only when no account has the name
LoginStudent(u) ==
    /\ Student(u) /\ students[u].active
    /\ \A a \in Accounts : Account(a) => Fold[accounts[a].name] # Fold[students[u].name]
    /\ Issue(u, "student", students[u].team)
    /\ UNCHANGED <<people, teams, sockets, open, instructorsOn>>

Logout(k) ==
    /\ Acts(k, Roles \cup {"student"})
    /\ tokens' = [tokens EXCEPT ![k] = None]
    /\ UNCHANGED <<people, teams, open, instructorsOn>>
    /\ KickRevokedSockets

Expire(k) ==
    /\ tokens[k] # None /\ ~tokens[k].expired
    /\ tokens' = [tokens EXCEPT ![k].expired = TRUE]
    /\ UNCHANGED <<people, teams, sockets, open, instructorsOn>>

\* the handshake
Connect(k) ==
    /\ sockets[k] = None /\ Authenticate(k) # None
    /\ sockets' = [sockets EXCEPT ![k] = Authenticate(k)]
    /\ UNCHANGED <<people, teams, tokens, open, instructorsOn>>

Disconnect(k) ==
    /\ sockets[k] # None
    /\ sockets' = [sockets EXCEPT ![k] = None]
    /\ UNCHANGED <<people, teams, tokens, open, instructorsOn>>

\* the timer of setupSockets
Revalidate ==
    /\ UNCHANGED <<people, teams, tokens, open, instructorsOn>>
    /\ KickRevokedSockets

\* the process restarts, perhaps with instructors switched off or on; ensureInitialAdmin
Restart ==
    /\ instructorsOn' \in BOOLEAN
    /\ \E a \in Accounts : MaySignIn(a) /\ accounts[a].role = "admin"
    /\ sockets' = [k \in Tokens |-> None]
    /\ UNCHANGED <<people, teams, tokens, open>>

-------------------------------------------------------------------------------
(* Staff accounts: admins only                                              *)

ActiveAdmins == {a \in Accounts : Account(a) /\ accounts[a].enabled /\ accounts[a].role = "admin"}

\* POST /admin/accounts
CreateAccount(k, a, n, role) ==
    /\ Acts(k, {"admin"}) /\ ~Account(a) /\ ~UsernameTaken(n, None)
    /\ role = "instructor" => instructorsOn
    /\ accounts' = [accounts EXCEPT ![a] = [name |-> n, role |-> role, enabled |-> TRUE]]
    /\ UNCHANGED <<joined, students, teams, tokens, sockets, open, instructorsOn>>

\* cutAccount
CutAccount(a, password) == IF password THEN Outdate(a, None, Revoked({a}, None)) ELSE Revoked({a}, None)

\* PATCH and DELETE /admin/accounts/:id: any of a role, disabled and a password. Nobody
\* demotes or disables itself, and the last active admin stays one.
ChangeAccount(k, a, role, enabled, password) ==
    LET roleChanges == role # accounts[a].role
        disabling == accounts[a].enabled /\ ~enabled
        enabling == enabled /\ ~accounts[a].enabled IN
    /\ Acts(k, {"admin"}) /\ Account(a)
    /\ roleChanges \/ disabling \/ enabling \/ password
    /\ Authenticate(k).who = a => ~roleChanges /\ ~disabling
    /\ roleChanges /\ role = "instructor" => instructorsOn
    /\ ActiveAdmins = {a} => ~disabling /\ ~roleChanges
    /\ enabling => ~UsernameTaken(accounts[a].name, a)
    /\ accounts' = [accounts EXCEPT ![a].role = role, ![a].enabled = enabled]
    /\ UNCHANGED <<joined, students, teams, open, instructorsOn>>
    /\ IF roleChanges \/ disabling \/ password
       THEN tokens' = CutAccount(a, password) /\ KickRevokedSockets
       ELSE UNCHANGED <<tokens, sockets>>

-------------------------------------------------------------------------------
(* Students                                                                 *)

NewStudent(u, n, t) == students' = [students EXCEPT ![u] = [name |-> n, team |-> t, active |-> TRUE]]

\* POST /admin/users
CreateStudent(k, u, n, t) ==
    /\ Acts(k, Roles) /\ t \in teams /\ ~Student(u) /\ ~UsernameTaken(n, None)
    /\ NewStudent(u, n, t)
    /\ UNCHANGED <<accounts, joined, teams, tokens, sockets, open, instructorsOn>>

\* PUT .../registration, of the event or of an organization
SetRegistration(k) ==
    /\ Acts(k, {"admin"}) /\ open' \in BOOLEAN
    /\ UNCHANGED <<people, teams, tokens, sockets, instructorsOn>>

\* POST /auth/register, with a code that unlocks the team; it signs in at once
Register(u, n, t) ==
    /\ open /\ t \in teams /\ ~Student(u) /\ ~UsernameTaken(n, None)
    /\ NewStudent(u, n, t)
    /\ Issue(u, "student", t)
    /\ UNCHANGED <<accounts, joined, teams, sockets, open, instructorsOn>>

\* Mutant: a student that is moved stays signed in.
TokensOfMoved_Kept(u) == tokens
TokensOfMoved(u) == Revoked({u}, None)

\* PATCH /admin/users/:id
MoveStudent(k, u, t) ==
    /\ Acts(k, Roles) /\ t \in teams
    /\ Student(u) /\ students[u].active /\ students[u].team # t
    /\ students' = [students EXCEPT ![u].team = t]
    /\ tokens' = TokensOfMoved(u)
    /\ UNCHANGED <<accounts, joined, teams, open, instructorsOn>>
    /\ KickRevokedSockets

\* DELETE /admin/users/:id: a student whose work other rows refer to is deactivated
DeleteStudent(k, u) ==
    /\ Acts(k, Roles) /\ Student(u) /\ students[u].active
    /\ \/ students' = [students EXCEPT ![u] = None]
       \/ students' = [students EXCEPT ![u].active = FALSE]
    /\ tokens' = Revoked({u}, None)
    /\ UNCHANGED <<accounts, joined, teams, open, instructorsOn>>
    /\ KickRevokedSockets

\* PATCH /auth/me, staff and students: a name, a password, or both
UpdateOwnProfile(k, n, password) ==
    /\ Acts(k, Roles \cup {"student"})
    /\ LET p == tokens[k].owner
           old == IF p \in Accounts THEN accounts[p].name ELSE students[p].name IN
       /\ n # old \/ password
       /\ n # old => n \in Swapping /\ ~UsernameTaken(n, p)
       /\ IF p \in Accounts
          THEN accounts' = [accounts EXCEPT ![p].name = n] /\ UNCHANGED students
          ELSE students' = [students EXCEPT ![p].name = n] /\ UNCHANGED accounts
       /\ UNCHANGED <<joined, teams, open, instructorsOn>>
       /\ IF password
          THEN tokens' = Outdate(p, k, Revoked({p}, k)) /\ KickRevokedSockets
          ELSE UNCHANGED <<tokens, sockets>>

\* DELETE /admin/teams/:id: users go with their team, tokens with their users
DeleteTeam(k, t) ==
    /\ Acts(k, Roles) /\ t \in teams
    /\ teams' = teams \ {t}
    /\ students' = [u \in Students |-> IF Student(u) /\ students[u].team = t THEN None ELSE students[u]]
    /\ tokens' = Revoked({u \in Students : Student(u) /\ students[u].team = t}, None)
    /\ UNCHANGED <<accounts, joined, open, instructorsOn>>
    /\ KickRevokedSockets

\* POST /admin/teams
CreateTeam(k, t) ==
    /\ Acts(k, Roles) /\ t \notin teams
    /\ teams' = teams \cup {t}
    /\ UNCHANGED <<people, tokens, sockets, open, instructorsOn>>

\* the reset job's last step: every row of the run goes, accounts stay
ResetEvent ==
    /\ ActiveAdmins # {}
    /\ students' = [u \in Students |-> None] /\ joined' = {} /\ teams' = {}
    /\ tokens' = [k \in Tokens |-> None]
    /\ open' = FALSE
    /\ UNCHANGED <<accounts, instructorsOn>>
    /\ KickRevokedSockets

-------------------------------------------------------------------------------
Init ==
    /\ accounts = [a \in Accounts |->
         IF a = First THEN [name |-> FirstName, role |-> "admin", enabled |-> TRUE] ELSE None]
    /\ joined = {}
    /\ students = [u \in Students |-> None]
    /\ teams = Teams
    /\ tokens = [k \in Tokens |-> None] /\ sockets = [k \in Tokens |-> None]
    /\ open = FALSE /\ instructorsOn = TRUE

ManageAccounts(k) ==
    \E a \in Accounts :
      \/ \E n \in Names, role \in Roles : CreateAccount(k, a, n, role)
      \/ \E role \in Roles, enabled, password \in BOOLEAN : ChangeAccount(k, a, role, enabled, password)
ManageStudents(k) ==
    \/ \E u \in Students, n \in Names, t \in Teams : CreateStudent(k, u, n, t)
    \/ \E u \in Students, t \in Teams : MoveStudent(k, u, t)
    \/ \E u \in Students : DeleteStudent(k, u)
    \/ \E t \in Teams : DeleteTeam(k, t) \/ CreateTeam(k, t)
OwnToken(k) ==
    \/ \E n \in Names, password \in BOOLEAN : UpdateOwnProfile(k, n, password)
    \/ Logout(k) \/ Expire(k) \/ Connect(k) \/ Disconnect(k)

Next ==
    \/ \E a \in Accounts : LoginStaff(a)
    \/ \E u \in Students : LoginStudent(u)
    \/ \E u \in Students, n \in Names, t \in Teams : Register(u, n, t)
    \/ \E k \in Tokens : ManageAccounts(k) \/ ManageStudents(k) \/ OwnToken(k) \/ SetRegistration(k)
    \/ ResetEvent \/ Restart \/ Revalidate

Spec == Init /\ [][Next]_vars

-------------------------------------------------------------------------------
(* Properties                                                               *)

\* A name, however it is spelt, is one person's: of an account, disabled ones included,
\* or of a student of the active run, deactivated ones included (usernameTaken: "one
\* namespace across staff accounts and the active run's students").
NameOf(p) == IF p \in Accounts THEN accounts[p].name ELSE students[p].name
Known == {a \in Accounts : Account(a)} \cup {u \in Students : Student(u)}
UsernamesAreOne == \A p, q \in Known : Fold[NameOf(p)] = Fold[NameOf(q)] => p = q

\* No token works under another role, for another team, or under an earlier password than
\* the one it was issued under, unless it made the change itself (cutAccount, PATCH
\* /users/:id, updateOwnProfile).
TokensKeepTheirPrivileges ==
    \A k \in Tokens : Authenticate(k) # None =>
        /\ tokens[k].role = Authenticate(k).role /\ tokens[k].team = Authenticate(k).team
        /\ ~tokens[k].outdated

\* A socket that is open belongs to the principal its token stands for now: whatever
\* revokes a token, moves its owner or changes its role closes the sockets opened with it,
\* except that an expiry waits for the timer (kickRevokedSockets: "the cut-off is immediate
\* rather than at the next timer tick").
SocketsFollowTokens == \A k \in Tokens : sockets[k] # None => Stands(k) = sockets[k]
====================================================================================
