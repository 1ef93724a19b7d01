----------------------------- MODULE IdentitiesProofs -----------------------------
(***************************************************************************)
(* Safety theorems about Identities, for every set of accounts, students,  *)
(* teams, names and tokens, and about TimeToDetect, for every number of    *)
(* rows and every length of the event.                                     *)
(***************************************************************************)
EXTENDS Identities, TimeToDetect, FiniteSetTheorems, WellFoundedInduction, TLAPS

-------------------------------------------------------------------------------
(* Type correctness                                                         *)

LEMMA NoRow ==
    /\ None \notin StaffRow /\ None \notin StudentRow /\ None \notin Token
    /\ None \notin Tokens /\ None \notin Accounts /\ None \notin Students
BY NoneIsNoRow

LEMMA NoTokenHasNoPrincipal == \A k \in Tokens : Authenticate(k) # None => Stands(k) = Authenticate(k) /\ tokens[k] # None
BY DEF Authenticate, Stands

LEMMA ActingHasToken ==
    ASSUME NEW k \in Tokens, NEW roles, Acts(k, roles), TypeOK
    PROVE  /\ tokens[k] \in Token
           /\ tokens[k].owner \in Accounts => Account(tokens[k].owner)
           /\ tokens[k].owner \notin Accounts =>
                tokens[k].owner \in Students /\ Student(tokens[k].owner)
BY NoTokenHasNoPrincipal DEF Acts, Stands, MaySignIn, TypeOK, StaffRow, StudentRow, Token

LEMMA StandsType == TypeOK => \A k \in Tokens : Authenticate(k) \in Principal \cup {None}
<1> SUFFICES ASSUME TypeOK, NEW k \in Tokens, Authenticate(k) # None  PROVE Authenticate(k) \in Principal
  OBVIOUS
<1>1. Authenticate(k) = Stands(k) /\ tokens[k] # None
  BY NoTokenHasNoPrincipal
<1>2. tokens[k] \in Token
  BY <1>1 DEF TypeOK, StaffRow, StudentRow
<1>3. CASE tokens[k].owner \in Accounts
  <2>1. MaySignIn(tokens[k].owner) /\ Stands(k) = StaffPrincipal(tokens[k].owner)
    BY <1>1, <1>3 DEF Stands
  <2>2. accounts[tokens[k].owner].role \in Roles
    BY <2>1, <1>3 DEF MaySignIn, Account, TypeOK, StaffRow, StudentRow
  <2>3. QED  BY <1>1, <1>3, <2>1, <2>2 DEF StaffPrincipal, Principal
<1>4. CASE tokens[k].owner \notin Accounts
  <2>1. Student(tokens[k].owner) /\ Stands(k) = StudentPrincipal(tokens[k].owner)
    BY <1>1, <1>4 DEF Stands
  <2>2. tokens[k].owner \in Students
    BY <1>2, <1>4 DEF Token
  <2>3. students[tokens[k].owner].team \in Teams
    BY <2>1, <2>2 DEF Student, TypeOK, StaffRow, StudentRow
  <2>4. QED  BY <1>1, <2>1, <2>2, <2>3 DEF StudentPrincipal, Principal
<1>5. QED  BY <1>3, <1>4

LEMMA RevokedType ==
    ASSUME TypeOK, NEW owners, NEW except  PROVE Revoked(owners, except) \in [Tokens -> Token \cup {None}]
BY DEF Revoked, TypeOK, StaffRow, StudentRow

LEMMA OutdateType ==
    ASSUME NEW rows \in [Tokens -> Token \cup {None}], NEW owner, NEW except
    PROVE  Outdate(owner, except, rows) \in [Tokens -> Token \cup {None}]
<1>1. \A r \in Token : [r EXCEPT !.outdated = TRUE] \in Token
  BY DEF Token
<1>2. QED  BY <1>1 DEF Outdate

LEMMA CutAccountType ==
    ASSUME TypeOK, NEW a \in Accounts, NEW password \in BOOLEAN
    PROVE  CutAccount(a, password) \in [Tokens -> Token \cup {None}]
BY RevokedType, OutdateType DEF CutAccount

LEMMA KickType == TypeOK /\ KickRevokedSockets => sockets' \in [Tokens -> Principal \cup {None}]
BY DEF KickRevokedSockets, TypeOK, StaffRow, StudentRow

LEMMA IssueType ==
    ASSUME TypeOK, NEW p \in Accounts \cup Students, NEW role \in Roles \cup {"student"},
           NEW team \in Teams \cup {NoTeam}, Issue(p, role, team)
    PROVE  tokens' \in [Tokens -> Token \cup {None}]
BY DEF Issue, TypeOK, StaffRow, StudentRow, Token

LEMMA InitType == Init => TypeOK
<1> SUFFICES ASSUME Init  PROVE TypeOK
  OBVIOUS
<1>1. accounts \in [Accounts -> StaffRow \cup {None}]
  BY NamesFold DEF Init, Roles, StaffRow
<1>2. QED  BY <1>1 DEF Init, TypeOK, StaffRow, StudentRow

LEMMA TypeStep == TypeOK /\ [Next]_vars => TypeOK'
<1> SUFFICES ASSUME TypeOK, [Next]_vars  PROVE TypeOK'
  OBVIOUS
<1>1. ASSUME NEW a \in Accounts, LoginStaff(a)  PROVE TypeOK'
  <2>1. accounts[a].role \in Roles
    BY <1>1 DEF LoginStaff, MaySignIn, Account, TypeOK, StaffRow, StudentRow
  <2>2. tokens' \in [Tokens -> Token \cup {None}]
    BY <1>1, <2>1, IssueType DEF LoginStaff
  <2>3. QED  BY <1>1, <2>2 DEF LoginStaff, TypeOK, StaffRow, StudentRow
<1>2. ASSUME NEW u \in Students, LoginStudent(u)  PROVE TypeOK'
  <2>1. students[u].team \in Teams
    BY <1>2 DEF LoginStudent, Student, TypeOK, StaffRow, StudentRow
  <2>2. tokens' \in [Tokens -> Token \cup {None}]
    BY <1>2, <2>1, IssueType DEF LoginStudent
  <2>3. QED  BY <1>2, <2>2 DEF LoginStudent, TypeOK, StaffRow, StudentRow, people
<1>3. ASSUME NEW u \in Students, NEW n \in Names, NEW t \in Teams, Register(u, n, t)  PROVE TypeOK'
  <2>1. tokens' \in [Tokens -> Token \cup {None}]
    BY <1>3, IssueType DEF Register
  <2>2. QED  BY <1>3, <2>1 DEF Register, NewStudent, TypeOK, StaffRow, StudentRow
<1>4. ASSUME NEW k \in Tokens, NEW a \in Accounts, NEW n \in Names, NEW role \in Roles, CreateAccount(k, a, n, role)
      PROVE  TypeOK'
  BY <1>4 DEF CreateAccount, TypeOK, StaffRow, StudentRow
<1>5. ASSUME NEW k \in Tokens, NEW a \in Accounts, NEW role \in Roles, NEW enabled \in BOOLEAN,
             NEW password \in BOOLEAN, ChangeAccount(k, a, role, enabled, password)
      PROVE  TypeOK'
  <2>0. Account(a) /\ accounts' = [accounts EXCEPT ![a].role = role, ![a].enabled = enabled]
    BY <1>5, Zenon DEF ChangeAccount
  <2>1. accounts' \in [Accounts -> StaffRow \cup {None}]
    <3>1. accounts \in [Accounts -> StaffRow \cup {None}] /\ accounts[a] \in StaffRow
      BY <2>0 DEF Account, TypeOK
    <3>2. [accounts[a] EXCEPT !.role = role, !.enabled = enabled] \in StaffRow
      BY <3>1 DEF StaffRow
    <3>3. accounts' = [accounts EXCEPT ![a] = [accounts[a] EXCEPT !.role = role, !.enabled = enabled]]
      BY <2>0, <3>1
    <3>4. QED  BY <3>1, <3>2, <3>3
  <2>2. UNCHANGED <<joined, students, teams, open, instructorsOn>>
    BY <1>5, Zenon DEF ChangeAccount
  <2>3. \/ UNCHANGED <<tokens, sockets>>
        \/ tokens' = CutAccount(a, password) /\ KickRevokedSockets
    BY <1>5, Zenon DEF ChangeAccount
  <2>4. tokens' \in [Tokens -> Token \cup {None}] /\ sockets' \in [Tokens -> Principal \cup {None}]
    <3>1. CutAccount(a, password) \in [Tokens -> Token \cup {None}]
      BY CutAccountType
    <3>2. QED  BY <2>3, <3>1, KickType DEF TypeOK, StaffRow, StudentRow
  <2>5. QED  BY <2>1, <2>2, <2>4 DEF TypeOK, StaffRow, StudentRow
<1>6. ASSUME NEW k \in Tokens, NEW u \in Students, NEW n \in Names, NEW t \in Teams, CreateStudent(k, u, n, t)
      PROVE  TypeOK'
  BY <1>6 DEF CreateStudent, NewStudent, TypeOK, StaffRow, StudentRow
<1>7. ASSUME NEW k \in Tokens, NEW u \in Students, NEW t \in Teams, MoveStudent(k, u, t)  PROVE TypeOK'
  <2>1. students' \in [Students -> StudentRow \cup {None}]
    BY <1>7 DEF MoveStudent, Student, TypeOK, StaffRow, StudentRow
  <2>2. QED  BY <1>7, <2>1, RevokedType, KickType DEF MoveStudent, TokensOfMoved, TypeOK, StaffRow, StudentRow
<1>8. ASSUME NEW k \in Tokens, NEW u \in Students, DeleteStudent(k, u)  PROVE TypeOK'
  <2>1. students' \in [Students -> StudentRow \cup {None}]
    BY <1>8 DEF DeleteStudent, Student, TypeOK, StaffRow, StudentRow
  <2>2. QED  BY <1>8, <2>1, RevokedType, KickType DEF DeleteStudent, TypeOK, StaffRow, StudentRow
<1>9. ASSUME NEW k \in Tokens, NEW t \in Teams, DeleteTeam(k, t)  PROVE TypeOK'
  <2>1. students' \in [Students -> StudentRow \cup {None}]
    BY <1>9 DEF DeleteTeam, TypeOK, StaffRow, StudentRow
  <2>2. QED  BY <1>9, <2>1, RevokedType, KickType DEF DeleteTeam, TypeOK, StaffRow, StudentRow
<1>10. ASSUME NEW k \in Tokens, NEW t \in Teams, CreateTeam(k, t)  PROVE TypeOK'
  BY <1>10 DEF CreateTeam, TypeOK, StaffRow, StudentRow, people
<1>11. ASSUME NEW k \in Tokens, NEW n \in Names, NEW password \in BOOLEAN, UpdateOwnProfile(k, n, password)
       PROVE  TypeOK'
  <2> DEFINE p == tokens[k].owner
  <2>1. /\ p \in Accounts => Account(p)
        /\ p \notin Accounts => p \in Students /\ Student(p)
    BY <1>11, ActingHasToken DEF UpdateOwnProfile
  <2>2. accounts' \in [Accounts -> StaffRow \cup {None}]
    BY <1>11, <2>1 DEF UpdateOwnProfile, Account, TypeOK, StaffRow, StudentRow
  <2>3. students' \in [Students -> StudentRow \cup {None}]
    BY <1>11, <2>1 DEF UpdateOwnProfile, Student, TypeOK, StaffRow, StudentRow
  <2>4. UNCHANGED <<joined, teams, open, instructorsOn>>
    BY <1>11 DEF UpdateOwnProfile
  <2>5. \/ UNCHANGED <<tokens, sockets>>
        \/ tokens' = Outdate(p, k, Revoked({p}, k)) /\ KickRevokedSockets
    BY <1>11 DEF UpdateOwnProfile
  <2>6. QED  BY <2>2, <2>3, <2>4, <2>5, RevokedType, OutdateType, KickType DEF TypeOK, StaffRow, StudentRow
<1>12. ASSUME NEW k \in Tokens, Logout(k)  PROVE TypeOK'
  BY <1>12, KickType DEF Logout, TypeOK, StaffRow, StudentRow, people
<1>13. ASSUME NEW k \in Tokens, Expire(k)  PROVE TypeOK'
  <2>1. tokens' \in [Tokens -> Token \cup {None}]
    BY <1>13 DEF Expire, TypeOK, StaffRow, StudentRow, Token
  <2>2. QED  BY <1>13, <2>1 DEF Expire, TypeOK, StaffRow, StudentRow, people
<1>14. ASSUME NEW k \in Tokens, Connect(k)  PROVE TypeOK'
  BY <1>14, StandsType DEF Connect, TypeOK, StaffRow, StudentRow, people
<1>15. ASSUME NEW k \in Tokens, Disconnect(k)  PROVE TypeOK'
  BY <1>15 DEF Disconnect, TypeOK, StaffRow, StudentRow, people
<1>16. ASSUME NEW k \in Tokens, SetRegistration(k)  PROVE TypeOK'
  BY <1>16 DEF SetRegistration, TypeOK, StaffRow, StudentRow, people
<1>17. CASE ResetEvent
  BY <1>17, KickType DEF ResetEvent, TypeOK, StaffRow, StudentRow
<1>18. CASE Restart
  BY <1>18 DEF Restart, TypeOK, StaffRow, StudentRow, people
<1>19. CASE Revalidate
  BY <1>19, KickType DEF Revalidate, TypeOK, StaffRow, StudentRow, people
<1>20. CASE UNCHANGED vars
  BY <1>20 DEF vars, people, TypeOK, StaffRow, StudentRow
<1>21. QED
  BY <1>1, <1>2, <1>3, <1>4, <1>5, <1>6, <1>7, <1>8, <1>9, <1>10, <1>11, <1>12, <1>13, <1>14,
     <1>15, <1>16, <1>17, <1>18, <1>19, <1>20
  DEF Next, ManageAccounts, ManageStudents, OwnToken

\* Every row of accounts, users, teams and auth_tokens, and every socket's principal, has
\* the shape the handlers give it.
THEOREM TypeCorrect == Spec => []TypeOK
BY InitType, TypeStep, PTL DEF Spec

-------------------------------------------------------------------------------
(* Names                                                                    *)

\* Nobody new is known, and nobody's name changes.
NamesStay == Known' \subseteq Known /\ \A p \in Known' : NameOf(p)' = NameOf(p)

LEMMA StayingNames == UsernamesAreOne /\ NamesStay => UsernamesAreOne'
BY DEF UsernamesAreOne, NamesStay

\* Handlers that leave the names alone, or only drop rows.
LEMMA NamesUntouched == UNCHANGED <<accounts, students>> => NamesStay
BY DEF NamesStay, Known, NameOf, Account, Student

\* One person takes a name that no one else has.
LEMMA OneNewName ==
    ASSUME UsernamesAreOne, NEW p, NEW n,
           \A q \in Known \ {p} : Fold[NameOf(q)] # Fold[n],
           \A q \in Known' \ {p} : q \in Known /\ NameOf(q)' = NameOf(q),
           p \in Known' => NameOf(p)' = n
    PROVE  UsernamesAreOne'
BY DEF UsernamesAreOne

LEMMA FreeNames ==
    ASSUME NEW n, NEW who, ~UsernameTaken(n, who)
    PROVE  \A q \in Known \ {who} : Fold[NameOf(q)] # Fold[n]
BY NamesFold DEF UsernameTaken, Known, NameOf

LEMMA NewStudentName ==
    ASSUME TypeOK, UsernamesAreOne, NEW u \in Students, NEW n \in Names, NEW t, ~Student(u),
           ~UsernameTaken(n, None), NewStudent(u, n, t), UNCHANGED accounts
    PROVE  UsernamesAreOne'
<1>1. \A q \in Known \ {u} : Fold[NameOf(q)] # Fold[n]
  BY FreeNames, NoRow DEF Known
<1>2. u \notin Accounts
  BY NamesFold
<1>3. \A q \in Known' \ {u} : q \in Known /\ NameOf(q)' = NameOf(q)
  BY <1>2 DEF NewStudent, Known, NameOf, Account, Student, TypeOK, StaffRow, StudentRow
<1>4. u \in Known' => NameOf(u)' = n
  BY <1>2 DEF NewStudent, NameOf, TypeOK, StaffRow, StudentRow
<1>5. QED  BY <1>1, <1>3, <1>4, OneNewName

LEMMA NameStep == TypeOK /\ UsernamesAreOne /\ [Next]_vars => UsernamesAreOne'
<1> SUFFICES ASSUME TypeOK, UsernamesAreOne, [Next]_vars  PROVE UsernamesAreOne'
  OBVIOUS
<1>1. ASSUME NEW k \in Tokens, NEW a \in Accounts, NEW n \in Names, NEW role \in Roles, CreateAccount(k, a, n, role)
      PROVE  UsernamesAreOne'
  <2>1. \A q \in Known \ {a} : Fold[NameOf(q)] # Fold[n]
    BY <1>1, FreeNames, NoRow DEF CreateAccount, Known
  <2>2. \A q \in Known' \ {a} : q \in Known /\ NameOf(q)' = NameOf(q)
    BY <1>1 DEF CreateAccount, Known, NameOf, Account, Student, TypeOK, StaffRow, StudentRow
  <2>3. NameOf(a)' = n
    BY <1>1 DEF CreateAccount, NameOf, TypeOK, StaffRow, StudentRow
  <2>4. QED  BY <2>1, <2>2, <2>3, OneNewName
<1>2. ASSUME NEW k \in Tokens, NEW a \in Accounts, NEW role \in Roles, NEW enabled \in BOOLEAN,
             NEW password \in BOOLEAN, ChangeAccount(k, a, role, enabled, password)
      PROVE  UsernamesAreOne'
  <2>1. /\ Account(a) /\ accounts' = [accounts EXCEPT ![a].role = role, ![a].enabled = enabled]
        /\ UNCHANGED students
    BY <1>2, Zenon DEF ChangeAccount
  <2>2. NamesStay
    BY <2>1 DEF NamesStay, Known, NameOf, Account, Student, TypeOK, StaffRow, StudentRow
  <2>3. QED  BY <2>2, StayingNames
<1>3. ASSUME NEW k \in Tokens, NEW u \in Students, NEW n \in Names, NEW t \in Teams, CreateStudent(k, u, n, t)
      PROVE  UsernamesAreOne'
  BY <1>3, NewStudentName DEF CreateStudent
<1>4. ASSUME NEW u \in Students, NEW n \in Names, NEW t \in Teams, Register(u, n, t)  PROVE UsernamesAreOne'
  BY <1>4, NewStudentName DEF Register
<1>5. ASSUME NEW k \in Tokens, NEW u \in Students, NEW t \in Teams, MoveStudent(k, u, t)  PROVE UsernamesAreOne'
  <2>1. NamesStay
    BY <1>5 DEF MoveStudent, NamesStay, Known, NameOf, Account, Student, TypeOK, StaffRow, StudentRow
  <2>2. QED  BY <2>1, StayingNames
<1>6. ASSUME NEW k \in Tokens, NEW u \in Students, DeleteStudent(k, u)  PROVE UsernamesAreOne'
  <2>1. NamesStay
    BY <1>6 DEF DeleteStudent, NamesStay, Known, NameOf, Account, Student, TypeOK, StaffRow, StudentRow
  <2>2. QED  BY <2>1, StayingNames
<1>7. ASSUME NEW k \in Tokens, NEW t \in Teams, DeleteTeam(k, t)  PROVE UsernamesAreOne'
  <2>1. NamesStay
    BY <1>7 DEF DeleteTeam, NamesStay, Known, NameOf, Account, Student, TypeOK, StaffRow, StudentRow
  <2>2. QED  BY <2>1, StayingNames
<1>8. ASSUME NEW k \in Tokens, NEW n \in Names, NEW password \in BOOLEAN, UpdateOwnProfile(k, n, password)
      PROVE  UsernamesAreOne'
  <2>0. PICK p : p = tokens[k].owner
    OBVIOUS
  <2>1. /\ p \in Accounts => Account(p)
        /\ p \notin Accounts => p \in Students /\ Student(p)
    BY <1>8, <2>0, ActingHasToken DEF UpdateOwnProfile
  <2>2. n # NameOf(p) => \A q \in Known \ {p} : Fold[NameOf(q)] # Fold[n]
    <3>1. n # NameOf(p) => ~UsernameTaken(n, p)
      BY <1>8, <2>0 DEF UpdateOwnProfile, NameOf
    <3>2. QED  BY <3>1, FreeNames
  <2>3. n = NameOf(p) => \A q \in Known \ {p} : Fold[NameOf(q)] # Fold[n]
    BY <2>1 DEF UsernamesAreOne, Known
  <2>4. /\ p \in Accounts => accounts' = [accounts EXCEPT ![p].name = n] /\ UNCHANGED students
        /\ p \notin Accounts => students' = [students EXCEPT ![p].name = n] /\ UNCHANGED accounts
    BY <1>8, <2>0 DEF UpdateOwnProfile
  <2>5. \A q \in Known' \ {p} : q \in Known /\ NameOf(q)' = NameOf(q)
    BY <2>1, <2>4 DEF Known, NameOf, Account, Student, TypeOK, StaffRow, StudentRow
  <2>6. NameOf(p)' = n
    BY <2>1, <2>4 DEF NameOf, Account, Student, TypeOK, StaffRow, StudentRow
  <2>7. QED  BY <2>2, <2>3, <2>5, <2>6, OneNewName
<1>9. CASE ResetEvent
  <2>1. NamesStay
    BY <1>9 DEF ResetEvent, NamesStay, Known, NameOf, Account, Student
  <2>2. QED  BY <2>1, StayingNames
<1>10. CASE UNCHANGED <<accounts, students>>
  BY <1>10, NamesUntouched, StayingNames
<1>11. ASSUME NEW k \in Tokens  
       PROVE  /\ OwnToken(k) => \/ UNCHANGED <<accounts, students>>
                                 \/ \E n \in Names, password \in BOOLEAN : UpdateOwnProfile(k, n, password)
              /\ SetRegistration(k) => UNCHANGED <<accounts, students>>
              /\ \A t \in Teams : CreateTeam(k, t) => UNCHANGED <<accounts, students>>
  BY DEF OwnToken, Logout, Expire, Connect, Disconnect, SetRegistration, CreateTeam, people
<1>12. /\ \A a \in Accounts : LoginStaff(a) => UNCHANGED <<accounts, students>>
       /\ \A u \in Students : LoginStudent(u) => UNCHANGED <<accounts, students>>
       /\ Restart \/ Revalidate \/ UNCHANGED vars => UNCHANGED <<accounts, students>>
  BY DEF LoginStaff, LoginStudent, Restart, Revalidate, vars, people
<1>13. QED
  BY <1>1, <1>2, <1>3, <1>4, <1>5, <1>6, <1>7, <1>8, <1>9, <1>10, <1>11, <1>12
  DEF Next, ManageAccounts, ManageStudents

\* A name, however it is spelt, is one person's (usernameTaken).
THEOREM OneNamespace == Spec => []UsernamesAreOne
<1>1. Init => UsernamesAreOne
  BY DEF Init, UsernamesAreOne, Known, Account, Student, NameOf
<1>2. QED  BY <1>1, InitType, TypeStep, NameStep, PTL DEF Spec

-------------------------------------------------------------------------------
(* Tokens                                                                   *)

\* A token's row says what its owner is: nobody's role or team changes while one of their
\* tokens is kept, and a token that survives a new password is the one that set it.
OwnedBy(t, p) ==
    /\ ~t.outdated
    /\ p \in Accounts => Account(p) /\ t.role = accounts[p].role /\ t.team = NoTeam
    /\ p \in Students => Student(p) /\ t.role = "student" /\ t.team = students[p].team
TokensAreOwned == \A k \in Tokens : tokens[k] # None => OwnedBy(tokens[k], tokens[k].owner)

LEMMA OwnedTokensKeepTheirPrivileges == TypeOK /\ TokensAreOwned => TokensKeepTheirPrivileges
<1> SUFFICES ASSUME TypeOK, TokensAreOwned, NEW k \in Tokens, Authenticate(k) # None
             PROVE  /\ tokens[k].role = Authenticate(k).role /\ tokens[k].team = Authenticate(k).team
                    /\ ~tokens[k].outdated
  BY DEF TokensKeepTheirPrivileges
<1>1. Authenticate(k) = Stands(k) /\ tokens[k] # None /\ OwnedBy(tokens[k], tokens[k].owner)
  BY NoTokenHasNoPrincipal DEF TokensAreOwned
<1>2. tokens[k].owner \in Accounts \cup Students
  BY <1>1 DEF TypeOK, StaffRow, StudentRow, Token
<1>3. CASE tokens[k].owner \in Accounts
  BY <1>1, <1>3 DEF Stands, StaffPrincipal, OwnedBy
<1>4. CASE tokens[k].owner \notin Accounts
  BY <1>1, <1>2, <1>4 DEF Stands, StudentPrincipal, OwnedBy
<1>5. QED  BY <1>3, <1>4

\* What Revoked and Outdate leave of a token.
LEMMA RevokedKeeps ==
    ASSUME NEW owners, NEW except, NEW k \in Tokens, Revoked(owners, except)[k] # None
    PROVE  /\ Revoked(owners, except)[k] = tokens[k] /\ tokens[k] # None
           /\ tokens[k].owner \in owners => k = except
BY DEF Revoked

LEMMA OutdatesNothing ==
    ASSUME TypeOK, NEW p, NEW except
    PROVE  Outdate(p, except, Revoked({p}, except)) = Revoked({p}, except)
<1>1. ASSUME NEW k \in Tokens
      PROVE  ~(Revoked({p}, except)[k] # None /\ Revoked({p}, except)[k].owner = p /\ k # except)
  BY RevokedKeeps
<1>2. QED  BY <1>1 DEF Outdate, Revoked

\* A kept token still says what its owner is when the owner's own row keeps its role or team.
RowsStayFor(p) ==
    /\ p \in Accounts /\ Account(p) => Account(p)' /\ accounts'[p].role = accounts[p].role
    /\ p \in Students /\ Student(p) => Student(p)' /\ students'[p].team = students[p].team

LEMMA KeptTokensAreOwned ==
    ASSUME TokensAreOwned,
           \A k \in Tokens : tokens'[k] # None =>
               /\ tokens[k] # None /\ RowsStayFor(tokens[k].owner)
               /\ tokens'[k].owner = tokens[k].owner /\ tokens'[k].role = tokens[k].role
               /\ tokens'[k].team = tokens[k].team /\ tokens'[k].outdated = tokens[k].outdated
    PROVE  TokensAreOwned'
BY DEF TokensAreOwned, OwnedBy, RowsStayFor, Account, Student

LEMMA IssuedTokenIsOwned ==
    ASSUME TypeOK, TokensAreOwned, NEW p, NEW role, NEW team, Issue(p, role, team),
           \A k \in Tokens : tokens[k] # None => RowsStayFor(tokens[k].owner),
           p \in Accounts => Account(p)' /\ role = accounts'[p].role /\ team = NoTeam,
           p \in Students => Student(p)' /\ role = "student" /\ team = students'[p].team
    PROVE  TokensAreOwned'
<1>1. PICK k \in Tokens :
        tokens' = [tokens EXCEPT ![k] =
          [owner |-> p, role |-> role, team |-> team, outdated |-> FALSE, expired |-> FALSE]]
  BY DEF Issue
<1>2. OwnedBy(tokens[k], tokens[k].owner)'
  BY <1>1 DEF OwnedBy, TypeOK, StaffRow, StudentRow
<1>3. ASSUME NEW j \in Tokens \ {k}, tokens'[j] # None  PROVE OwnedBy(tokens[j], tokens[j].owner)'
  BY <1>1, <1>3 DEF TokensAreOwned, OwnedBy, RowsStayFor, Account, Student, TypeOK, StaffRow, StudentRow
<1>4. QED  BY <1>1, <1>2, <1>3 DEF TokensAreOwned, TypeOK, StaffRow, StudentRow

LEMMA SameRowsStay ==
    UNCHANGED <<accounts, students>> => \A p : RowsStayFor(p)
BY DEF RowsStayFor, Account, Student

LEMMA TokenStep == TypeOK /\ TokensAreOwned /\ [Next]_vars => TokensAreOwned'
<1> SUFFICES ASSUME TypeOK, TokensAreOwned, [Next]_vars  PROVE TokensAreOwned'
  OBVIOUS
<1> DEFINE Kept(k) == /\ tokens[k] # None /\ RowsStayFor(tokens[k].owner)
                      /\ tokens'[k].owner = tokens[k].owner /\ tokens'[k].role = tokens[k].role
                      /\ tokens'[k].team = tokens[k].team /\ tokens'[k].outdated = tokens[k].outdated
<1>1. ASSUME NEW a \in Accounts, LoginStaff(a)  PROVE TokensAreOwned'
  <2>1. Account(a)' /\ UNCHANGED <<accounts, students>>
    BY <1>1 DEF LoginStaff, MaySignIn, Account
  <2>2. QED  BY <1>1, <2>1, SameRowsStay, IssuedTokenIsOwned, NamesFold DEF LoginStaff
<1>2. ASSUME NEW u \in Students, LoginStudent(u)  PROVE TokensAreOwned'
  <2>1. Student(u)' /\ UNCHANGED <<accounts, students>>
    BY <1>2 DEF LoginStudent, Student, people
  <2>2. QED  BY <1>2, <2>1, SameRowsStay, IssuedTokenIsOwned, NamesFold DEF LoginStudent
<1>3. ASSUME NEW u \in Students, NEW n \in Names, NEW t \in Teams, ~Student(u), NewStudent(u, n, t),
             UNCHANGED accounts
      PROVE  \A p : RowsStayFor(p)
  BY <1>3 DEF NewStudent, RowsStayFor, Account, Student, TypeOK, StaffRow, StudentRow
<1>4. ASSUME NEW u \in Students, NEW n \in Names, NEW t \in Teams, Register(u, n, t)  PROVE TokensAreOwned'
  <2>1. u \notin Accounts
    BY NamesFold
  <2>2. CASE Student(u)'
    <3>1. students'[u].team = t
      BY <1>4 DEF Register, NewStudent, TypeOK, StaffRow, StudentRow
    <3>2. QED  BY <1>3, <1>4, <2>1, <2>2, <3>1, IssuedTokenIsOwned DEF Register
  <2>3. Student(u)'
    <3>1. [name |-> n, team |-> t, active |-> TRUE] \in StudentRow
      BY DEF StudentRow
    <3>2. students'[u] = [name |-> n, team |-> t, active |-> TRUE]
      BY <1>4 DEF Register, NewStudent, TypeOK
    <3>3. QED  BY <3>1, <3>2, NoRow DEF Student
  <2>4. QED  BY <2>2, <2>3
<1>5. ASSUME NEW k \in Tokens, NEW a \in Accounts, NEW n \in Names, NEW role \in Roles, CreateAccount(k, a, n, role)
      PROVE  TokensAreOwned'
  <2>1. \A p : RowsStayFor(p)
    BY <1>5 DEF CreateAccount, RowsStayFor, Account, Student, TypeOK, StaffRow, StudentRow
  <2>2. QED  BY <1>5, <2>1, KeptTokensAreOwned DEF CreateAccount
<1>6. ASSUME NEW k \in Tokens, NEW a \in Accounts, NEW role \in Roles, NEW enabled \in BOOLEAN,
             NEW password \in BOOLEAN, ChangeAccount(k, a, role, enabled, password)
      PROVE  TokensAreOwned'
  <2>1. /\ Account(a) /\ accounts' = [accounts EXCEPT ![a].role = role, ![a].enabled = enabled]
        /\ UNCHANGED students
    BY <1>6, Zenon DEF ChangeAccount
  <2>2. \A p : p # a => RowsStayFor(p)
    BY <2>1 DEF RowsStayFor, Account, Student, TypeOK, StaffRow, StudentRow
  <2>3. CASE tokens' = CutAccount(a, password)
    <3>1. tokens' = Revoked({a}, None)
      BY <2>3, OutdatesNothing DEF CutAccount
    <3>2. ASSUME NEW j \in Tokens, tokens'[j] # None  PROVE Kept(j)
      BY <2>2, <3>1, <3>2, RevokedKeeps, NoRow
    <3>3. QED  BY <3>2, KeptTokensAreOwned
  <2>4. CASE UNCHANGED tokens /\ role = accounts[a].role
    <3>1. RowsStayFor(a)
      BY <2>1, <2>4, NoRow DEF RowsStayFor, Account, Student, TypeOK, StaffRow, StudentRow
    <3>2. QED  BY <2>2, <2>4, <3>1, KeptTokensAreOwned
  <2>5. tokens' = CutAccount(a, password) \/ (UNCHANGED tokens /\ role = accounts[a].role)
    BY <1>6, Zenon DEF ChangeAccount
  <2>6. QED  BY <2>3, <2>4, <2>5
<1>7. ASSUME NEW k \in Tokens, NEW u \in Students, NEW n \in Names, NEW t \in Teams, CreateStudent(k, u, n, t)
      PROVE  TokensAreOwned'
  BY <1>3, <1>7, KeptTokensAreOwned DEF CreateStudent
<1>8. ASSUME NEW k \in Tokens, NEW u \in Students, NEW t \in Teams, MoveStudent(k, u, t)  PROVE TokensAreOwned'
  <2>1. \A p : p # u => RowsStayFor(p)
    BY <1>8 DEF MoveStudent, RowsStayFor, Account, Student, TypeOK, StaffRow, StudentRow
  <2>2. ASSUME NEW j \in Tokens, tokens'[j] # None  PROVE Kept(j)
    BY <1>8, <2>1, <2>2, RevokedKeeps, NoRow DEF MoveStudent, TokensOfMoved
  <2>3. QED  BY <2>2, KeptTokensAreOwned
<1>9. ASSUME NEW k \in Tokens, NEW u \in Students, DeleteStudent(k, u)  PROVE TokensAreOwned'
  <2>1. \A p : p # u => RowsStayFor(p)
    BY <1>9 DEF DeleteStudent, RowsStayFor, Account, Student, TypeOK, StaffRow, StudentRow
  <2>2. ASSUME NEW j \in Tokens, tokens'[j] # None  PROVE Kept(j)
    BY <1>9, <2>1, <2>2, RevokedKeeps, NoRow DEF DeleteStudent
  <2>3. QED  BY <2>2, KeptTokensAreOwned
<1>10. ASSUME NEW k \in Tokens, NEW t \in Teams, DeleteTeam(k, t)  PROVE TokensAreOwned'
  <2> DEFINE gone == {u \in Students : Student(u) /\ students[u].team = t}
  <2>1. \A p : p \notin gone => RowsStayFor(p)
    BY <1>10 DEF DeleteTeam, RowsStayFor, Account, Student, TypeOK, StaffRow, StudentRow
  <2>2. ASSUME NEW j \in Tokens, tokens'[j] # None  PROVE Kept(j)
    BY <1>10, <2>1, <2>2, RevokedKeeps, NoRow DEF DeleteTeam
  <2>3. QED  BY <2>2, KeptTokensAreOwned
<1>11. ASSUME NEW k \in Tokens, NEW n \in Names, NEW password \in BOOLEAN, UpdateOwnProfile(k, n, password)
       PROVE  TokensAreOwned'
  <2>0. PICK p : p = tokens[k].owner
    OBVIOUS
  <2>1. /\ p \in Accounts => Account(p)
        /\ p \notin Accounts => p \in Students /\ Student(p)
    BY <1>11, <2>0, ActingHasToken DEF UpdateOwnProfile
  <2>2. \/ p \in Accounts /\ accounts' = [accounts EXCEPT ![p].name = n] /\ UNCHANGED students
        \/ p \notin Accounts /\ students' = [students EXCEPT ![p].name = n] /\ UNCHANGED accounts
    BY <1>11, <2>0 DEF UpdateOwnProfile
  <2>3. \A q : RowsStayFor(q)
    BY <2>1, <2>2, NoRow DEF RowsStayFor, Account, Student, TypeOK, StaffRow, StudentRow
  <2>4. tokens' = Outdate(p, k, Revoked({p}, k)) \/ UNCHANGED tokens
    BY <1>11, <2>0 DEF UpdateOwnProfile
  <2>5. ASSUME NEW j \in Tokens, tokens'[j] # None  PROVE Kept(j)
    BY <2>3, <2>4, <2>5, OutdatesNothing, RevokedKeeps
  <2>6. QED  BY <2>5, KeptTokensAreOwned
<1>12. ASSUME NEW k \in Tokens, Logout(k)  PROVE TokensAreOwned'
  <2>1. UNCHANGED <<accounts, students>>
    BY <1>12 DEF Logout, people
  <2>2. ASSUME NEW j \in Tokens, tokens'[j] # None  PROVE Kept(j)
    BY <1>12, <2>1, <2>2, SameRowsStay DEF Logout, TypeOK, StaffRow, StudentRow
  <2>3. QED  BY <2>2, KeptTokensAreOwned
<1>13. ASSUME NEW k \in Tokens, Expire(k)  PROVE TokensAreOwned'
  <2>1. UNCHANGED <<accounts, students>>
    BY <1>13 DEF Expire, people
  <2>2. ASSUME NEW j \in Tokens, tokens'[j] # None  PROVE Kept(j)
    BY <1>13, <2>1, <2>2, SameRowsStay DEF Expire, TypeOK, StaffRow, StudentRow, Token
  <2>3. QED  BY <2>2, KeptTokensAreOwned
<1>14. CASE ResetEvent
  BY <1>14, KeptTokensAreOwned DEF ResetEvent
<1>15. CASE UNCHANGED <<accounts, students, tokens>>
  BY <1>15, SameRowsStay, KeptTokensAreOwned
<1>16. ASSUME NEW k \in Tokens
       PROVE  /\ Connect(k) \/ Disconnect(k) \/ SetRegistration(k) => UNCHANGED <<accounts, students, tokens>>
              /\ \A t \in Teams : CreateTeam(k, t) => UNCHANGED <<accounts, students, tokens>>
  BY DEF Connect, Disconnect, SetRegistration, CreateTeam, people
<1>17. Restart \/ Revalidate \/ UNCHANGED vars => UNCHANGED <<accounts, students, tokens>>
  BY DEF Restart, Revalidate, vars, people
<1>18. QED
  BY <1>1, <1>2, <1>4, <1>5, <1>6, <1>7, <1>8, <1>9, <1>10, <1>11, <1>12, <1>13, <1>14, <1>15, <1>16, <1>17
  DEF Next, ManageAccounts, ManageStudents, OwnToken

\* No token works under another role, for another team, or under an earlier password.
THEOREM PrivilegesAreTheTokens == Spec => []TokensKeepTheirPrivileges
<1>1. Init => TokensAreOwned
  BY DEF Init, TokensAreOwned
<1>2. QED  BY <1>1, InitType, TypeStep, TokenStep, OwnedTokensKeepTheirPrivileges, PTL DEF Spec

-------------------------------------------------------------------------------
(* Sockets                                                                  *)

\* kickRevokedSockets leaves only sockets whose token stands for their principal.
LEMMA KickedSocketsFollow == TypeOK /\ KickRevokedSockets => SocketsFollowTokens'
<1> SUFFICES ASSUME TypeOK, KickRevokedSockets, NEW k \in Tokens, sockets'[k] # None
             PROVE  Stands(k)' = sockets'[k]
  BY DEF SocketsFollowTokens
<1>1. sockets'[k] = sockets[k] /\ Authenticate(k)' = sockets[k]
  BY DEF KickRevokedSockets
<1>2. QED  BY <1>1 DEF Authenticate

\* An open socket's principal is one that may sign in.
LEMMA OpenSocketStands ==
    ASSUME SocketsFollowTokens, NEW k \in Tokens, sockets[k] # None
    PROVE  /\ tokens[k] # None
           /\ tokens[k].owner \in Accounts => MaySignIn(tokens[k].owner)
           /\ tokens[k].owner \notin Accounts =>
                Student(tokens[k].owner) /\ students[tokens[k].owner].active
BY DEF SocketsFollowTokens, Stands

\* What p stands for is left as it is: a disabled account's row may change.
StandingStays(p) ==
    /\ p \in Accounts /\ MaySignIn(p) => MaySignIn(p)' /\ StaffPrincipal(p)' = StaffPrincipal(p)
    /\ p \in Students /\ Student(p) /\ students[p].active =>
         Student(p)' /\ students'[p].active /\ StudentPrincipal(p)' = StudentPrincipal(p)

LEMMA KeptSocketsFollow ==
    ASSUME TypeOK, SocketsFollowTokens,
           \A k \in Tokens : sockets'[k] # None =>
               /\ sockets'[k] = sockets[k] /\ tokens'[k] # None /\ tokens'[k].owner = tokens[k].owner
               /\ StandingStays(tokens[k].owner)
    PROVE  SocketsFollowTokens'
<1> SUFFICES ASSUME NEW k \in Tokens, sockets'[k] # None  PROVE Stands(k)' = sockets'[k]
  BY DEF SocketsFollowTokens
<1>1. /\ sockets'[k] = sockets[k] /\ Stands(k) = sockets[k] /\ StandingStays(tokens[k].owner)
      /\ tokens[k] # None /\ tokens'[k] # None /\ tokens'[k].owner = tokens[k].owner
  BY OpenSocketStands DEF SocketsFollowTokens
<1>2. tokens[k].owner \in Accounts \cup Students
  BY <1>1 DEF TypeOK, Token
<1>3. CASE tokens[k].owner \in Accounts
  BY <1>1, <1>3, OpenSocketStands DEF Stands, StandingStays
<1>4. CASE tokens[k].owner \notin Accounts
  BY <1>1, <1>2, <1>4, OpenSocketStands DEF Stands, StandingStays
<1>5. QED  BY <1>3, <1>4

LEMMA SameStanding ==
    UNCHANGED <<accounts, students, instructorsOn>> => \A p : StandingStays(p)
BY DEF StandingStays, MaySignIn, Account, Student, StaffPrincipal, StudentPrincipal

\* A token is only issued where no socket is open.
LEMMA IssueKeepsOthers ==
    ASSUME TypeOK, NEW p, NEW role, NEW team, Issue(p, role, team)
    PROVE  \A k \in Tokens : sockets[k] # None => tokens'[k] = tokens[k]
BY DEF Issue, TypeOK

LEMMA NewStudentStanding ==
    ASSUME TypeOK, NEW u \in Students, NEW n, NEW t, ~Student(u), NewStudent(u, n, t),
           UNCHANGED <<accounts, instructorsOn>>
    PROVE  \A p : StandingStays(p)
BY DEF NewStudent, StandingStays, MaySignIn, Account, Student, StaffPrincipal, StudentPrincipal, TypeOK

LEMMA SocketStep == TypeOK /\ SocketsFollowTokens /\ [Next]_vars => SocketsFollowTokens'
<1> SUFFICES ASSUME TypeOK, SocketsFollowTokens, [Next]_vars  PROVE SocketsFollowTokens'
  OBVIOUS
<1>1. CASE KickRevokedSockets
  BY <1>1, KickedSocketsFollow
<1>2. ASSUME UNCHANGED <<tokens, sockets>>, \A p : StandingStays(p)  PROVE SocketsFollowTokens'
  BY <1>2, OpenSocketStands, KeptSocketsFollow
<1>3. ASSUME NEW p, NEW role, NEW team, Issue(p, role, team), UNCHANGED sockets, \A q : StandingStays(q)
      PROVE  SocketsFollowTokens'
  BY <1>3, IssueKeepsOthers, OpenSocketStands, KeptSocketsFollow
<1>4. ASSUME NEW a \in Accounts, LoginStaff(a)  PROVE SocketsFollowTokens'
  BY <1>3, <1>4, SameStanding DEF LoginStaff
<1>5. ASSUME NEW u \in Students, LoginStudent(u)  PROVE SocketsFollowTokens'
  BY <1>3, <1>5, SameStanding DEF LoginStudent, people
<1>6. ASSUME NEW u \in Students, NEW n \in Names, NEW t \in Teams, Register(u, n, t)  PROVE SocketsFollowTokens'
  BY <1>3, <1>6, NewStudentStanding DEF Register
<1>7. ASSUME NEW k \in Tokens, NEW a \in Accounts, NEW n \in Names, NEW role \in Roles, CreateAccount(k, a, n, role)
      PROVE  SocketsFollowTokens'
  <2>1. \A p : StandingStays(p)
    BY <1>7 DEF CreateAccount, StandingStays, MaySignIn, Account, Student, StaffPrincipal, StudentPrincipal, TypeOK
  <2>2. QED  BY <1>2, <1>7, <2>1 DEF CreateAccount
<1>8. ASSUME NEW k \in Tokens, NEW a \in Accounts, NEW role \in Roles, NEW enabled \in BOOLEAN,
             NEW password \in BOOLEAN, ChangeAccount(k, a, role, enabled, password)
      PROVE  SocketsFollowTokens'
  <2>1. /\ accounts' = [accounts EXCEPT ![a].role = role, ![a].enabled = enabled]
        /\ UNCHANGED <<students, instructorsOn>>
    BY <1>8, Zenon DEF ChangeAccount
  <2>2. \/ KickRevokedSockets
        \/ UNCHANGED <<tokens, sockets>> /\ ~accounts[a].enabled
    <3>1. \/ KickRevokedSockets
          \/ /\ UNCHANGED <<tokens, sockets>> /\ role = accounts[a].role /\ ~password
             /\ ~(accounts[a].enabled /\ ~enabled)
      BY <1>8, Zenon DEF ChangeAccount
    <3>2. \/ role # accounts[a].role \/ password \/ (accounts[a].enabled /\ ~enabled)
          \/ (enabled /\ ~accounts[a].enabled)
      BY <1>8, Zenon DEF ChangeAccount
    <3>3. QED  BY <3>1, <3>2, Zenon
  <2>3. ~accounts[a].enabled => \A p : StandingStays(p)
    BY <2>1 DEF StandingStays, MaySignIn, Account, Student, StaffPrincipal, StudentPrincipal, TypeOK
  <2>4. QED  BY <1>1, <1>2, <2>2, <2>3
<1>9. ASSUME NEW k \in Tokens, NEW u \in Students, NEW n \in Names, NEW t \in Teams, CreateStudent(k, u, n, t)
      PROVE  SocketsFollowTokens'
  BY <1>2, <1>9, NewStudentStanding DEF CreateStudent
<1>10. ASSUME NEW k \in Tokens, NEW n \in Names, NEW password \in BOOLEAN, UpdateOwnProfile(k, n, password)
       PROVE  SocketsFollowTokens'
  <2>0. PICK p : p = tokens[k].owner
    OBVIOUS
  <2>1. /\ p \in Accounts => Account(p)
        /\ p \notin Accounts => p \in Students /\ Student(p)
    BY <1>10, <2>0, ActingHasToken DEF UpdateOwnProfile
  <2>2. \/ p \in Accounts /\ accounts' = [accounts EXCEPT ![p].name = n] /\ UNCHANGED students
        \/ p \notin Accounts /\ students' = [students EXCEPT ![p].name = n] /\ UNCHANGED accounts
    BY <1>10, <2>0 DEF UpdateOwnProfile
  <2>3. UNCHANGED instructorsOn
    BY <1>10 DEF UpdateOwnProfile
  <2>4. CASE p \in Accounts
    <3>1. accounts'[p] \in StaffRow /\ accounts'[p].role = accounts[p].role /\ accounts'[p].enabled = accounts[p].enabled
      BY <2>1, <2>2, <2>4 DEF Account, TypeOK, StaffRow
    <3>2. \A q \in Accounts \ {p} : accounts'[q] = accounts[q]
      BY <2>2, <2>4 DEF TypeOK
    <3>3. \A q : StandingStays(q)
      BY <2>2, <2>3, <2>4, <3>1, <3>2, NoRow DEF StandingStays, MaySignIn, Account, Student, StaffPrincipal, StudentPrincipal
    <3>4. QED  BY <1>1, <1>2, <1>10, <3>3 DEF UpdateOwnProfile
  <2>5. CASE p \notin Accounts
    <3>1. students'[p] \in StudentRow /\ students'[p].team = students[p].team /\ students'[p].active = students[p].active
      BY <2>1, <2>2, <2>5 DEF Student, TypeOK, StudentRow
    <3>2. \A q \in Students \ {p} : students'[q] = students[q]
      BY <2>2, <2>5 DEF TypeOK
    <3>3. \A q : StandingStays(q)
      BY <2>2, <2>3, <2>5, <3>1, <3>2, NoRow DEF StandingStays, MaySignIn, Account, Student, StaffPrincipal, StudentPrincipal
    <3>4. QED  BY <1>1, <1>2, <1>10, <3>3 DEF UpdateOwnProfile
  <2>6. QED  BY <2>4, <2>5
<1>11. ASSUME NEW k \in Tokens, Expire(k)  PROVE SocketsFollowTokens'
  <2>1. \A j \in Tokens : tokens[j] # None => tokens'[j] # None /\ tokens'[j].owner = tokens[j].owner
    BY <1>11, NoRow DEF Expire, TypeOK, Token
  <2>2. UNCHANGED sockets /\ UNCHANGED <<accounts, students, instructorsOn>>
    BY <1>11 DEF Expire, people
  <2>3. QED  BY <2>1, <2>2, SameStanding, OpenSocketStands, KeptSocketsFollow
<1>12. ASSUME NEW k \in Tokens, Connect(k)  PROVE SocketsFollowTokens'
  <2>1. /\ UNCHANGED <<accounts, students, tokens, instructorsOn>>
        /\ sockets' = [sockets EXCEPT ![k] = Authenticate(k)] /\ Authenticate(k) # None
    BY <1>12 DEF Connect, people
  <2>2. \A j \in Tokens : Stands(j)' = Stands(j)
    BY <2>1 DEF Stands, MaySignIn, Account, Student, StaffPrincipal, StudentPrincipal
  <2>3. QED  BY <2>1, <2>2, NoTokenHasNoPrincipal DEF SocketsFollowTokens, TypeOK
<1>13. ASSUME NEW k \in Tokens, Disconnect(k)  PROVE SocketsFollowTokens'
  <2>1. /\ UNCHANGED <<accounts, students, tokens, instructorsOn>>
        /\ \A j \in Tokens : sockets'[j] # None => sockets'[j] = sockets[j]
    BY <1>13 DEF Disconnect, people, TypeOK
  <2>2. QED  BY <2>1, SameStanding, OpenSocketStands, KeptSocketsFollow
<1>14. CASE Restart
  BY <1>14 DEF Restart, SocketsFollowTokens
<1>15. CASE UNCHANGED <<accounts, students, tokens, sockets, instructorsOn>>
  BY <1>2, <1>15, SameStanding
<1>16. ASSUME NEW k \in Tokens
       PROVE  /\ SetRegistration(k) \/ (\E t \in Teams : CreateTeam(k, t)) =>
                    UNCHANGED <<accounts, students, tokens, sockets, instructorsOn>>
              /\ \/ Logout(k) \/ (\E u \in Students : DeleteStudent(k, u))
                 \/ (\E t \in Teams : DeleteTeam(k, t))
                 \/ (\E u \in Students, t \in Teams : MoveStudent(k, u, t))
                 => KickRevokedSockets
  BY DEF SetRegistration, CreateTeam, Logout, DeleteStudent, DeleteTeam, MoveStudent, people
<1>17. /\ ResetEvent \/ Revalidate => KickRevokedSockets
       /\ UNCHANGED vars => UNCHANGED <<accounts, students, tokens, sockets, instructorsOn>>
  BY DEF ResetEvent, Revalidate, vars, people
<1>18. QED
  BY <1>1, <1>4, <1>5, <1>6, <1>7, <1>8, <1>9, <1>10, <1>11, <1>12, <1>13, <1>14, <1>15, <1>16, <1>17
  DEF Next, ManageAccounts, ManageStudents, OwnToken

\* Whatever revokes a token, moves its owner or changes its role closes the sockets opened
\* with it (kickRevokedSockets); only an expiry waits for the timer.
THEOREM SocketsAreCutOff == Spec => []SocketsFollowTokens
<1>1. Init => SocketsFollowTokens
  BY DEF Init, SocketsFollowTokens
<1>2. QED  BY <1>1, InitType, TypeStep, SocketStep, PTL DEF Spec

-------------------------------------------------------------------------------
(* Times to detect: rowids, first and last                                  *)

LEMMA DetectBounds ==
    /\ MaxScript \in Nat /\ MaxExec \in Nat /\ MaxHost \in Nat /\ MaxOccurrence \in Nat
    /\ Nil \notin ScriptIds /\ Nil \notin RunIds /\ Nil \notin HostIds
BY DetectAssumption DEF Nil, ScriptIds, RunIds, HostIds

\* A non-empty set of rowids has a last one: among the sets of larger rowids, one is minimal.
LEMMA LastOf ==
    ASSUME NEW N \in Nat, NEW T \in SUBSET (0..N), T # {}
    PROVE  \E m \in T : \A y \in T : m >= y
<1> DEFINE Above(i) == {k \in 0..N : k > i}
           A == {Above(i) : i \in T}
<1>1. IsFiniteSet(0..N)
  BY FS_Interval
<1>2. IsWellFoundedOn(StrictSubsetOrdering(0..N), SUBSET (0..N))
  BY <1>1, FS_FiniteSubsetsOfFinite, FS_StrictSubsetOrderingWellFounded
<1>3. A \subseteq SUBSET (0..N) /\ A # {}
  OBVIOUS
<1>4. PICK a \in A : \A b \in A : ~ (<<b, a>> \in StrictSubsetOrdering(0..N))
  <2> HIDE DEF A
  <2>1. QED  BY <1>2, <1>3, WFMin
<1>5. PICK m \in T : a = Above(m)
  BY <1>4
<1>6. ASSUME NEW y \in T, ~(m >= y)  PROVE FALSE
  <2>1. Above(y) \subseteq Above(m) /\ y \in Above(m) /\ y \notin Above(y)
    BY <1>6
  <2>2. <<Above(y), Above(m)>> \in StrictSubsetOrdering(0..N)
    BY <2>1 DEF StrictSubsetOrdering
  <2>3. QED  BY <1>4, <1>5, <2>2
<1>7. QED  BY <1>6

\* ... and a first one: the last of the differences to the bound.
LEMMA FirstOf ==
    ASSUME NEW N \in Nat, NEW T \in SUBSET (0..N), T # {}
    PROVE  Min(T) \in T /\ \A y \in T : Min(T) <= y
<1> DEFINE D == {N - k : k \in T}
<1>1. D \in SUBSET (0..N) /\ D # {}
  <2>1. \A k \in T : N - k \in 0..N
    OBVIOUS
  <2>2. D \subseteq 0..N
    BY <2>1
  <2>3. D # {}
    OBVIOUS
  <2>4. QED  BY <2>2, <2>3
<1>2. PICK d \in D : \A e \in D : d >= e
  <2> HIDE DEF D
  <2>1. QED  BY <1>1, LastOf
<1>3. PICK m \in T : d = N - m
  BY <1>2
<1>4. ASSUME NEW y \in T  PROVE m <= y
  <2>1. N - y \in D
    OBVIOUS
  <2>2. d >= N - y
    BY <1>2, <2>1
  <2>3. QED  BY <1>3, <2>2
<1>5. QED  BY <1>4 DEF Min

\* The rowid that follows is nobody's.
LEMMA FollowingIsFree ==
    ASSUME NEW N \in Nat, NEW T \in SUBSET (1..N)
    PROVE  Following(T) \in Nat \ {0} /\ \A y \in T : y < Following(T)
<1>1. CASE T = {}
  BY <1>1 DEF Following
<1>2. CASE T # {}
  <2>1. T \in SUBSET (0..N)
    OBVIOUS
  <2>2. \E m \in T : \A y \in T : m >= y
    BY <1>2, <2>1, LastOf
  <2>3. Max(T) \in T /\ \A y \in T : Max(T) >= y
    BY <2>2 DEF Max
  <2>4. Following(T) = Max(T) + 1
    BY <1>2 DEF Following
  <2>5. PICK m \in T : m = Max(T)
    BY <2>3
  <2>6. QED  BY <2>3, <2>4, <2>5
<1>3. QED  BY <1>1, <1>2

-------------------------------------------------------------------------------
(* Times to detect: the inductive invariant                                 *)

\* Techniques, runs and occurrences refer to rows there are.
RowsRefer ==
    /\ \A e \in DOMAIN techniques : techniques[e].trigger \in Library \cup {Nil}
    /\ \A r \in Runs : runs[r].host \in machines /\ runs[r].script \in Library \cup {Nil}

\* A serial number is one script's.
SerialsAreUnique == \A s, q \in Library : library[s] = library[q] => s = q

\* The trigger of a technique is the very script last chosen for it.
TriggersAreWanted == \A e \in DOMAIN techniques : techniques[e].wanted = SerialOf(techniques[e].trigger)

\* A command in flight has its execution, and is a run of the script that row names; one that names
\* no script is a run of none there is.
RunOfItsScript(j) ==
    /\ j.run \in Runs /\ runs[j.run].running
    /\ runs[j.run].script # Nil => j.ran = library[runs[j.run].script]
    /\ runs[j.run].script = Nil => \A s \in Library : library[s] # j.ran
OwnRunsGoOn ==
    ~strayed => /\ \A j \in sent : j.own => RunOfItsScript(j)
                /\ \A j, k \in sent : j.own /\ k.own /\ j.run = k.run => j = k

\* What is recorded is what happened.
RecordsAreTrue == ~strayed => happened = {occurrences[o] : o \in Occurrences}

DetectInv == DetectTypeOK /\ RowsRefer /\ SerialsAreUnique /\ TriggersAreWanted /\ OwnRunsGoOn /\ RecordsAreTrue

LEMMA DetectInitially == DetectInit => DetectInv
<1> SUFFICES ASSUME DetectInit PROVE DetectInv
  OBVIOUS
<1>1. Library = {} /\ Runs = {} /\ Occurrences = {} /\ techniques = <<>> /\ sent = {} /\ happened = {}
  BY DEF DetectInit, Library, Runs, Occurrences
<1>2. DetectTypeOK
  <2>1. time \in Nat /\ began \in 0..time /\ serial \in Nat /\ resets \in Nat /\ strayed \in BOOLEAN
    <3>1. time = 0 /\ began = 0 /\ serial = 0 /\ resets = 0
      BY DEF DetectInit
    <3>2. strayed \in BOOLEAN
      BY Zenon DEF DetectInit
    <3>3. QED  BY <3>1, <3>2
  <2>2. library \in [ScriptIds -> 0..serial] /\ techniques \in Seq(Technique) /\ machines \subseteq HostIds
    BY <1>1 DEF DetectInit, Nil
  <2>3. runs \in [RunIds -> [host : HostIds \cup {Nil}, script : ScriptIds \cup {Nil}, running : BOOLEAN, at : 0..time]]
    BY DEF DetectInit, NoRun
  <2>4. occurrences \in [OccurrenceIds -> [technique : Nat, at : 0..time, run : RunIds \cup {Nil}]]
    BY DEF DetectInit, NoOccurrence, Nil
  <2>5. QED  BY <1>1, <2>1, <2>2, <2>3, <2>4 DEF DetectTypeOK
<1>3. RowsRefer /\ SerialsAreUnique /\ TriggersAreWanted
  BY <1>1 DEF RowsRefer, SerialsAreUnique, TriggersAreWanted
<1>4. OwnRunsGoOn /\ RecordsAreTrue
  BY <1>1 DEF OwnRunsGoOn, RecordsAreTrue
<1>5. QED  BY <1>2, <1>3, <1>4 DEF DetectInv

\* The library: a new script has a serial number nothing refers to.
LEMMA ScriptCreated == ASSUME DetectInv, CreateScript PROVE DetectInv'
<1> DEFINE s == Following(Library)
<1>1. /\ s \in ScriptIds /\ serial' = serial + 1
      /\ library' = [library EXCEPT ![s] = serial + 1]
      /\ UNCHANGED <<time, began, techniques, machines, runs, sent, occurrences, resets, happened, strayed>>
  BY DEF CreateScript
<1>2. s \notin Library
  <2>1. Library \in SUBSET (1..MaxScript)
    BY DEF Library, ScriptIds
  <2>2. s \in Nat /\ \A q \in Library : q < s
    BY <2>1, DetectBounds, FollowingIsFree
  <2>3. QED  BY <2>2
<1> HIDE DEF s
<1>3. DetectTypeOK /\ library \in [ScriptIds -> 0..serial] /\ serial \in Nat
  BY DEF DetectInv, DetectTypeOK
<1>4. /\ Library' = Library \cup {s} /\ library'[s] = serial + 1
      /\ \A q \in Library : library'[q] = library[q] /\ q # s /\ library[q] \in 1..serial
  BY <1>1, <1>2, <1>3 DEF Library, Nil
<1>5. Runs' = Runs /\ Occurrences' = Occurrences
  BY <1>1 DEF Runs, Occurrences
<1>6. DetectTypeOK'
  <2>1. library' \in [ScriptIds -> 0..serial']
    BY <1>1, <1>3
  <2>2. sent' \subseteq [run : RunIds, ran : 0..serial', own : BOOLEAN]
    BY <1>1, <1>3 DEF DetectTypeOK
  <2>3. QED  BY <1>1, <1>3, <2>1, <2>2 DEF DetectTypeOK
<1>7. RowsRefer'
  BY <1>1, <1>4, <1>5 DEF DetectInv, RowsRefer
<1>8. SerialsAreUnique'
  BY <1>3, <1>4 DEF DetectInv, SerialsAreUnique
<1>9. TriggersAreWanted'
  <2>1. ASSUME NEW e \in DOMAIN techniques
        PROVE  techniques[e].wanted = IF techniques[e].trigger = Nil THEN Nil ELSE library'[techniques[e].trigger]
    BY <1>4 DEF DetectInv, TriggersAreWanted, RowsRefer, SerialOf
  <2>2. QED  BY <1>1, <2>1 DEF TriggersAreWanted, SerialOf
<1>10. OwnRunsGoOn'
  <2>1. ASSUME NEW j \in sent, RunOfItsScript(j)  PROVE RunOfItsScript(j)'
    <3>1. j.ran \in 0..serial
      BY <1>3 DEF DetectTypeOK
    <3>2. runs[j.run].script \in Library \cup {Nil}
      BY <2>1 DEF DetectInv, RowsRefer, RunOfItsScript
    <3>3. \A q \in Library' : (\A r \in Library : library[r] # j.ran) => library'[q] # j.ran
      BY <1>3, <1>4, <3>1
    <3>4. QED  BY <1>1, <1>4, <1>5, <2>1, <3>2, <3>3 DEF RunOfItsScript
  <2>2. QED  BY <1>1, <2>1 DEF DetectInv, OwnRunsGoOn
<1>11. RecordsAreTrue'
  BY <1>1, <1>5 DEF DetectInv, RecordsAreTrue
<1>12. QED  BY <1>6, <1>7, <1>8, <1>9, <1>10, <1>11 DEF DetectInv

\* A script goes: its triggers and runs name none, and nobody else has its serial number.
LEMMA ScriptDeleted == ASSUME DetectInv, NEW s \in Library, DeleteScript(s) PROVE DetectInv'
<1> DEFINE q(e) == [techniques[e] EXCEPT !.trigger = Untriggered(e, s), !.wanted = IF @ = library[s] THEN Nil ELSE @]
<1>1. /\ library' = [library EXCEPT ![s] = Nil]
      /\ techniques' = [e \in DOMAIN techniques |-> q(e)]
      /\ runs' = [x \in RunIds |-> IF runs[x].script = s THEN [runs[x] EXCEPT !.script = Nil] ELSE runs[x]]
      /\ UNCHANGED <<time, began, machines, sent, occurrences, serial, resets, happened, strayed>>
  BY DEF DeleteScript
<1>2. DetectTypeOK /\ library \in [ScriptIds -> 0..serial] /\ serial \in Nat /\ s \in ScriptIds /\ s # Nil /\ library[s] # Nil
  BY DetectBounds DEF DetectInv, DetectTypeOK, Library
<1>3. Library' = Library \ {s} /\ \A p \in Library \ {s} : library'[p] = library[p] /\ library[p] # library[s]
  BY <1>1, <1>2 DEF Library, DetectInv, SerialsAreUnique
<1>4. ASSUME NEW e \in DOMAIN techniques
      PROVE  /\ q(e) \in Technique /\ q(e).live = techniques[e].live /\ q(e).host = techniques[e].host
             /\ q(e).trigger = IF techniques[e].trigger = s THEN Nil ELSE techniques[e].trigger
             /\ q(e).wanted = IF techniques[e].wanted = library[s] THEN Nil ELSE techniques[e].wanted
  <2>1. techniques[e] \in Technique
    BY <1>2 DEF DetectTypeOK
  <2>2. QED  BY <2>1, <1>2 DEF Technique, Untriggered, Nil
<1>5. DOMAIN techniques' = DOMAIN techniques /\ \A e \in DOMAIN techniques : techniques'[e] = q(e)
  BY <1>1
<1>6. techniques' \in Seq(Technique)
  <2>1. DOMAIN techniques = 1..Len(techniques) /\ Len(techniques) \in Nat
    BY <1>2 DEF DetectTypeOK
  <2> HIDE DEF q
  <2>2. QED  BY <1>1, <1>4, <2>1
<1> HIDE DEF q
<1>7. ASSUME NEW x \in RunIds
      PROVE  /\ runs'[x] \in [host : HostIds \cup {Nil}, script : ScriptIds \cup {Nil}, running : BOOLEAN, at : 0..time]
             /\ runs'[x].host = runs[x].host /\ runs'[x].running = runs[x].running /\ runs'[x].at = runs[x].at
             /\ runs'[x].script = IF runs[x].script = s THEN Nil ELSE runs[x].script
  <2>1. runs[x] \in [host : HostIds \cup {Nil}, script : ScriptIds \cup {Nil}, running : BOOLEAN, at : 0..time]
    BY <1>2 DEF DetectTypeOK
  <2>2. runs'[x] = IF runs[x].script = s THEN [runs[x] EXCEPT !.script = Nil] ELSE runs[x]
    BY <1>1
  <2>3. QED  BY <2>1, <2>2 DEF Nil
<1>8. DetectTypeOK'
  <2>1. runs' \in [RunIds -> [host : HostIds \cup {Nil}, script : ScriptIds \cup {Nil}, running : BOOLEAN, at : 0..time]]
    BY <1>1, <1>7
  <2>2. library' \in [ScriptIds -> 0..serial]
    BY <1>1, <1>2 DEF Nil
  <2>3. QED  BY <1>1, <1>2, <1>6, <2>1, <2>2 DEF DetectTypeOK
<1>9. Runs' = Runs
  <2>1. \A x \in Runs : runs[x].host # Nil
    BY DetectBounds, <1>2 DEF DetectInv, DetectTypeOK, RowsRefer
  <2>2. \A x \in Runs : runs'[x] # NoRun
    BY <1>7, <2>1 DEF NoRun, Runs
  <2>3. \A x \in RunIds \ Runs : runs'[x] = NoRun
    BY <1>1, <1>2 DEF NoRun, Runs
  <2>4. QED  BY <2>2, <2>3 DEF Runs
<1>10. RowsRefer'
  <2>1. \A x \in Runs' : runs'[x].host \in machines' /\ runs'[x].script \in Library' \cup {Nil}
    BY <1>1, <1>3, <1>7, <1>9 DEF DetectInv, RowsRefer, Runs
  <2>2. \A e \in DOMAIN techniques' : techniques'[e].trigger \in Library' \cup {Nil}
    BY <1>3, <1>4, <1>5 DEF DetectInv, RowsRefer
  <2>3. QED  BY <2>1, <2>2 DEF RowsRefer
<1>11. SerialsAreUnique'
  BY <1>3 DEF DetectInv, SerialsAreUnique
<1>12. TriggersAreWanted'
  <2>1. ASSUME NEW e \in DOMAIN techniques
        PROVE  q(e).wanted = IF q(e).trigger = Nil THEN Nil ELSE library'[q(e).trigger]
    <3>1. techniques[e].wanted = SerialOf(techniques[e].trigger) /\ techniques[e].trigger \in Library \cup {Nil}
      BY DEF DetectInv, TriggersAreWanted, RowsRefer
    <3>2. CASE techniques[e].trigger = s
      BY <1>2, <1>4, <3>1, <3>2 DEF SerialOf
    <3>3. CASE techniques[e].trigger = Nil
      BY <1>2, <1>4, <3>1, <3>3 DEF SerialOf
    <3>4. CASE techniques[e].trigger \in Library \ {s}
      <4>1. techniques[e].trigger # Nil
        BY <3>4 DEF Library, ScriptIds, Nil
      <4>2. QED  BY <1>3, <1>4, <3>1, <3>4, <4>1 DEF SerialOf
    <3>5. QED  BY <3>1, <3>2, <3>3, <3>4
  <2>2. QED  BY <1>5, <2>1 DEF TriggersAreWanted, SerialOf
<1>13. OwnRunsGoOn'
  <2>1. ASSUME NEW j \in sent, RunOfItsScript(j)  PROVE RunOfItsScript(j)'
    <3>1. j.run \in RunIds /\ j.run \in Runs /\ runs[j.run].running /\ runs[j.run].script \in Library \cup {Nil}
      BY <2>1 DEF RunOfItsScript, DetectInv, RowsRefer, Runs
    <3>2. runs'[j.run].running /\ runs'[j.run].script = IF runs[j.run].script = s THEN Nil ELSE runs[j.run].script
      BY <1>7, <3>1
    <3>3. CASE runs[j.run].script = s
      BY <1>2, <1>3, <1>9, <2>1, <3>1, <3>2, <3>3 DEF RunOfItsScript
    <3>4. CASE runs[j.run].script = Nil
      BY <1>2, <1>3, <1>9, <2>1, <3>1, <3>2, <3>4 DEF RunOfItsScript
    <3>5. CASE runs[j.run].script \in Library \ {s}
      <4>1. runs[j.run].script # Nil
        BY <3>5 DEF Library, ScriptIds, Nil
      <4>2. QED  BY <1>3, <1>9, <2>1, <3>1, <3>2, <3>5, <4>1 DEF RunOfItsScript
    <3>6. QED  BY <3>1, <3>3, <3>4, <3>5
  <2>2. QED  BY <1>1, <2>1 DEF DetectInv, OwnRunsGoOn
<1>14. RecordsAreTrue'
  BY <1>1 DEF DetectInv, RecordsAreTrue, Occurrences
<1>15. QED  BY <1>8, <1>10, <1>11, <1>12, <1>13, <1>14 DEF DetectInv

\* Expecting, editing and removing a technique: its trigger is the script just chosen.
LEMMA TechniquesAreEdited ==
    ASSUME DetectInv,
           techniques' \in Seq(Technique),
           \A e \in DOMAIN techniques' : /\ techniques'[e].trigger \in Library \cup {Nil}
                                         /\ techniques'[e].wanted = SerialOf(techniques'[e].trigger),
           UNCHANGED <<time, began, library, machines, runs, sent, occurrences, serial, resets, happened, strayed>>
    PROVE  DetectInv'
<1>1. Library' = Library /\ Runs' = Runs /\ Occurrences' = Occurrences
  BY DEF Library, Runs, Occurrences
<1>2. DetectTypeOK'
  BY DEF DetectInv, DetectTypeOK
<1>3. RowsRefer'
  BY <1>1 DEF DetectInv, RowsRefer
<1>4. SerialsAreUnique' /\ TriggersAreWanted'
  BY <1>1 DEF DetectInv, SerialsAreUnique, TriggersAreWanted, SerialOf
<1>5. OwnRunsGoOn'
  BY <1>1 DEF DetectInv, OwnRunsGoOn, RunOfItsScript
<1>6. RecordsAreTrue'
  BY <1>1 DEF DetectInv, RecordsAreTrue
<1>7. QED  BY <1>2, <1>3, <1>4, <1>5, <1>6 DEF DetectInv

LEMMA SerialsAreNumbers == ASSUME DetectInv, NEW s \in Library \cup {Nil} PROVE SerialOf(s) \in 0..serial
<1>1. library \in [ScriptIds -> 0..serial] /\ serial \in Nat
  BY DEF DetectInv, DetectTypeOK
<1>2. QED  BY <1>1 DEF SerialOf, Library, Nil

LEMMA TechniqueExpected ==
    ASSUME DetectInv, NEW s \in Library \cup {Nil}, NEW h \in machines \cup {Nil}, ExpectTechnique(s, h)  PROVE DetectInv'
<1> DEFINE t == [live |-> TRUE, trigger |-> s, host |-> h, wanted |-> SerialOf(s)]
<1>1. techniques' = Append(techniques, t)
      /\ UNCHANGED <<time, began, library, machines, runs, sent, occurrences, serial, resets, happened, strayed>>
  BY DEF ExpectTechnique
<1>2. techniques \in Seq(Technique) /\ machines \subseteq HostIds /\ Library \subseteq ScriptIds /\ serial \in Nat
  BY DEF DetectInv, DetectTypeOK, Library
<1>3. t \in Technique /\ t.trigger = s /\ t.wanted = SerialOf(s)
  BY <1>2, SerialsAreNumbers DEF Technique
<1> HIDE DEF t
<1>4. /\ techniques' \in Seq(Technique) /\ DOMAIN techniques' = 1..Len(techniques) + 1 /\ DOMAIN techniques = 1..Len(techniques)
      /\ techniques'[Len(techniques) + 1] = t /\ \A e \in DOMAIN techniques : techniques'[e] = techniques[e]
  BY <1>1, <1>2, <1>3
<1>5. ASSUME NEW e \in DOMAIN techniques'
      PROVE  techniques'[e].trigger \in Library \cup {Nil} /\ techniques'[e].wanted = SerialOf(techniques'[e].trigger)
  <2>1. CASE e = Len(techniques) + 1
    BY <1>3, <1>4, <2>1
  <2>2. CASE e \in DOMAIN techniques
    BY <1>4, <2>2 DEF DetectInv, RowsRefer, TriggersAreWanted
  <2>3. Len(techniques) \in Nat
    BY <1>2
  <2>4. QED  BY <1>4, <2>1, <2>2, <2>3
<1>6. QED  BY <1>1, <1>4, <1>5, TechniquesAreEdited

LEMMA TechniqueEdited ==
    ASSUME DetectInv, NEW s \in Library \cup {Nil}, NEW h \in machines \cup {Nil}, NEW e \in Live, EditTechnique(e, s, h)
    PROVE DetectInv'
<1> DEFINE t == [live |-> TRUE, trigger |-> s, host |-> h, wanted |-> SerialOf(s)]
<1>1. techniques' = [techniques EXCEPT ![e] = t]
      /\ UNCHANGED <<time, began, library, machines, runs, sent, occurrences, serial, resets, happened, strayed>>
  BY DEF EditTechnique
<1>2. /\ techniques \in Seq(Technique) /\ machines \subseteq HostIds /\ Library \subseteq ScriptIds /\ serial \in Nat
      /\ e \in DOMAIN techniques
  BY DEF DetectInv, DetectTypeOK, Library, Live
<1>3. t \in Technique /\ t.trigger = s /\ t.wanted = SerialOf(s)
  BY <1>2, SerialsAreNumbers DEF Technique
<1> HIDE DEF t
<1>4. /\ techniques' \in Seq(Technique) /\ DOMAIN techniques' = DOMAIN techniques
      /\ techniques'[e] = t /\ \A d \in DOMAIN techniques \ {e} : techniques'[d] = techniques[d]
  BY <1>1, <1>2, <1>3
<1>5. ASSUME NEW d \in DOMAIN techniques'
      PROVE  techniques'[d].trigger \in Library \cup {Nil} /\ techniques'[d].wanted = SerialOf(techniques'[d].trigger)
  <2>1. CASE d = e
    BY <1>3, <1>4, <2>1
  <2>2. CASE d \in DOMAIN techniques \ {e}
    BY <1>4, <2>2 DEF DetectInv, RowsRefer, TriggersAreWanted
  <2>3. QED  BY <1>4, <2>1, <2>2
<1>6. QED  BY <1>1, <1>4, <1>5, TechniquesAreEdited

LEMMA TechniqueRemoved == ASSUME DetectInv, NEW e \in Live, UnexpectTechnique(e) PROVE DetectInv'
<1> DEFINE t == [techniques[e] EXCEPT !.live = FALSE]
<1>1. techniques' = [techniques EXCEPT ![e] = t]
      /\ UNCHANGED <<time, began, library, machines, runs, sent, occurrences, serial, resets, happened, strayed>>
  BY DEF UnexpectTechnique
<1>2. techniques \in Seq(Technique) /\ e \in DOMAIN techniques
  BY DEF DetectInv, DetectTypeOK, Live
<1>3. t \in Technique /\ t.trigger = techniques[e].trigger /\ t.wanted = techniques[e].wanted
  <2>1. techniques[e] \in Technique
    BY <1>2
  <2>2. QED  BY <2>1 DEF Technique
<1> HIDE DEF t
<1>4. /\ techniques' \in Seq(Technique) /\ DOMAIN techniques' = DOMAIN techniques
      /\ techniques'[e] = t /\ \A d \in DOMAIN techniques \ {e} : techniques'[d] = techniques[d]
  BY <1>1, <1>2, <1>3
<1>5. ASSUME NEW d \in DOMAIN techniques'
      PROVE  techniques'[d].trigger \in Library \cup {Nil} /\ techniques'[d].wanted = SerialOf(techniques'[d].trigger)
  BY <1>2, <1>3, <1>4 DEF DetectInv, RowsRefer, TriggersAreWanted
<1>6. QED  BY <1>1, <1>4, <1>5, TechniquesAreEdited

\* A host that is found
LEMMA HostFound == ASSUME DetectInv, FindHost PROVE DetectInv'
<1>1. machines' = machines \cup {Following(machines)} /\ Following(machines) <= MaxHost
      /\ UNCHANGED <<time, began, library, techniques, runs, sent, occurrences, serial, resets, happened, strayed>>
  BY DEF FindHost
<1>2. Library' = Library /\ Runs' = Runs /\ Occurrences' = Occurrences
  BY <1>1 DEF Library, Runs, Occurrences
<1>3. machines' \subseteq HostIds
  <2>1. machines \in SUBSET (1..MaxHost)
    BY DEF DetectInv, DetectTypeOK, HostIds
  <2>2. Following(machines) \in Nat \ {0}
    BY <2>1, DetectBounds, FollowingIsFree
  <2>3. Following(machines) \in 1..MaxHost
    BY <1>1, <2>2, DetectBounds
  <2>4. QED  BY <1>1, <2>1, <2>3 DEF HostIds
<1>4. DetectTypeOK'
  BY <1>1, <1>3 DEF DetectInv, DetectTypeOK
<1>5. RowsRefer' /\ SerialsAreUnique' /\ TriggersAreWanted'
  BY <1>1, <1>2 DEF DetectInv, RowsRefer, SerialsAreUnique, TriggersAreWanted, SerialOf
<1>6. OwnRunsGoOn' /\ RecordsAreTrue'
  BY <1>1, <1>2 DEF DetectInv, OwnRunsGoOn, RunOfItsScript, RecordsAreTrue
<1>7. QED  BY <1>4, <1>5, <1>6 DEF DetectInv

\* Hosts that are lost: nothing runs on them, so what goes with them has no command in flight.
LEMMA HostsLost == ASSUME DetectInv, NEW hosts \in {machines} \cup {{h} : h \in machines}, LoseHosts(hosts) PROVE DetectInv'
<1> DEFINE gone == RunsOn(hosts)
           p(e) == [techniques[e] EXCEPT !.host = Nil]
<1>1. /\ machines' = machines \ hosts
      /\ techniques' = [e \in DOMAIN techniques |-> IF techniques[e].host \in hosts THEN p(e) ELSE techniques[e]]
      /\ occurrences' = [o \in OccurrenceIds |-> IF occurrences[o].run \in gone THEN NoOccurrence ELSE occurrences[o]]
      /\ runs' = [x \in RunIds |-> IF x \in gone THEN NoRun ELSE runs[x]]
      /\ happened' = {h \in happened : h.run \notin gone}
      /\ UNCHANGED <<time, began, library, sent, serial, resets, strayed>>
  BY DEF LoseHosts
<1>2. DetectTypeOK
  BY DEF DetectInv
<1>3. gone \subseteq Runs /\ \A x \in gone : ~ runs[x].running
  BY DEF LoseHosts, RunsOn
<1>4. \A x \in Runs : x \notin gone => runs[x].host \in machines \ hosts
  BY DEF DetectInv, RowsRefer, RunsOn
<1> HIDE DEF gone
<1>5. Nil \notin gone /\ Runs' = Runs \ gone /\ Library' = Library /\ NoOccurrence.run = Nil
  <2>1. Nil \notin gone
    BY <1>3, DetectBounds DEF Runs
  <2>2. Runs' = Runs \ gone
    BY <1>1, <1>3 DEF Runs
  <2>3. QED  BY <1>1, <2>1, <2>2 DEF Library, NoOccurrence
<1>6. Occurrences' = {o \in Occurrences : occurrences[o].run \notin gone}
  <2>1. \A o \in OccurrenceIds : occurrences'[o] = IF occurrences[o].run \in gone THEN NoOccurrence ELSE occurrences[o]
    BY <1>1
  <2>2. QED  BY <1>5, <2>1 DEF Occurrences
<1>7. ASSUME NEW e \in DOMAIN techniques
      PROVE  /\ techniques'[e] \in Technique
             /\ techniques'[e].trigger = techniques[e].trigger /\ techniques'[e].wanted = techniques[e].wanted
  <2>1. techniques[e] \in Technique
    BY <1>2 DEF DetectTypeOK
  <2>2. p(e) \in Technique /\ p(e).trigger = techniques[e].trigger /\ p(e).wanted = techniques[e].wanted
    BY <2>1 DEF Technique
  <2>3. techniques'[e] = p(e) \/ techniques'[e] = techniques[e]
    BY <1>1
  <2>4. QED  BY <2>1, <2>2, <2>3
<1>8. DOMAIN techniques' = DOMAIN techniques /\ techniques' \in Seq(Technique)
  <2>1. DOMAIN techniques = 1..Len(techniques) /\ Len(techniques) \in Nat
    BY <1>2 DEF DetectTypeOK
  <2>2. DOMAIN techniques' = DOMAIN techniques /\ techniques' = [e \in DOMAIN techniques |-> techniques'[e]]
    BY <1>1
  <2>3. QED  BY <1>7, <2>1, <2>2
<1>9. DetectTypeOK'
  <2>1. NoRun \in [host : HostIds \cup {Nil}, script : ScriptIds \cup {Nil}, running : BOOLEAN, at : 0..time]
    BY <1>2 DEF NoRun, DetectTypeOK
  <2>2. runs' \in [RunIds -> [host : HostIds \cup {Nil}, script : ScriptIds \cup {Nil}, running : BOOLEAN, at : 0..time]]
    BY <1>1, <1>2, <2>1 DEF DetectTypeOK
  <2>3. NoOccurrence \in [technique : Nat, at : 0..time, run : RunIds \cup {Nil}]
    BY <1>2 DEF NoOccurrence, Nil, DetectTypeOK
  <2>4. occurrences' \in [OccurrenceIds -> [technique : Nat, at : 0..time, run : RunIds \cup {Nil}]]
    BY <1>1, <1>2, <2>3 DEF DetectTypeOK
  <2>5. QED  BY <1>1, <1>2, <1>8, <2>2, <2>4 DEF DetectTypeOK
<1>10. RowsRefer'
  <2>1. \A r \in Runs' : runs'[r] = runs[r] /\ r \in Runs /\ r \notin gone
    BY <1>1, <1>5 DEF Runs
  <2>2. \A r \in Runs' : runs'[r].host \in machines' /\ runs'[r].script \in Library' \cup {Nil}
    BY <1>1, <1>4, <1>5, <2>1 DEF DetectInv, RowsRefer
  <2>3. \A e \in DOMAIN techniques' : techniques'[e].trigger \in Library' \cup {Nil}
    BY <1>5, <1>7, <1>8 DEF DetectInv, RowsRefer
  <2>4. QED  BY <2>2, <2>3 DEF RowsRefer
<1>11. SerialsAreUnique'
  BY <1>1, <1>5 DEF DetectInv, SerialsAreUnique
<1>12. TriggersAreWanted'
  <2>1. \A e \in DOMAIN techniques' : techniques'[e].wanted = SerialOf(techniques'[e].trigger)
    BY <1>7, <1>8 DEF DetectInv, TriggersAreWanted
  <2>2. QED  BY <1>1, <2>1 DEF TriggersAreWanted, SerialOf
<1>13. OwnRunsGoOn'
  <2>1. ASSUME NEW j \in sent, RunOfItsScript(j)  PROVE RunOfItsScript(j)'
    <3>1. j.run \in Runs' /\ runs'[j.run] = runs[j.run]
      BY <1>1, <1>3, <1>5, <2>1 DEF RunOfItsScript, Runs
    <3>2. QED  BY <1>1, <1>5, <2>1, <3>1 DEF RunOfItsScript
  <2>2. QED  BY <1>1, <2>1 DEF DetectInv, OwnRunsGoOn
<1>14. RecordsAreTrue'
  <2>1. \A o \in Occurrences' : occurrences'[o] = occurrences[o]
    BY <1>1, <1>6 DEF Occurrences
  <2>2. {occurrences'[o] : o \in Occurrences'} = {h \in {occurrences[o] : o \in Occurrences} : h.run \notin gone}
    BY <1>6, <2>1
  <2>3. QED  BY <1>1, <2>2 DEF DetectInv, RecordsAreTrue
<1>15. QED  BY <1>9, <1>10, <1>11, <1>12, <1>13, <1>14 DEF DetectInv

\* A run starts, in a row nobody had.
LEMMA ScriptRun ==
    ASSUME DetectInv, NEW h \in machines, NEW s \in Library \cup {Nil}, RunScript(s, h)  PROVE DetectInv'
<1> DEFINE next == Following(Runs)
           row == [host |-> h, script |-> s, running |-> TRUE, at |-> time]
           job == [run |-> next, ran |-> SerialOf(s), own |-> TRUE]
<1>1. /\ next \in RunIds /\ runs' = [runs EXCEPT ![next] = row] /\ sent' = sent \cup {job}
      /\ UNCHANGED <<time, began, library, techniques, machines, occurrences, serial, resets, happened, strayed>>
  BY DEF RunScript
<1>2. next \notin Runs
  <2>1. Runs \in SUBSET (1..MaxExec)
    BY DEF Runs, RunIds
  <2>2. next \in Nat /\ \A x \in Runs : x < next
    BY <2>1, DetectBounds, FollowingIsFree
  <2>3. QED  BY <2>2
<1>3. DetectTypeOK /\ h \in HostIds /\ h # Nil /\ s \in ScriptIds \cup {Nil} /\ time \in Nat
  BY DetectBounds DEF DetectInv, DetectTypeOK, Library
<1>4. /\ row \in [host : HostIds \cup {Nil}, script : ScriptIds \cup {Nil}, running : BOOLEAN, at : 0..time]
      /\ row # NoRun /\ row.host = h /\ row.script = s /\ row.running
  BY <1>3 DEF NoRun
<1>5. job \in [run : RunIds, ran : 0..serial, own : BOOLEAN] /\ job.run = next /\ job.ran = SerialOf(s) /\ job.own
  BY <1>1, SerialsAreNumbers
<1> HIDE DEF row, job, next
<1>6. /\ Runs' = Runs \cup {next} /\ runs'[next] = row /\ \A x \in Runs : runs'[x] = runs[x] /\ x # next
      /\ Library' = Library /\ Occurrences' = Occurrences
  BY <1>1, <1>2, <1>3, <1>4 DEF Runs, DetectTypeOK, Library, Occurrences
<1>7. DetectTypeOK'
  <2>1. runs' \in [RunIds -> [host : HostIds \cup {Nil}, script : ScriptIds \cup {Nil}, running : BOOLEAN, at : 0..time]]
    BY <1>1, <1>3, <1>4 DEF DetectTypeOK
  <2>2. sent' \subseteq [run : RunIds, ran : 0..serial, own : BOOLEAN]
    BY <1>1, <1>3, <1>5 DEF DetectTypeOK
  <2>3. QED  BY <1>1, <1>3, <2>1, <2>2 DEF DetectTypeOK
<1>8. RowsRefer' /\ SerialsAreUnique' /\ TriggersAreWanted'
  BY <1>1, <1>4, <1>6 DEF DetectInv, RowsRefer, SerialsAreUnique, TriggersAreWanted, SerialOf
<1>9. PICK k : k = job
  OBVIOUS
<1>10. RunOfItsScript(k)'
  <2>1. s # Nil => k.ran = library[s]
    BY <1>5, <1>9 DEF SerialOf
  <2>2. s = Nil => k.ran = Nil /\ \A q \in Library : library[q] # Nil
    BY <1>5, <1>9 DEF SerialOf, Library
  <2>3. k.run \in Runs' /\ runs'[k.run] = row
    BY <1>5, <1>6, <1>9
  <2>4. QED  BY <1>1, <1>4, <1>6, <2>1, <2>2, <2>3 DEF RunOfItsScript
<1>11. OwnRunsGoOn'
  <2>1. ASSUME NEW j \in sent, RunOfItsScript(j)  PROVE RunOfItsScript(j)' /\ j.run # k.run
    <3>1. j.run \in Runs
      BY <2>1 DEF RunOfItsScript
    <3>2. j.run # k.run /\ j.run \in Runs' /\ runs'[j.run] = runs[j.run]
      BY <1>5, <1>6, <1>9, <3>1
    <3>3. QED  BY <1>1, <1>6, <2>1, <3>2 DEF RunOfItsScript
  <2>2. sent' = sent \cup {k}
    BY <1>1, <1>9
  <2>3. QED  BY <1>1, <1>10, <2>1, <2>2 DEF DetectInv, OwnRunsGoOn
<1>12. RecordsAreTrue'
  BY <1>1, <1>6 DEF DetectInv, RecordsAreTrue
<1>13. QED  BY <1>7, <1>8, <1>11, <1>12 DEF DetectInv

\* What a successful run of ours triggers is what is due to it: the triggers name its script, and a
\* script that was deleted meanwhile is nobody's trigger.
LEMMA TriggeredIsDue ==
    ASSUME DetectInv, NEW j \in sent, RunOfItsScript(j)  PROVE Triggered(j.run) = Due(j)
<1> DEFINE r == runs[j.run]
<1>1. r.script \in Library \cup {Nil} /\ \A q \in Library : library[q] # Nil /\ q # Nil
  BY DetectBounds DEF DetectInv, RowsRefer, RunOfItsScript, Library
<1>2. ASSUME NEW e \in Live
      PROVE  (r.script # Nil /\ techniques[e].trigger = r.script) <=> (j.ran # Nil /\ techniques[e].wanted = j.ran)
  <2>1. /\ techniques[e].trigger \in Library \cup {Nil}
        /\ techniques[e].wanted = IF techniques[e].trigger = Nil THEN Nil ELSE library[techniques[e].trigger]
    BY DEF DetectInv, RowsRefer, TriggersAreWanted, SerialOf, Live
  <2>2. CASE r.script = Nil
    <3>1. \A q \in Library : library[q] # j.ran
      BY <2>2 DEF RunOfItsScript
    <3>2. QED  BY <1>1, <2>1, <2>2, <3>1
  <2>3. CASE r.script # Nil
    <3>1. j.ran = library[r.script] /\ r.script \in Library
      BY <1>1, <2>3 DEF RunOfItsScript
    <3>2. \A q \in Library : library[q] = j.ran => q = r.script
      BY <3>1 DEF DetectInv, SerialsAreUnique
    <3>3. QED  BY <1>1, <2>1, <2>3, <3>1, <3>2
  <2>4. QED  BY <2>2, <2>3
<1>3. QED  BY <1>2 DEF Triggered, Due

\* Some way to give every element of S its own element of T.
OneEach(S, T) == CHOOSE f \in [S -> T] : \A o, p \in S : o # p => f[o] # f[p]

\* The rows of new occurrences take one triggered technique each, and leave out none.
LEMMA EachTriggeredIsRecorded ==
    ASSUME NEW S, NEW T, IsFiniteSet(S), IsFiniteSet(T), Cardinality(S) = Cardinality(T)
    PROVE  OneEach(S, T) \in [S -> T] /\ \A t \in T : \E o \in S : OneEach(S, T)[o] = t
<1> DEFINE nth == OneEach(S, T)
<1>1. PICK b : b \in Bijection(S, T)
  BY FS_SameCardinalityBij DEF ExistsBijection
<1>2. b \in [S -> T] /\ \A o, p \in S : o # p => b[o] # b[p]
  BY <1>1 DEF Bijection, Injection, IsInjective
<1>3. nth \in [S -> T] /\ \A o, p \in S : o # p => nth[o] # nth[p]
  BY <1>2 DEF OneEach
<1> HIDE DEF nth
<1>4. nth \in Injection(S, T)
  BY <1>3 DEF Injection, IsInjective
<1>5. nth \in Surjection(S, T)
  BY <1>4, FS_Injection
<1>6. QED  BY <1>3, <1>5 DEF Surjection, nth

\* A run that ends, however it ends: another command of ours has a row of its own.
LEMMA RunEnds ==
    ASSUME DetectInv, NEW j \in sent,
           sent' = sent \ {j},
           runs' = IF j.run \in Runs THEN [runs EXCEPT ![j.run].running = FALSE] ELSE runs,
           strayed' = (strayed \/ (j.run \in Runs /\ ~j.own)),
           UNCHANGED <<time, began, library, techniques, machines, serial, resets>>
    PROVE  /\ runs' \in [RunIds -> [host : HostIds \cup {Nil}, script : ScriptIds \cup {Nil}, running : BOOLEAN, at : 0..time]]
           /\ sent' \subseteq [run : RunIds, ran : 0..serial, own : BOOLEAN] /\ strayed' \in BOOLEAN
           /\ RowsRefer' /\ SerialsAreUnique' /\ TriggersAreWanted' /\ OwnRunsGoOn'
<1> DEFINE Row == [host : HostIds \cup {Nil}, script : ScriptIds \cup {Nil}, running : BOOLEAN, at : 0..time]
<1>1. DetectTypeOK /\ runs \in [RunIds -> Row] /\ j.run \in RunIds /\ j.own \in BOOLEAN
  BY DEF DetectInv, DetectTypeOK
<1>2. ASSUME NEW x \in RunIds
      PROVE  /\ runs'[x] \in Row /\ runs'[x].host = runs[x].host /\ runs'[x].script = runs[x].script
             /\ x # j.run => runs'[x] = runs[x]
  <2>1. runs[x] \in Row
    BY <1>1
  <2>2. runs'[x] = runs[x] \/ runs'[x] = [runs[x] EXCEPT !.running = FALSE]
    BY <1>1
  <2>3. QED  BY <1>1, <2>1, <2>2
<1>3. runs' \in [RunIds -> Row]
  <2>1. runs' = [x \in RunIds |-> runs'[x]]
    BY <1>1
  <2> HIDE DEF Row
  <2>2. QED  BY <1>2, <2>1
<1>4. strayed' \in BOOLEAN
  <2>2. strayed' = (strayed \/ (j.run \in Runs /\ ~j.own))
    OBVIOUS
  <2>3. (strayed \/ (j.run \in Runs /\ ~j.own)) \in BOOLEAN
    BY Zenon
  <2>4. QED  BY Zenon, <2>2, <2>3
<1>5. sent' \subseteq [run : RunIds, ran : 0..serial, own : BOOLEAN]
  BY <1>1 DEF DetectTypeOK
<1>6. Runs' = Runs /\ Library' = Library
  <2>1. \A x \in Runs : runs[x].host # Nil
    BY DetectBounds, <1>1 DEF DetectInv, DetectTypeOK, RowsRefer
  <2>2. \A x \in Runs : runs'[x] # NoRun
    <3>1. NoRun.host = Nil /\ Runs \subseteq RunIds
      BY DEF NoRun, Runs
    <3>2. \A x \in Runs : runs'[x].host # Nil
      BY <1>2, <2>1, <3>1
    <3>3. QED  BY <3>1, <3>2
  <2>3. \A x \in RunIds \ Runs : runs'[x] = runs[x]
    BY <1>1
  <2>4. QED  BY <2>2, <2>3 DEF Runs, Library
<1>7. RowsRefer'
  <2>1. \A x \in Runs' : runs'[x].host \in machines' /\ runs'[x].script \in Library' \cup {Nil}
    BY <1>2, <1>6 DEF DetectInv, RowsRefer, Runs
  <2>2. QED  BY <1>6, <2>1 DEF DetectInv, RowsRefer
<1>8. SerialsAreUnique' /\ TriggersAreWanted'
  BY <1>6 DEF DetectInv, SerialsAreUnique, TriggersAreWanted, SerialOf
<1>9. OwnRunsGoOn'
  <2>1. CASE strayed'
    BY <2>1 DEF OwnRunsGoOn
  <2>2. CASE ~strayed'
    <3>1. ~strayed /\ (j.run \in Runs => j.own)
      BY <2>2
    <3>2. ASSUME NEW k \in sent \ {j}, k.own  PROVE RunOfItsScript(k)'
      <4>1. RunOfItsScript(k) /\ k.run \in RunIds /\ k.run \in Runs
        BY <3>1, <3>2, <1>1 DEF DetectInv, OwnRunsGoOn, RunOfItsScript, DetectTypeOK
      <4>2. k.run # j.run
        BY <3>1, <3>2, <4>1 DEF DetectInv, OwnRunsGoOn
      <4>3. runs'[k.run] = runs[k.run]
        BY <1>2, <4>1, <4>2
      <4>4. QED  BY <1>6, <4>1, <4>3 DEF RunOfItsScript
    <3>3. QED  BY <3>1, <3>2 DEF DetectInv, OwnRunsGoOn
  <2>3. QED  BY <2>1, <2>2
<1>10. QED  BY <1>3, <1>4, <1>5, <1>7, <1>8, <1>9

LEMMA RunFailed == ASSUME DetectInv, NEW j \in sent, RunFails(j) PROVE DetectInv'
<1>1. /\ sent' = sent \ {j}
      /\ runs' = IF j.run \in Runs THEN [runs EXCEPT ![j.run].running = FALSE] ELSE runs
      /\ strayed' = (strayed \/ (j.run \in Runs /\ ~j.own))
      /\ UNCHANGED <<time, began, library, techniques, machines, serial, resets>>
      /\ UNCHANGED <<occurrences, happened>>
  BY DEF RunFails
<1>2. /\ runs' \in [RunIds -> [host : HostIds \cup {Nil}, script : ScriptIds \cup {Nil}, running : BOOLEAN, at : 0..time]]
      /\ sent' \subseteq [run : RunIds, ran : 0..serial, own : BOOLEAN] /\ strayed' \in BOOLEAN
      /\ RowsRefer' /\ SerialsAreUnique' /\ TriggersAreWanted' /\ OwnRunsGoOn'
  BY <1>1, RunEnds
<1>3. DetectTypeOK'
  BY <1>1, <1>2 DEF DetectInv, DetectTypeOK
<1>4. RecordsAreTrue'
  <2>1. ~strayed' => ~strayed
    BY <1>1
  <2>2. QED  BY <1>1, <2>1 DEF DetectInv, RecordsAreTrue, Occurrences
<1>5. QED  BY <1>2, <1>3, <1>4 DEF DetectInv

LEMMA RunSucceeded == ASSUME DetectInv, NEW j \in sent, RunSucceeds(j) PROVE DetectInv'
<1> DEFINE T == Triggered(j.run)
           new == NewOccurrences(j.run)
           nth == CHOOSE f \in [new -> T] : \A o, p \in new : o # p => f[o] # f[p]
           Record(e) == [technique |-> e, at |-> runs[j.run].at, run |-> j.run]
<1>1. DetectTypeOK /\ j.run \in RunIds /\ j.own \in BOOLEAN /\ strayed \in BOOLEAN
  BY DEF DetectInv, DetectTypeOK
<1>2. sent' = sent \ {j} /\ UNCHANGED <<time, began, library, techniques, machines, serial, resets>>
  BY DEF RunSucceeds
<1>3. CASE j.run \notin Runs
  <2>1. UNCHANGED <<runs, occurrences, happened, strayed>>
    BY <1>3 DEF RunSucceeds
  <2>2. strayed' = (strayed \/ (j.run \in Runs /\ ~j.own))
    BY <1>1, <1>3, <2>1
  <2>3. /\ sent' \subseteq [run : RunIds, ran : 0..serial, own : BOOLEAN]
        /\ RowsRefer' /\ SerialsAreUnique' /\ TriggersAreWanted' /\ OwnRunsGoOn'
    BY <1>2, <1>3, <2>1, <2>2, RunEnds
  <2>4. DetectTypeOK'
    BY <1>1, <1>2, <2>1, <2>3 DEF DetectTypeOK
  <2>5. RecordsAreTrue'
    BY <2>1 DEF DetectInv, RecordsAreTrue, Occurrences
  <2>6. QED  BY <2>3, <2>4, <2>5 DEF DetectInv
<1>4. CASE j.run \in Runs
  <2>1. /\ Cardinality(new) = Cardinality(T)
        /\ runs' = [runs EXCEPT ![j.run].running = FALSE]
        /\ occurrences' = [o \in OccurrenceIds |-> IF o \in new THEN Record(nth[o]) ELSE occurrences[o]]
        /\ happened' = IF j.own THEN happened \cup {Record(e) : e \in Due(j)} ELSE happened
        /\ strayed' = (strayed \/ ~j.own)
    BY <1>4 DEF RunSucceeds
  <2>2. strayed' = (strayed \/ (j.run \in Runs /\ ~j.own))
    BY <1>4, <2>1
  <2>3. /\ runs' \in [RunIds -> [host : HostIds \cup {Nil}, script : ScriptIds \cup {Nil}, running : BOOLEAN, at : 0..time]]
        /\ sent' \subseteq [run : RunIds, ran : 0..serial, own : BOOLEAN] /\ strayed' \in BOOLEAN
        /\ RowsRefer' /\ SerialsAreUnique' /\ TriggersAreWanted' /\ OwnRunsGoOn'
    BY <1>2, <1>4, <2>1, <2>2, RunEnds
  <2>4. T \subseteq 1..Len(techniques) /\ IsFiniteSet(T)
    <3>1. Len(techniques) \in Nat /\ DOMAIN techniques = 1..Len(techniques)
      BY <1>1 DEF DetectTypeOK
    <3>2. IsFiniteSet(1..Len(techniques))
      BY <3>1, FS_Interval
    <3>3. T \subseteq 1..Len(techniques)
      BY <3>1 DEF Triggered, Live
    <3>4. QED  BY <3>2, <3>3, FS_Subset
  <2>5. new \subseteq OccurrenceIds /\ IsFiniteSet(new) /\ new \cap Occurrences = {}
    <3>1. IsFiniteSet(1..MaxOccurrence)
      BY DetectBounds, FS_Interval
    <3>2. new \in SUBSET (1..MaxOccurrence)
      BY DEF NewOccurrences, OccurrenceIds
    <3>3. IsFiniteSet(new)
      BY <3>1, <3>2, FS_Subset
    <3>4. Occurrences \in SUBSET (1..MaxOccurrence)
      BY DEF Occurrences, OccurrenceIds
    <3>5. Following(Occurrences) \in Nat /\ \A o \in Occurrences : o < Following(Occurrences)
      BY <3>4, DetectBounds, FollowingIsFree
    <3>6. \A o \in new : o >= Following(Occurrences) /\ o \in Nat
      BY <3>2 DEF NewOccurrences
    <3>7. new \cap Occurrences = {}
      BY <3>4, <3>5, <3>6
    <3>8. QED  BY <3>2, <3>3, <3>7 DEF OccurrenceIds
  <2> HIDE DEF new, T
  <2>6. nth \in [new -> T] /\ \A t \in T : \E o \in new : nth[o] = t
    <3>1. IsFiniteSet(new) /\ IsFiniteSet(T) /\ Cardinality(new) = Cardinality(T)
      BY <2>1, <2>4, <2>5, Zenon
    <3>2. nth = OneEach(new, T)
      BY Zenon DEF OneEach
    <3> HIDE DEF nth
    <3>3. QED  BY <3>1, <3>2, EachTriggeredIsRecorded
  <2> HIDE DEF nth
  <2>7. ASSUME NEW e \in 1..Len(techniques)
        PROVE  Record(e) \in [technique : Nat, at : 0..time, run : RunIds \cup {Nil}] /\ Record(e) # NoOccurrence
    <3>1. runs[j.run].at \in 0..time /\ e \in Nat \ {0}
      BY <1>1 DEF DetectTypeOK
    <3>2. QED  BY <1>1, <3>1 DEF NoOccurrence, Nil
  <2>8. \A o \in new : Record(nth[o]) \in [technique : Nat, at : 0..time, run : RunIds \cup {Nil}] /\ Record(nth[o]) # NoOccurrence
    BY <2>4, <2>6, <2>7
  <2> HIDE DEF Record
  <2>9. /\ occurrences' \in [OccurrenceIds -> [technique : Nat, at : 0..time, run : RunIds \cup {Nil}]]
        /\ Occurrences' = Occurrences \cup new
        /\ \A o \in Occurrences : occurrences'[o] = occurrences[o]
        /\ \A o \in new : occurrences'[o] = Record(nth[o])
    <3>1. occurrences \in [OccurrenceIds -> [technique : Nat, at : 0..time, run : RunIds \cup {Nil}]]
      BY <1>1 DEF DetectTypeOK
    <3>2. \A o \in OccurrenceIds : occurrences'[o] = IF o \in new THEN Record(nth[o]) ELSE occurrences[o]
      BY <2>1
    <3>3. occurrences' \in [OccurrenceIds -> [technique : Nat, at : 0..time, run : RunIds \cup {Nil}]]
      BY <2>1, <2>8, <3>1
    <3>4. Occurrences' = Occurrences \cup new
      BY <2>5, <2>8, <3>2 DEF Occurrences
    <3>5. QED  BY <2>5, <3>2, <3>3, <3>4 DEF Occurrences
  <2>10. DetectTypeOK'
    BY <1>1, <1>2, <2>3, <2>9 DEF DetectTypeOK
  <2>11. RecordsAreTrue'
    <3>1. SUFFICES ASSUME ~strayed' PROVE happened' = {occurrences'[o] : o \in Occurrences'}
      BY DEF RecordsAreTrue
    <3>2. ~strayed /\ j.own
      BY <1>1, <2>1, <3>1
    <3>3. T = Due(j)
      BY <3>2, TriggeredIsDue DEF DetectInv, OwnRunsGoOn, T
    <3>4. {occurrences'[o] : o \in Occurrences'} = {occurrences[o] : o \in Occurrences} \cup {Record(nth[o]) : o \in new}
      BY <2>9
    <3>5. {Record(nth[o]) : o \in new} = {Record(e) : e \in T}
      BY <2>6
    <3>6. happened = {occurrences[o] : o \in Occurrences}
      BY <3>2 DEF DetectInv, RecordsAreTrue
    <3>7. happened' = happened \cup {Record(e) : e \in T}
      BY <2>1, <3>2, <3>3
    <3>8. QED  BY <3>4, <3>5, <3>6, <3>7
  <2>12. QED  BY <2>3, <2>10, <2>11 DEF DetectInv
<1>5. QED  BY <1>3, <1>4

\* The server starts again and forgets its commands.
LEMMA ServerRestarted == ASSUME DetectInv, ServerRestarts PROVE DetectInv'
<1>1. sent' = {} /\ UNCHANGED <<time, began, library, techniques, machines, runs, occurrences, serial, resets, happened, strayed>>
  BY DEF ServerRestarts
<1>2. Library' = Library /\ Runs' = Runs /\ Occurrences' = Occurrences
  BY <1>1 DEF Library, Runs, Occurrences
<1>3. DetectTypeOK'
  BY <1>1 DEF DetectInv, DetectTypeOK
<1>4. RowsRefer' /\ SerialsAreUnique' /\ TriggersAreWanted'
  BY <1>1, <1>2 DEF DetectInv, RowsRefer, SerialsAreUnique, TriggersAreWanted, SerialOf
<1>5. OwnRunsGoOn' /\ RecordsAreTrue'
  BY <1>1, <1>2 DEF DetectInv, OwnRunsGoOn, RecordsAreTrue
<1>6. QED  BY <1>3, <1>4, <1>5 DEF DetectInv

\* What a step leaves when it touches the occurrences only.
LEMMA OccurrencesChange ==
    ASSUME DetectInv,
           occurrences' \in [OccurrenceIds -> [technique : Nat, at : 0..time, run : RunIds \cup {Nil}]],
           ~strayed => happened' = {occurrences'[o] : o \in Occurrences'},
           UNCHANGED <<time, began, library, techniques, machines, runs, sent, serial, resets, strayed>>
    PROVE  DetectInv'
<1>1. Library' = Library /\ Runs' = Runs
  BY DEF Library, Runs
<1>2. DetectTypeOK'
  BY DEF DetectInv, DetectTypeOK
<1>3. RowsRefer' /\ SerialsAreUnique' /\ TriggersAreWanted'
  BY <1>1 DEF DetectInv, RowsRefer, SerialsAreUnique, TriggersAreWanted, SerialOf
<1>4. OwnRunsGoOn' /\ RecordsAreTrue'
  BY <1>1 DEF DetectInv, OwnRunsGoOn, RunOfItsScript, RecordsAreTrue
<1>5. QED  BY <1>2, <1>3, <1>4 DEF DetectInv

LEMMA OccurrenceMarked ==
    ASSUME DetectInv, NEW e \in Live, NEW at \in began..time, MarkOccurred(e, at)  PROVE DetectInv'
<1> DEFINE o == Following(Occurrences)
           row == [technique |-> e, at |-> at, run |-> Nil]
<1>1. /\ o \in OccurrenceIds /\ occurrences' = [occurrences EXCEPT ![o] = row] /\ happened' = happened \cup {row}
      /\ UNCHANGED <<time, began, library, techniques, machines, runs, sent, serial, resets, strayed>>
  BY DEF MarkOccurred
<1>2. o \notin Occurrences
  <2>1. Occurrences \in SUBSET (1..MaxOccurrence)
    BY DEF Occurrences, OccurrenceIds
  <2>2. o \in Nat /\ \A p \in Occurrences : p < o
    BY <2>1, DetectBounds, FollowingIsFree
  <2>3. QED  BY <2>2
<1>3. row \in [technique : Nat, at : 0..time, run : RunIds \cup {Nil}] /\ row # NoOccurrence
  <2>1. e \in Nat \ {0}
    <3>1. techniques \in Seq(Technique)
      BY DEF DetectInv, DetectTypeOK
    <3>2. QED  BY <3>1 DEF Live
  <2>2. at \in 0..time
    BY DEF DetectInv, DetectTypeOK
  <2>3. QED  BY <2>1, <2>2 DEF NoOccurrence, Nil
<1>4. occurrences \in [OccurrenceIds -> [technique : Nat, at : 0..time, run : RunIds \cup {Nil}]]
  BY DEF DetectInv, DetectTypeOK
<1> HIDE DEF o, row
<1>5. /\ occurrences' \in [OccurrenceIds -> [technique : Nat, at : 0..time, run : RunIds \cup {Nil}]]
      /\ Occurrences' = Occurrences \cup {o} /\ occurrences'[o] = row
      /\ \A p \in Occurrences : occurrences'[p] = occurrences[p]
  <2>1. occurrences' \in [OccurrenceIds -> [technique : Nat, at : 0..time, run : RunIds \cup {Nil}]]
    BY <1>1, <1>3, <1>4
  <2>2. QED  BY <1>1, <1>2, <1>3, <1>4, <2>1 DEF Occurrences
<1>6. {occurrences'[p] : p \in Occurrences'} = {occurrences[p] : p \in Occurrences} \cup {row}
  BY <1>5
<1>7. ~strayed => happened' = {occurrences'[p] : p \in Occurrences'}
  BY <1>1, <1>6 DEF DetectInv, RecordsAreTrue
<1>8. QED  BY <1>1, <1>5, <1>7, OccurrencesChange

LEMMA OccurrenceDeleted == ASSUME DetectInv, NEW o \in Occurrences, DeleteOccurrence(o) PROVE DetectInv'
<1>1. /\ occurrences' = [occurrences EXCEPT ![o] = NoOccurrence]
      /\ happened' = IF \E p \in OccurrenceIds : occurrences'[p] = occurrences[o] THEN happened ELSE happened \ {occurrences[o]}
      /\ UNCHANGED <<time, began, library, techniques, machines, runs, sent, serial, resets, strayed>>
  BY DEF DeleteOccurrence
<1>2. occurrences \in [OccurrenceIds -> [technique : Nat, at : 0..time, run : RunIds \cup {Nil}]] /\ time \in Nat
  BY DEF DetectInv, DetectTypeOK
<1>3. NoOccurrence \in [technique : Nat, at : 0..time, run : RunIds \cup {Nil}]
  BY <1>2 DEF NoOccurrence, Nil
<1>4. occurrences' \in [OccurrenceIds -> [technique : Nat, at : 0..time, run : RunIds \cup {Nil}]]
  BY <1>1, <1>2, <1>3
<1>5. /\ Occurrences' = Occurrences \ {o} /\ \A p \in Occurrences' : occurrences'[p] = occurrences[p]
      /\ occurrences[o] # NoOccurrence /\ Occurrences \subseteq OccurrenceIds
  BY <1>1, <1>2 DEF Occurrences
<1>6. (\E p \in OccurrenceIds : occurrences'[p] = occurrences[o]) <=> \E p \in Occurrences' : occurrences[p] = occurrences[o]
  <2>1. \A p \in OccurrenceIds : occurrences'[p] = occurrences[o] => p \in Occurrences'
    BY <1>5 DEF Occurrences
  <2>2. QED  BY <1>5, <2>1
<1>7. ~strayed => happened' = {occurrences'[p] : p \in Occurrences'}
  <2>1. SUFFICES ASSUME ~strayed  PROVE happened' = {occurrences'[p] : p \in Occurrences'}
    OBVIOUS
  <2>2. happened = {occurrences[p] : p \in Occurrences}
    BY <2>1 DEF DetectInv, RecordsAreTrue
  <2>3. {occurrences'[p] : p \in Occurrences'} = {occurrences[p] : p \in Occurrences \ {o}}
    BY <1>5
  <2>4. CASE \E p \in Occurrences \ {o} : occurrences[p] = occurrences[o]
    <3>1. happened' = happened
      BY <1>1, <1>5, <1>6, <2>4
    <3>2. QED  BY <2>2, <2>3, <2>4, <3>1
  <2>5. CASE ~ \E p \in Occurrences \ {o} : occurrences[p] = occurrences[o]
    <3>1. happened' = happened \ {occurrences[o]}
      BY <1>1, <1>5, <1>6, <2>5
    <3>2. QED  BY <2>2, <2>3, <2>5, <3>1
  <2>6. QED  BY <2>4, <2>5
<1>8. QED  BY <1>1, <1>4, <1>7, OccurrencesChange

\* The event is reset: a command in flight is no longer ours.
LEMMA EventReset == ASSUME DetectInv, EventIsReset PROVE DetectInv'
<1>1. /\ resets' = resets + 1 /\ began' = time
      /\ runs' = [x \in RunIds |-> NoRun] /\ occurrences' = [o \in OccurrenceIds |-> NoOccurrence]
      /\ sent' = {[j EXCEPT !.own = FALSE] : j \in sent} /\ happened' = {} /\ strayed' = FALSE
      /\ UNCHANGED <<time, library, techniques, machines, serial>>
  BY DEF EventIsReset
<1>2. DetectTypeOK
  BY DEF DetectInv
<1>3. Library' = Library /\ Runs' = {} /\ Occurrences' = {}
  BY <1>1 DEF Library, Runs, Occurrences
<1>4. sent' \subseteq [run : RunIds, ran : 0..serial, own : BOOLEAN] /\ \A j \in sent' : ~j.own
  <2>1. ASSUME NEW j \in sent
        PROVE  [j EXCEPT !.own = FALSE] \in [run : RunIds, ran : 0..serial, own : BOOLEAN] /\ ~[j EXCEPT !.own = FALSE].own
    <3>1. j \in [run : RunIds, ran : 0..serial, own : BOOLEAN]
      BY <1>2 DEF DetectTypeOK
    <3>2. QED  BY <3>1
  <2>2. QED  BY <1>1, <2>1
<1>5. DetectTypeOK'
  <2>1. NoRun \in [host : HostIds \cup {Nil}, script : ScriptIds \cup {Nil}, running : BOOLEAN, at : 0..time]
    BY <1>2 DEF NoRun, DetectTypeOK
  <2>2. NoOccurrence \in [technique : Nat, at : 0..time, run : RunIds \cup {Nil}]
    BY <1>2 DEF NoOccurrence, Nil, DetectTypeOK
  <2>3. strayed' \in BOOLEAN
    BY Zenon, <1>1
  <2>4. resets' \in Nat /\ began' \in 0..time
    BY <1>1, <1>2 DEF DetectTypeOK
  <2>5. QED  BY <1>1, <1>2, <1>4, <2>1, <2>2, <2>3, <2>4 DEF DetectTypeOK
<1>6. RowsRefer' /\ SerialsAreUnique' /\ TriggersAreWanted'
  BY <1>1, <1>3 DEF DetectInv, RowsRefer, SerialsAreUnique, TriggersAreWanted, SerialOf
<1>7. OwnRunsGoOn'
  BY <1>4 DEF OwnRunsGoOn
<1>8. RecordsAreTrue'
  BY <1>1, <1>3 DEF RecordsAreTrue
<1>9. QED  BY <1>5, <1>6, <1>7, <1>8 DEF DetectInv

LEMMA TimePasses == ASSUME DetectInv, Tick PROVE DetectInv'
<1>1. time' = time + 1 /\ UNCHANGED <<began, library, techniques, machines, runs, sent, occurrences, serial, resets, happened, strayed>>
  BY DEF Tick
<1>2. Library' = Library /\ Runs' = Runs /\ Occurrences' = Occurrences
  BY <1>1 DEF Library, Runs, Occurrences
<1>3. DetectTypeOK'
  <2>1. DetectTypeOK /\ time \in Nat /\ time' \in Nat /\ \A t \in 0..time : t \in 0..time'
    BY <1>1 DEF DetectInv, DetectTypeOK
  <2>2. runs' \in [RunIds -> [host : HostIds \cup {Nil}, script : ScriptIds \cup {Nil}, running : BOOLEAN, at : 0..time']]
    BY <1>1, <2>1 DEF DetectTypeOK
  <2>3. occurrences' \in [OccurrenceIds -> [technique : Nat, at : 0..time', run : RunIds \cup {Nil}]]
    BY <1>1, <2>1 DEF DetectTypeOK
  <2>4. QED  BY <1>1, <2>1, <2>2, <2>3 DEF DetectTypeOK
<1>4. RowsRefer' /\ SerialsAreUnique' /\ TriggersAreWanted'
  BY <1>1, <1>2 DEF DetectInv, RowsRefer, SerialsAreUnique, TriggersAreWanted, SerialOf
<1>5. OwnRunsGoOn' /\ RecordsAreTrue'
  BY <1>1, <1>2 DEF DetectInv, OwnRunsGoOn, RunOfItsScript, RecordsAreTrue
<1>6. QED  BY <1>3, <1>4, <1>5 DEF DetectInv

LEMMA DetectStuttering == ASSUME DetectInv, UNCHANGED detectVars PROVE DetectInv'
<1>1. Library' = Library /\ Runs' = Runs /\ Occurrences' = Occurrences
  BY DEF Library, Runs, Occurrences, detectVars
<1>2. DetectTypeOK'
  BY DEF DetectInv, DetectTypeOK, detectVars
<1>3. RowsRefer' /\ SerialsAreUnique' /\ TriggersAreWanted'
  BY <1>1 DEF DetectInv, RowsRefer, SerialsAreUnique, TriggersAreWanted, SerialOf, detectVars
<1>4. OwnRunsGoOn' /\ RecordsAreTrue'
  BY <1>1 DEF DetectInv, OwnRunsGoOn, RunOfItsScript, RecordsAreTrue, detectVars
<1>5. QED  BY <1>2, <1>3, <1>4 DEF DetectInv

LEMMA DetectStep == DetectInv /\ [DetectNext]_detectVars => DetectInv'
<1> SUFFICES ASSUME DetectInv, [DetectNext]_detectVars PROVE DetectInv'
  OBVIOUS
<1>1. CASE Authoring
  <2>1. CASE CreateScript
    BY <2>1, ScriptCreated
  <2>2. ASSUME NEW s \in Library, DeleteScript(s)  PROVE DetectInv'
    BY <2>2, ScriptDeleted
  <2>3. ASSUME NEW s \in Library \cup {Nil}, NEW h \in machines \cup {Nil}, ExpectTechnique(s, h)  PROVE DetectInv'
    BY <2>3, TechniqueExpected
  <2>4. ASSUME NEW s \in Library \cup {Nil}, NEW h \in machines \cup {Nil}, NEW e \in Live, EditTechnique(e, s, h)
        PROVE  DetectInv'
    BY <2>4, TechniqueEdited
  <2>5. ASSUME NEW e \in Live, UnexpectTechnique(e)  PROVE DetectInv'
    BY <2>5, TechniqueRemoved
  <2>6. QED  BY <1>1, <2>1, <2>2, <2>3, <2>4, <2>5 DEF Authoring
<1>2. CASE Happening
  <2>1. CASE FindHost
    BY <2>1, HostFound
  <2>2. ASSUME NEW hosts \in {machines} \cup {{h} : h \in machines}, LoseHosts(hosts)  PROVE DetectInv'
    BY <2>2, HostsLost
  <2>3. ASSUME NEW h \in machines, NEW s \in Library \cup {Nil}, RunScript(s, h)  PROVE DetectInv'
    BY <2>3, ScriptRun
  <2>4. ASSUME NEW j \in sent, RunSucceeds(j)  PROVE DetectInv'
    BY <2>4, RunSucceeded
  <2>5. ASSUME NEW j \in sent, RunFails(j)  PROVE DetectInv'
    BY <2>5, RunFailed
  <2>6. ASSUME NEW e \in Live, NEW at \in began..time, MarkOccurred(e, at)  PROVE DetectInv'
    BY <2>6, OccurrenceMarked
  <2>7. ASSUME NEW o \in Occurrences, DeleteOccurrence(o)  PROVE DetectInv'
    BY <2>7, OccurrenceDeleted
  <2>8. CASE ServerRestarts \/ EventIsReset \/ Tick
    BY <2>8, ServerRestarted, EventReset, TimePasses
  <2>9. QED  BY <1>2, <2>1, <2>2, <2>3, <2>4, <2>5, <2>6, <2>7, <2>8 DEF Happening
<1>3. CASE UNCHANGED detectVars
  BY <1>3, DetectStuttering
<1>4. QED  BY <1>1, <1>2, <1>3 DEF DetectNext

\* Time never goes back, every row holds what its columns may, and a command in flight is a run of a
\* script that there was.
THEOREM DetectTypeCorrect == DetectSpec => []DetectTypeOK
<1>1. DetectInv => DetectTypeOK
  BY DEF DetectInv
<1>2. QED  BY <1>1, DetectInitially, DetectStep, PTL DEF DetectSpec

\* What is measured from true records is true: the first occurrence in the window is its least time.
LEMMA MeasuredFromRecords ==
    ASSUME DetectTypeOK, NEW times \in SUBSET (0..time), NEW start \in 0..time, NEW found \in 0..time, start <= found
    PROVE  LET m == ComputeMttd(times, start, found)
           IN  /\ m.measurable <=> \E t \in times : t \in start..found
               /\ m.measurable => found - m.seconds \in times /\ \A t \in times \cap (start..found) : found - t <= m.seconds
               /\ ~m.measurable => (m.reason = "detected before" <=> \E t \in times : t > found)
<1> DEFINE W == {t \in times : start <= t /\ t <= found}
           m == ComputeMttd(times, start, found)
<1>1. time \in Nat
  BY DEF DetectTypeOK
<1>2. CASE W # {}
  <2>1. W \in SUBSET (0..time)
    OBVIOUS
  <2>2. PICK t0 \in W : t0 = Min(W) /\ \A y \in W : t0 <= y
    BY <1>1, <1>2, <2>1, FirstOf
  <2>3. m = [measurable |-> TRUE, seconds |-> found - t0]
    BY <1>2, <2>2 DEF ComputeMttd
  <2>4. m.measurable /\ m.seconds = found - t0
    BY <2>3
  <2> HIDE DEF m
  <2>5. t0 \in times /\ t0 \in start..found /\ found - (found - t0) = t0
    BY <1>1, <2>1, <2>2
  <2>6. \A t \in times \cap (start..found) : found - t <= found - t0
    BY <1>1, <2>2
  <2>7. QED  BY <2>4, <2>5, <2>6 DEF m
<1>3. CASE W = {}
  <2>1. m = [measurable |-> FALSE, reason |-> IF \E t \in times : t >= start THEN "detected before" ELSE "none recorded"]
    BY <1>3 DEF ComputeMttd
  <2>2. ~m.measurable /\ (m.reason = "detected before" <=> \E t \in times : t >= start)
    <3>1. CASE \E t \in times : t >= start
      <4>1. m = [measurable |-> FALSE, reason |-> "detected before"]
        BY <2>1, <3>1
      <4> HIDE DEF m
      <4>2. ~m.measurable /\ m.reason = "detected before"
        BY <4>1
      <4>3. QED  BY <3>1, <4>2
    <3>2. CASE ~ \E t \in times : t >= start
      <4>1. m = [measurable |-> FALSE, reason |-> "none recorded"]
        BY <2>1, <3>2
      <4> HIDE DEF m
      <4>2. ~m.measurable /\ m.reason = "none recorded"
        BY <4>1
      <4>3. QED  BY <3>2, <4>2
    <3>3. QED  BY <3>1, <3>2
  <2> HIDE DEF m
  <2>3. \A t \in times : t \in Int /\ t \notin start..found /\ (t >= start <=> t > found)
    BY <1>1, <1>3
  <2>4. QED  BY <2>2, <2>3 DEF m
<1>4. QED  BY <1>2, <1>3

\* A time to detect is measured exactly when the technique happened between the team's start and its
\* detection, and from the first time it did (recordScriptOccurrences, computeMttd): whatever scripts,
\* hosts and runs were deleted, and their rowids given again, while a command was in flight.
THEOREM TimesAreReal == DetectSpec => []TimesToDetectAreReal
<1> DEFINE Real(e, start, found) ==
             LET m == ComputeMttd(RecordedFor(e), start, found)
                 times == {h.at : h \in {g \in happened : g.technique = e}}
             IN  start <= found =>
                   /\ m.measurable <=> \E t \in times : t \in start..found
                   /\ m.measurable => found - m.seconds \in times /\ \A t \in times \cap (start..found) : found - t <= m.seconds
                   /\ ~m.measurable => (m.reason = "detected before" <=> \E t \in times : t > found)
<1>1. ASSUME DetectInv, ~strayed, NEW e \in Live, NEW start \in 0..time, NEW found \in 0..time  PROVE Real(e, start, found)
  <2> DEFINE times == {h.at : h \in {g \in happened : g.technique = e}}
  <2>1. DetectTypeOK /\ happened = {occurrences[o] : o \in Occurrences}
    BY <1>1 DEF DetectInv, RecordsAreTrue
  <2>2. RecordedFor(e) = times
    BY <2>1 DEF RecordedFor
  <2>3. times \in SUBSET (0..time)
    <3>1. \A o \in Occurrences : occurrences[o].at \in 0..time
      BY <2>1 DEF DetectTypeOK, Occurrences
    <3>2. QED  BY <2>1, <3>1
  <2> HIDE DEF times
  <2>4. CASE start <= found
    BY <2>1, <2>2, <2>3, <2>4, MeasuredFromRecords DEF times
  <2>5. QED  BY <2>4
<1>2. ASSUME DetectInv  PROVE TimesToDetectAreReal
  <2>1. ~strayed => \A e \in Live : \A start, found \in 0..time : Real(e, start, found)
    BY <1>1, <1>2
  <2>2. QED  BY <2>1 DEF TimesToDetectAreReal
<1>3. QED  BY <1>2, DetectInitially, DetectStep, PTL DEF DetectSpec
===================================================================================
