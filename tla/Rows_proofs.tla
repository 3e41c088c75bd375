---------------------------- MODULE Rows_proofs ----------------------------
(***************************************************************************)
(* Proofs about rows that users write.  For any users, browsers, tokens and *)
(* requests in flight: the role of an account which nobody locked is the one*)
(* that GitHub gave, and a web request takes away the last administrator    *)
(* only on behalf of somebody who has stopped being one.  For any specs: only*)
(* pinned ones are run, and a row's lineage names what it was resolved from.*)
(*                                                                          *)
(* The second invariant goes over the requests in flight as well: what one of*)
(* them loaded was true when it loaded it, and is never undone.             *)
(***************************************************************************)
EXTENDS Access, RecipeStore, TLAPS

Rows == {NoAccount} \cup [exists : {TRUE}, role : UserRoles, locked : BOOLEAN, enabled : BOOLEAN]

Admitted == [phase : {"admitted"}, by : Browsers, user : Users, work : Work]
Reading  == [phase : {"read"}, by : Browsers, user : HubUsers, role : UserRoles, row : Rows]

OpenRequests == {NoRequest} \cup Admitted \cup Reading

Tables ==
  /\ account \in [Users -> Rows] /\ request \in [Requests -> OpenRequests]
  /\ member \in [HubUsers -> Memberships] /\ browser \in [Browsers -> Users \cup {NoUser}]
  /\ token \in [Tokens -> [role : {"none"} \cup DOMAIN Level, enabled : BOOLEAN]]
  /\ given \in [HubUsers -> UserRoles \cup {"released"}]

\* No account is ever removed, so the one a login read is there when it commits.
ReadsPersist ==
  \A r \in Requests :
    request[r].phase = "read" /\ request[r].row.exists => account[request[r].user].exists

AccessInv == Tables /\ ReadsPersist /\ RolesHaveASource

-----------------------------------------------------------------------------
LEMMA RowFacts ==
  /\ NoAccount \in Rows /\ ~NoAccount.exists
  /\ \A row \in Rows : row.exists \in BOOLEAN
  /\ \A row \in Rows : row.exists =>
       row \in [exists : {TRUE}, role : UserRoles, locked : BOOLEAN, enabled : BOOLEAN]
  /\ \A role \in UserRoles, locked \in BOOLEAN :
       /\ Row(role, locked) \in Rows
       /\ Row(role, locked).exists /\ Row(role, locked).role = role
       /\ Row(role, locked).locked = locked
<1>1. NoAccount \in Rows /\ NoAccount.exists = FALSE
  BY DEF Rows, NoAccount
<1>2. \A row \in [exists : {TRUE}, role : UserRoles, locked : BOOLEAN, enabled : BOOLEAN] :
        row.exists = TRUE
  OBVIOUS
<1>3. \A row \in Rows : row.exists =>
       row \in [exists : {TRUE}, role : UserRoles, locked : BOOLEAN, enabled : BOOLEAN]
  BY <1>1 DEF Rows
<1>4. \A role \in UserRoles, locked \in BOOLEAN :
       /\ Row(role, locked) \in [exists : {TRUE}, role : UserRoles, locked : BOOLEAN, enabled : BOOLEAN]
       /\ Row(role, locked).exists /\ Row(role, locked).role = role
       /\ Row(role, locked).locked = locked
  BY DEF Row
<1> QED BY <1>1, <1>2, <1>3, <1>4 DEF Rows

LEMMA RoleFacts ==
  /\ \A m \in MembershipKinds : RoleFromGitHub(m) \in UserRoles \cup {"rejected"}
  /\ UserRoles = {"readonly", "submitter", "admin"}
  /\ DOMAIN Level = {"readonly", "submitter", "worker", "admin"}
  BY DEF RoleFromGitHub, UserRoles, MembershipKinds, Level

LEMMA WorkFacts ==
  ASSUME NEW w \in Work
  PROVE  /\ w.name = "role" => w.user \in HubUsers /\ w.role \in {"readonly", "admin"}
         /\ w.name = "unlock" => w.user \in HubUsers
         /\ w.name = "disable" => w.user \in Users /\ w.enabled \in BOOLEAN
         /\ w.name = "token" => w.token \in Tokens /\ w.role = "admin"
         /\ w.name = "revoke" => w.token \in Tokens
  BY DEF Work

LEMMA FlightFacts ==
  /\ NoRequest \in OpenRequests /\ NoRequest.phase = "none"
  /\ \A q \in OpenRequests : q.phase = "read" => q \in Reading
  /\ \A q \in OpenRequests : q.phase = "admitted" => q \in Admitted
  /\ \A q \in OpenRequests : q.phase = "none" => q = NoRequest
  /\ \A q \in Reading : q \in OpenRequests /\ q.phase = "read"
  /\ \A q \in Admitted : q \in OpenRequests /\ q.phase = "admitted"
  BY DEF OpenRequests, NoRequest, Admitted, Reading

-----------------------------------------------------------------------------
(* What a step does: to the accounts, to the requests, to the rest.           *)

AccountsStep ==
  /\ account' \in [Users -> Rows]
  /\ \A u \in Users : account[u].exists => account'[u].exists
  /\ given' \in [HubUsers -> UserRoles \cup {"released"}]
  /\ RolesHaveASource'

RequestsStep ==
  /\ request' \in [Requests -> OpenRequests] /\ browser' \in [Browsers -> Users \cup {NoUser}]
  /\ \A r \in Requests :
       request'[r].phase = "read" /\ request'[r] # request[r] =>
         request'[r].row = account[request'[r].user]

RestStep ==
  /\ member' \in [HubUsers -> Memberships]
  /\ token' \in [Tokens -> [role : {"none"} \cup DOMAIN Level, enabled : BOOLEAN]]

LEMMA StepLemma ==
  ASSUME AccessInv, AccountsStep, RequestsStep, RestStep
  PROVE  AccessInv'
<1>1. Tables'
  BY DEF AccountsStep, RequestsStep, RestStep, Tables
<1>2. ReadsPersist'
  <2> SUFFICES ASSUME NEW r \in Requests, request'[r].phase = "read", request'[r].row.exists
               PROVE  account'[request'[r].user].exists
    BY DEF ReadsPersist
  <2>1. request'[r].user \in Users
    BY FlightFacts DEF RequestsStep, Reading, Users
  <2>2. account[request'[r].user].exists
    BY DEF RequestsStep, AccessInv, ReadsPersist
  <2> QED BY <2>1, <2>2 DEF AccountsStep
<1> QED BY <1>1, <1>2 DEF AccessInv, AccountsStep

\* A row that changes keeps its role and lock, or ends up locked.
Regarded(old, new) ==
  /\ new \in Rows /\ (old.exists => new.exists)
  /\ new.exists => new.locked \/ (old.exists /\ new.role = old.role /\ new.locked = old.locked)

LEMMA AccountLemma ==
  ASSUME AccessInv, NEW u \in Users, NEW new \in Rows, Regarded(account[u], new),
         account' = [account EXCEPT ![u] = new], given' = given
  PROVE  AccountsStep
<1>1. account \in [Users -> Rows] /\ given \in [HubUsers -> UserRoles \cup {"released"}]
  BY DEF AccessInv, Tables
<1>2. account' \in [Users -> Rows] /\ \A v \in Users : account'[v] = IF v = u THEN new ELSE account[v]
  BY <1>1
<1>3. HubUsers \subseteq Users
  BY DEF Users
<1>4. RolesHaveASource'
  BY <1>1, <1>2, <1>3 DEF AccessInv, RolesHaveASource, Regarded
<1> QED BY <1>1, <1>2, <1>4 DEF AccountsStep, Regarded

LEMMA SameAccountsLemma ==
  ASSUME AccessInv, account' = account, given' = given
  PROVE  AccountsStep
  BY DEF AccessInv, Tables, AccountsStep, RolesHaveASource

LEMMA SameRequestsLemma ==
  ASSUME AccessInv, request' = request, browser' = browser
  PROVE  RequestsStep
  BY DEF AccessInv, Tables, RequestsStep

LEMMA AnsweredLemma ==
  ASSUME AccessInv, NEW r \in Requests, NEW b \in Browsers, NEW session \in Users \cup {NoUser},
         Answered(r, b, session)
  PROVE  RequestsStep
  BY FlightFacts DEF AccessInv, Tables, Answered, RequestsStep

LEMMA TakenLemma ==
  ASSUME AccessInv, NEW r \in Requests, NEW q \in OpenRequests, Taken(r, q),
         q.phase = "read" => q.row = account[q.user]
  PROVE  RequestsStep
<1>1. request' \in [Requests -> OpenRequests] /\ browser' = browser
  BY DEF AccessInv, Tables, Taken
<1>2. \A x \in Requests : request'[x] = IF x = r THEN q ELSE request[x]
  BY DEF AccessInv, Tables, Taken
<1> QED BY <1>1, <1>2 DEF AccessInv, Tables, RequestsStep

LEMMA HandledLemma ==
  ASSUME AccessInv, NEW r \in Requests, NEW name, Handles(r, name), Handled(r)
  PROVE  /\ RequestsStep
         /\ request[r].work \in Work /\ request[r].user \in Users /\ request[r].work.name = name
<1>1. request[r] \in Admitted /\ request[r].work.name = name
  BY FlightFacts DEF AccessInv, Tables, Handles
<1>2. request[r].by \in Browsers /\ request[r].user \in Users /\ request[r].work \in Work
  BY <1>1 DEF Admitted
<1> QED BY <1>1, <1>2, AnsweredLemma DEF Handled

-----------------------------------------------------------------------------
LEMMA AccessInvInit == AccessInit => AccessInv
  BY FlightFacts, RowFacts, RoleFacts
     DEF AccessInit, AccessInv, Tables, ReadsPersist, RolesHaveASource, Users

\* The rows as an edit leaves them.
LEMMA EditLemma ==
  ASSUME NEW row \in Rows, row.exists
  PROVE  /\ \A role \in UserRoles : Regarded(row, [row EXCEPT !.role = role, !.locked = TRUE])
         /\ \A enabled \in BOOLEAN : Regarded(row, [row EXCEPT !.enabled = enabled])
         /\ \A role \in UserRoles : Regarded(row, Row(role, TRUE))
         /\ [row EXCEPT !.locked = FALSE] \in Rows /\ [row EXCEPT !.locked = FALSE].exists
<1>1. row \in [exists : {TRUE}, role : UserRoles, locked : BOOLEAN, enabled : BOOLEAN]
  BY RowFacts
<1> QED BY <1>1, RowFacts DEF Regarded, Rows

LEMMA CommitLemma ==
  ASSUME AccessInv, NEW r \in Requests, CallbackCommits(r)
  PROVE  AccountsStep /\ RequestsStep /\ RestStep
<1> DEFINE q == request[r]
           u == q.user
           writes == IF q.row.exists THEN ~q.row.locked /\ q.role # q.row.role
                                     ELSE ~account[u].exists
<1>t. /\ account \in [Users -> Rows] /\ given \in [HubUsers -> UserRoles \cup {"released"}]
      /\ browser \in [Browsers -> Users \cup {NoUser}]
  BY DEF AccessInv, Tables
<1>1. q \in Reading /\ u \in HubUsers /\ u \in Users /\ q.role \in UserRoles /\ q.by \in Browsers
      /\ q.row \in Rows
  BY FlightFacts DEF AccessInv, Tables, CallbackCommits, Reading, Users
<1>2. q.row.exists => account[u].exists
  BY <1>1 DEF AccessInv, ReadsPersist, Reading
<1>3. RequestsStep
  <2>1. PICK session \in Users \cup {NoUser} : Answered(r, q.by, session)
    BY <1>t, <1>1 DEF CallbackCommits
  <2> QED BY <2>1, <1>1, AnsweredLemma
<1>4. RestStep
  BY DEF CallbackCommits, RestStep, AccessInv, Tables
<1>5. AccountsStep
  <2>1. CASE ~writes
    BY <2>1, SameAccountsLemma DEF CallbackCommits
  <2>2. CASE writes
    <3>1. PICK new \in Rows : /\ account' = [account EXCEPT ![u] = new]
                              /\ new.exists /\ new.role = q.role
      <4>1. CASE q.row.exists
        <5>1. account' = [account EXCEPT ![u] = [account[u] EXCEPT !.role = q.role]]
          BY <4>1, <2>2, <1>t, <1>1 DEF CallbackCommits
        <5>2. account[u] \in [exists : {TRUE}, role : UserRoles, locked : BOOLEAN, enabled : BOOLEAN]
          BY <4>1, <1>2, <1>t, <1>1, RowFacts
        <5>3. [account[u] EXCEPT !.role = q.role] \in Rows
              /\ [account[u] EXCEPT !.role = q.role].exists
              /\ [account[u] EXCEPT !.role = q.role].role = q.role
          BY <5>2, <1>1 DEF Rows
        <5> QED BY <5>1, <5>3
      <4>2. CASE ~q.row.exists
        <5>1. account' = [account EXCEPT ![u] = Row(q.role, FALSE)]
          BY <4>2, <2>2 DEF CallbackCommits
        <5> QED BY <5>1, <1>1, RowFacts
      <4> QED BY <4>1, <4>2
    <3>2. given' = [given EXCEPT ![u] = q.role]
      BY <2>2 DEF CallbackCommits
    <3>3. account' \in [Users -> Rows] /\ \A v \in Users : account'[v] = IF v = u THEN new ELSE account[v]
      BY <3>1, <1>t
    <3>4. /\ given' \in [HubUsers -> UserRoles \cup {"released"}]
          /\ \A v \in HubUsers : given'[v] = IF v = u THEN q.role ELSE given[v]
      BY <3>2, <1>t, <1>1
    <3>5. RolesHaveASource'
      BY <3>1, <3>3, <3>4 DEF AccessInv, RolesHaveASource, Users
    <3> QED BY <3>1, <3>3, <3>4, <3>5 DEF AccountsStep
  <2> QED BY <2>1, <2>2
<1> QED BY <1>3, <1>4, <1>5

LEMMA UnlockLemma ==
  ASSUME AccessInv, NEW r \in Requests, UnlockUser(r)
  PROVE  AccountsStep /\ RequestsStep /\ RestStep
<1> DEFINE u == request[r].work.user
<1>t. account \in [Users -> Rows] /\ given \in [HubUsers -> UserRoles \cup {"released"}]
  BY DEF AccessInv, Tables
<1>1. RequestsStep /\ u \in HubUsers /\ u \in Users
  BY HandledLemma, WorkFacts DEF UnlockUser, Users
<1>2. RestStep
  BY DEF UnlockUser, RestStep, AccessInv, Tables
<1>3. given' = [given EXCEPT ![u] = "released"]
  BY DEF UnlockUser
<1>4. CASE account[u].exists
  <2>1. account' = [account EXCEPT ![u] = [account[u] EXCEPT !.locked = FALSE]]
    BY SMTT(40), <1>4, <1>t, <1>1 DEF UnlockUser
  <2>2. /\ [account[u] EXCEPT !.locked = FALSE] \in Rows
        /\ [account[u] EXCEPT !.locked = FALSE].exists
    BY <1>4, <1>t, <1>1, EditLemma
  <2>3. /\ account' \in [Users -> Rows] /\ account'[u].exists
        /\ \A v \in Users : v # u => account'[v] = account[v]
    BY <2>1, <2>2, <1>t, <1>1
  <2>4. RolesHaveASource'
    BY <2>3, <1>3, <1>t, <1>1 DEF AccessInv, RolesHaveASource, Users
  <2> QED BY <2>3, <2>4, <1>1, <1>2, <1>3, <1>t DEF AccountsStep
<1>5. CASE ~account[u].exists
  <2>1. account' = account
    BY <1>5 DEF UnlockUser
  <2>2. RolesHaveASource'
    BY <2>1, <1>3, <1>t, <1>1 DEF AccessInv, RolesHaveASource
  <2> QED BY <2>1, <2>2, <1>1, <1>2, <1>3, <1>t DEF AccountsStep
<1> QED BY <1>4, <1>5

LEMMA EditsLemma ==
  ASSUME AccessInv, NEW r \in Requests, SetRole(r) \/ DisableUser(r)
  PROVE  AccountsStep /\ RequestsStep /\ RestStep
<1> DEFINE u == request[r].work.user
<1>t. account \in [Users -> Rows]
  BY DEF AccessInv, Tables
<1>1. RestStep /\ given' = given
  BY SMTT(40) DEF SetRole, DisableUser, RestStep, AccessInv, Tables
<1>2. CASE account' = account
  <2>1. RequestsStep
    BY HandledLemma DEF SetRole, DisableUser
  <2> QED BY <1>1, <1>2, <2>1, SameAccountsLemma
<1>3. CASE SetRole(r) /\ account' # account
  <2>1. RequestsStep /\ u \in Users /\ request[r].work.role \in UserRoles
    BY SMTT(40), <1>3, HandledLemma, WorkFacts, RoleFacts DEF SetRole, Users
  <2>2. account[u].exists
        /\ account' = [account EXCEPT ![u] =
                        [account[u] EXCEPT !.role = request[r].work.role, !.locked = TRUE]]
    BY <1>3, <1>t, <2>1 DEF SetRole
  <2> DEFINE new == [account[u] EXCEPT !.role = request[r].work.role, !.locked = TRUE]
  <2>3. Regarded(account[u], new) /\ new \in Rows
    BY ZenonT(60), <2>1, <2>2, <1>t, EditLemma DEF Regarded
  <2> HIDE DEF new
  <2>4. account' = [account EXCEPT ![u] = new]
    BY <2>2 DEF new
  <2> QED BY <2>1, <2>3, <2>4, <1>1, AccountLemma
<1>4. CASE DisableUser(r) /\ account' # account
  <2>1. RequestsStep /\ u \in Users /\ request[r].work.enabled \in BOOLEAN
    BY <1>4, HandledLemma, WorkFacts DEF DisableUser
  <2>2. account[u].exists
        /\ account' = [account EXCEPT ![u] = [account[u] EXCEPT !.enabled = request[r].work.enabled]]
    BY <1>4, <1>t, <2>1 DEF DisableUser
  <2> DEFINE new == [account[u] EXCEPT !.enabled = request[r].work.enabled]
  <2>3. Regarded(account[u], new) /\ new \in Rows
    BY <2>1, <2>2, <1>t, EditLemma DEF Regarded
  <2> HIDE DEF new
  <2>4. account' = [account EXCEPT ![u] = new]
    BY <2>2 DEF new
  <2> QED BY <2>1, <2>3, <2>4, <1>1, AccountLemma
<1> QED BY <1>2, <1>3, <1>4

LEMMA OtherHandlersLemma ==
  ASSUME AccessInv, NEW r \in Requests, ShowPage(r) \/ CreateTokenWeb(r) \/ RevokeTokenWeb(r)
  PROVE  AccountsStep /\ RequestsStep /\ RestStep
<1>1. RequestsStep
  BY HandledLemma DEF ShowPage, CreateTokenWeb, RevokeTokenWeb
<1>2. AccountsStep
  BY SameAccountsLemma DEF ShowPage, CreateTokenWeb, RevokeTokenWeb
<1>3. CASE ShowPage(r)
  BY <1>1, <1>2, <1>3 DEF ShowPage, RestStep, AccessInv, Tables
<1>4. CASE CreateTokenWeb(r)
  <2>1. request[r].work.token \in Tokens /\ request[r].work.role \in DOMAIN Level
    BY <1>4, HandledLemma, WorkFacts, RoleFacts DEF CreateTokenWeb
  <2>2. token \in [Tokens -> [role : {"none"} \cup DOMAIN Level, enabled : BOOLEAN]]
    BY DEF AccessInv, Tables
  <2>3. [role |-> request[r].work.role, enabled |-> TRUE]
          \in [role : {"none"} \cup DOMAIN Level, enabled : BOOLEAN]
    BY <2>1
  <2>4. token' \in [Tokens -> [role : {"none"} \cup DOMAIN Level, enabled : BOOLEAN]]
    BY <1>4, <2>1, <2>2, <2>3 DEF CreateTokenWeb
  <2>5. member' = member
    BY <1>4 DEF CreateTokenWeb
  <2> QED BY <1>1, <1>2, <2>4, <2>5 DEF RestStep, AccessInv, Tables
<1>5. CASE RevokeTokenWeb(r)
  <2>1. token \in [Tokens -> [role : {"none"} \cup DOMAIN Level, enabled : BOOLEAN]]
    BY DEF AccessInv, Tables
  <2>2. token' \in [Tokens -> [role : {"none"} \cup DOMAIN Level, enabled : BOOLEAN]]
    BY <1>5, <2>1 DEF RevokeTokenWeb
  <2>3. member' = member
    BY <1>5 DEF RevokeTokenWeb
  <2> QED BY <1>1, <1>2, <2>2, <2>3 DEF RestStep, AccessInv, Tables
<1> QED BY <1>3, <1>4, <1>5

LEMMA BrowserLemma ==
  ASSUME AccessInv, NEW r \in Requests, NEW b \in Browsers, ByBrowser(r, b)
  PROVE  AccountsStep /\ RequestsStep /\ RestStep
<1>t. /\ account \in [Users -> Rows] /\ browser \in [Browsers -> Users \cup {NoUser}]
      /\ member \in [HubUsers -> Memberships]
  BY DEF AccessInv, Tables
<1>u. HubUsers \subseteq Users /\ LocalUsers \subseteq Users
  BY DEF Users
<1>1. AccountsStep
  BY SameAccountsLemma DEF ByBrowser, LoginLocal, CallbackReads, Logout, Admit
<1>2. RestStep
  BY DEF ByBrowser, LoginLocal, CallbackReads, Logout, Admit, RestStep, AccessInv, Tables
<1>3. ASSUME NEW u \in LocalUsers, LoginLocal(r, b, u) PROVE RequestsStep
  BY <1>3, <1>u, AnsweredLemma DEF LoginLocal
<1>4. ASSUME NEW u \in HubUsers, CallbackReads(r, b, u) PROVE RequestsStep
  <2> DEFINE role == RoleFromGitHub(member[u])
             q == [phase |-> "read", by |-> b, user |-> u, role |-> role, row |-> account[u]]
  <2>1. Taken(r, q) /\ role \in UserRoles
    BY <1>4, <1>t, RoleFacts, AccessAssumption DEF CallbackReads
  <2>2. q \in Reading /\ q.row = account[q.user]
    BY <2>1, <1>t, <1>u DEF Reading
  <2> HIDE DEF q
  <2> QED BY <2>1, <2>2, FlightFacts, TakenLemma
<1>5. CASE Logout(r, b)
  BY <1>1, <1>2, <1>5, AnsweredLemma DEF Logout
<1>6. ASSUME NEW work \in Work, NEW minimum, Admit(r, b, minimum, work) PROVE RequestsStep
  <2> DEFINE u == browser[b]
             q == [phase |-> "admitted", by |-> b, user |-> u, work |-> work]
  <2>1. CASE Answered(r, b, u) \/ Answered(r, b, NoUser)
    BY <2>1, <1>t, AnsweredLemma
  <2>2. CASE u # NoUser /\ Taken(r, q)
    <3>1. q \in Admitted
      BY <2>2, <1>t DEF Admitted
    <3> HIDE DEF q
    <3> QED BY <2>2, <3>1, FlightFacts, TakenLemma
  <2> QED BY <1>6, <2>1, <2>2 DEF Admit
<1> QED BY <1>1, <1>2, <1>3, <1>4, <1>5, <1>6 DEF ByBrowser

LEMMA ApiLemma ==
  ASSUME AccessInv, ByToken \/ ByCommand \/ \E u \in HubUsers : Join(u)
  PROVE  AccountsStep /\ RequestsStep /\ RestStep
<1>t. /\ account \in [Users -> Rows]
      /\ token \in [Tokens -> [role : {"none"} \cup DOMAIN Level, enabled : BOOLEAN]]
  BY DEF AccessInv, Tables
<1>u. LocalUsers \subseteq Users /\ "admin" \in UserRoles /\ "readonly" \in UserRoles
      /\ "admin" \in DOMAIN Level
  BY RoleFacts DEF Users
<1>1. RequestsStep
  BY SameRequestsLemma
     DEF ByToken, ByCommand, Join, CreateUser, PatchEnabled, PatchRole, CreateToken, RevokeToken,
         UserCreateCommand, UserDisableCommand, TokenCreateCommand, TokenRevokeCommand
<1>2. \A u \in Users, role \in UserRoles : Regarded(account[u], Row(role, TRUE))
  BY <1>t, RowFacts, EditLemma DEF Regarded
<1>3. ASSUME NEW u \in LocalUsers, NEW role \in UserRoles, NEW update,
             CreateUser(u, role, update) \/ UserCreateCommand(u, role, update)
      PROVE  AccountsStep /\ RestStep
  <2>1. account' = [account EXCEPT ![u] = Row(role, TRUE)] /\ UNCHANGED <<member, token, given>>
    BY <1>3 DEF CreateUser, UserCreateCommand
  <2>2. Row(role, TRUE) \in Rows
    BY RowFacts
  <2> QED BY <2>1, <2>2, <1>2, <1>u, AccountLemma DEF RestStep, AccessInv, Tables
<1>4. ASSUME NEW u \in LocalUsers, NEW role \in UserRoles, PatchRole(u, role)
      PROVE  AccountsStep /\ RestStep
  <2> DEFINE new == [account[u] EXCEPT !.role = role, !.locked = TRUE]
  <2>1. account' = [account EXCEPT ![u] = new] /\ UNCHANGED <<member, token, given>>
        /\ account[u].exists
    BY <1>4, <1>t, <1>u DEF PatchRole
  <2>2. account[u] \in Rows
    BY <1>t, <1>u
  <2>3. Regarded(account[u], new)
    BY <2>1, <2>2, EditLemma, Zenon
  <2>4. new \in Rows
    BY <2>3 DEF Regarded
  <2> HIDE DEF new
  <2> QED BY <2>1, <2>3, <2>4, <1>u, AccountLemma DEF RestStep, AccessInv, Tables
<1>5. ASSUME NEW u \in LocalUsers, NEW enabled \in BOOLEAN,
             PatchEnabled(u, enabled) \/ (UserDisableCommand(u) /\ enabled = FALSE)
      PROVE  AccountsStep /\ RestStep
  <2> DEFINE new == [account[u] EXCEPT !.enabled = enabled]
  <2>1. account' = [account EXCEPT ![u] = new] /\ UNCHANGED <<member, token, given>>
        /\ account[u].exists
    BY <1>5, <1>t, <1>u DEF PatchEnabled, UserDisableCommand
  <2>2. account[u] \in Rows
    BY <1>t, <1>u
  <2>3. Regarded(account[u], new)
    BY <2>1, <2>2, EditLemma, Zenon
  <2>4. new \in Rows
    BY <2>3 DEF Regarded
  <2> HIDE DEF new
  <2> QED BY <2>1, <2>3, <2>4, <1>u, AccountLemma DEF RestStep, AccessInv, Tables
<1>6. ASSUME NEW t \in Tokens, CreateToken(t, "admin") \/ RevokeToken(t)
                               \/ TokenCreateCommand(t, "admin") \/ TokenRevokeCommand(t)
      PROVE  AccountsStep /\ RestStep
  <2>1. AccountsStep
    BY <1>6, SameAccountsLemma DEF CreateToken, RevokeToken, TokenCreateCommand, TokenRevokeCommand
  <2>2. token' \in [Tokens -> [role : {"none"} \cup DOMAIN Level, enabled : BOOLEAN]]
    <3>1. [role |-> "admin", enabled |-> TRUE] \in [role : {"none"} \cup DOMAIN Level, enabled : BOOLEAN]
      BY <1>u
    <3>2. CASE token' = [token EXCEPT ![t] = [role |-> "admin", enabled |-> TRUE]]
      BY <3>1, <3>2, <1>t
    <3>3. CASE token' = [token EXCEPT ![t].enabled = FALSE]
      BY <3>3, <1>t
    <3> QED BY <1>6, <3>2, <3>3
            DEF CreateToken, RevokeToken, TokenCreateCommand, TokenRevokeCommand
  <2>3. member' = member
    BY <1>6 DEF CreateToken, RevokeToken, TokenCreateCommand, TokenRevokeCommand
  <2> QED BY <2>1, <2>2, <2>3 DEF RestStep, AccessInv, Tables
<1>7. ASSUME NEW u \in HubUsers, Join(u) PROVE AccountsStep /\ RestStep
  BY <1>7, SameAccountsLemma DEF Join, RestStep, AccessInv, Tables
<1>8. CASE ByToken
  BY <1>8, <1>1, <1>3, <1>4, <1>5, <1>6, <1>u DEF ByToken
<1>9. CASE ByCommand
  BY <1>9, <1>1, <1>3, <1>5, <1>6, <1>u DEF ByCommand
<1> QED BY <1>1, <1>7, <1>8, <1>9

LEMMA AccessInvStep == AccessInv /\ [AccessNext]_accessVars => AccessInv'
<1> SUFFICES ASSUME AccessInv, [AccessNext]_accessVars PROVE AccessInv'
  OBVIOUS
<1>1. CASE UNCHANGED accessVars
  BY <1>1 DEF accessVars, AccessInv, Tables, ReadsPersist, RolesHaveASource
<1>2. CASE AccessNext
  <2>1. AccountsStep /\ RequestsStep /\ RestStep
    BY <1>2, CommitLemma, UnlockLemma, EditsLemma, OtherHandlersLemma, BrowserLemma, ApiLemma
       DEF AccessNext
  <2> QED BY <2>1, StepLemma
<1> QED BY <1>1, <1>2

-----------------------------------------------------------------------------
LEMMA AccessInvariant == AccessSpec => []AccessInv
  BY AccessInvInit, AccessInvStep, PTL DEF AccessSpec

\* Every row, session, request and token is one the code can hold.
THEOREM AccessTypeCorrect == AccessSpec => []AccessTypeOK
<1>1. AccessInv => AccessTypeOK
  <2> SUFFICES ASSUME AccessInv PROVE AccessTypeOK
    OBVIOUS
  <2>1. \A u \in Users : account[u] = NoAccount
          \/ account[u] \in [exists : {TRUE}, role : UserRoles, locked : BOOLEAN, enabled : BOOLEAN]
    BY DEF AccessInv, Tables, Rows
  <2>2. \A r \in Requests : request[r].phase \in {"none", "admitted", "read"}
    BY DEF AccessInv, Tables, OpenRequests, NoRequest, Admitted, Reading
  <2> QED BY <2>1, <2>2 DEF AccessInv, Tables, AccessTypeOK
<1> QED BY <1>1, AccessInvariant, PTL

\* github_oauth_callback reads, waits for nothing more, and commits; the role
\* pages and the API lock what they write.  So the role of an account that nobody
\* locked is what a login took from GitHub.
THEOREM RolesComeFromGitHub == AccessSpec => []RolesHaveASource
<1>1. AccessInv => RolesHaveASource
  BY DEF AccessInv
<1> QED BY <1>1, AccessInvariant, PTL

\* admin_disable_user compares the account with the session's, so whoever
\* disables the last administrator is not one any more.
THEOREM LastAdminStays == AccessSpec => LastAdminLeaves
<1>1. AccessInv /\ [AccessNext]_accessVars =>
        [\A r \in Requests :
           /\ Handles(r, "disable") /\ request'[r] # request[r]
           /\ Administrators # {} /\ Administrators' = {}
           => ~IsAdmin(request[r].user)]_accessVars
  <2> SUFFICES ASSUME AccessInv, AccessNext, NEW r \in Requests,
                      Handles(r, "disable"), request'[r] # request[r], Administrators' = {},
                      IsAdmin(request[r].user)
               PROVE  FALSE
    BY DEF accessVars
  <2>t. account \in [Users -> Rows] /\ request \in [Requests -> OpenRequests]
    BY DEF AccessInv, Tables
  <2>1. request[r] # NoRequest /\ request[r].phase = "admitted" /\ request[r].work.name = "disable"
    BY FlightFacts DEF Handles
  <2>2. DisableUser(r)
    <3>1. \A x \in Requests : request'[x] # request[x] /\ (\A y \in Requests \ {x} : request'[y] = request[y])
            => x = r
      OBVIOUS
    <3>2. ~ ByToken /\ ~ ByCommand /\ ~ \E u \in HubUsers : Join(u)
      BY ZenonT(60) DEF ByToken, ByCommand, Join, CreateUser, PatchEnabled, PatchRole, CreateToken, RevokeToken,
             UserCreateCommand, UserDisableCommand, TokenCreateCommand, TokenRevokeCommand
    <3>3. ASSUME NEW x \in Requests, NEW q, request' = [request EXCEPT ![x] = q] PROVE x = r
      BY <3>3, <2>t
    <3>4. ASSUME NEW x \in Requests, NEW b \in Browsers, request[x] = NoRequest, ByBrowser(x, b)
          PROVE  FALSE
      <4>1. PICK q : request' = [request EXCEPT ![x] = q]
        BY <3>4 DEF ByBrowser, LoginLocal, CallbackReads, Logout, Admit, Answered, Taken
      <4> QED BY <4>1, <3>3, <3>4, <2>1
    <3>5. ASSUME NEW x \in Requests,
                 ShowPage(x) \/ CallbackCommits(x) \/ SetRole(x) \/ UnlockUser(x)
                 \/ CreateTokenWeb(x) \/ RevokeTokenWeb(x)
          PROVE  FALSE
      <4>1. request' = [request EXCEPT ![x] = NoRequest]
        BY <3>5 DEF ShowPage, CallbackCommits, SetRole, UnlockUser, CreateTokenWeb, RevokeTokenWeb,
                    Handled, Answered
      <4>2. x = r
        BY <4>1, <3>3
      <4> QED BY <4>2, <3>5, <2>1
              DEF ShowPage, CallbackCommits, SetRole, UnlockUser, CreateTokenWeb, RevokeTokenWeb, Handles
    <3>6. ASSUME NEW x \in Requests, DisableUser(x) PROVE x = r
      BY <3>6, <3>3 DEF DisableUser, Handled, Answered
    <3> QED BY <3>2, <3>4, <3>5, <3>6 DEF AccessNext
  <2> DEFINE u == request[r].work.user
             me == request[r].user
  <2>3. u \in Users /\ me \in Users /\ request[r].work.enabled \in BOOLEAN
    BY <2>2, HandledLemma, WorkFacts DEF DisableUser
  <2>4. account[me].exists /\ account[me].enabled /\ account[me].role = "admin"
    BY DEF IsAdmin, Enabled
  <2>5. account'[me].exists /\ account'[me].enabled /\ account'[me].role = "admin"
    <3>1. CASE account' = account
      BY <3>1, <2>4
    <3>2. CASE account' # account
      <4>1. /\ request[r].work.enabled \/ u # me
            /\ account' = [account EXCEPT ![u].enabled = request[r].work.enabled]
        BY <3>2, <2>2 DEF DisableUser
      <4>2. CASE u # me
        BY <4>1, <4>2, <2>3, <2>4, <2>t
      <4>3. CASE u = me /\ request[r].work.enabled
        <5>1. account'[me] = [account[me] EXCEPT !.enabled = request[r].work.enabled]
          BY <4>1, <4>3, <2>3, <2>t
        <5>2. account[me] \in [exists : {TRUE}, role : UserRoles, locked : BOOLEAN, enabled : BOOLEAN]
          BY <2>3, <2>4, <2>t, RowFacts
        <5> QED BY <5>1, <5>2, <4>3, <2>4
      <4> QED BY <4>1, <4>2, <4>3, <2>3
    <3> QED BY <3>1, <3>2
  <2> QED BY <2>3, <2>5 DEF Administrators, IsAdmin, Enabled
<1> QED BY <1>1, AccessInvariant, PTL DEF AccessSpec, LastAdminLeaves

\* A row of the tests table is resolved when its coordinate leaves nothing open.
TestsOK == \A c \in Specs : test[c].resolved <=> test[c].exists /\ c \in Pinned

HadOK == \A l \in Loose : now[l] # NoSpec => now[l] \in had[l]

\* A request that is to write a lineage has seen the recipe, and what it resolved to;
\* one that is to write or run a matrix has found it.
FlightOK(f, tests, known, rows) ==
  /\ f \in TestFlights /\ f.from # NoSpec => tests[f.from].exists /\ f.target \in known[f.from]
  /\ f \in MatrixFlights => /\ f.recipe = NoMatrix \/ f.recipe \in rows
                            /\ f.hits \subseteq rows
  /\ f \in QueueFlights => f.matrix \in rows

FlightsOK == \A q \in Routes : FlightOK(route[q], test, had, DOMAIN matrix)

RecipeInv ==
  RecipesTypeOK /\ TestsOK /\ HadOK /\ RunsArePinned /\ LineageIsTrue /\ FlightsOK

-----------------------------------------------------------------------------
\* The specs that are open and the pinned ones are told apart.
LEMMA SpecsApart ==
  /\ Loose \cap Pinned = {} /\ NoSpec \notin Specs /\ NoSpec \notin Loose /\ NoSpec \notin Pinned
  /\ Loose \subseteq Specs /\ Pinned \subseteq Specs
BY RecipesAssumption DEF Specs

\* A spec resolves to a pinned one, that it is then known to have resolved to.
LEMMA ResolveLemma ==
  ASSUME RecipeInv, NEW c \in Specs, Resolve(c) # NoSpec
  PROVE  Resolve(c) \in Pinned /\ Resolve(c) \in Specs
         /\ (c \in Loose => Resolve(c) \in had[c])
BY SpecsApart DEF RecipeInv, RecipesTypeOK, HadOK, Resolve, Specs

\* A test row is found or made.
LEMMA FoundLemma ==
  ASSUME RecipeInv, NEW c \in Specs
  PROVE  /\ Found(c) \in TestRows /\ Found(c).exists /\ (Found(c).resolved <=> c \in Pinned)
         /\ Found(c).from = test[c].from \/ Found(c).from = NoSpec
         /\ Runnable(c) <=> c \in Pinned
<1>1. test[c] \in TestRows
  BY DEF RecipeInv, RecipesTypeOK
<1>2. CASE test[c].exists
  BY <1>1, <1>2 DEF Found, Runnable, RecipeInv, TestsOK
<1>3. CASE ~test[c].exists
  <2>1. CASE c \in Pinned
    <3>1. (c \in Pinned) = TRUE
      BY <2>1
    <3>2. Found(c) = [exists |-> TRUE, resolved |-> TRUE, from |-> NoSpec]
      BY <1>3, <3>1, Zenon DEF Found, NoTest
    <3> QED BY <2>1, <3>2 DEF Runnable, TestRows
  <2>2. CASE c \notin Pinned
    <3>1. (c \in Pinned) = FALSE
      BY <2>2
    <3>2. Found(c) = [exists |-> TRUE, resolved |-> FALSE, from |-> NoSpec]
      BY <1>3, <3>1 DEF Found, NoTest
    <3> QED BY <2>2, <3>2 DEF Runnable, TestRows
  <2> QED BY <2>1, <2>2
<1> QED BY <1>2, <1>3

\* What every way to write a test row and to run it comes to.
LEMMA RowWritten ==
  ASSUME RecipeInv, NEW c \in Specs, NEW from \in Loose \cup {NoSpec},
         from # NoSpec => test[from].exists /\ c \in had[from],
         NEW row \in TestRows, row.exists, row.resolved <=> c \in Pinned,
         row.from = test[c].from \/ row.from = from \/ row.from = NoSpec,
         test' = [test EXCEPT ![c] = row],
         ran' = ran \/ (c \in Pinned /\ ran' = ran \cup {c}),
         UNCHANGED <<now, had>>
  PROVE  /\ TestsOK' /\ HadOK' /\ RunsArePinned' /\ LineageIsTrue'
         /\ test' \in [Specs -> TestRows] /\ ran' \subseteq Specs
         /\ \A d \in Specs : test[d].exists => test'[d].exists
<1>1. /\ test \in [Specs -> TestRows] /\ ran \subseteq Specs /\ had \in [Loose -> SUBSET Pinned]
      /\ test' \in [Specs -> TestRows]
  BY DEF RecipeInv, RecipesTypeOK
<1>2. /\ test'[c] = row /\ \A d \in Specs : d # c => test'[d] = test[d]
      /\ \A d \in Specs : test[d].exists => test'[d].exists
  BY <1>1
<1>3. TestsOK'
  BY <1>2 DEF TestsOK, RecipeInv
<1>4. HadOK'
  BY DEF HadOK, RecipeInv
<1>5. RunsArePinned'
  BY <1>1, <1>2, <1>3 DEF RunsArePinned, RecipeInv, TestsOK
<1>6. LineageIsTrue'
  <2> SUFFICES ASSUME NEW d \in Specs, test'[d].from # NoSpec
               PROVE  /\ test'[test'[d].from].exists /\ ~test'[test'[d].from].resolved
                      /\ d \in had[test'[d].from]
    BY DEF LineageIsTrue
  <2> DEFINE r == test'[d].from
  <2>1. r \in Loose /\ r \in Specs /\ r \notin Pinned
    BY <1>1, SpecsApart DEF TestRows
  <2>2. test[r].exists /\ d \in had[r]
    <3>1. CASE d = c /\ r = from /\ from # NoSpec
      BY <3>1
    <3>2. CASE r = test[d].from
      BY <3>2 DEF RecipeInv, LineageIsTrue
    <3> QED BY <1>2, <3>1, <3>2
  <2> QED BY <1>2, <1>3, <2>1, <2>2 DEF TestsOK
<1> QED BY <1>1, <1>2, <1>3, <1>4, <1>5, <1>6

\* What a request has seen stays there.
LEMMA FlightStays ==
  ASSUME NEW f \in Flights, NEW T, NEW T2, NEW H, NEW H2, NEW D, NEW D2, FlightOK(f, T, H, D),
         \A d \in Specs : T[d].exists => T2[d].exists,
         \A l \in Loose : H[l] \subseteq H2[l],
         D \subseteq D2
  PROVE  FlightOK(f, T2, H2, D2)
<1>1. f \in TestFlights /\ f.from # NoSpec => f.from \in Loose /\ f.from \in Specs
  BY SpecsApart DEF TestFlights
<1> QED BY <1>1 DEF FlightOK

\* A step that takes a request further, or none.
LEMMA Further ==
  ASSUME RecipeInv, NEW q \in Routes, NEW f \in Flights,
         FlightOK(f, test', had', DOMAIN matrix'),
         route' = [route EXCEPT ![q] = f],
         \A d \in Specs : test[d].exists => test'[d].exists,
         \A l \in Loose : had[l] \subseteq had'[l],
         DOMAIN matrix \subseteq DOMAIN matrix'
  PROVE  route' \in [Routes -> Flights] /\ FlightsOK'
<1>1. route \in [Routes -> Flights] /\ \A p \in Routes : FlightOK(route[p], test, had, DOMAIN matrix)
  BY DEF RecipeInv, RecipesTypeOK, FlightsOK
<1>2. ASSUME NEW p \in Routes
      PROVE  FlightOK(route'[p], test', had', DOMAIN matrix')
  <2>1. route'[p] = route[p] \/ route'[p] = f
    BY <1>1
  <2>2. FlightOK(route[p], test', had', DOMAIN matrix')
    <3>1. route[p] \in Flights /\ FlightOK(route[p], test, had, DOMAIN matrix)
      BY <1>1
    <3> QED BY <3>1, FlightStays
  <2> QED BY <2>1, <2>2
<1> QED BY <1>1, <1>2 DEF FlightsOK

\* A step that takes no request further.
LEMMA NoneFurther ==
  ASSUME RecipeInv, route' = route,
         \A d \in Specs : test[d].exists => test'[d].exists,
         \A l \in Loose : had[l] \subseteq had'[l],
         DOMAIN matrix \subseteq DOMAIN matrix'
  PROVE  route' \in [Routes -> Flights] /\ FlightsOK'
<1>1. route \in [Routes -> Flights] /\ \A p \in Routes : FlightOK(route[p], test, had, DOMAIN matrix)
  BY DEF RecipeInv, RecipesTypeOK, FlightsOK
<1>2. ASSUME NEW p \in Routes
      PROVE  FlightOK(route[p], test', had', DOMAIN matrix')
  <2>1. route[p] \in Flights /\ FlightOK(route[p], test, had, DOMAIN matrix)
    BY <1>1
  <2> QED BY <2>1, FlightStays
<1> QED BY <1>1, <1>2 DEF FlightsOK

\* Which request is which.
LEMMA FlightKinds ==
  /\ Idle \in Flights /\ Idle \notin TestFlights /\ Idle \notin MatrixFlights /\ Idle \notin QueueFlights
  /\ \A f \in TestFlights : f \in Flights /\ f \notin MatrixFlights /\ f \notin QueueFlights
  /\ \A f \in MatrixFlights : f \in Flights /\ f \notin TestFlights /\ f \notin QueueFlights
  /\ \A f \in QueueFlights : f \in Flights /\ f \notin TestFlights /\ f \notin MatrixFlights
  /\ \A f \in Flights : /\ f.phase = "test" => f \in TestFlights
                        /\ f.phase = "matrix" => f \in MatrixFlights
                        /\ f.phase = "queue" => f \in QueueFlights
BY DEF Flights, Idle, TestFlights, MatrixFlights, QueueFlights

LEMMA TestFlight ==
  ASSUME NEW target \in Specs, NEW found \in BOOLEAN, NEW from \in Loose \cup {NoSpec},
         NEW run \in BOOLEAN, NEW f,
         f = [phase |-> "test", target |-> target, found |-> found, from |-> from, run |-> run],
         NEW T, NEW H, NEW D, from # NoSpec => T[from].exists /\ target \in H[from]
  PROVE  f \in TestFlights /\ FlightOK(f, T, H, D)
<1>1. f \in TestFlights
  BY DEF TestFlights
<1> QED BY <1>1, FlightKinds DEF FlightOK

\* The rows of the requests and the lookups lie in the table.
LEMMA RowOf ==
  ASSUME RecipeInv, NEW i \in DOMAIN matrix
  PROVE  /\ matrix[i].config \in Specs /\ matrix[i].resolved \in BOOLEAN /\ i \in Nat
         /\ matrix[i] \in MatrixRows /\ i # NoMatrix
<1>1. matrix \in Seq(MatrixRows)
  BY DEF RecipeInv, RecipesTypeOK
<1>2. matrix[i] \in MatrixRows /\ i \in 1..Len(matrix)
  BY <1>1
<1> QED BY <1>1, <1>2 DEF MatrixRows, NoMatrix

LEMMA SnapshotsLie ==
  ASSUME RecipeInv, NEW c
  PROVE  Snapshots(c) \subseteq DOMAIN matrix /\ Snapshots(c) \in SUBSET Nat
BY DEF Snapshots, RecipeInv, RecipesTypeOK

LEMMA RowAdded ==
  ASSUME NEW M \in Seq(MatrixRows), NEW row \in MatrixRows
  PROVE  /\ Append(M, row) \in Seq(MatrixRows) /\ DOMAIN M \subseteq DOMAIN Append(M, row)
         /\ Len(Append(M, row)) \in DOMAIN Append(M, row) /\ Len(Append(M, row)) \in Nat
OBVIOUS

LEMMA SnapshotRow ==
  ASSUME NEW M \in Seq(MatrixRows), NEW c \in Specs, NEW hits, hits \subseteq DOMAIN M
  PROVE  /\ WithSnapshot(M, c, hits) \in Seq(MatrixRows)
         /\ DOMAIN M \subseteq DOMAIN WithSnapshot(M, c, hits)
         /\ SnapshotId(WithSnapshot(M, c, hits), hits) \in DOMAIN WithSnapshot(M, c, hits)
         /\ SnapshotId(WithSnapshot(M, c, hits), hits) \in Nat
<1>1. Hashed(c, TRUE) \in MatrixRows
  BY DEF Hashed, MatrixRow, MatrixRows
<1>2. CASE hits = {}
  BY <1>1, <1>2, RowAdded DEF WithSnapshot, SnapshotId
<1>3. CASE hits # {}
  <2>1. PICK id : id = CHOOSE i \in hits : TRUE
    OBVIOUS
  <2>2. id \in hits
    BY <1>3, <2>1
  <2>3. id \in DOMAIN M /\ id \in Nat
    BY <2>2
  <2>4. WithSnapshot(M, c, hits) = M /\ SnapshotId(M, hits) = id
    BY <1>3, <2>1 DEF WithSnapshot, SnapshotId
  <2> QED BY <2>3, <2>4
<1> QED BY <1>2, <1>3

-----------------------------------------------------------------------------
\* The table of tests and what has run are left alone.
LEMMA TestsAlone ==
  ASSUME RecipeInv, UNCHANGED <<now, had, test, ran>>,
         matrix' \in Seq(MatrixRows), Len(matrix') <= MaxMatrices,
         route' \in [Routes -> Flights], FlightsOK'
  PROVE  RecipeInv'
BY DEF RecipeInv, RecipesTypeOK, TestsOK, HadOK, RunsArePinned, LineageIsTrue

\* A request is only taken further.
LEMMA OnlyFurther ==
  ASSUME RecipeInv, UNCHANGED <<now, had, test, matrix, ran>>, NEW q \in Routes,
         NEW f \in Flights, FlightOK(f, test, had, DOMAIN matrix),
         route' = [route EXCEPT ![q] = f]
  PROVE  RecipeInv'
<1>1. /\ FlightOK(f, test', had', DOMAIN matrix')
      /\ \A d \in Specs : test[d].exists => test'[d].exists
      /\ \A l \in Loose : had[l] \subseteq had'[l]
      /\ DOMAIN matrix \subseteq DOMAIN matrix'
  OBVIOUS
<1>2. route' \in [Routes -> Flights] /\ FlightsOK'
  BY <1>1, Further
<1>3. matrix' \in Seq(MatrixRows) /\ Len(matrix') <= MaxMatrices
  BY DEF RecipeInv, RecipesTypeOK
<1> QED BY <1>2, <1>3, TestsAlone

\* A cell of a matrix run, a submitted run, or a command's.
LEMMA CellRun ==
  ASSUME RecipeInv, NEW c \in Specs, Runnable(c),
         test' = [test EXCEPT ![c] = Found(c)], ran' = ran \cup {c}, UNCHANGED <<now, had, route>>,
         matrix' \in Seq(MatrixRows), Len(matrix') <= MaxMatrices,
         DOMAIN matrix \subseteq DOMAIN matrix'
  PROVE  RecipeInv'
<1> DEFINE row == Found(c)
<1>1. /\ row \in TestRows /\ row.exists /\ (row.resolved <=> c \in Pinned) /\ c \in Pinned
      /\ row.from = test[c].from \/ row.from = NoSpec
  BY FoundLemma
<1> HIDE DEF row
<1>2. /\ TestsOK' /\ HadOK' /\ RunsArePinned' /\ LineageIsTrue'
      /\ test' \in [Specs -> TestRows] /\ ran' \subseteq Specs
      /\ \A d \in Specs : test[d].exists => test'[d].exists
  <2>1. test' = [test EXCEPT ![c] = row]
    BY DEF row
  <2>2. NoSpec \in Loose \cup {NoSpec}
    OBVIOUS
  <2> QED BY <1>1, <2>1, <2>2, RowWritten
<1>3. route' \in [Routes -> Flights] /\ FlightsOK'
  <2>1. \A l \in Loose : had[l] \subseteq had'[l]
    OBVIOUS
  <2> QED BY <1>2, <2>1, NoneFurther
<1>4. now' \in [Loose -> Pinned \cup {NoSpec}] /\ had' \in [Loose -> SUBSET Pinned]
  BY DEF RecipeInv, RecipesTypeOK
<1> QED BY <1>2, <1>3, <1>4 DEF RecipeInv, RecipesTypeOK

LEMMA WebStepKeeps ==
  ASSUME RecipeInv, NEW q \in Routes, WebStep(q)
  PROVE  RecipeInv'
<1>0. /\ route \in [Routes -> Flights] /\ matrix \in Seq(MatrixRows) /\ Len(matrix) <= MaxMatrices
      /\ FlightOK(route[q], test, had, DOMAIN matrix)
      /\ \A c \in Specs : test[c].exists \in BOOLEAN
  BY DEF RecipeInv, RecipesTypeOK, FlightsOK, TestRows
<1>1. ASSUME NEW spec \in Specs, NEW andRun \in BOOLEAN, SaveTest(q, spec, andRun)
      PROVE  RecipeInv'
  <2> DEFINE target == IF andRun THEN Resolve(spec) ELSE spec
             f == [phase |-> "test", target |-> target, found |-> test[target].exists,
                   from |-> NoSpec, run |-> andRun]
  <2>1. Take(q, f) /\ target # NoSpec
    BY <1>1 DEF SaveTest
  <2>2. target \in Specs
    BY <2>1, ResolveLemma
  <2>3. test[target].exists \in BOOLEAN /\ NoSpec \in Loose \cup {NoSpec}
    BY <1>0, <2>2
  <2>4. f \in TestFlights /\ FlightOK(f, test, had, DOMAIN matrix)
    <3> HIDE DEF target
    <3> QED BY <2>2, <2>3, TestFlight
  <2> HIDE DEF f
  <2> QED BY <2>1, <2>4, FlightKinds, OnlyFurther DEF Take
<1>2. ASSUME NEW l \in Loose, ResolveTest(q, l)
      PROVE  RecipeInv'
  <2> DEFINE target == Resolve(l)
             from == IF test[target].from = NoSpec THEN l ELSE NoSpec
             f == [phase |-> "test", target |-> target, found |-> test[target].exists,
                   from |-> from, run |-> FALSE]
  <2>1. Take(q, f) /\ target # NoSpec /\ test[l].exists
    BY <1>2 DEF ResolveTest
  <2>2. target \in Specs /\ target \in had[l]
    BY <2>1, ResolveLemma, SpecsApart
  <2>3. test[target].exists \in BOOLEAN /\ from \in Loose \cup {NoSpec} /\ FALSE \in BOOLEAN
        /\ (from # NoSpec => test[from].exists /\ target \in had[from])
    BY <1>0, <2>1, <2>2
  <2>4. f \in TestFlights /\ FlightOK(f, test, had, DOMAIN matrix)
    <3> HIDE DEF target, from
    <3> QED BY <2>2, <2>3, TestFlight
  <2> HIDE DEF f
  <2> QED BY <2>1, <2>4, FlightKinds, OnlyFurther DEF Take
<1>3. CASE CommitTest(q)
  <2> DEFINE f == route[q]
             c == f.target
             stored == (f.found \/ ~test[c].exists) /\ (f.run => Runnable(c))
             row == [Found(c) EXCEPT !.from = IF f.from # NoSpec THEN f.from ELSE @]
  <2>1. /\ f.phase = "test" /\ route' = [route EXCEPT ![q] = Idle] /\ UNCHANGED <<now, had, matrix>>
        /\ ~stored => test' = test /\ ran' = ran
        /\ stored => /\ test' = [test EXCEPT ![c] = row]
                     /\ ran' = ran \/ (Runnable(c) /\ ran' = ran \cup {c})
    BY <1>3 DEF CommitTest
  <2>2. /\ f \in TestFlights /\ c \in Specs /\ f.from \in Loose \cup {NoSpec}
        /\ f.from # NoSpec => test[f.from].exists /\ c \in had[f.from]
    <3>1. f \in TestFlights
      BY <1>0, <2>1, FlightKinds
    <3> QED BY <1>0, <3>1 DEF TestFlights, FlightOK
  <2>3. /\ row \in TestRows /\ row.exists /\ (row.resolved <=> c \in Pinned)
        /\ row.from = test[c].from \/ row.from = f.from \/ row.from = NoSpec
        /\ Runnable(c) => c \in Pinned
    <3>1. /\ Found(c) \in TestRows /\ Found(c).exists /\ (Found(c).resolved <=> c \in Pinned)
          /\ Found(c).from = test[c].from \/ Found(c).from = NoSpec
          /\ Runnable(c) <=> c \in Pinned
      BY <2>2, FoundLemma
    <3> QED BY <2>2, <3>1 DEF TestRows
  <2> HIDE DEF f, c, stored, row
  <2>4. /\ TestsOK' /\ HadOK' /\ RunsArePinned' /\ LineageIsTrue'
        /\ test' \in [Specs -> TestRows] /\ ran' \subseteq Specs
        /\ \A d \in Specs : test[d].exists => test'[d].exists
    <3>1. CASE stored
      BY <2>1, <2>2, <2>3, <3>1, RowWritten
    <3>2. CASE ~stored
      BY <2>1, <3>2 DEF RecipeInv, RecipesTypeOK, TestsOK, HadOK, RunsArePinned, LineageIsTrue
    <3> QED BY <3>1, <3>2
  <2>5. route' \in [Routes -> Flights] /\ FlightsOK'
    <3>1. /\ FlightOK(Idle, test', had', DOMAIN matrix') /\ \A l \in Loose : had[l] \subseteq had'[l]
          /\ DOMAIN matrix \subseteq DOMAIN matrix'
      BY <2>1, FlightKinds DEF FlightOK
    <3> QED BY <2>1, <2>4, <3>1, FlightKinds, Further
  <2> QED BY <2>1, <2>4, <2>5 DEF RecipeInv, RecipesTypeOK
<1>4. ASSUME NEW config \in Specs, NEW andRun \in BOOLEAN, SaveMatrix(q, config, andRun)
      PROVE  RecipeInv'
  <2> DEFINE pins == andRun /\ config \in Loose /\ Resolve(config) # NoSpec
             f == [phase |-> "matrix", recipe |-> NoMatrix, config |-> config,
                   content |-> IF pins THEN Resolve(config) ELSE NoSpec,
                   hits |-> IF pins THEN Snapshots(Resolve(config)) ELSE {},
                   run |-> andRun /\ (config \in Loose => pins)]
  <2>1. Take(q, f)
    BY <1>4 DEF SaveMatrix
  <2>2. f.recipe = NoMatrix /\ f.hits \subseteq DOMAIN matrix /\ f.phase = "matrix"
    BY SnapshotsLie
  <2>3. f \in MatrixFlights
    <3>1. (IF pins THEN Resolve(config) ELSE NoSpec) \in Specs \cup {NoSpec}
      BY ResolveLemma
    <3>2. (IF pins THEN Snapshots(Resolve(config)) ELSE {}) \in SUBSET Nat
      BY SnapshotsLie
    <3>3. (andRun /\ (config \in Loose => pins)) \in BOOLEAN
      OBVIOUS
    <3>4. NoMatrix \in Nat
      BY DEF NoMatrix
    <3> HIDE DEF pins
    <3> QED BY <3>1, <3>2, <3>3, <3>4 DEF MatrixFlights
  <2>4. FlightOK(f, test, had, DOMAIN matrix)
    BY <2>2, <2>3, FlightKinds DEF FlightOK
  <2> HIDE DEF f
  <2> QED BY <2>1, <2>3, <2>4, FlightKinds, OnlyFurther DEF Take
<1>5. ASSUME NEW i \in DOMAIN matrix, ResolveSavedMatrix(q, i)
      PROVE  RecipeInv'
  <2> DEFINE f == [phase |-> "matrix", recipe |-> i, config |-> matrix[i].config,
                   content |-> Resolve(matrix[i].config),
                   hits |-> Snapshots(Resolve(matrix[i].config)), run |-> FALSE]
  <2>1. Take(q, f) /\ Resolve(matrix[i].config) # NoSpec
    BY <1>5 DEF ResolveSavedMatrix, Resolvable
  <2>2. /\ matrix[i].config \in Specs /\ Resolve(matrix[i].config) \in Specs /\ i \in Nat
        /\ Snapshots(Resolve(matrix[i].config)) \subseteq DOMAIN matrix
        /\ Snapshots(Resolve(matrix[i].config)) \in SUBSET Nat
    BY <2>1, RowOf, ResolveLemma, SnapshotsLie
  <2>3. f \in MatrixFlights
    BY <2>2 DEF MatrixFlights
  <2>4. FlightOK(f, test, had, DOMAIN matrix)
    BY <2>2, <2>3, FlightKinds DEF FlightOK
  <2> HIDE DEF f
  <2> QED BY <2>1, <2>3, <2>4, FlightKinds, OnlyFurther DEF Take
<1>6. CASE CommitMatrix(q)
  <2> DEFINE f     == route[q]
             saved == IF f.recipe # NoMatrix THEN matrix
                      ELSE Append(matrix, Hashed(f.config, f.config \in Pinned))
             id    == IF f.recipe # NoMatrix THEN f.recipe ELSE Len(saved)
             after == IF f.content = NoSpec THEN saved ELSE WithSnapshot(saved, f.content, f.hits)
             toRun == IF f.content = NoSpec THEN id ELSE SnapshotId(after, f.hits)
             g     == IF f.run THEN [phase |-> "queue", matrix |-> toRun] ELSE Idle
  <2>1. /\ f.phase = "matrix" /\ Len(after) <= MaxMatrices /\ matrix' = after
        /\ route' = [route EXCEPT ![q] = g] /\ UNCHANGED <<now, had, test, ran>>
    BY <1>6 DEF CommitMatrix
  <2>2. /\ f \in MatrixFlights /\ f.config \in Specs /\ f.content \in Specs \cup {NoSpec}
        /\ f.recipe = NoMatrix \/ f.recipe \in DOMAIN matrix
        /\ f.hits \subseteq DOMAIN matrix
    <3>1. f \in MatrixFlights
      BY <1>0, <2>1, FlightKinds
    <3> QED BY <1>0, <3>1 DEF MatrixFlights, FlightOK
  <2>3. /\ saved \in Seq(MatrixRows) /\ DOMAIN matrix \subseteq DOMAIN saved
        /\ id \in DOMAIN saved /\ id \in Nat
    <3>1. Hashed(f.config, f.config \in Pinned) \in MatrixRows
      <4>1. (f.config \in Pinned) \in BOOLEAN
        OBVIOUS
      <4> HIDE DEF f
      <4> QED BY <2>2, <4>1 DEF Hashed, MatrixRow, MatrixRows
    <3> HIDE DEF f
    <3> QED BY <1>0, <2>2, <3>1, RowAdded, RowOf
  <2>4. /\ after \in Seq(MatrixRows) /\ DOMAIN matrix \subseteq DOMAIN after
        /\ toRun \in DOMAIN after /\ toRun \in Nat
    <3> HIDE DEF f, saved, id
    <3> QED BY <2>2, <2>3, SnapshotRow
  <2>5. g \in Flights /\ FlightOK(g, test', had', DOMAIN matrix')
    <3>1. [phase |-> "queue", matrix |-> toRun] \in QueueFlights
      BY <2>4 DEF QueueFlights
    <3> HIDE DEF f, toRun, after
    <3> QED BY <2>1, <2>4, <3>1, FlightKinds DEF FlightOK
  <2> HIDE DEF f, g, after
  <2>6. route' \in [Routes -> Flights] /\ FlightsOK'
    <3>1. /\ \A d \in Specs : test[d].exists => test'[d].exists
          /\ \A l \in Loose : had[l] \subseteq had'[l]
          /\ DOMAIN matrix \subseteq DOMAIN matrix'
      BY <2>1, <2>4
    <3> QED BY <2>1, <2>5, <3>1, Further
  <2> QED BY <2>1, <2>4, <2>6, TestsAlone
<1>7. ASSUME NEW i \in DOMAIN matrix, Queueing(q, i)
      PROVE  RecipeInv'
  <2> DEFINE target == Resolve(matrix[i].config)
             starts == matrix[i].resolved /\ target # NoSpec
             f == [phase |-> "test", target |-> target, found |-> test[target].exists,
                   from |-> NoSpec, run |-> TRUE]
             g == IF ~starts THEN Idle ELSE f
  <2>1. route' = [route EXCEPT ![q] = g] /\ UNCHANGED <<now, had, test, matrix, ran>>
    BY <1>7 DEF Queueing
  <2>2. g \in Flights /\ FlightOK(g, test, had, DOMAIN matrix)
    <3>1. CASE starts
      <4>1. target \in Specs
        BY <3>1, RowOf, ResolveLemma
      <4>2. test[target].exists \in BOOLEAN /\ NoSpec \in Loose \cup {NoSpec} /\ TRUE \in BOOLEAN
        BY <1>0, <4>1
      <4>3. f \in TestFlights /\ FlightOK(f, test, had, DOMAIN matrix)
        <5> HIDE DEF target
        <5> QED BY <4>1, <4>2, TestFlight
      <4> QED BY <3>1, <4>3, FlightKinds
    <3>2. CASE ~starts
      BY <3>2, FlightKinds DEF FlightOK
    <3> QED BY <3>1, <3>2
  <2> HIDE DEF g
  <2> QED BY <2>1, <2>2, OnlyFurther
<1>8. CASE QueueSaved(q)
  <2>1. route[q] \in QueueFlights /\ route[q].matrix \in DOMAIN matrix
    BY <1>0, <1>8, FlightKinds DEF QueueSaved, FlightOK
  <2> QED BY <1>7, <1>8, <2>1 DEF QueueSaved
<1>9. ASSUME NEW i \in DOMAIN matrix, RunMatrix(q, i)
      PROVE  RecipeInv'
  BY <1>7, <1>9 DEF RunMatrix
<1> QED BY <1>1, <1>2, <1>3, <1>4, <1>5, <1>6, <1>8, <1>9 DEF WebStep

\* A matrix row is written, and nothing is run.
LEMMA MatrixWritten ==
  ASSUME RecipeInv, matrix' \in Seq(MatrixRows), Len(matrix') <= MaxMatrices,
         DOMAIN matrix \subseteq DOMAIN matrix', UNCHANGED <<now, had, test, route, ran>>
  PROVE  RecipeInv'
<1>1. /\ \A d \in Specs : test[d].exists => test'[d].exists
      /\ \A l \in Loose : had[l] \subseteq had'[l] /\ route' = route
  OBVIOUS
<1>2. route' \in [Routes -> Flights] /\ FlightsOK'
  BY <1>1, NoneFurther
<1> QED BY <1>2, TestsAlone

\* The cell that a matrix run resolves and runs.
LEMMA CellRunsKeeps ==
  ASSUME RecipeInv, NEW config \in Specs, CellRuns(config), UNCHANGED <<now, had, route>>,
         matrix' \in Seq(MatrixRows), Len(matrix') <= MaxMatrices,
         DOMAIN matrix \subseteq DOMAIN matrix'
  PROVE  RecipeInv'
<1>1. PICK c : /\ c = Resolve(config) /\ c # NoSpec /\ Runnable(c)
               /\ test' = [test EXCEPT ![c] = Found(c)] /\ ran' = ran \cup {c}
  BY DEF CellRuns
<1>2. c \in Specs
  BY <1>1, ResolveLemma
<1> QED BY <1>1, <1>2, CellRun

LEMMA OtherStepKeeps ==
  ASSUME RecipeInv, ServerStep \/ CommandStep
  PROVE  RecipeInv'
<1>0. matrix \in Seq(MatrixRows) /\ Len(matrix) <= MaxMatrices /\ MaxMatrices \in Nat
  BY RecipesAssumption DEF RecipeInv, RecipesTypeOK
<1>1. ASSUME NEW row \in MatrixRows, Room(1), NEW M, M = Append(matrix, row)
      PROVE  M \in Seq(MatrixRows) /\ Len(M) <= MaxMatrices /\ DOMAIN matrix \subseteq DOMAIN M
  <2>1. Len(M) = Len(matrix) + 1
    BY <1>0, <1>1
  <2> QED BY <1>0, <1>1, <2>1, RowAdded DEF Room
<1>2. ASSUME NEW config \in Specs, ApiCreateMatrix(config) \/ CreateMatrixCommand(config)
      PROVE  RecipeInv'
  <2>1. Unhashed(config) \in MatrixRows
    BY DEF Unhashed, MatrixRow, MatrixRows
  <2>2. Room(1) /\ matrix' = Append(matrix, Unhashed(config)) /\ UNCHANGED <<now, had, test, route, ran>>
    BY <1>2 DEF ApiCreateMatrix, CreateMatrixCommand
  <2> QED BY <1>1, <2>1, <2>2, MatrixWritten
<1>3. ASSUME NEW config \in Specs, ApiRunInline(config)
      PROVE  RecipeInv'
  <2>1. Hashed(config, TRUE) \in MatrixRows
    BY DEF Hashed, MatrixRow, MatrixRows
  <2>2. /\ Room(1) /\ matrix' = Append(matrix, Hashed(config, TRUE)) /\ CellRuns(config)
        /\ UNCHANGED <<now, had, route>>
    BY <1>3 DEF ApiRunInline
  <2> QED BY <1>1, <2>1, <2>2, CellRunsKeeps
<1>4. ASSUME NEW config \in Specs, SubmitRun(config)
      PROVE  RecipeInv'
  BY <1>0, <1>4, CellRunsKeeps DEF SubmitRun
<1>5. ASSUME NEW i \in DOMAIN matrix, ApiRunMatrix(i)
      PROVE  RecipeInv'
  BY <1>0, <1>5, RowOf, CellRunsKeeps DEF ApiRunMatrix
<1>6. ASSUME NEW i \in DOMAIN matrix, RunMatrixCommand(i)
      PROVE  RecipeInv'
  <2>1. PICK c \in IF matrix[i].config \in Loose THEN Pinned ELSE {matrix[i].config} :
          Runnable(c) /\ test' = [test EXCEPT ![c] = Found(c)] /\ ran' = ran \cup {c}
    BY <1>6 DEF RunMatrixCommand
  <2>2. c \in Specs /\ UNCHANGED <<now, had, matrix, route>>
    BY <1>6, <2>1, RowOf, SpecsApart DEF RunMatrixCommand
  <2> QED BY <1>0, <2>1, <2>2, CellRun
<1>7. ASSUME NEW i \in DOMAIN matrix, NEW config \in Specs, ReplaceMatrixCommand(i, config)
      PROVE  RecipeInv'
  <2>1. matrix' = [matrix EXCEPT ![i].config = config] /\ UNCHANGED <<now, had, test, route, ran>>
    BY <1>7 DEF ReplaceMatrixCommand
  <2>2. [matrix[i] EXCEPT !.config = config] \in MatrixRows
    BY RowOf DEF MatrixRows
  <2>3. matrix' \in Seq(MatrixRows) /\ Len(matrix') = Len(matrix)
    <3> DEFINE n == Len(matrix)
               row == [matrix[i] EXCEPT !.config = config]
    <3>1. n \in Nat /\ matrix \in [1..n -> MatrixRows]
      BY <1>0
    <3>2. matrix' = [matrix EXCEPT ![i] = row]
      BY <2>1
    <3>3. matrix' \in [1..n -> MatrixRows]
      <4> HIDE DEF row, n
      <4> QED BY <2>2, <3>1, <3>2 DEF row
    <3> HIDE DEF n
    <3>4. matrix' \in Seq(MatrixRows) /\ Len(matrix') = n
      BY <3>1, <3>3
    <3> QED BY <3>4 DEF n
  <2> QED BY <1>0, <2>1, <2>3, MatrixWritten
<1>8. ASSUME NEW i \in DOMAIN matrix, Webhook(i)
      PROVE  RecipeInv'
  <2> DEFINE row  == matrix[i]
             c    == Resolve(row.config)
             hits == Snapshots(c)
             id   == IF row.resolved THEN i ELSE SnapshotId(matrix', hits)
  <2>1. /\ row.resolved => matrix' = matrix
        /\ ~row.resolved => /\ c # NoSpec /\ matrix' = WithSnapshot(matrix, c, hits)
                            /\ Len(matrix') <= MaxMatrices
        /\ CellRuns(matrix'[id].config) /\ UNCHANGED <<now, had, route>>
    BY <1>8 DEF Webhook, Resolvable
  <2>2. /\ matrix' \in Seq(MatrixRows) /\ Len(matrix') <= MaxMatrices
        /\ DOMAIN matrix \subseteq DOMAIN matrix' /\ id \in DOMAIN matrix'
    <3>1. CASE row.resolved
      BY <1>0, <2>1, <3>1
    <3>2. CASE ~row.resolved
      <4>1. c \in Specs /\ hits \subseteq DOMAIN matrix
        BY <2>1, <3>2, RowOf, ResolveLemma, SnapshotsLie
      <4> HIDE DEF c, hits
      <4> QED BY <1>0, <2>1, <3>2, <4>1, SnapshotRow
    <3> QED BY <3>1, <3>2
  <2> HIDE DEF id
  <2>3. matrix'[id].config \in Specs
    <3>1. matrix'[id] \in MatrixRows
      BY <2>2
    <3> QED BY <3>1 DEF MatrixRows
  <2> QED BY <2>1, <2>2, <2>3, CellRunsKeeps
<1> QED BY <1>2, <1>3, <1>4, <1>5, <1>6, <1>7, <1>8 DEF ServerStep, CommandStep

LEMMA RecipeStep ==
  ASSUME RecipeInv, [RecipesNext]_recipeVars
  PROVE  RecipeInv'
<1>0. /\ now \in [Loose -> Pinned \cup {NoSpec}] /\ had \in [Loose -> SUBSET Pinned]
      /\ matrix \in Seq(MatrixRows) /\ Len(matrix) <= MaxMatrices
  BY DEF RecipeInv, RecipesTypeOK
<1>1. ASSUME NEW l \in Loose, Moves(l)
      PROVE  RecipeInv'
  <2>1. PICK p \in Pinned \cup {NoSpec} :
          /\ now' = [now EXCEPT ![l] = p] /\ had' = [had EXCEPT ![l] = @ \cup ({p} \ {NoSpec})]
          /\ UNCHANGED <<test, matrix, route, ran>>
    <3>1. PICK p \in Pinned \cup {NoSpec} : now' = [now EXCEPT ![l] = p]
      BY <1>1 DEF Moves
    <3>2. now'[l] = p
      BY <1>0, <3>1
    <3> QED BY <1>1, <3>1, <3>2 DEF Moves
  <2>2. /\ now' \in [Loose -> Pinned \cup {NoSpec}] /\ had' \in [Loose -> SUBSET Pinned]
        /\ \A m \in Loose : had[m] \subseteq had'[m]
        /\ \A m \in Loose : now'[m] # NoSpec => now'[m] \in had'[m]
    BY <1>0, <2>1 DEF RecipeInv, HadOK
  <2>3. route' \in [Routes -> Flights] /\ FlightsOK'
    <3>1. /\ \A d \in Specs : test[d].exists => test'[d].exists
          /\ DOMAIN matrix \subseteq DOMAIN matrix' /\ route' = route
      BY <2>1
    <3> QED BY <2>2, <3>1, NoneFurther
  <2>4. \A c \in Specs : test[c].from # NoSpec => test[c].from \in Loose
    BY DEF RecipeInv, RecipesTypeOK, TestRows
  <2>5. LineageIsTrue'
    BY <2>1, <2>2, <2>4 DEF RecipeInv, LineageIsTrue
  <2> QED BY <2>1, <2>2, <2>3, <2>5 DEF RecipeInv, RecipesTypeOK, TestsOK, HadOK, RunsArePinned
<1>2. ASSUME NEW c \in Specs, RunTest(c)
      PROVE  RecipeInv'
  <2>1. test[c].exists /\ Runnable(c) /\ ran' = ran \cup {c} /\ UNCHANGED <<now, had, test, matrix, route>>
    BY <1>2 DEF RunTest
  <2>2. test' = [test EXCEPT ![c] = Found(c)]
    <3>1. test \in [Specs -> TestRows] /\ Found(c) = test[c] /\ test' = test
      BY <2>1 DEF Found, RecipeInv, RecipesTypeOK
    <3> QED BY <3>1
  <2> QED BY <1>0, <2>1, <2>2, CellRun
<1>3. CASE UNCHANGED recipeVars
  <2>1. UNCHANGED <<now, had, test, matrix, route, ran>>
    BY <1>3 DEF recipeVars
  <2> QED BY <1>0, <2>1, MatrixWritten
<1> QED BY <1>1, <1>2, <1>3, WebStepKeeps, OtherStepKeeps DEF RecipesNext

LEMMA RecipeInitLemma == RecipesInit => RecipeInv
<1> SUFFICES ASSUME RecipesInit PROVE RecipeInv
  OBVIOUS
<1>1. NoTest \in TestRows /\ ~NoTest.exists /\ ~NoTest.resolved /\ NoTest.from = NoSpec
  BY DEF NoTest, TestRows
<1>2. \A c \in Specs : test[c] = NoTest
  BY DEF RecipesInit
<1>3. RecipesTypeOK
  <2>1. <<>> \in Seq(MatrixRows) /\ Len(<<>>) <= MaxMatrices
    BY RecipesAssumption
  <2>2. had \in [Loose -> SUBSET Pinned]
    BY DEF RecipesInit
  <2> QED BY <1>1, <2>1, <2>2, FlightKinds DEF RecipesInit, RecipesTypeOK
<1>4. TestsOK /\ LineageIsTrue
  BY <1>1, <1>2 DEF TestsOK, LineageIsTrue
<1>5. HadOK /\ RunsArePinned
  BY DEF RecipesInit, HadOK, RunsArePinned
<1>6. FlightsOK
  <2>1. \A q \in Routes : route[q] = Idle
    BY DEF RecipesInit
  <2> QED BY <2>1, FlightKinds DEF FlightsOK, FlightOK
<1> QED BY <1>3, <1>4, <1>5, <1>6 DEF RecipeInv

LEMMA RecipeInvariant == RecipesSpec => []RecipeInv
<1>1. RecipeInv /\ [RecipesNext]_recipeVars => RecipeInv'
  BY RecipeStep
<1> QED BY <1>1, RecipeInitLemma, PTL DEF RecipesSpec

\* Whichever way to a run is taken, by page, API, webhook or command, with any
\* number of requests in flight and whatever is saved, resolved or replaced
\* meanwhile: what has a run is a test that leaves nothing open.
THEOREM OnlyPinnedRuns == RecipesSpec => []RunsArePinned
<1>1. RecipeInv => RunsArePinned
  BY DEF RecipeInv
<1> QED BY <1>1, RecipeInvariant, PTL

\* The recipe that a test is said to come from is there, is one, and resolved to
\* that test at some time, however often the fleet and the branches moved and
\* however the resolutions of several requests overlapped.
THEOREM LineageHolds == RecipesSpec => []LineageIsTrue
<1>1. RecipeInv => LineageIsTrue
  BY DEF RecipeInv
<1> QED BY <1>1, RecipeInvariant, PTL
=============================================================================
