------------------------------- MODULE Access -------------------------------
(***************************************************************************)
(* Who may do what on the coordinator: accounts, their roles, the browser   *)
(* sessions, API tokens, and the requests that change them.                 *)
(*                                                                          *)
(* A web request is admitted by a dependency that reads the account, then   *)
(* its handler runs in a thread: two steps, with those of other requests    *)
(* between them.  The answer carries the session back to the browser.       *)
(* An API request is one step: its handler never leaves the event loop.     *)
(***************************************************************************)
EXTENDS Naturals, FiniteSets

CONSTANTS
  LocalUsers, HubUsers, \* accounts with a password, accounts of GitHub
  Browsers, Requests,   \* bound: the web requests that are in flight at once
  Tokens,
  Memberships,          \* bound: what a GitHub user may be in the organisation
  AllowExternal,        \* OPP_CI_GITHUB_ALLOW_EXTERNAL
  EveryMember           \* OPP_CI_GITHUB_SUBMITTER_TEAMS is "*"

Users == LocalUsers \cup HubUsers

\* Outside the organisation, in it, in one of the teams, or an administrator by name.
MembershipKinds == {"outside", "member", "submitters", "admins", "named"}

ASSUME AccessAssumption ==
  /\ LocalUsers \cap HubUsers = {} /\ IsFiniteSet(Users)
  /\ Memberships \subseteq MembershipKinds
  /\ AllowExternal \in BOOLEAN /\ EveryMember \in BOOLEAN

VARIABLES
  account,  \* the users table
  member,   \* what each GitHub user is in the organisation
  browser,  \* the user in the session cookie of each browser
  request,  \* the web requests in flight
  token,    \* the api_tokens table
  given     \* history: the role that a login took from GitHub, until it is released

accessVars == <<account, member, browser, request, token, given>>

NoAccount == [exists |-> FALSE]
Row(role, locked) == [exists |-> TRUE, role |-> role, locked |-> locked, enabled |-> TRUE]

Level == [readonly |-> 0, submitter |-> 1, worker |-> 2, admin |-> 3]
UserRoles == {"readonly", "submitter", "admin"}

NoUser     == "no user"
NoRequest  == [phase |-> "none"]

Enabled(u)     == account[u].exists /\ account[u].enabled
IsAdmin(u)     == Enabled(u) /\ account[u].role = "admin"
Administrators == {u \in Users : IsAdmin(u)}

AccessInit ==
  /\ account = [u \in Users |-> NoAccount]
  /\ member \in [HubUsers -> Memberships]
  /\ browser = [b \in Browsers |-> NoUser]
  /\ request = [r \in Requests |-> NoRequest]
  /\ token = [t \in Tokens |-> [role |-> "none", enabled |-> FALSE]]
  /\ given = [u \in HubUsers |-> "released"]

AccessTypeOK ==
  /\ \A u \in Users :
       account[u] = NoAccount
       \/ account[u] \in [exists : {TRUE}, role : UserRoles, locked : BOOLEAN, enabled : BOOLEAN]
  /\ member \in [HubUsers -> Memberships] /\ browser \in [Browsers -> Users \cup {NoUser}]
  /\ \A r \in Requests : request[r].phase \in {"none", "admitted", "read"}
  /\ token \in [Tokens -> [role : {"none"} \cup DOMAIN Level, enabled : BOOLEAN]]
  /\ given \in [HubUsers -> UserRoles \cup {"released"}]

-----------------------------------------------------------------------------
(* Roles. *)

\* _compute_role_from_github: administrators by name and by team come before
\* submitters; outsiders read only, or are turned away.
RoleFromGitHub(m) ==
  CASE m = "outside"                 -> IF AllowExternal THEN "readonly" ELSE "rejected"
    [] m \in {"named", "admins"}     -> "admin"
    [] EveryMember \/ m = "submitters" -> "submitter"
    [] OTHER                         -> "readonly"

Join(u) ==
  /\ member' \in [HubUsers -> Memberships]
  /\ member' # member /\ \A v \in HubUsers \ {u} : member'[v] = member[v]
  /\ UNCHANGED <<account, browser, request, token, given>>

-----------------------------------------------------------------------------
(* Requests of a browser.  Its session is the user it is logged in as.  Each  *)
(* answer carries the session that the request was given and its handler     *)
(* changed, whatever the browser has by then.                                *)

Answered(r, b, session) ==
  /\ browser' = [browser EXCEPT ![b] = session]
  /\ request' = [request EXCEPT ![r] = NoRequest]

Taken(r, q) ==
  /\ request' = [request EXCEPT ![r] = q]
  /\ UNCHANGED browser

\* login_submit: a name, a password and an account that is enabled.
LoginLocal(r, b, u) ==
  /\ request[r] = NoRequest /\ Enabled(u)
  /\ Answered(r, b, u)
  /\ UNCHANGED <<account, member, token, given>>

\* logout clears the session; it does not end the requests that have it.
Logout(r, b) ==
  /\ request[r] = NoRequest /\ browser[b] # NoUser
  /\ Answered(r, b, NoUser)
  /\ UNCHANGED <<account, member, token, given>>

\* github_oauth_callback up to its query: GitHub is asked for the user and the
\* teams, then the row is read.  A user that GitHub's answers reject, or whose
\* account is disabled, gets no further.
CallbackReads(r, b, u) ==
  LET role == RoleFromGitHub(member[u]) IN
  /\ request[r] = NoRequest
  /\ role # "rejected" /\ (account[u].exists => account[u].enabled)
  /\ Taken(r, [phase |-> "read", by |-> b, user |-> u, role |-> role, row |-> account[u]])
  /\ UNCHANGED <<account, member, token, given>>

\* github_oauth_callback from there: a new account, or the role of an account
\* that was not locked when it was read, written if it is not what was read.
\* The second of two first logins fails on the unique key.
CallbackCommits(r) ==
  LET q == request[r]
      u == q.user
      writes == IF q.row.exists THEN ~q.row.locked /\ q.role # q.row.role
                                ELSE ~account[u].exists
  IN
  /\ q.phase = "read"
  /\ account' = IF ~writes THEN account
                ELSE IF q.row.exists THEN [account EXCEPT ![u].role = q.role]
                ELSE [account EXCEPT ![u] = Row(q.role, FALSE)]
  /\ given' = IF writes THEN [given EXCEPT ![u] = q.role] ELSE given
  /\ Answered(r, q.by, IF ~q.row.exists /\ account[u].exists THEN browser[q.by]
                       ELSE u)
  /\ UNCHANGED <<member, token>>

\* require_user: the account is read on every request; a session of an account
\* that is gone or disabled loses it, a role below the page's is refused.
\* `work` is what the admitted handler will do.
Admit(r, b, minimum, work) ==
  LET u == browser[b] IN
  /\ request[r] = NoRequest
  /\ IF u # NoUser /\ Enabled(u)
     THEN IF Level[account[u].role] < Level[minimum]
          THEN Answered(r, b, u)
          ELSE Taken(r, [phase |-> "admitted", by |-> b, user |-> u, work |-> work])
     ELSE Answered(r, b, NoUser)
  /\ UNCHANGED <<account, member, token, given>>

\* bound: what administrators ask the web pages for; update_user does with the
\* role of a local account what admin_set_user_role does.
Work == {[name |-> "page"]}
  \cup [name : {"role"}, user : HubUsers, role : {"readonly", "admin"}]
  \cup [name : {"unlock"}, user : HubUsers]
  \cup [name : {"disable"}, user : Users, enabled : BOOLEAN]
  \cup [name : {"token"}, token : Tokens, role : {"admin"}]
  \cup [name : {"revoke"}, token : Tokens]

Handles(r, name) == request[r].phase = "admitted" /\ request[r].work.name = name

Handled(r) == Answered(r, request[r].by, request[r].user)

ShowPage(r) ==
  /\ Handles(r, "page") /\ Handled(r)
  /\ UNCHANGED <<account, member, token, given>>

\* Mutant: the role is set and not locked.
SetRoleOpen(r) ==
  LET w == request[r].work IN
  /\ Handles(r, "role") /\ Handled(r)
  /\ account' = IF account[w.user].exists
                THEN [account EXCEPT ![w.user].role = w.role]
                ELSE account
  /\ UNCHANGED <<member, token, given>>

\* admin_set_user_role locks the role.
SetRole(r) ==
  LET w == request[r].work IN
  /\ Handles(r, "role") /\ Handled(r)
  /\ account' = IF account[w.user].exists
                THEN [account EXCEPT ![w.user].role = w.role, ![w.user].locked = TRUE]
                ELSE account
  /\ UNCHANGED <<member, token, given>>

\* admin_unlock_user leaves the role as it is.
UnlockUser(r) ==
  LET w == request[r].work IN
  /\ Handles(r, "unlock") /\ Handled(r)
  /\ account' = IF account[w.user].exists THEN [account EXCEPT ![w.user].locked = FALSE]
                                          ELSE account
  /\ given' = [given EXCEPT ![w.user] = "released"]
  /\ UNCHANGED <<member, token>>

\* Mutant: any account.
DisableAnyUser(r) ==
  LET w == request[r].work IN
  /\ Handles(r, "disable") /\ Handled(r)
  /\ account' = IF account[w.user].exists THEN [account EXCEPT ![w.user].enabled = w.enabled]
                                          ELSE account
  /\ UNCHANGED <<member, token, given>>

\* admin_disable_user: not one's own account.
DisableUser(r) ==
  LET w == request[r].work IN
  /\ Handles(r, "disable") /\ Handled(r)
  /\ account' = IF account[w.user].exists /\ (w.enabled \/ w.user # request[r].user)
                THEN [account EXCEPT ![w.user].enabled = w.enabled]
                ELSE account
  /\ UNCHANGED <<member, token, given>>

CreateTokenWeb(r) ==
  LET w == request[r].work IN
  /\ Handles(r, "token") /\ Handled(r)
  /\ token' = IF token[w.token].role = "none"
              THEN [token EXCEPT ![w.token] = [role |-> w.role, enabled |-> TRUE]] ELSE token
  /\ UNCHANGED <<account, member, given>>

RevokeTokenWeb(r) ==
  /\ Handles(r, "revoke") /\ Handled(r)
  /\ token' = [token EXCEPT ![request[r].work.token].enabled = FALSE]
  /\ UNCHANGED <<account, member, given>>

-----------------------------------------------------------------------------
(* The REST API, for bearer tokens, and the commands on the host.            *)

\* verify_token and require_role, at the start of the request.
ApiServes(minimum) ==
  \E t \in Tokens : token[t].enabled /\ Level[token[t].role] >= Level[minimum]

\* create_user: a new account, or one whose password, role and lock are reset.
CreateUser(u, role, update) ==
  /\ ApiServes("admin") /\ (account[u].exists => update)
  /\ account' = [account EXCEPT ![u] = Row(role, TRUE)]
  /\ UNCHANGED <<member, browser, request, token, given>>

\* update_user.
PatchEnabled(u, enabled) ==
  /\ ApiServes("admin") /\ account[u].exists
  /\ account' = [account EXCEPT ![u].enabled = enabled]
  /\ UNCHANGED <<member, browser, request, token, given>>

PatchRole(u, role) ==
  /\ ApiServes("admin") /\ account[u].exists
  /\ account' = [account EXCEPT ![u].role = role, ![u].locked = TRUE]
  /\ UNCHANGED <<member, browser, request, token, given>>

CreateToken(t, role) ==
  /\ ApiServes("admin") /\ token[t].role = "none"
  /\ token' = [token EXCEPT ![t] = [role |-> role, enabled |-> TRUE]]
  /\ UNCHANGED <<account, member, browser, request, given>>

RevokeToken(t) ==
  /\ ApiServes("admin") /\ token' = [token EXCEPT ![t].enabled = FALSE]
  /\ UNCHANGED <<account, member, browser, request, given>>

UserCreateCommand(u, role, update) ==
  /\ account[u].exists => update
  /\ account' = [account EXCEPT ![u] = Row(role, TRUE)]
  /\ UNCHANGED <<member, browser, request, token, given>>

UserDisableCommand(u) ==
  /\ account[u].exists /\ account' = [account EXCEPT ![u].enabled = FALSE]
  /\ UNCHANGED <<member, browser, request, token, given>>

TokenCreateCommand(t, role) ==
  /\ token[t].role = "none"
  /\ token' = [token EXCEPT ![t] = [role |-> role, enabled |-> TRUE]]
  /\ UNCHANGED <<account, member, browser, request, given>>

TokenRevokeCommand(t) ==
  /\ token[t].role # "none" /\ token' = [token EXCEPT ![t].enabled = FALSE]
  /\ UNCHANGED <<account, member, browser, request, given>>

-----------------------------------------------------------------------------
\* Requests are named in the order in which names are free.
NextRequest == CHOOSE r \in Requests : request[r] = NoRequest

ByBrowser(r, b) ==
  \/ \E u \in LocalUsers : LoginLocal(r, b, u)
  \/ \E u \in HubUsers : CallbackReads(r, b, u)
  \/ Logout(r, b)
  \/ \E work \in Work : Admit(r, b, IF work.name = "page" THEN "readonly" ELSE "admin", work)

ByToken ==
  \/ \E u \in LocalUsers, role \in {"readonly", "admin"} :
       CreateUser(u, role, TRUE) \/ PatchRole(u, role)
  \/ \E u \in LocalUsers, enabled \in BOOLEAN : PatchEnabled(u, enabled)
  \/ \E t \in Tokens : CreateToken(t, "admin") \/ RevokeToken(t)

ByCommand ==
  \/ \E u \in LocalUsers : UserCreateCommand(u, "admin", FALSE) \/ UserDisableCommand(u)
  \/ \E t \in Tokens : TokenCreateCommand(t, "admin") \/ TokenRevokeCommand(t)

AccessNext ==
  \/ \E u \in HubUsers : Join(u)
  \/ \E r \in Requests :
       \/ ShowPage(r) \/ CallbackCommits(r)
       \/ SetRole(r) \/ UnlockUser(r) \/ DisableUser(r)
       \/ CreateTokenWeb(r) \/ RevokeTokenWeb(r)
       \/ request[r] = NoRequest /\ r = NextRequest /\ \E b \in Browsers : ByBrowser(r, b)
  \/ ByToken \/ ByCommand

AccessSpec == AccessInit /\ [][AccessNext]_accessVars

-----------------------------------------------------------------------------
\* A role that nobody locked is the one that GitHub gave at a login, until it is
\* released: whoever else writes a role also locks it, whatever runs between the
\* read and the commit of a login.
RolesHaveASource ==
  \A u \in HubUsers :
    account[u].exists /\ ~account[u].locked /\ given[u] # "released"
      => account[u].role = given[u]

\* A web request that disables an account leaves no administrator only if the
\* one who asked had stopped being one after the request was admitted.
LastAdminLeaves ==
  [][\A r \in Requests :
       /\ Handles(r, "disable") /\ request'[r] # request[r]
       /\ Administrators # {} /\ Administrators' = {}
       => ~IsAdmin(request[r].user)]_accessVars

-----------------------------------------------------------------------------
\* doc/web-login.md: changing the role in the UI locks it, and the promotion
\* sticks across logins: the role of an account that is locked is not replaced
\* by a login.
AdminRolesStick ==
  [][\A r \in Requests : request[r].phase = "read" /\ request'[r] # request[r] =>
       \A u \in HubUsers : account[u].exists /\ account[u].locked => account'[u] = account[u]]_accessVars
=============================================================================
