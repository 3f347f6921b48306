------------------------------- MODULE Sessions --------------------------------
(***************************************************************************)
(* Accounts and login state: src/auth/session.cpp and the handlers of      *)
(* src/routes/auth_routes.cpp.  A user's session is a row of the table     *)
(* sessions and lives by the wall clock (NOW()), which may be set back; an *)
(* administrator's is an entry of a map in memory and lives by the steady  *)
(* clock.  Every handler but the administrator's login holds DbLock, so    *)
(* there is one such request in hand; each SQL statement and each critical *)
(* section of g_admin_mu is a step.  A statement may fail, also after it   *)
(* has taken effect.  The process may be killed at any moment.             *)
(*                                                                         *)
(* The rate limit of these handlers is module RateLimiter; what a handler  *)
(* does with the SessionInfo it got is in the modules of that handler.     *)
(***************************************************************************)
EXTENDS Naturals, Sequences, FiniteSets

CONSTANTS
  Names,      \* user names that ValidUsername accepts
  Key,        \* Key[u]: u as the collation of users.username compares it
  Passwords,  \* passwords that ValidPassword accepts
  Salts,      \* what RAND_bytes may return in HashPassword
  UserTtl,    \* kUserSessionTtlSec, in ticks
  AdminTtl,   \* kAdminSessionTtlSec, in ticks
  MaxTokens,  \* bound: no login begins after so many tokens
  MaxTime     \* bound: ticks of the clocks

ASSUME KeyAssumption == DOMAIN Key = Names
ASSUME TtlAssumption == UserTtl \in Nat \ {0} /\ AdminTtl \in Nat \ {0}
ASSUME SessionBounds == MaxTokens \in Nat /\ MaxTime \in Nat

VARIABLES
  users,             \* table users; the id of a row is its index
  sessions,          \* table sessions: token -> [user_id, expires_at]
  g_admin_sessions,  \* token -> expiry
  now, steady,       \* the two clocks
  op, at,            \* the handler that holds DbLock, and the step it comes to next
  username, password, token, \* what its request carries
  uid,               \* the user its SELECT found
  reply,             \* its answer; status 0 before
  issued,            \* history: issued[t] is the session token t was made for
  given,             \* history: tokens a client was handed
  ended,             \* history: tokens logged out, cleaned up or lost with the process
  told,              \* history: <<name, password>> registered with success
  fault              \* history: a statement of the request in hand failed

tables  == <<users, sessions>>
clocks  == <<now, steady>>
request == <<op, username, password, token, uid>>
history == <<issued, given, ended, told>>
vars    == <<tables, g_admin_sessions, clocks, request, at, reply, history, fault>>

NoToken == 0              \* no cookie, or an empty one
Forged  == MaxTokens + 2  \* a token this service never made
Tokens  == 1..(MaxTokens + 1)
AdminId == 0              \* SessionInfo.user_id of the administrator

Steps == {"free", "CheckName", "InsertUser", "FindUser", "InsertSession", "AdminMap",
          "SelectSession", "Cleanup", "EraseAdmin", "DeleteSession"}

TypeOK ==
  /\ \A id \in 1..Len(users) : /\ users[id].username \in Names
                               /\ users[id].password_hash \in [salt : Salts, digest : Passwords \X Salts]
  /\ DOMAIN sessions \subseteq 1..Len(issued) /\ DOMAIN g_admin_sessions \subseteq 1..Len(issued)
  /\ \A t \in DOMAIN sessions : sessions[t].user_id \in 1..Len(users)
  /\ Len(issued) <= MaxTokens + 1
  /\ given \subseteq 1..Len(issued) /\ ended \subseteq 1..Len(issued)
  /\ now \in 0..MaxTime /\ steady \in 0..MaxTime
  /\ op \in {"none", "REGISTER", "LOGIN", "USE", "ADMIN", "LOGOUT"} /\ at \in Steps
  /\ reply.status \in {0, 200, 401, 500} /\ reply.ok \in BOOLEAN

Init ==
  /\ users = <<>> /\ sessions = <<>> /\ g_admin_sessions = <<>>
  /\ now = 0 /\ steady = 0
  /\ op = "none" /\ at = "free"
  /\ username = "" /\ password = "" /\ token = NoToken /\ uid = AdminId
  /\ reply = [status |-> 0, ok |-> FALSE, who |-> AdminId]
  /\ issued = <<>> /\ given = {} /\ ended = {} /\ told = {} /\ fault = FALSE

--------------------------------------------------------------------------------
\* Passwords (password.cpp).  PBKDF2 is external: a digest stands for the pair it
\* was computed from.

PBKDF2(plain, salt) == <<plain, salt>>
HashPassword(plain, salt) == [salt |-> salt, digest |-> PBKDF2(plain, salt)]

VerifyPassword(plain, stored) == stored.digest = PBKDF2(plain, stored.salt)

--------------------------------------------------------------------------------
\* Requests

\* The handler has returned: DbLock is free and its variables are gone.
Return ==
  /\ at' = "free" /\ op' = "none"
  /\ username' = "" /\ password' = "" /\ token' = NoToken /\ uid' = AdminId
Reply(status, ok, who) == reply' = [status |-> status, ok |-> ok, who |-> who]
Answer(status, ok, who) == Reply(status, ok, who) /\ Return
GoOn(step) == at' = step /\ UNCHANGED <<reply, request>>

\* A request comes in and takes DbLock.
Begin(o, u, p, t, step) ==
  /\ at = "free"
  /\ op' = o /\ username' = u /\ password' = p /\ token' = t
  /\ Reply(0, FALSE, AdminId)
  /\ at' = step /\ fault' = FALSE /\ uid' = AdminId
  /\ UNCHANGED <<tables, g_admin_sessions, clocks, history>>

Register(u, p) == Begin("REGISTER", u, p, NoToken, "CheckName")
Login(u, p)    == Len(issued) < MaxTokens /\ Begin("LOGIN", u, p, NoToken, "FindUser")
\* Any handler that begins with RequireSession, and any with RequireAdmin.
Use(t)         == t \in given \cup {Forged} /\ Begin("USE", "", "", t, "AdminMap")
UseAdmin(t)    == t \in given \cup {Forged} /\ Begin("ADMIN", "", "", t, "AdminMap")
Logout(t)      == t \in given \cup {Forged} /\ Begin("LOGOUT", "", "", t, "EraseAdmin")

--------------------------------------------------------------------------------
\* Register

\* WHERE username = '...': the mutant compares byte by byte.
SameBytes(id, u) == users[id].username = u
Named(id, u) == Key[users[id].username] = Key[u]

\* A result that cannot be stored counts as "no such name".
CheckName ==
  /\ at = "CheckName"
  /\ \/ Answer(500, FALSE, AdminId) /\ fault' = TRUE
     \/ GoOn("InsertUser") /\ fault' = TRUE
     \/ /\ IF \E id \in 1..Len(users) : Named(id, username)
           THEN Answer(200, FALSE, AdminId) ELSE GoOn("InsertUser")
        /\ UNCHANGED fault
  /\ UNCHANGED <<tables, g_admin_sessions, clocks, history>>

\* uk_username.
NameIsFree(u) == \A id \in 1..Len(users) : Key[users[id].username] # Key[u]

\* HashPassword, then the INSERT.  Only MySQL's duplicate-key error is answered
\* as "name taken"; the mutant answers every error so.
AnyErrorIsTaken == Answer(200, FALSE, AdminId)
InsertError == Answer(500, FALSE, AdminId)

InsertUser ==
  /\ at = "InsertUser"
  /\ \/ /\ NameIsFree(username)
        /\ \E salt \in Salts :
             users' = Append(users, [username |-> username,
                                     password_hash |-> HashPassword(password, salt)])
        /\ \/ /\ Answer(200, TRUE, AdminId)
              /\ told' = told \cup {<<username, password>>} /\ UNCHANGED fault
           \/ InsertError /\ fault' = TRUE /\ UNCHANGED told
     \/ /\ ~NameIsFree(username) /\ Answer(200, FALSE, AdminId)
        /\ UNCHANGED <<users, told, fault>>
     \/ InsertError /\ fault' = TRUE /\ UNCHANGED <<users, told>>
  /\ UNCHANGED <<sessions, g_admin_sessions, clocks, issued, given, ended>>

--------------------------------------------------------------------------------
\* Login

FindUser ==
  /\ at = "FindUser"
  /\ \/ Answer(500, FALSE, AdminId) /\ fault' = TRUE
     \/ Answer(401, FALSE, AdminId) /\ fault' = TRUE
     \/ \E id \in 1..Len(users) :
          /\ Named(id, username) /\ VerifyPassword(password, users[id].password_hash)
          /\ uid' = id /\ at' = "InsertSession"
          /\ UNCHANGED <<reply, op, username, password, token, fault>>
     \/ /\ ~\E id \in 1..Len(users) :
               Named(id, username) /\ VerifyPassword(password, users[id].password_hash)
        /\ Answer(401, FALSE, AdminId) /\ UNCHANGED fault
  /\ UNCHANGED <<tables, g_admin_sessions, clocks, history>>

NewToken == Len(issued) + 1
Issue(user, until) == issued' = Append(issued, [user_id |-> user, until |-> until])

\* The mutant leaves the id at what the administrator's session carries.
SessionOfNobody(t, user) ==
  [x \in DOMAIN sessions \cup {t} |->
     IF x = t THEN [user_id |-> AdminId, expires_at |-> now + UserTtl] ELSE sessions[x]]
SessionRow(t, user) ==
  [x \in DOMAIN sessions \cup {t} |->
     IF x = t THEN [user_id |-> user, expires_at |-> now + UserTtl] ELSE sessions[x]]

\* CreateUserSession; a row whose INSERT reported a failure stays, its token is
\* never handed out.
InsertSession ==
  /\ at = "InsertSession"
  /\ \/ /\ sessions' = SessionRow(NewToken, uid)
        /\ Issue(uid, now + UserTtl)
        /\ \/ Answer(200, TRUE, uid) /\ given' = given \cup {NewToken} /\ UNCHANGED fault
           \/ Answer(500, FALSE, AdminId) /\ fault' = TRUE /\ UNCHANGED given
     \/ /\ Answer(500, FALSE, AdminId) /\ fault' = TRUE
        /\ UNCHANGED <<sessions, issued, given>>
  /\ UNCHANGED <<users, g_admin_sessions, clocks, ended, told>>

\* The administrator's login with the right credentials: no DbLock, one critical
\* section of g_admin_mu.  (With wrong ones it changes nothing.)
AdminLogin ==
  /\ Len(issued) < MaxTokens
  /\ g_admin_sessions' = [t \in DOMAIN g_admin_sessions \cup {NewToken} |->
                            IF t = NewToken THEN steady + AdminTtl ELSE g_admin_sessions[t]]
  /\ Issue(AdminId, steady + AdminTtl)
  /\ given' = given \cup {NewToken}
  /\ UNCHANGED <<tables, clocks, request, at, reply, ended, told, fault>>

--------------------------------------------------------------------------------
\* GetSession

Without(f, S) == [t \in DOMAIN f \ S |-> f[t]]

\* The mutant looks at the wall clock.
AliveByWall(t) == now < g_admin_sessions[t]
AdminAlive(t) == steady < g_admin_sessions[t]

\* An entry of the map decides alone; an expired one is erased, and the database is
\* not asked.
AdminMap ==
  /\ at = "AdminMap"
  /\ \/ /\ token \in DOMAIN g_admin_sessions /\ AdminAlive(token)
        /\ Answer(200, TRUE, AdminId)
        /\ UNCHANGED <<g_admin_sessions, ended>>
     \/ /\ token \in DOMAIN g_admin_sessions /\ ~AdminAlive(token)
        /\ g_admin_sessions' = Without(g_admin_sessions, {token})
        /\ ended' = ended \cup {token}
        /\ Answer(401, FALSE, AdminId)
     \/ /\ token \notin DOMAIN g_admin_sessions
        /\ GoOn("SelectSession")
        /\ UNCHANGED <<g_admin_sessions, ended>>
  /\ UNCHANGED <<tables, clocks, issued, given, told, fault>>

\* The role in the answer: "admin" for the entries of the map, and the column of
\* users, where Register writes "user", for the rows.  RequireAdmin looks at it.
RoleFits(who) == op = "ADMIN" => who = AdminId

\* What RequireSession or RequireAdmin makes of a session that was found; 401 stands
\* for every refusal (the handlers behind RequireAdmin answer 403).
LetIn(who) == IF RoleFits(who) THEN Reply(200, TRUE, who) ELSE Reply(401, FALSE, AdminId)

\* s.id = '...' AND s.expires_at > NOW().
Matches(t) == t \in DOMAIN sessions /\ sessions[t].expires_at > now

\* The SELECT.  When it fails the clean-up is left out; when its result cannot be
\* stored the caller gets "not logged in" after the clean-up.
SelectSession ==
  /\ at = "SelectSession"
  /\ \/ Answer(401, FALSE, AdminId) /\ fault' = TRUE
     \/ /\ Reply(401, FALSE, AdminId)
        /\ at' = "Cleanup" /\ fault' = TRUE /\ UNCHANGED request
     \/ /\ IF Matches(token) THEN LetIn(sessions[token].user_id)
                             ELSE Reply(401, FALSE, AdminId)
        /\ at' = "Cleanup" /\ UNCHANGED <<fault, request>>
  /\ UNCHANGED <<tables, g_admin_sessions, clocks, history>>

\* DELETE FROM sessions WHERE expires_at <= NOW(), its result not looked at.  The
\* mutant takes the sessions of the next second with them.
ExpiresNext(t) == sessions[t].expires_at <= now + 1
Expired(t) == sessions[t].expires_at <= now

Cleanup ==
  /\ at = "Cleanup"
  /\ \/ /\ sessions' = Without(sessions, {t \in DOMAIN sessions : Expired(t)})
        /\ ended' = ended \cup {t \in DOMAIN issued : /\ issued[t].user_id # AdminId
                                                      /\ issued[t].until <= now}
     \/ UNCHANGED <<sessions, ended>>
  /\ Return
  /\ UNCHANGED <<users, g_admin_sessions, clocks, reply, issued, given, told, fault>>

--------------------------------------------------------------------------------
\* DestroySession

EraseAdmin ==
  /\ at = "EraseAdmin"
  /\ g_admin_sessions' = Without(g_admin_sessions, {token})
  /\ ended' = ended \cup ({token} \cap DOMAIN g_admin_sessions)
  /\ GoOn("DeleteSession")
  /\ UNCHANGED <<tables, clocks, issued, given, told, fault>>

\* The rows of WHERE id = '...'; the mutant spares a session that
\* is over.
LiveRows(t) == {x \in DOMAIN sessions : x = t /\ sessions[x].expires_at > now}
RowsOf(t) == {x \in DOMAIN sessions : x = t}

\* A failure is only logged: the answer is ok and the cookie is cleared all the same.
DeleteSession ==
  /\ at = "DeleteSession"
  /\ \/ /\ sessions' = Without(sessions, RowsOf(token))
        /\ ended' = ended \cup ({token} \cap DOMAIN issued)
        /\ UNCHANGED fault
     \/ fault' = TRUE /\ UNCHANGED <<sessions, ended>>
  /\ Answer(200, TRUE, AdminId)
  /\ UNCHANGED <<users, g_admin_sessions, clocks, issued, given, told>>

--------------------------------------------------------------------------------
\* The environment

Tick ==
  /\ now < MaxTime /\ steady < MaxTime
  /\ now' = now + 1 /\ steady' = steady + 1
  /\ UNCHANGED <<tables, g_admin_sessions, request, at, reply, history, fault>>

\* The end of daylight saving time, or the administrator of the machine.
SetClockBack ==
  /\ now > 0
  /\ now' = now - 1
  /\ UNCHANGED <<tables, g_admin_sessions, steady, request, at, reply, history, fault>>

\* The process is killed and started again: the map is gone, the tables are not.
Restart ==
  /\ g_admin_sessions' = <<>>
  /\ ended' = ended \cup DOMAIN g_admin_sessions
  /\ Return
  /\ UNCHANGED <<tables, clocks, reply, issued, given, told, fault>>

Handler ==
  \/ CheckName \/ InsertUser \/ FindUser \/ InsertSession \/ AdminMap \/ SelectSession
  \/ Cleanup \/ EraseAdmin \/ DeleteSession

Next ==
  \/ \E u \in Names, p \in Passwords : Register(u, p) \/ Login(u, p)
  \/ \E t \in Tokens \cup {Forged} : Use(t) \/ UseAdmin(t) \/ Logout(t)
  \/ Handler \/ AdminLogin \/ Restart
  \/ Tick \/ SetClockBack

Spec == Init /\ [][Next]_vars

--------------------------------------------------------------------------------
\* Properties

\* The request in hand receives its answer in this step.
Answering == reply.status = 0 /\ reply'.status # 0
PasswordOf(row) == row.password_hash.digest[1]

\* "Registered" means that this name and this password log in from now on; "taken"
\* means that the name has an account.
RegisterAnswers ==
  [][op = "REGISTER" /\ Answering /\ reply'.status = 200 =>
       \E id \in 1..Len(users') :
         /\ Key[users'[id].username] = Key[username]
         /\ reply'.ok => users'[id].username = username /\ PasswordOf(users'[id]) = password]_vars

\* A login is refused as wrong only if no account was ever confirmed for that name
\* with that password (in whatever case the name was typed then and now), unless the
\* database failed; and it succeeds with the password of the account only.
LoginAnswers ==
  [][op = "LOGIN" /\ Answering =>
       /\ reply'.status = 401 /\ ~fault' =>
            ~\E r \in told : Key[r[1]] = Key[username] /\ r[2] = password
       /\ reply'.ok => /\ Key[users[reply'.who].username] = Key[username]
                       /\ PasswordOf(users[reply'.who]) = password]_vars

\* GetSession has just decided on the token of the request in hand.
Deciding == op \in {"USE", "ADMIN"} /\ Answering

Clock(user) == IF user = AdminId THEN steady ELSE now
Over(t)     == issued[t].until <= Clock(issued[t].user_id)

\* Whoever is let in presented a token handed to that very user, not ended by a
\* logout, a clean-up or a restart, and not over at the moment of the decision; and
\* where RequireAdmin is asked, that user is the administrator.
AcceptedRightly ==
  [][Deciding /\ reply'.status = 200 =>
       /\ token \in given \ ended
       /\ issued[token].user_id = reply'.who
       /\ ~Over(token)
       /\ op = "ADMIN" => issued[token].user_id = AdminId]_vars

\* Nobody is sent to the login page for nothing: without a database failure a token
\* that was handed out is refused only when it was ended, or is over, or is a user's
\* where the administrator's is asked for.
RefusalExplained ==
  [][Deciding /\ reply'.status = 401 /\ ~fault' /\ token \in given =>
       \/ token \in ended' \/ Over(token)
       \/ op = "ADMIN" /\ issued[token].user_id # AdminId]_vars

\* What has ended leaves no row and no entry behind, so that setting the wall clock
\* back does not bring it to life again.
EndedStaysEnded == ended \cap (DOMAIN sessions \cup DOMAIN g_admin_sessions) = {}
================================================================================
