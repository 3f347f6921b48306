---------------------------- MODULE Sessions_proofs -----------------------------
(***************************************************************************)
(* Theorems about Sessions, for any names, collation, passwords, salts and *)
(* bounds.  IInv strengthens the properties with what the histories mean   *)
(* (Rows, Accounted, Confirmed) and what a handler has established when it *)
(* comes to its next step (Control).                                       *)
(***************************************************************************)
EXTENDS Sessions, TLAPS, SequenceTheorems

UserRow == [username : Names, password_hash : [salt : Salts, digest : Passwords \X Salts]]

AccountsTyped == users \in Seq(UserRow) /\ told \subseteq Names \X Passwords
TokensTyped ==
  /\ issued \in Seq([user_id : Nat, until : Nat]) /\ Len(issued) <= MaxTokens + 1
  /\ given \subseteq 1..Len(issued) /\ ended \subseteq 1..Len(issued)
ClocksTyped == now \in 0..MaxTime /\ steady \in 0..MaxTime
ReplyTyped  == reply.status \in {0, 200, 401, 500} /\ reply.ok \in BOOLEAN

\* A salted digest is one of the salt beside it.
Digests == \A id \in 1..Len(users) : users[id].password_hash.digest[2] = users[id].password_hash.salt

Confirmed ==
  \A r \in told : \E id \in 1..Len(users) :
    users[id].username = r[1] /\ PasswordOf(users[id]) = r[2]

\* A row and an entry are what their token was made for.
Rows ==
  /\ \A t \in DOMAIN sessions :
       /\ t \in 1..Len(issued)
       /\ sessions[t] = [user_id |-> issued[t].user_id, expires_at |-> issued[t].until]
       /\ sessions[t].user_id \in 1..Len(users)
  /\ \A t \in DOMAIN g_admin_sessions :
       /\ t \in 1..Len(issued)
       /\ issued[t].user_id = AdminId /\ g_admin_sessions[t] = issued[t].until

\* What was handed out is alive in one of the two stores, or has ended.
Accounted == given \subseteq ended \cup DOMAIN sessions \cup DOMAIN g_admin_sessions

Presented == token \in given \cup {Forged}

Control ==
  \/ at = "free" /\ op = "none"
  \/ /\ at \in {"CheckName", "InsertUser"} /\ op = "REGISTER"
     /\ username \in Names /\ password \in Passwords
  \/ /\ at = "FindUser" /\ op = "LOGIN" /\ Len(issued) <= MaxTokens
     /\ username \in Names /\ password \in Passwords
  \/ /\ at = "InsertSession" /\ op = "LOGIN" /\ Len(issued) <= MaxTokens
     /\ uid \in 1..Len(users) /\ Named(uid, username) /\ PasswordOf(users[uid]) = password
  \/ at = "AdminMap" /\ op \in {"USE", "ADMIN"} /\ Presented
  \/ at = "SelectSession" /\ op \in {"USE", "ADMIN"} /\ Presented /\ token \notin DOMAIN g_admin_sessions
  \/ at = "Cleanup" /\ op \in {"USE", "ADMIN"} /\ reply.status # 0
  \/ at = "EraseAdmin" /\ op = "LOGOUT" /\ Presented
  \/ at = "DeleteSession" /\ op = "LOGOUT" /\ Presented /\ token \notin DOMAIN g_admin_sessions

Accounts == AccountsTyped /\ Digests /\ Confirmed
TokensInv == TokensTyped /\ Rows /\ Accounted /\ EndedStaysEnded

IInv == Accounts /\ TokensInv /\ ClocksTyped /\ ReplyTyped /\ Control

\* A service that starts on empty tables.
LEMMA Initial == Init => IInv
<1> SUFFICES ASSUME Init PROVE IInv
  OBVIOUS
<1>1. /\ users = <<>> /\ issued = <<>> /\ told = {} /\ given = {} /\ ended = {}
      /\ DOMAIN sessions = {} /\ DOMAIN g_admin_sessions = {}
      /\ now = 0 /\ steady = 0 /\ at = "free" /\ op = "none"
  <2>1. sessions = <<>> /\ g_admin_sessions = <<>> BY DEF Init
  <2>2. DOMAIN << >> = {} OBVIOUS
  <2> QED BY <2>1, <2>2 DEF Init
<1>2. Len(users) = 0 /\ Len(issued) = 0 /\ 1..0 = {}
  BY <1>1, EmptySeq
<1>3. Accounts
  BY <1>1, <1>2, EmptySeq DEF Accounts, AccountsTyped, Digests, Confirmed
<1>4. TokensTyped
  BY <1>1, <1>2, EmptySeq, SessionBounds DEF TokensTyped
<1>5. TokensInv
  BY <1>1, <1>2, <1>4 DEF TokensInv, Rows, Accounted, EndedStaysEnded
<1>6. ClocksTyped /\ Control
  BY <1>1, SessionBounds DEF ClocksTyped, Control
<1>7. ReplyTyped
  BY DEF Init, ReplyTyped
<1> QED BY <1>3, <1>5, <1>6, <1>7 DEF IInv

Requests == \E u \in Names, p \in Passwords : Register(u, p) \/ Login(u, p)
Presentations == \E t \in Tokens \cup {Forged} : Use(t) \/ UseAdmin(t) \/ Logout(t)

\* Only the INSERT of Register touches the accounts.
LEMMA AccountsUntouched ==
  ASSUME [Next]_vars, ~InsertUser
  PROVE  users' = users /\ told' = told
<1>1. Requests \/ Presentations => users' = users /\ told' = told
  BY DEF Requests, Presentations, Register, Login, Use, UseAdmin, Logout, Begin, tables, history
<1>2. CheckName \/ FindUser \/ InsertSession => users' = users /\ told' = told
  BY DEF CheckName, FindUser, InsertSession, tables, history
<1>3. AdminLogin \/ AdminMap \/ SelectSession \/ Cleanup => users' = users /\ told' = told
  BY DEF AdminLogin, AdminMap, SelectSession, Cleanup, tables, history
<1>4. EraseAdmin \/ DeleteSession \/ Restart \/ Tick \/ SetClockBack => users' = users /\ told' = told
  BY DEF EraseAdmin, DeleteSession, Restart, Tick, SetClockBack, tables, history
<1>5. UNCHANGED vars => users' = users /\ told' = told
  BY DEF vars, tables, history
<1> QED BY <1>1, <1>2, <1>3, <1>4, <1>5 DEF Next, Handler, Requests, Presentations

TokenSteps == InsertSession \/ AdminLogin \/ AdminMap \/ Cleanup \/ EraseAdmin \/ DeleteSession \/ Restart
tokens == <<sessions, g_admin_sessions, issued, given, ended>>

\* The steps that touch no token.
LEMMA TokensUntouched ==
  ASSUME [Next]_vars, ~TokenSteps
  PROVE  UNCHANGED tokens
<1>1. Requests \/ Presentations => UNCHANGED tokens
  BY DEF Requests, Presentations, Register, Login, Use, UseAdmin, Logout, Begin, tables, history, tokens
<1>2. CheckName \/ InsertUser \/ FindUser \/ SelectSession => UNCHANGED tokens
  BY DEF CheckName, InsertUser, FindUser, SelectSession, tables, history, tokens
<1>3. Tick \/ SetClockBack => UNCHANGED tokens
  BY DEF Tick, SetClockBack, tables, history, tokens
<1>4. UNCHANGED vars => UNCHANGED tokens
  BY DEF vars, tables, history, tokens
<1> QED BY <1>1, <1>2, <1>3, <1>4 DEF Next, Handler, Requests, Presentations, TokenSteps

\* An INSERT keeps the accounts apart and the confirmed ones usable.
LEMMA AccountsStep ==
  ASSUME IInv, [Next]_vars
  PROVE  Accounts'
<1>1. CASE ~InsertUser
  <2>1. users' = users /\ told' = told BY <1>1, AccountsUntouched
  <2> QED BY <2>1 DEF IInv, Accounts, AccountsTyped, Digests, Confirmed, PasswordOf
<1>2. CASE InsertUser
  <2>1. username \in Names /\ password \in Passwords
    BY <1>2 DEF IInv, Control, InsertUser
  <2>2. CASE UNCHANGED <<users, told>>
    BY <2>2 DEF IInv, Accounts, AccountsTyped, Digests, Confirmed, PasswordOf
  <2>3. CASE ~UNCHANGED <<users, told>>
    <3>1. NameIsFree(username)
      BY <1>2, <2>3 DEF InsertUser
    <3>2. PICK salt \in Salts : users' = Append(users, [username |-> username,
                                     password_hash |-> HashPassword(password, salt)])
      BY <1>2, <2>3 DEF InsertUser
    <3>3. told' \subseteq told \cup {<<username, password>>}
      BY <1>2, <2>3 DEF InsertUser
    <3> DEFINE row == [username |-> username, password_hash |-> HashPassword(password, salt)]
    <3>4. row \in UserRow
      BY <2>1 DEF UserRow, HashPassword, PBKDF2
    <3>5. row.username = username /\ PasswordOf(row) = password
          /\ row.password_hash.digest[2] = row.password_hash.salt
      BY DEF PasswordOf, HashPassword, PBKDF2
    <3>6. users \in Seq(UserRow) BY DEF IInv, Accounts, AccountsTyped
    <3> HIDE DEF row
    <3>7. /\ users' \in Seq(UserRow) /\ Len(users') = Len(users) + 1
          /\ \A i \in 1..Len(users) : users'[i] = users[i]
          /\ users'[Len(users) + 1] = row
          /\ Len(users) \in Nat
      BY <3>2, <3>4, <3>6, AppendProperties, LenProperties DEF row
    <3>8. AccountsTyped'
      BY <3>3, <3>7, <2>1 DEF IInv, Accounts, AccountsTyped
    <3>9. \A i \in 1..Len(users') : i \in 1..Len(users) \/ i = Len(users) + 1
      BY <3>7
    <3>10. Digests'
      BY <3>5, <3>7, <3>9 DEF IInv, Accounts, Digests
    <3>11. Confirmed'
      <4> SUFFICES ASSUME NEW r \in told'
                   PROVE  \E id \in 1..Len(users') : users'[id].username = r[1] /\ PasswordOf(users'[id]) = r[2]
        BY DEF Confirmed, PasswordOf
      <4>1. CASE r \in told
        <5>1. PICK id \in 1..Len(users) : users[id].username = r[1] /\ PasswordOf(users[id]) = r[2]
          BY <4>1 DEF IInv, Accounts, Confirmed
        <5> QED BY <5>1, <3>7
      <4>2. CASE r = <<username, password>>
        <5>1. Len(users) + 1 \in 1..Len(users') BY <3>7
        <5> QED BY <4>2, <5>1, <3>7, <3>5
      <4> QED BY <3>3, <4>1, <4>2
    <3> QED BY <3>8, <3>10, <3>11 DEF Accounts
  <2> QED BY <2>2, <2>3
<1> QED BY <1>1, <1>2

\* A new token is neither in a store nor known from before.
LEMMA NewTokenFresh ==
  ASSUME TokensInv
  PROVE  /\ NewToken \in Nat /\ NewToken \notin 1..Len(issued)
         /\ NewToken \notin given /\ NewToken \notin ended
         /\ NewToken \notin DOMAIN sessions /\ NewToken \notin DOMAIN g_admin_sessions
<1>1. Len(issued) \in Nat
  BY LenProperties DEF TokensInv, TokensTyped
<1>2. NewToken \in Nat /\ NewToken \notin 1..Len(issued)
  BY <1>1 DEF NewToken
<1> QED BY <1>2 DEF TokensInv, TokensTyped, Rows

\* What the record of the tokens says after a new one.
LEMMA Issued ==
  ASSUME TokensInv, NEW user \in Nat, NEW until \in Nat, Issue(user, until), Len(issued) <= MaxTokens
  PROVE  /\ issued' \in Seq([user_id : Nat, until : Nat])
         /\ Len(issued) \in Nat /\ Len(issued') = Len(issued) + 1 /\ Len(issued') <= MaxTokens + 1
         /\ \A t \in 1..Len(issued) : t \in 1..Len(issued') /\ issued'[t] = issued[t]
         /\ NewToken \in 1..Len(issued')
         /\ issued'[NewToken].user_id = user /\ issued'[NewToken].until = until
<1>1. issued \in Seq([user_id : Nat, until : Nat]) /\ Len(issued) \in Nat
  BY LenProperties DEF TokensInv, TokensTyped
<1> DEFINE s == [user_id |-> user, until |-> until]
<1>2. s \in [user_id : Nat, until : Nat]
  OBVIOUS
<1>3. issued' = Append(issued, s)
  BY DEF Issue
<1>4. s.user_id = user /\ s.until = until
  OBVIOUS
<1> HIDE DEF s
<1>5. /\ issued' \in Seq([user_id : Nat, until : Nat]) /\ Len(issued') = Len(issued) + 1
      /\ \A t \in 1..Len(issued) : issued'[t] = issued[t]
      /\ issued'[Len(issued) + 1] = s
  BY <1>1, <1>2, <1>3, AppendProperties
<1>6. Len(issued) + 1 <= MaxTokens + 1 /\ 1..Len(issued) \subseteq 1..(Len(issued) + 1)
      /\ NewToken \in 1..(Len(issued) + 1)
  BY <1>1, SessionBounds DEF NewToken
<1>7. issued'[NewToken].user_id = user /\ issued'[NewToken].until = until
  BY <1>4, <1>5 DEF NewToken
<1> QED BY <1>1, <1>5, <1>6, <1>7

\* The two logins put exactly the new token in a store.
LEMMA InsertSessionStep ==
  ASSUME IInv, InsertSession
  PROVE  TokensInv'
<1>1. /\ uid \in 1..Len(users) /\ Len(issued) <= MaxTokens /\ users' = users
      /\ ended' = ended /\ g_admin_sessions' = g_admin_sessions
  BY DEF IInv, Control, InsertSession
<1>2. TokensInv /\ Len(users) \in Nat
  BY LenProperties DEF IInv, Accounts, AccountsTyped
<1>3. CASE UNCHANGED <<sessions, issued, given>>
  BY <1>1, <1>2, <1>3 DEF TokensInv, TokensTyped, Rows, Accounted, EndedStaysEnded
<1>4. CASE /\ sessions' = SessionRow(NewToken, uid) /\ Issue(uid, now + UserTtl)
           /\ given' \in {given, given \cup {NewToken}}
  <2>1. now + UserTtl \in Nat /\ uid \in Nat /\ uid # AdminId
    BY <1>1, <1>2, TtlAssumption, SessionBounds DEF IInv, ClocksTyped, AdminId
  <2> DEFINE until == now + UserTtl
  <2>2. until \in Nat /\ Issue(uid, until) /\ sessions' = [x \in DOMAIN sessions \cup {NewToken} |->
           IF x = NewToken THEN [user_id |-> uid, expires_at |-> until] ELSE sessions[x]]
    BY <1>4, <2>1 DEF SessionRow
  <2> HIDE DEF until
  <2>3. /\ issued' \in Seq([user_id : Nat, until : Nat]) /\ Len(issued') <= MaxTokens + 1
        /\ Len(issued) \in Nat /\ Len(issued') = Len(issued) + 1
        /\ \A t \in 1..Len(issued) : t \in 1..Len(issued') /\ issued'[t] = issued[t]
        /\ NewToken \in 1..Len(issued')
        /\ issued'[NewToken].user_id = uid /\ issued'[NewToken].until = until
    BY <1>1, <1>2, <2>1, <2>2, Issued
  <2>4. TokensTyped'
    BY <1>1, <1>2, <1>4, <2>3 DEF TokensInv, TokensTyped
  <2>5. Rows'
    BY <1>1, <1>2, <2>2, <2>3, NewTokenFresh DEF TokensInv, Rows
  <2>6. Accounted' /\ EndedStaysEnded'
    BY <1>1, <1>2, <1>4, <2>2, NewTokenFresh DEF TokensInv, Accounted, EndedStaysEnded
  <2> QED BY <2>4, <2>5, <2>6 DEF TokensInv
<1> QED BY <1>3, <1>4 DEF InsertSession

\* The administrator's token goes to the map, whatever handler is in hand.
LEMMA AdminLoginStep ==
  ASSUME IInv, AdminLogin
  PROVE  TokensInv'
<1>1. /\ Len(issued) <= MaxTokens /\ users' = users /\ ended' = ended /\ sessions' = sessions
      /\ given' = given \cup {NewToken} /\ Issue(AdminId, steady + AdminTtl)
  <2>1. Len(issued) \in Nat
    BY LenProperties DEF IInv, TokensInv, TokensTyped
  <2> QED BY <2>1, SessionBounds DEF AdminLogin, tables
<1> DEFINE until == steady + AdminTtl
<1>2. until \in Nat /\ TokensInv /\ AdminId \in Nat
  BY TtlAssumption, SessionBounds DEF IInv, ClocksTyped, AdminId
<1>3. g_admin_sessions' = [t \in DOMAIN g_admin_sessions \cup {NewToken} |->
                            IF t = NewToken THEN until ELSE g_admin_sessions[t]]
  BY DEF AdminLogin
<1>4. Issue(AdminId, until)
  BY <1>1
<1> HIDE DEF until
<1>5. /\ issued' \in Seq([user_id : Nat, until : Nat]) /\ Len(issued') <= MaxTokens + 1
      /\ Len(issued) \in Nat /\ Len(issued') = Len(issued) + 1
      /\ \A t \in 1..Len(issued) : t \in 1..Len(issued') /\ issued'[t] = issued[t]
      /\ NewToken \in 1..Len(issued')
      /\ issued'[NewToken].user_id = AdminId /\ issued'[NewToken].until = until
  BY <1>1, <1>2, <1>4, Issued
<1>6. TokensTyped'
  BY <1>1, <1>2, <1>5 DEF TokensInv, TokensTyped
<1>7. Rows'
  BY <1>1, <1>2, <1>3, <1>5, NewTokenFresh DEF TokensInv, Rows
<1>8. Accounted' /\ EndedStaysEnded'
  BY <1>1, <1>2, <1>3, NewTokenFresh DEF TokensInv, Accounted, EndedStaysEnded
<1> QED BY <1>6, <1>7, <1>8 DEF TokensInv

\* What leaves one of the two stores, and nothing else of that store, has ended.
LEMMA LostRows ==
  ASSUME TokensInv, users' = users, issued' = issued, given' = given,
         g_admin_sessions' = g_admin_sessions,
         NEW S, NEW E, E \subseteq 1..Len(issued), ended' = ended \cup E,
         DOMAIN sessions' = DOMAIN sessions \ S,
         \A t \in DOMAIN sessions' : sessions'[t] = sessions[t],
         S \subseteq E, DOMAIN sessions \cap E \subseteq S, DOMAIN g_admin_sessions \cap E = {}
  PROVE  TokensInv'
<1>1. TokensTyped' /\ Accounted' /\ EndedStaysEnded'
  BY DEF TokensInv, TokensTyped, Accounted, EndedStaysEnded
<1>2. Rows'
  BY DEF TokensInv, Rows
<1> QED BY <1>1, <1>2 DEF TokensInv

\* The same for an administrator's entry.
LEMMA LostEntries ==
  ASSUME TokensInv, users' = users, issued' = issued, given' = given, sessions' = sessions,
         NEW E, E \subseteq 1..Len(issued), ended' = ended \cup E,
         DOMAIN g_admin_sessions' = DOMAIN g_admin_sessions \ E,
         \A t \in DOMAIN g_admin_sessions' : g_admin_sessions'[t] = g_admin_sessions[t],
         DOMAIN sessions \cap E = {}
  PROVE  TokensInv'
<1>1. TokensTyped' /\ Accounted' /\ EndedStaysEnded'
  BY DEF TokensInv, TokensTyped, Accounted, EndedStaysEnded
<1>2. Rows'
  BY DEF TokensInv, Rows
<1> QED BY <1>1, <1>2 DEF TokensInv

\* An expired entry found by GetSession is erased.
LEMMA AdminMapStep ==
  ASSUME IInv, AdminMap
  PROVE  TokensInv'
<1>1. TokensInv /\ users' = users /\ sessions' = sessions /\ issued' = issued /\ given' = given
  BY DEF IInv, AdminMap, tables
<1>2. CASE g_admin_sessions' = g_admin_sessions /\ ended' = ended
  BY <1>1, <1>2 DEF TokensInv, TokensTyped, Rows, Accounted, EndedStaysEnded
<1>3. CASE /\ token \in DOMAIN g_admin_sessions
           /\ g_admin_sessions' = Without(g_admin_sessions, {token}) /\ ended' = ended \cup {token}
  <2>1. token \in 1..Len(issued) /\ token \notin DOMAIN sessions
    BY <1>1, <1>3 DEF TokensInv, Rows, AdminId
  <2>2. DOMAIN g_admin_sessions' = DOMAIN g_admin_sessions \ {token}
        /\ \A t \in DOMAIN g_admin_sessions' : g_admin_sessions'[t] = g_admin_sessions[t]
    BY <1>3 DEF Without
  <2> QED BY <1>1, <1>3, <2>1, <2>2, LostEntries
<1> QED BY <1>2, <1>3 DEF AdminMap

\* Logout erases the entry of the map first, then deletes the row.
LEMMA EraseAdminStep ==
  ASSUME IInv, EraseAdmin
  PROVE  TokensInv'
<1>1. TokensInv /\ users' = users /\ sessions' = sessions /\ issued' = issued /\ given' = given
  BY DEF IInv, EraseAdmin, tables
<1> DEFINE E == {token} \cap DOMAIN g_admin_sessions
<1>2. g_admin_sessions' = Without(g_admin_sessions, {token}) /\ ended' = ended \cup E
  BY DEF EraseAdmin
<1>3. E \subseteq 1..Len(issued) /\ DOMAIN sessions \cap E = {}
  BY <1>1 DEF TokensInv, Rows, AdminId
<1>4. DOMAIN g_admin_sessions' = DOMAIN g_admin_sessions \ E
      /\ \A t \in DOMAIN g_admin_sessions' : g_admin_sessions'[t] = g_admin_sessions[t]
  BY <1>2 DEF Without
<1> HIDE DEF E
<1> QED BY <1>1, <1>2, <1>3, <1>4, LostEntries

\* A restart ends every administrator's session and no user's.
LEMMA RestartStep ==
  ASSUME IInv, Restart
  PROVE  TokensInv'
<1>1. TokensInv /\ users' = users /\ sessions' = sessions /\ issued' = issued /\ given' = given
  BY DEF IInv, Restart, tables
<1>2. DOMAIN g_admin_sessions' = {} /\ ended' = ended \cup DOMAIN g_admin_sessions
  <2>1. DOMAIN << >> = {} OBVIOUS
  <2> QED BY <2>1 DEF Restart
<1>3. /\ DOMAIN g_admin_sessions \subseteq 1..Len(issued)
      /\ DOMAIN sessions \cap DOMAIN g_admin_sessions = {}
  BY <1>1 DEF TokensInv, Rows, AdminId
<1>4. DOMAIN g_admin_sessions' = DOMAIN g_admin_sessions \ DOMAIN g_admin_sessions
  BY <1>2
<1> QED BY <1>1, <1>2, <1>3, <1>4, LostEntries

\* The clean-up deletes the rows that are over by the wall clock.
LEMMA CleanupStep ==
  ASSUME IInv, Cleanup
  PROVE  TokensInv'
<1>1. /\ TokensInv /\ users' = users /\ g_admin_sessions' = g_admin_sessions
      /\ issued' = issued /\ given' = given
  BY DEF IInv, Cleanup
<1> DEFINE E == {t \in DOMAIN issued : issued[t].user_id # AdminId /\ issued[t].until <= now}
           S == {t \in DOMAIN sessions : Expired(t)}
<1>2. CASE UNCHANGED <<sessions, ended>>
  BY <1>1, <1>2 DEF TokensInv, TokensTyped, Rows, Accounted, EndedStaysEnded
<1>3. CASE sessions' = Without(sessions, S) /\ ended' = ended \cup E
  <2>1. E \subseteq 1..Len(issued)
    BY <1>1 DEF TokensInv, TokensTyped
  <2>2. S \subseteq E /\ DOMAIN sessions \cap E \subseteq S
    BY <1>1 DEF TokensInv, TokensTyped, Rows, Expired, AdminId
  <2>3. DOMAIN g_admin_sessions \cap E = {}
    BY <1>1 DEF TokensInv, Rows
  <2> HIDE DEF E, S
  <2>4. DOMAIN sessions' = DOMAIN sessions \ S
        /\ \A t \in DOMAIN sessions' : sessions'[t] = sessions[t]
    BY <1>3 DEF Without
  <2> QED BY <1>1, <1>3, <2>1, <2>2, <2>3, <2>4, LostRows
<1> QED BY <1>2, <1>3 DEF Cleanup

\* The DELETE takes the row of the token, and the token is nowhere else.
LEMMA DeleteSessionStep ==
  ASSUME IInv, DeleteSession
  PROVE  TokensInv'
<1>1. /\ TokensInv /\ users' = users /\ g_admin_sessions' = g_admin_sessions
      /\ issued' = issued /\ given' = given
  BY DEF IInv, DeleteSession
<1>2. token \notin DOMAIN g_admin_sessions
  BY DEF IInv, Control, DeleteSession
<1> DEFINE E == {token} \cap DOMAIN issued
           S == RowsOf(token)
<1>3. CASE UNCHANGED <<sessions, ended>>
  BY <1>1, <1>3 DEF TokensInv, TokensTyped, Rows, Accounted, EndedStaysEnded
<1>4. CASE sessions' = Without(sessions, S) /\ ended' = ended \cup E
  <2>1. E \subseteq 1..Len(issued) /\ S \subseteq E /\ DOMAIN sessions \cap E \subseteq S
    BY <1>1 DEF TokensInv, TokensTyped, Rows, RowsOf
  <2>2. DOMAIN g_admin_sessions \cap E = {}
    BY <1>2
  <2> HIDE DEF E, S
  <2>3. DOMAIN sessions' = DOMAIN sessions \ S
        /\ \A t \in DOMAIN sessions' : sessions'[t] = sessions[t]
    BY <1>4 DEF Without
  <2> QED BY <1>1, <1>4, <2>1, <2>2, <2>3, LostRows
<1> QED BY <1>3, <1>4 DEF DeleteSession

\* An account keeps its id and its row.
LEMMA UsersGrow ==
  ASSUME IInv, [Next]_vars
  PROVE  \A id \in 1..Len(users) : id \in 1..Len(users') /\ users'[id] = users[id]
<1>1. CASE users' = users
  BY <1>1
<1>2. CASE users' # users
  <2>1. InsertUser
    BY <1>2, AccountsUntouched
  <2>2. users \in Seq(UserRow) /\ Len(users) \in Nat
    BY LenProperties DEF IInv, Accounts, AccountsTyped
  <2>3. username \in Names /\ password \in Passwords
    BY <2>1 DEF IInv, Control, InsertUser
  <2>4. PICK salt \in Salts : users' = Append(users, [username |-> username,
                                   password_hash |-> HashPassword(password, salt)])
    BY <1>2, <2>1 DEF InsertUser
  <2> DEFINE row == [username |-> username, password_hash |-> HashPassword(password, salt)]
  <2>5. row \in UserRow
    BY <2>3 DEF UserRow, HashPassword, PBKDF2
  <2> HIDE DEF row
  <2> QED BY <2>2, <2>4, <2>5, AppendProperties DEF row
<1> QED BY <1>1, <1>2

\* Every step keeps the tokens accounted for.
LEMMA TokensStep ==
  ASSUME IInv, [Next]_vars
  PROVE  TokensInv'
<1>1. CASE TokenSteps
  BY <1>1, InsertSessionStep, AdminLoginStep, AdminMapStep, CleanupStep, EraseAdminStep,
     DeleteSessionStep, RestartStep DEF TokenSteps
<1>2. CASE ~TokenSteps
  <2>1. UNCHANGED tokens
    BY <1>2, TokensUntouched
  <2> QED BY <2>1, UsersGrow DEF tokens, IInv, TokensInv, TokensTyped, Rows, Accounted, EndedStaysEnded
<1> QED BY <1>1, <1>2


\* Where a handler comes to its next step, the facts of Control about that step hold.
LEMMA ControlStep ==
  ASSUME IInv, [Next]_vars
  PROVE  Control'
<1> USE DEF Presented
<1>0. Control /\ TokensInv /\ Len(issued) \in Nat /\ (at = "free" => op = "none")
  BY LenProperties DEF IInv, Control, TokensInv, TokensTyped
<1>1. CASE UNCHANGED vars
  BY <1>0, <1>1 DEF vars, tables, history, request, Control, Named, PasswordOf
<1>2. ASSUME NEW u \in Names, NEW p \in Passwords, Register(u, p) \/ Login(u, p)
      PROVE  Control'
  <2>1. op' \in {"REGISTER", "LOGIN"} /\ username' = u /\ password' = p
    BY <1>2 DEF Register, Login, Begin
  <2>2. \/ op' = "REGISTER" /\ at' = "CheckName"
        \/ op' = "LOGIN" /\ at' = "FindUser" /\ Len(issued) < MaxTokens /\ issued' = issued
    BY <1>2 DEF Register, Login, Begin, history
  <2> QED BY <1>0, <2>1, <2>2, SessionBounds DEF Control
<1>3. ASSUME NEW t \in Tokens \cup {Forged}, Use(t) \/ UseAdmin(t) \/ Logout(t)
      PROVE  Control'
  BY <1>0, <1>3 DEF Use, UseAdmin, Logout, Begin, Control, tables, history
<1>4. Return => Control'
  BY DEF Return, Control
<1>5. CASE CheckName
  <2>1. CASE Return
    BY <2>1, <1>4
  <2>2. CASE GoOn("InsertUser")
    BY <1>0, <1>5, <2>2 DEF CheckName, GoOn, request, Control
  <2> QED BY <1>5, <2>1, <2>2 DEF CheckName, Answer
<1>6. CASE InsertUser
  BY <1>4, <1>6 DEF InsertUser, InsertError, Answer
<1>7. CASE FindUser
  <2>1. CASE Return
    BY <2>1, <1>4
  <2>2. ASSUME NEW id \in 1..Len(users), Named(id, username),
               VerifyPassword(password, users[id].password_hash),
               uid' = id, at' = "InsertSession", UNCHANGED <<op, username, password>>
        PROVE  Control'
    <3>1. users' = users /\ issued' = issued /\ op = "LOGIN" /\ Len(issued) <= MaxTokens
      BY <1>0, <1>7 DEF FindUser, tables, history, Control
    <3>2. PasswordOf(users[id]) = password
      BY <2>2 DEF PasswordOf, VerifyPassword, PBKDF2
    <3> QED BY <2>2, <3>1, <3>2 DEF Control, Named, PasswordOf
  <2> QED BY <1>7, <2>1, <2>2 DEF FindUser, Answer
<1>8. CASE InsertSession
  BY <1>4, <1>8 DEF InsertSession, Answer
<1>9. CASE AdminMap
  <2>1. CASE Return
    BY <2>1, <1>4
  <2>2. CASE GoOn("SelectSession") /\ token \notin DOMAIN g_admin_sessions
    BY <1>0, <1>9, <2>2 DEF AdminMap, GoOn, request, Control
  <2> QED BY <1>9, <2>1, <2>2 DEF AdminMap, Answer
<1>10. CASE SelectSession
  <2>1. CASE Return
    BY <2>1, <1>4
  <2>2. CASE at' = "Cleanup" /\ op' = op /\ reply'.status # 0
    BY <1>0, <1>10, <2>2 DEF SelectSession, Control
  <2> QED BY <1>10, <2>1, <2>2 DEF SelectSession, Answer, LetIn, Reply, request
<1>11. CASE Cleanup \/ DeleteSession \/ Restart
  BY <1>4, <1>11 DEF Cleanup, DeleteSession, Restart, Answer
<1>12. CASE EraseAdmin
  <2>1. token \notin DOMAIN g_admin_sessions'
    BY <1>12 DEF EraseAdmin, Without
  <2> QED BY <1>0, <1>12, <2>1 DEF EraseAdmin, GoOn, request, history, Control
<1>13. CASE AdminLogin
  <2>1. /\ Len(issued) < MaxTokens /\ UNCHANGED <<users, request, at, reply>>
        /\ given' = given \cup {NewToken}
        /\ DOMAIN g_admin_sessions' = DOMAIN g_admin_sessions \cup {NewToken}
    BY <1>13 DEF AdminLogin, tables
  <2>2. Len(issued)' <= MaxTokens
    <3> DEFINE s == [user_id |-> AdminId, until |-> steady + AdminTtl]
    <3>1. steady + AdminTtl \in Nat /\ AdminId \in Nat
      BY TtlAssumption, SessionBounds DEF IInv, ClocksTyped, AdminId
    <3>2. s \in [user_id : Nat, until : Nat]
      BY <3>1
    <3>3. issued' = Append(issued, s)
      BY <1>13 DEF AdminLogin, Issue
    <3> HIDE DEF s
    <3> QED BY <1>0, <2>1, <3>2, <3>3, AppendProperties, SessionBounds DEF TokensInv, TokensTyped
  <2>3. token \in given \cup {Forged} => token # NewToken
    BY <1>0, <2>1, NewTokenFresh, SessionBounds DEF NewToken, Forged
  <2> QED BY <1>0, <2>1, <2>2, <2>3 DEF request, Control, Named, PasswordOf
<1>14. CASE Tick \/ SetClockBack
  BY <1>0, <1>14 DEF Tick, SetClockBack, tables, history, request, Control, Named, PasswordOf
<1> QED BY <1>1, <1>2, <1>3, <1>5, <1>6, <1>7, <1>8, <1>9, <1>10, <1>11, <1>12, <1>13, <1>14
        DEF Next, Handler

\* Only Tick and SetClockBack move a clock, within its bound.
LEMMA ClocksStep ==
  ASSUME IInv, [Next]_vars
  PROVE  ClocksTyped'
<1> USE DEF ClocksTyped, clocks
<1>1. Requests \/ Presentations => UNCHANGED clocks
  BY DEF Requests, Presentations, Register, Login, Use, UseAdmin, Logout, Begin
<1>2. Handler \/ AdminLogin \/ Restart => UNCHANGED clocks
  BY DEF Handler, CheckName, InsertUser, FindUser, InsertSession, AdminMap, SelectSession, Cleanup,
         EraseAdmin, DeleteSession, AdminLogin, Restart
<1>3. Tick \/ SetClockBack => ClocksTyped'
  BY SessionBounds DEF IInv, Tick, SetClockBack
<1>4. UNCHANGED vars => UNCHANGED clocks
  BY DEF vars
<1>5. UNCHANGED clocks => ClocksTyped'
  BY DEF IInv
<1> QED BY <1>1, <1>2, <1>3, <1>4, <1>5 DEF Next, Requests, Presentations

Answered == reply'.status \in {200, 401, 500} /\ reply'.ok \in BOOLEAN

\* The fields of an answer.
LEMMA ReplyValue ==
  ASSUME NEW status, NEW ok \in BOOLEAN, NEW who, Reply(status, ok, who)
  PROVE  reply'.status = status /\ reply'.ok = ok /\ reply'.who = who /\ reply'.ok \in BOOLEAN
BY DEF Reply

\* A step either leaves the answer alone, clears it for a new request, or gives it.
LEMMA AnswerStep ==
  ASSUME IInv, [Next]_vars
  PROVE  \/ reply' = reply
         \/ reply'.status = 0 /\ reply'.ok \in BOOLEAN
         \/ /\ reply'.status \in {200, 401, 500} /\ reply'.ok \in BOOLEAN
            /\ \/ op = "REGISTER" /\ (CheckName \/ InsertUser)
               \/ op = "LOGIN" /\ (FindUser \/ InsertSession)
               \/ op \in {"USE", "ADMIN"} /\ (AdminMap \/ SelectSession)
               \/ op = "LOGOUT" /\ DeleteSession
<1> USE DEF Answer
<1>0. \A status, ok, who : ok \in BOOLEAN /\ Reply(status, ok, who) =>
        reply'.status = status /\ reply'.ok \in BOOLEAN
  BY ReplyValue
<1>1. Requests \/ Presentations => reply'.status = 0 /\ reply'.ok \in BOOLEAN
  BY <1>0 DEF Requests, Presentations, Register, Login, Use, UseAdmin, Logout, Begin
<1>2. AdminLogin \/ Restart \/ Tick \/ SetClockBack \/ Cleanup \/ EraseAdmin => reply' = reply
  BY DEF AdminLogin, Restart, Tick, SetClockBack, Cleanup, EraseAdmin, GoOn
<1>3. UNCHANGED vars => reply' = reply
  BY DEF vars
<1>4. \A who : /\ Reply(200, TRUE, who) => Answered
               /\ Reply(200, FALSE, who) => Answered
               /\ Reply(401, FALSE, who) => Answered
               /\ Reply(500, FALSE, who) => Answered
  <2> SUFFICES ASSUME NEW who
               PROVE  /\ Reply(200, TRUE, who) => Answered
                      /\ Reply(200, FALSE, who) => Answered
                      /\ Reply(401, FALSE, who) => Answered
                      /\ Reply(500, FALSE, who) => Answered
    OBVIOUS
  <2>1. Reply(200, TRUE, who) => Answered
    BY DEF Reply, Answered
  <2>2. Reply(200, FALSE, who) => Answered
    BY DEF Reply, Answered
  <2>3. Reply(401, FALSE, who) => Answered
    BY DEF Reply, Answered
  <2>4. Reply(500, FALSE, who) => Answered
    BY DEF Reply, Answered
  <2> QED BY <2>1, <2>2, <2>3, <2>4
<1>5. CheckName \/ InsertUser \/ FindUser \/ InsertSession => reply' = reply \/ Answered
  <2>1. CheckName => reply' = reply \/ Answered
    BY <1>4, ZenonT(40) DEF CheckName, GoOn
  <2>2. InsertUser => reply' = reply \/ Answered
    BY <1>4, ZenonT(40) DEF InsertUser, InsertError, GoOn
  <2>3. FindUser => reply' = reply \/ Answered
    BY <1>4, ZenonT(40) DEF FindUser, GoOn
  <2>4. InsertSession => reply' = reply \/ Answered
    BY <1>4, ZenonT(40) DEF InsertSession, GoOn
  <2> QED BY <2>1, <2>2, <2>3, <2>4
<1>6. AdminMap \/ SelectSession \/ DeleteSession => reply' = reply \/ Answered
  <2>1. AdminMap => reply' = reply \/ Answered
    BY <1>4, Zenon DEF AdminMap, GoOn
  <2>2. SelectSession => reply' = reply \/ Answered
    BY <1>4, Zenon DEF SelectSession, LetIn, GoOn
  <2>3. DeleteSession => reply' = reply \/ Answered
    BY <1>4, Zenon DEF DeleteSession, GoOn
  <2> QED BY <2>1, <2>2, <2>3
<1>7. /\ CheckName \/ InsertUser => op = "REGISTER"
      /\ FindUser \/ InsertSession => op = "LOGIN"
      /\ AdminMap \/ SelectSession => op \in {"USE", "ADMIN"}
      /\ DeleteSession => op = "LOGOUT"
  BY DEF IInv, Control, CheckName, InsertUser, FindUser, InsertSession, AdminMap, SelectSession, DeleteSession
<1> QED BY <1>1, <1>2, <1>3, <1>5, <1>6, <1>7 DEF Next, Handler, Requests, Presentations, Answered

\* The induction step, from the five parts.
LEMMA Inductive == IInv /\ [Next]_vars => IInv'
<1> SUFFICES ASSUME IInv, [Next]_vars PROVE IInv'
  OBVIOUS
<1>1. ReplyTyped'
  BY AnswerStep DEF IInv, ReplyTyped
<1> QED BY <1>1, AccountsStep, TokensStep, ControlStep, ClocksStep DEF IInv

\* IInv holds in every state.
LEMMA Invariance == Spec => []IInv
<1> QED BY Initial, Inductive, PTL DEF Spec

\* The declared types follow.
LEMMA IInvTypeOK == IInv => TypeOK
<1> SUFFICES ASSUME IInv PROVE TypeOK
  OBVIOUS
<1>1. \A id \in 1..Len(users) : users[id] \in UserRow
  BY ElementOfSeq DEF IInv, Accounts, AccountsTyped
<1>2. \A id \in 1..Len(users) :
        /\ users[id].username \in Names
        /\ users[id].password_hash \in [salt : Salts, digest : Passwords \X Salts]
  BY <1>1 DEF UserRow
<1>3. at \in Steps /\ op \in {"none", "REGISTER", "LOGIN", "USE", "ADMIN", "LOGOUT"}
  BY DEF IInv, Control, Steps
<1> QED BY <1>2, <1>3 DEF IInv, TokensInv, TokensTyped, Rows, ClocksTyped, ReplyTyped, TypeOK

\* Every state of an execution has the declared types; in particular every session row
\* names an existing account, and every token in the two stores was issued.
THEOREM TypeCorrect == Spec => []TypeOK
<1> QED BY Invariance, IInvTypeOK, PTL

\* A session that a logout, a clean-up or a restart has ended has left both stores
\* (session.cpp): no later request and no change of a clock finds it again.
THEOREM EndedSessionsStayEnded == Spec => []EndedStaysEnded
<1>1. IInv => EndedStaysEnded
  BY DEF IInv, TokensInv
<1> QED BY <1>1, Invariance, PTL

\* A token in one of the stores is one this service made, whose record tells its owner
\* and its end; and it is in one of them only.
LEMMA InAStore ==
  ASSUME IInv
  PROVE  /\ \A t \in DOMAIN sessions :
              /\ t \in 1..Len(issued) /\ t # Forged /\ t \notin DOMAIN g_admin_sessions
              /\ issued[t].user_id = sessions[t].user_id /\ issued[t].user_id # AdminId
              /\ issued[t].until = sessions[t].expires_at /\ issued[t].until \in Nat
         /\ \A t \in DOMAIN g_admin_sessions :
              /\ t \in 1..Len(issued) /\ t # Forged
              /\ issued[t].user_id = AdminId /\ issued[t].until = g_admin_sessions[t]
              /\ issued[t].until \in Nat
<1>1. Len(issued) \in Nat /\ Len(issued) <= MaxTokens + 1
  BY LenProperties DEF IInv, TokensInv, TokensTyped
<1>2. \A t \in 1..Len(issued) : t # Forged
  BY <1>1, SessionBounds DEF Forged
<1>3. \A t \in 1..Len(issued) : issued[t].until \in Nat
  <2>1. \A t \in 1..Len(issued) : issued[t] \in [user_id : Nat, until : Nat]
    BY ElementOfSeq DEF IInv, TokensInv, TokensTyped
  <2> QED BY <2>1
<1> QED BY <1>2, <1>3 DEF IInv, TokensInv, Rows, AdminId

\* GetSession (session.cpp) lets a request in only on a token that was handed out to
\* the very user it answers, has not been ended, and is not over by its clock; and
\* RequireAdmin only on one of the administrator.
THEOREM AcceptedOnlyRightly == Spec => AcceptedRightly
<1>1. IInv /\ [Next]_vars =>
        (Deciding /\ reply'.status = 200 =>
           /\ token \in given \ ended
           /\ issued[token].user_id = reply'.who
           /\ ~Over(token)
           /\ op = "ADMIN" => issued[token].user_id = AdminId)
  <2> SUFFICES ASSUME IInv, [Next]_vars, Deciding, reply'.status = 200
               PROVE  /\ token \in given \ ended
                      /\ issued[token].user_id = reply'.who
                      /\ ~Over(token)
                      /\ op = "ADMIN" => issued[token].user_id = AdminId
    OBVIOUS
  <2>0. reply' # reply /\ \A who : ~Reply(401, FALSE, who)
    BY DEF Reply, Deciding, Answering
  <2>1. AdminMap \/ SelectSession
    BY AnswerStep DEF Deciding, Answering
  <2>2. token \in given \cup {Forged} /\ ended \cap (DOMAIN sessions \cup DOMAIN g_admin_sessions) = {}
    BY <2>1 DEF IInv, Control, Presented, AdminMap, SelectSession, TokensInv, EndedStaysEnded
  <2>3. CASE AdminMap
    <3>1. token \in DOMAIN g_admin_sessions /\ AdminAlive(token) /\ Reply(200, TRUE, AdminId)
      BY <2>0, <2>3, Zenon DEF AdminMap, Answer, GoOn
    <3>2. reply'.who = AdminId
      BY <3>1 DEF Reply
    <3>3. token \in given \ ended /\ issued[token].user_id = AdminId
          /\ issued[token].until = g_admin_sessions[token] /\ issued[token].until \in Nat
      BY <2>2, <3>1, InAStore
    <3>4. ~Over(token)
      BY <3>1, <3>3 DEF Over, Clock, AdminAlive, IInv, ClocksTyped
    <3> QED BY <3>2, <3>3, <3>4
  <2>4. CASE SelectSession
    <3>1. /\ Matches(token) /\ Reply(200, TRUE, sessions[token].user_id)
          /\ RoleFits(sessions[token].user_id)
      BY <2>0, <2>4, Zenon DEF SelectSession, Answer, LetIn
    <3>2. reply'.who = sessions[token].user_id
      BY <3>1 DEF Reply
    <3>3. token \in given \ ended /\ issued[token].user_id = sessions[token].user_id
          /\ issued[token].user_id # AdminId /\ issued[token].until = sessions[token].expires_at
          /\ issued[token].until \in Nat
      BY <2>2, <3>1, InAStore DEF Matches
    <3>4. ~Over(token)
      BY <3>1, <3>3 DEF Over, Clock, Matches, IInv, ClocksTyped
    <3> QED BY <3>1, <3>2, <3>3, <3>4 DEF RoleFits
  <2> QED BY <2>1, <2>3, <2>4
<1> QED BY <1>1, Invariance, PTL DEF Spec, AcceptedRightly

\* Without a database failure GetSession refuses a token that was handed out only when
\* it has been ended, or is over by the clock it lives by, or is a user's in a handler
\* that asks for the administrator (session.cpp).
THEOREM RefusedOnlyRightly == Spec => RefusalExplained
<1>1. IInv /\ [Next]_vars =>
        (Deciding /\ reply'.status = 401 /\ ~fault' /\ token \in given =>
           \/ token \in ended' \/ Over(token)
           \/ op = "ADMIN" /\ issued[token].user_id # AdminId)
  <2> SUFFICES ASSUME IInv, [Next]_vars, Deciding, reply'.status = 401, ~fault', token \in given
               PROVE  \/ token \in ended' \/ Over(token)
                      \/ op = "ADMIN" /\ issued[token].user_id # AdminId
    OBVIOUS
  <2>0. reply' # reply /\ \A who : ~Reply(200, TRUE, who)
    BY DEF Reply, Deciding, Answering
  <2>1. AdminMap \/ SelectSession
    BY AnswerStep DEF Deciding, Answering
  <2>2. CASE AdminMap
    <3>1. token \in ended'
      BY <2>0, <2>2, Zenon DEF AdminMap, Answer, GoOn
    <3> QED BY <3>1
  <2>3. CASE SelectSession
    <3>1. /\ ended' = ended /\ token \notin DOMAIN g_admin_sessions
          /\ Matches(token) => ~RoleFits(sessions[token].user_id)
      BY <2>0, <2>3 DEF SelectSession, Answer, LetIn, history, IInv, Control
    <3>2. token \in ended \cup DOMAIN sessions
      BY <3>1 DEF IInv, TokensInv, Accounted
    <3>3. ASSUME token \in DOMAIN sessions
          PROVE  /\ issued[token].user_id = sessions[token].user_id
                 /\ issued[token].user_id # AdminId
                 /\ issued[token].until = sessions[token].expires_at
                 /\ issued[token].until \in Nat
      BY <3>3, InAStore
    <3>4. CASE token \in DOMAIN sessions /\ ~Matches(token)
      BY <3>3, <3>4 DEF Over, Clock, Matches, IInv, ClocksTyped
    <3>5. CASE Matches(token)
      BY <3>1, <3>3, <3>5 DEF Matches, RoleFits
    <3> QED BY <3>1, <3>2, <3>4, <3>5
  <2> QED BY <2>1, <2>2, <2>3
<1> QED BY <1>1, Invariance, PTL DEF Spec, RefusalExplained

\* A password verifies against a row exactly if it is the row's.
LEMMA UserRows ==
  ASSUME IInv, NEW id \in 1..Len(users)
  PROVE  /\ users[id] \in UserRow
         /\ \A plain : VerifyPassword(plain, users[id].password_hash) <=> PasswordOf(users[id]) = plain
<1>1. users[id] \in UserRow
  BY ElementOfSeq DEF IInv, Accounts, AccountsTyped
<1> DEFINE d == users[id].password_hash.digest
<1>2. d \in Passwords \X Salts /\ d[2] = users[id].password_hash.salt
  BY <1>1 DEF UserRow, IInv, Accounts, Digests
<1>3. d = <<d[1], users[id].password_hash.salt>>
  BY <1>2
<1>4. \A plain : d = <<plain, users[id].password_hash.salt>> <=> d[1] = plain
  BY <1>3
<1> QED BY <1>1, <1>4 DEF VerifyPassword, PBKDF2, PasswordOf

\* A login is refused as wrong only if no registration was confirmed for that account
\* with that password, unless the database failed; and it succeeds with the password of
\* the account only (auth_routes.cpp, password.cpp).
THEOREM LoginsAnsweredRightly == Spec => LoginAnswers
<1>1. IInv /\ [Next]_vars =>
        (op = "LOGIN" /\ Answering =>
           /\ reply'.status = 401 /\ ~fault' =>
                ~\E r \in told : Key[r[1]] = Key[username] /\ r[2] = password
           /\ reply'.ok => /\ Key[users[reply'.who].username] = Key[username]
                           /\ PasswordOf(users[reply'.who]) = password)
  <2> SUFFICES ASSUME IInv, [Next]_vars, op = "LOGIN", Answering
               PROVE  /\ reply'.status = 401 /\ ~fault' =>
                           ~\E r \in told : Key[r[1]] = Key[username] /\ r[2] = password
                      /\ reply'.ok => /\ Key[users[reply'.who].username] = Key[username]
                                      /\ PasswordOf(users[reply'.who]) = password
    OBVIOUS
  <2>1. FindUser \/ InsertSession
    BY AnswerStep DEF Answering
  <2>2. ASSUME reply'.status = 401, ~fault', NEW r \in told, Key[r[1]] = Key[username], r[2] = password
        PROVE  FALSE
    <3>1. \A who : ~Reply(200, TRUE, who) /\ ~Reply(500, FALSE, who)
      BY <2>2 DEF Reply
    <3>2. FindUser
      BY <2>1, <2>2, <3>1, Zenon DEF InsertSession, Answer
    <3>3. ~\E id \in 1..Len(users) : Named(id, username) /\ VerifyPassword(password, users[id].password_hash)
      BY <2>2, <3>2 DEF FindUser, Answering
    <3>4. PICK id \in 1..Len(users) : users[id].username = r[1] /\ PasswordOf(users[id]) = r[2]
      BY DEF IInv, Accounts, Confirmed
    <3>5. VerifyPassword(password, users[id].password_hash)
      BY <2>2, <3>4, UserRows
    <3> QED BY <2>2, <3>3, <3>4, <3>5 DEF Named
  <2>3. ASSUME reply'.ok
        PROVE  Key[users[reply'.who].username] = Key[username] /\ PasswordOf(users[reply'.who]) = password
    <3>1. \A status, who : ~Reply(status, FALSE, who)
      BY <2>3 DEF Reply
    <3>2. reply' # reply
      BY DEF Answering
    <3>3. InsertSession
      BY <2>1, <3>1, <3>2, Zenon DEF FindUser, Answer
    <3>4. Reply(200, TRUE, uid)
      BY <3>1, <3>3, Zenon DEF InsertSession, Answer
    <3>5. reply'.who = uid /\ Named(uid, username) /\ PasswordOf(users[uid]) = password
      BY <3>3, <3>4 DEF Reply, InsertSession, IInv, Control
    <3> QED BY <3>5 DEF Named
  <2> QED BY <2>2, <2>3
<1> QED BY <1>1, Invariance, PTL DEF Spec, LoginAnswers

\* "Registered" means that this name and password log in from now on; "taken" means
\* that the name has an account (auth_routes.cpp).
THEOREM RegistrationsAnsweredRightly == Spec => RegisterAnswers
<1>1. IInv /\ [Next]_vars =>
        (op = "REGISTER" /\ Answering /\ reply'.status = 200 =>
           \E id \in 1..Len(users') :
             /\ Key[users'[id].username] = Key[username]
             /\ reply'.ok => users'[id].username = username /\ PasswordOf(users'[id]) = password)
  <2> SUFFICES ASSUME IInv, [Next]_vars, op = "REGISTER", Answering, reply'.status = 200
               PROVE  \E id \in 1..Len(users') :
                        /\ Key[users'[id].username] = Key[username]
                        /\ reply'.ok => users'[id].username = username /\ PasswordOf(users'[id]) = password
    OBVIOUS
  <2>1. CheckName \/ InsertUser
    BY AnswerStep DEF Answering
  <2>2. reply' # reply /\ \A who : ~Reply(500, FALSE, who)
    BY DEF Reply, Answering
  <2>3. CASE users' = users /\ Reply(200, FALSE, AdminId) /\ \E id \in 1..Len(users) : Named(id, username)
    <3>1. ~reply'.ok
      BY <2>3 DEF Reply
    <3> QED BY <2>3, <3>1 DEF Named
  <2>4. CASE \E salt \in Salts : users' = Append(users, [username |-> username,
                                     password_hash |-> HashPassword(password, salt)])
    <3>1. PICK salt \in Salts : users' = Append(users, [username |-> username,
                                     password_hash |-> HashPassword(password, salt)])
      BY <2>4
    <3> DEFINE row == [username |-> username, password_hash |-> HashPassword(password, salt)]
    <3>2. username \in Names /\ password \in Passwords
      BY <2>1 DEF IInv, Control, CheckName, InsertUser
    <3>3. row \in UserRow /\ row.username = username /\ PasswordOf(row) = password
      BY <3>2 DEF UserRow, HashPassword, PBKDF2, PasswordOf
    <3> HIDE DEF row
    <3>4. users \in Seq(UserRow) /\ Len(users) \in Nat
      BY LenProperties DEF IInv, Accounts, AccountsTyped
    <3>5. Len(users) + 1 \in 1..Len(users') /\ users'[Len(users) + 1] = row
      BY <3>1, <3>3, <3>4, AppendProperties DEF row
    <3> QED BY <3>3, <3>5
  <2>5. CheckName => users' = users /\ Reply(200, FALSE, AdminId) /\ \E id \in 1..Len(users) : Named(id, username)
    BY <2>2, Zenon DEF CheckName, Answer, GoOn, tables
  <2>6. InsertUser /\ NameIsFree(username) =>
          \E salt \in Salts : users' = Append(users, [username |-> username,
                                     password_hash |-> HashPassword(password, salt)])
    BY <2>2, Zenon DEF InsertUser, InsertError, Answer
  <2>7. InsertUser /\ ~NameIsFree(username) =>
          users' = users /\ Reply(200, FALSE, AdminId) /\ \E id \in 1..Len(users) : Named(id, username)
    <3>1. InsertUser /\ ~NameIsFree(username) =>
            users' = users /\ (Answer(200, FALSE, AdminId) \/ InsertError)
      BY DEF InsertUser
    <3>2. ~InsertError
      BY DEF InsertError, Answer, Reply
    <3>3. Answer(200, FALSE, AdminId) => Reply(200, FALSE, AdminId)
      BY DEF Answer
    <3>4. ~NameIsFree(username) => \E id \in 1..Len(users) : Named(id, username)
      BY DEF NameIsFree, Named
    <3> QED BY <3>1, <3>2, <3>3, <3>4
  <2> QED BY <2>1, <2>3, <2>4, <2>5, <2>6, <2>7
<1> QED BY <1>1, Invariance, PTL DEF Spec, RegisterAnswers
================================================================================
