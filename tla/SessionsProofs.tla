--------------------------- MODULE SessionsProofs ---------------------------
(***************************************************************************)
(* The safety of Sessions and of BrowserTabs, for any number of requests,  *)
(* browsers, tabs and users. What a tab may do is part of what a browser   *)
(* may do (TabsImplementSessions), so everything proved of Sessions holds  *)
(* of the tabs. Whom a tab shows follows from what is known of the cookie  *)
(* its answer came with (TabsKnowTheirUser).                               *)
(***************************************************************************)
EXTENDS BrowserTabs, TLAPS

\* What a session, and a request that is to make one, has to do with users.
SessionsHaveUsers ==
    /\ \A k \in Tokens : sessions[k] # Nothing =>
          /\ k \in generated
          /\ sessions[k].user \in users
          /\ k \in loggedOut => k \in undeleted
    /\ \A r \in Requests :
          /\ step[r] = "create" => email[r] \in Emails
          /\ step[r] \in {"session", "signedIn"} => email[r] \in users

SInv == TypeOK /\ EmailRegisteredOnce /\ SessionsHaveUsers

-----------------------------------------------------------------------------
USE SessionsAssumption DEF SInv, SessionsHaveUsers, requestVars, historyVars

LEMMA InitSInv == Init => SInv
BY DEF Init, TypeOK, EmailRegisteredOnce

\* A request that is over leaves nothing behind.
LEMMA FinishTyped ==
    ASSUME SInv, NEW r \in Requests, Finish(r), UNCHANGED generated
    PROVE  /\ step' \in [Requests -> {"idle", "create", "session", "signedIn", "signedOut"}]
           /\ email' \in [Requests -> Emails \union {Nothing}]
           /\ token' \in [Requests -> generated' \union {Nothing}]
BY DEF Finish, TypeOK

LEMMA RegisterInv ==
    ASSUME SInv, NEW r \in Requests, NEW e \in Emails, Register(r, e)
    PROVE  SInv'
BY DEF Register, TypeOK, EmailRegisteredOnce

LEMMA LoginInv ==
    ASSUME SInv, NEW r \in Requests, NEW e \in Emails, Login(r, e)
    PROVE  SInv'
BY DEF Login, TypeOK, EmailRegisteredOnce

LEMMA CreateUserInv ==
    ASSUME SInv, NEW r \in Requests, CreateUser(r)
    PROVE  SInv'
<1> DEFINE e == email[r]
<1>1. e \in Emails
  BY DEF CreateUser
<1>2. \/ e \notin users /\ users' = users \union {e} /\ created' = [created EXCEPT ![e] = 1]
      \/ UNCHANGED <<users, created>>
  <2>1. CASE users' = users
    <3>1. created' = created \/ (e \notin users /\ users' = users \union {e})
      BY <1>1, <2>1 DEF CreateUser, TypeOK
    <3> QED
      BY <2>1, <3>1
  <2>2. CASE users' # users
    <3>1. e \notin users /\ users' = users \union {e} /\ created' = [created EXCEPT ![e] = @ + 1]
      BY <2>2 DEF CreateUser
    <3>2. created[e] = 0
      BY <1>1, <3>1 DEF EmailRegisteredOnce
    <3> QED
      BY <3>1, <3>2
  <2> QED
    BY <2>1, <2>2
<1>3. \/ Finish(r)
      \/ /\ step' = [step EXCEPT ![r] = "session"]
         /\ UNCHANGED <<email, token>>
         /\ users' = users \union {e}
  BY DEF CreateUser
<1>4. UNCHANGED <<sessions, generated, cookie, now, loggedOut, undeleted>>
  BY DEF CreateUser
<1>5. TypeOK'
  <2>1. users' \subseteq Emails /\ created' \in [Emails -> 0..2]
    BY <1>1, <1>2 DEF TypeOK
  <2>2. /\ step' \in [Requests -> {"idle", "create", "session", "signedIn", "signedOut"}]
        /\ email' \in [Requests -> Emails \union {Nothing}]
        /\ token' \in [Requests -> generated' \union {Nothing}]
    BY <1>3, <1>4, FinishTyped DEF TypeOK
  <2> QED
    BY <1>4, <2>1, <2>2 DEF TypeOK
<1>6. EmailRegisteredOnce'
  BY <1>1, <1>2 DEF EmailRegisteredOnce, TypeOK
<1>7. SessionsHaveUsers'
  BY <1>1, <1>2, <1>3, <1>4 DEF Finish, TypeOK
<1> QED
  BY <1>5, <1>6, <1>7

LEMMA StartSessionInv ==
    ASSUME SInv, NEW r \in Requests, NEW k \in Tokens, StartSession(r, k)
    PROVE  SInv'
<1> DEFINE new == [user |-> email[r], expires |-> now + SessionTTL]
<1>1. /\ email[r] \in Emails /\ email[r] \in users
      /\ k \notin generated /\ generated' = generated \union {k}
      /\ sessions' = sessions \/ sessions' = [sessions EXCEPT ![k] = new]
      /\ UNCHANGED <<users, cookie, now, created, loggedOut, undeleted>>
  BY DEF StartSession, TypeOK
<1>2. \/ Finish(r)
      \/ /\ step' = [step EXCEPT ![r] = "signedIn"]
         /\ token' = [token EXCEPT ![r] = k]
         /\ UNCHANGED email
  BY DEF StartSession
<1>3. new \in [user : Emails, expires : 0..MaxTime + SessionTTL]
  BY <1>1 DEF TypeOK
<1>4. TypeOK'
  <2>1. sessions' \in [Tokens -> [user : Emails, expires : 0..MaxTime + SessionTTL] \union {Nothing}]
    BY <1>1, <1>3 DEF TypeOK
  <2>2. /\ step' \in [Requests -> {"idle", "create", "session", "signedIn", "signedOut"}]
        /\ email' \in [Requests -> Emails \union {Nothing}]
        /\ token' \in [Requests -> generated' \union {Nothing}]
    BY <1>1, <1>2 DEF Finish, TypeOK
  <2>3. cookie' \in [Browsers -> generated' \union {Nothing}]
    BY <1>1 DEF TypeOK
  <2> QED
    BY <1>1, <2>1, <2>2, <2>3 DEF TypeOK
<1>5. EmailRegisteredOnce'
  BY <1>1 DEF EmailRegisteredOnce
<1>6. SessionsHaveUsers'
  BY <1>1, <1>2 DEF Finish, TypeOK
<1> QED
  BY <1>4, <1>5, <1>6

LEMMA LogoutInv ==
    ASSUME SInv, NEW r \in Requests, Logout(r)
    PROVE  SInv'
<1> DEFINE k == cookie[JarOf[r]]
<1>1. k \in generated \union {Nothing}
  BY DEF TypeOK
<1>2. CASE k = Nothing
  BY <1>2 DEF Logout, TypeOK, EmailRegisteredOnce
<1>3. CASE k # Nothing
  <2>1. k \in generated /\ k \in Tokens /\ loggedOut' = loggedOut \union {k}
    BY <1>1, <1>3 DEF Logout, TypeOK
  <2>2. \/ sessions' = [sessions EXCEPT ![k] = Nothing] /\ undeleted' = undeleted
        \/ sessions' = sessions /\ undeleted' = undeleted \union {k}
    BY <1>3 DEF Logout
  <2>3. /\ step' = [step EXCEPT ![r] = "signedOut"]
        /\ UNCHANGED <<users, generated, cookie, now, email, token, created>>
    BY DEF Logout
  <2>4. TypeOK'
    BY <2>1, <2>2, <2>3 DEF TypeOK
  <2>5. EmailRegisteredOnce'
    BY <2>3 DEF EmailRegisteredOnce
  <2>6. SessionsHaveUsers'
    BY <2>1, <2>2, <2>3 DEF TypeOK
  <2> QED
    BY <2>4, <2>5, <2>6
<1> QED
  BY <1>2, <1>3

LEMMA ReceiveInv ==
    ASSUME SInv, NEW r \in Requests, Receive(r)
    PROVE  SInv'
BY DEF Receive, Finish, TypeOK, EmailRegisteredOnce

LEMMA LoseResponseInv ==
    ASSUME SInv, NEW r \in Requests, LoseResponse(r)
    PROVE  SInv'
BY DEF LoseResponse, Finish, TypeOK, EmailRegisteredOnce

LEMMA TickInv == SInv /\ Tick => SInv'
BY DEF Tick, TypeOK, EmailRegisteredOnce

LEMMA LoseRedisInv == SInv /\ LoseRedis => SInv'
BY DEF LoseRedis, TypeOK, EmailRegisteredOnce

LEMMA NextSInv == SInv /\ [Next]_vars => SInv'
<1> SUFFICES ASSUME SInv, [Next]_vars PROVE SInv'
  OBVIOUS
<1>1. CASE UNCHANGED vars
  BY <1>1 DEF vars, TypeOK, EmailRegisteredOnce
<1>2. CASE Next
  BY <1>2, RegisterInv, LoginInv, LogoutInv, CreateUserInv, StartSessionInv, ReceiveInv,
     LoseResponseInv, TickInv, LoseRedisInv
     DEF Next, RequestStep
<1> QED
  BY <1>1, <1>2

-----------------------------------------------------------------------------
(* No step revives a session. *)

LEMMA StepRevivesNothing ==
    ASSUME SInv, [Next]_vars, NEW k \in generated, ~Live(k)
    PROVE  ~Live(k)'
<1> USE DEF Live, TypeOK
<1>1. k \in Tokens
  OBVIOUS
<1>2. CASE UNCHANGED <<sessions, now>>
  BY <1>2
<1>3. ASSUME NEW r \in Requests, NEW j \in Tokens, StartSession(r, j)
      PROVE  ~Live(k)'
  <2>1. j # k
    BY <1>3 DEF StartSession
  <2>2. sessions'[k] = sessions[k] /\ now' = now
    BY <1>1, <1>3, <2>1 DEF StartSession
  <2> QED
    BY <2>2
<1>4. ASSUME NEW r \in Requests, Logout(r)
      PROVE  ~Live(k)'
  <2>1. sessions'[k] \in {sessions[k], Nothing} /\ now' = now
    BY <1>1, <1>4 DEF Logout
  <2> QED
    BY <2>1
<1>5. CASE Tick
  BY <1>1, <1>5 DEF Tick
<1>6. CASE LoseRedis
  BY <1>1, <1>6 DEF LoseRedis
<1>7. ASSUME NEW r \in Requests,
             \/ \E e \in Emails : Register(r, e) \/ Login(r, e)
             \/ CreateUser(r) \/ Receive(r) \/ LoseResponse(r)
      PROVE  UNCHANGED <<sessions, now>>
  BY <1>7 DEF Register, Login, CreateUser, Receive, LoseResponse
<1>8. UNCHANGED vars => UNCHANGED <<sessions, now>>
  BY DEF vars
<1> QED
  BY <1>2, <1>3, <1>4, <1>5, <1>6, <1>7, <1>8 DEF Next, RequestStep

-----------------------------------------------------------------------------
(* The tabs. *)

\* Of the session a cookie names nothing else is known than its user, if it is
\* still there.
NamedBy(k, user) == k \in Tokens => sessions[k] = Nothing \/ sessions[k].user = user

\* What a request and its response say of the user of a cookie ...
RequestsKnow == \A r \in Requests :
    /\ step[r] = "signedIn" => token[r] \in Tokens /\ NamedBy(token[r], email[r])
    /\ step[r] = "signedOut" => token[r] = Nothing /\ email[r] = Nothing
    /\ step[r] \in {"idle", "create", "session"} => token[r] = Nothing
    /\ step[r] = "idle" => email[r] = Nothing

\* ... and what an answer to getMe and a tab say of it.
TabsKnow ==
    /\ \A t \in Tabs :
          /\ me[t].user # Nothing => NamedBy(me[t].cookie, me[t].user)
          /\ shown[t] # Nothing /\ ~overtaken[t] => NamedBy(Jar(t), shown[t])
    /\ \A r \in Requests : body[r].user # Nothing => NamedBy(body[r].cookie, body[r].user)

TabsKnowTheirUser == RequestsKnow /\ TabsKnow

TInv == SInv /\ TabsTypeOK /\ TabsKnowTheirUser

USE BrowserTabsAssumption DEF TInv, TabsKnowTheirUser, tabVars

LEMMA InitTInv == TabsInit => TInv
BY InitSInv DEF TabsInit, Init, TabsTypeOK, Calls, Asked, NoCall, Call, TypeOK, RequestsKnow, TabsKnow, NamedBy, Jar

\* Every step of a tab is one the browser may take.
LEMMA TabsStep == [TabsNext]_allVars => [Next]_vars
BY DEF TabsNext, allVars, Next, RequestStep, Load, AnswerMe, ShowMe, LogOut, ReceiveInTab, ShowSignIn, SignIn

\* A session that exists keeps its user or goes, so a cookie that named a user
\* still does.
LEMMA NamesLast ==
    ASSUME SInv, [Next]_vars, NEW k \in generated \union {Nothing}, NEW user, NamedBy(k, user)
    PROVE  NamedBy(k, user)'
<1> SUFFICES ASSUME k \in Tokens PROVE sessions'[k] \in {sessions[k], Nothing}
  BY DEF NamedBy
<1> USE DEF TypeOK
<1>1. ASSUME NEW r \in Requests, NEW j \in Tokens, StartSession(r, j)
      PROVE  sessions'[k] = sessions[k]
  <2>1. j # k
    BY <1>1 DEF StartSession
  <2> QED
    BY <1>1, <2>1 DEF StartSession
<1>2. ASSUME NEW r \in Requests, Logout(r)
      PROVE  sessions'[k] \in {sessions[k], Nothing}
  BY <1>2 DEF Logout
<1>3. CASE LoseRedis
  BY <1>3 DEF LoseRedis
<1>4. CASE UNCHANGED sessions
  BY <1>4
<1>5. ASSUME NEW r \in Requests,
             \/ \E e \in Emails : Register(r, e) \/ Login(r, e)
             \/ CreateUser(r) \/ Receive(r) \/ LoseResponse(r)
      PROVE  UNCHANGED sessions
  BY <1>5 DEF Register, Login, CreateUser, Receive, LoseResponse
<1>6. Tick \/ UNCHANGED vars => UNCHANGED sessions
  BY DEF Tick, vars
<1> QED
  BY <1>1, <1>2, <1>3, <1>4, <1>5, <1>6 DEF Next, RequestStep

\* A request that is over claims nothing.
LEMMA FinishKnows ==
    ASSUME TypeOK, NEW r \in Requests, Finish(r), NEW q \in Requests
    PROVE  \/ q = r /\ step'[q] = "idle" /\ token'[q] = Nothing /\ email'[q] = Nothing
           \/ q # r /\ step'[q] = step[q] /\ token'[q] = token[q] /\ email'[q] = email[q]
BY DEF Finish, TypeOK

\* What the step does to one request q: the claims it makes afterwards are its
\* own or new, and the new ones are true.
LEMMA RequestsKnowNext == SInv /\ RequestsKnow /\ [Next]_vars => RequestsKnow'
<1> SUFFICES ASSUME SInv, RequestsKnow, [Next]_vars, NEW q \in Requests
             PROVE  /\ step[q]' = "signedIn" => token[q]' \in Tokens /\ NamedBy(token[q], email[q])'
                    /\ step[q]' = "signedOut" => token[q]' = Nothing /\ email[q]' = Nothing
                    /\ step[q]' \in {"idle", "create", "session"} => token[q]' = Nothing
                    /\ step[q]' = "idle" => email[q]' = Nothing
  BY DEF RequestsKnow
<1>1. CASE UNCHANGED <<step[q], token[q], email[q]>>
  <2>1. token[q] \in generated \union {Nothing}
    BY DEF TypeOK
  <2>2. NamedBy(token[q], email[q]) => NamedBy(token[q], email[q])'
    BY <1>1, <2>1, NamesLast DEF NamedBy
  <2> QED
    BY <1>1, <2>2 DEF RequestsKnow
<1>2. CASE step'[q] = "idle" /\ token'[q] = Nothing /\ email'[q] = Nothing
  BY <1>2
<1>3. ASSUME NEW r \in Requests, NEW e \in Emails, Register(r, e) \/ Login(r, e)
      PROVE  \/ UNCHANGED <<step[q], token[q], email[q]>>
             \/ step'[q] \in {"create", "session"} /\ token'[q] = Nothing
  BY <1>3 DEF Register, Login, TypeOK, RequestsKnow
<1>4. ASSUME NEW r \in Requests, Logout(r)
      PROVE  \/ UNCHANGED <<step[q], token[q], email[q]>>
             \/ step'[q] = "signedOut" /\ token'[q] = Nothing /\ email'[q] = Nothing
  BY <1>4 DEF Logout, TypeOK, RequestsKnow
<1>5. ASSUME NEW r \in Requests, CreateUser(r)
      PROVE  \/ UNCHANGED <<step[q], token[q], email[q]>>
             \/ step'[q] = "session" /\ token'[q] = Nothing
             \/ step'[q] = "idle" /\ token'[q] = Nothing /\ email'[q] = Nothing
  <2>1. CASE Finish(r)
    BY <2>1, FinishKnows
  <2>2. CASE ~Finish(r)
    BY <1>5, <2>2 DEF CreateUser, TypeOK, RequestsKnow
  <2> QED
    BY <2>1, <2>2
<1>6. ASSUME NEW r \in Requests, NEW k \in Tokens, StartSession(r, k)
      PROVE  \/ UNCHANGED <<step[q], token[q], email[q]>>
             \/ step'[q] = "signedIn" /\ token'[q] = k /\ sessions'[k].user = email'[q]
             \/ step'[q] = "idle" /\ token'[q] = Nothing /\ email'[q] = Nothing
  <2>1. CASE Finish(r)
    BY <2>1, FinishKnows
  <2>2. CASE ~Finish(r)
    BY <1>6, <2>2 DEF StartSession, TypeOK
  <2> QED
    BY <2>1, <2>2
<1>7. ASSUME NEW r \in Requests, Receive(r) \/ LoseResponse(r)
      PROVE  \/ UNCHANGED <<step[q], token[q], email[q]>>
             \/ step'[q] = "idle" /\ token'[q] = Nothing /\ email'[q] = Nothing
  BY <1>7, FinishKnows DEF Receive, LoseResponse
<1>8. Tick \/ LoseRedis \/ UNCHANGED vars => UNCHANGED <<step[q], token[q], email[q]>>
  BY DEF Tick, LoseRedis, vars
<1>9. ASSUME NEW k \in Tokens, step'[q] = "signedIn", token'[q] = k, sessions'[k].user = email'[q]
      PROVE  token'[q] \in Tokens /\ NamedBy(token[q], email[q])'
  BY <1>9 DEF NamedBy
<1>10. CASE step'[q] \in {"create", "session"} /\ token'[q] = Nothing
  BY <1>10
<1>11. CASE step'[q] = "signedOut" /\ token'[q] = Nothing /\ email'[q] = Nothing
  BY <1>11
<1> QED
  BY <1>1, <1>2, <1>3, <1>4, <1>5, <1>6, <1>7, <1>8, <1>9, <1>10, <1>11 DEF Next, RequestStep

\* A step that leaves the tabs and the cookies alone.
LEMMA TabsKnowKept ==
    ASSUME TInv, [Next]_vars, UNCHANGED tabVars, UNCHANGED cookie
    PROVE  TabsKnow'
<1>1. \A k \in generated \union {Nothing} : \A user : NamedBy(k, user) => NamedBy(k, user)'
  BY NamesLast
<1>2. ASSUME NEW t \in Tabs
      PROVE  /\ me[t].user # Nothing => NamedBy(me[t].cookie, me[t].user)'
             /\ shown[t] # Nothing /\ ~overtaken[t] => NamedBy(Jar(t), shown[t])'
  <2>1. me[t].cookie \in generated \union {Nothing} /\ Jar(t) \in generated \union {Nothing}
    BY DEF TabsTypeOK, Calls, TypeOK, Jar
  <2>2. NamedBy(me[t].cookie, me[t].user) => NamedBy(me[t].cookie, me[t].user)'
    BY <1>1, <2>1 DEF NamedBy
  <2>3. NamedBy(Jar(t), shown[t]) => NamedBy(Jar(t), shown[t])'
    BY <1>1, <2>1 DEF NamedBy, Jar
  <2> QED
    BY <2>2, <2>3 DEF TabsKnow
<1>3. ASSUME NEW r \in Requests, body[r].user # Nothing
      PROVE  NamedBy(body[r].cookie, body[r].user)'
  <2>1. body[r].cookie \in generated \union {Nothing}
    BY DEF TabsTypeOK, Calls
  <2> QED
    BY <1>1, <1>3, <2>1 DEF TabsKnow, NamedBy
<1> QED
  BY <1>2, <1>3 DEF TabsKnow

LEMMA LoadKnows ==
    ASSUME TInv, NEW t \in Tabs, Load(t)
    PROVE  TabsKnow'
BY DEF Load, TabsKnow, TabsTypeOK, Calls, Asked, NoCall, Call, NamedBy, Jar, vars

LEMMA AnswerMeKnows ==
    ASSUME TInv, NEW t \in Tabs, AnswerMe(t)
    PROVE  TabsKnow'
<1>1. PICK user \in {Nothing} \union {sessions[k].user : k \in {k \in {Jar(t)} \ {Nothing} : Live(k)}} :
         me' = [me EXCEPT ![t] = Call("answered", user, Jar(t))]
  BY DEF AnswerMe
<1>2. user # Nothing => NamedBy(Jar(t), user)
  BY DEF NamedBy
<1>3. me'[t].user = user /\ me'[t].cookie = Jar(t)
  BY <1>1 DEF Call, TabsTypeOK, Calls
<1>4. \A u \in Tabs \ {t} : me'[u] = me[u]
  BY <1>1 DEF TabsTypeOK
<1>5. UNCHANGED <<shown, body, overtaken, cookie, sessions>>
  BY DEF AnswerMe, vars
<1> QED
  BY <1>2, <1>3, <1>4, <1>5 DEF TabsKnow, NamedBy, Jar

LEMMA ShowMeKnows ==
    ASSUME TInv, NEW t \in Tabs, ShowMe(t)
    PROVE  TabsKnow'
<1>1. UNCHANGED <<sessions, cookie, body>>
  BY DEF ShowMe, vars
<1>2. /\ shown'[t] = me[t].user /\ me'[t].user = Nothing
      /\ ~overtaken'[t] => me[t].cookie = Jar(t)
  BY DEF ShowMe, TabsTypeOK, NoCall, Call
<1>3. \A u \in Tabs \ {t} : shown'[u] = shown[u] /\ me'[u] = me[u] /\ overtaken'[u] = overtaken[u]
  BY DEF ShowMe, TabsTypeOK
<1> QED
  BY <1>1, <1>2, <1>3 DEF TabsKnow, NamedBy, Jar

\* The body names the user of the cookie that came with it ...
LEMMA ReceiveKnows ==
    ASSUME TInv, NEW r \in Requests, ReceiveInTab(r)
    PROVE  TabsKnow'
<1>1. PICK user \in {email[r], Nothing} : body' = [body EXCEPT ![r] = Call("answered", user, token[r])]
  BY DEF ReceiveInTab
<1>2. user # Nothing => NamedBy(token[r], user)
  BY DEF ReceiveInTab, Receive, RequestsKnow
<1>3. /\ body'[r].user = user /\ body'[r].cookie = token[r]
      /\ \A q \in Requests \ {r} : body'[q] = body[q]
  BY <1>1 DEF TabsTypeOK, Call
<1>4. UNCHANGED <<sessions, shown, me>> /\ cookie' = [cookie EXCEPT ![JarOf[r]] = token[r]]
  BY DEF ReceiveInTab, Receive
<1>5. ASSUME NEW t \in Tabs, ~overtaken'[t]
      PROVE  ~overtaken[t] /\ cookie'[BrowserOf[t]] = cookie[BrowserOf[t]]
  BY <1>4, <1>5 DEF ReceiveInTab, TabsTypeOK, TypeOK
<1>6. ASSUME NEW t \in Tabs
      PROVE  /\ me[t].user # Nothing => NamedBy(me[t].cookie, me[t].user)'
             /\ shown'[t] # Nothing /\ ~overtaken'[t] => NamedBy(Jar(t), shown[t])'
  BY <1>4, <1>5 DEF TabsKnow, NamedBy, Jar
<1>7. ASSUME NEW q \in Requests, body'[q].user # Nothing
      PROVE  NamedBy(body[q].cookie, body[q].user)'
  BY <1>2, <1>3, <1>4, <1>7 DEF TabsKnow, NamedBy
<1> QED
  BY <1>4, <1>6, <1>7 DEF TabsKnow

\* ... and the tab shows that user, overtaken unless the cookie is still there.
LEMMA ShowSignInKnows ==
    ASSUME TInv, NEW r \in Requests, ShowSignIn(r)
    PROVE  TabsKnow'
<1> DEFINE t == TabOf[r]
<1>1. UNCHANGED <<sessions, cookie, me>>
  BY DEF ShowSignIn, vars
<1>2. t \in Tabs /\ body'[r].user = Nothing
  BY DEF ShowSignIn, TabsTypeOK, NoCall, Call
<1>3. shown'[t] = body[r].user /\ (~overtaken'[t] => body[r].cookie = Jar(t))
  BY <1>2 DEF ShowSignIn, TabsTypeOK
<1>4. /\ \A u \in Tabs \ {t} : shown'[u] = shown[u] /\ overtaken'[u] = overtaken[u]
      /\ \A q \in Requests \ {r} : body'[q] = body[q]
  BY DEF ShowSignIn, TabsTypeOK
<1>5. ASSUME NEW u \in Tabs, shown'[u] # Nothing, ~overtaken'[u]
      PROVE  NamedBy(Jar(u), shown[u])'
  <2>1. CASE u = t
    BY <1>1, <1>3, <1>5, <2>1 DEF TabsKnow, NamedBy, Jar
  <2>2. CASE u # t
    BY <1>1, <1>4, <1>5, <2>2 DEF TabsKnow, NamedBy, Jar
  <2> QED
    BY <2>1, <2>2
<1>6. ASSUME NEW u \in Tabs, me'[u].user # Nothing
      PROVE  NamedBy(me[u].cookie, me[u].user)'
  BY <1>1, <1>6 DEF TabsKnow, NamedBy
<1>7. ASSUME NEW q \in Requests, body'[q].user # Nothing
      PROVE  NamedBy(body[q].cookie, body[q].user)'
  BY <1>1, <1>2, <1>4, <1>7 DEF TabsKnow, NamedBy
<1> QED
  BY <1>5, <1>6, <1>7 DEF TabsKnow

LEMMA TabsTyped == TInv /\ [TabsNext]_allVars => TabsTypeOK'
<1> SUFFICES ASSUME TInv, [TabsNext]_allVars PROVE TabsTypeOK'
  OBVIOUS
<1>1. TypeOK'
  BY TabsStep, NextSInv
<1> DEFINE Goal == /\ shown' \in [Tabs -> Emails \union {Nothing}]
                   /\ me' \in [Tabs -> Calls] /\ body' \in [Requests -> Calls]
                   /\ overtaken' \in [Tabs -> BOOLEAN]
<1>2. generated \subseteq generated'
  BY TabsStep DEF Next, RequestStep, vars, Register, Login, Logout, CreateUser, StartSession, Receive,
     LoseResponse, Tick, LoseRedis
<1>3. Goal
  <2>1. CASE UNCHANGED tabVars
    BY <2>1 DEF TabsTypeOK
  <2>2. ASSUME NEW t \in Tabs, Load(t) PROVE Goal
    BY <2>2 DEF Load, TabsTypeOK, Calls, Asked, NoCall, Call
  <2>3. ASSUME NEW t \in Tabs, AnswerMe(t) PROVE Goal
    <3>1. Jar(t) \in generated \union {Nothing}
      BY DEF Jar, TypeOK
    <3>2. ASSUME NEW user \in {Nothing} \union {sessions[k].user : k \in {k \in {Jar(t)} \ {Nothing} : Live(k)}}
          PROVE  Call("answered", user, Jar(t)) \in Calls
      BY <3>1 DEF Call, Calls, Live, TypeOK
    <3> QED
      BY <2>3, <3>2 DEF AnswerMe, TabsTypeOK
  <2>4. ASSUME NEW t \in Tabs, ShowMe(t) PROVE Goal
    BY <2>4 DEF ShowMe, TabsTypeOK, Calls, NoCall, Call
  <2>5. ASSUME NEW r \in Requests, ReceiveInTab(r) PROVE Goal
    <3>1. ASSUME NEW user \in {email[r], Nothing}
          PROVE  Call("answered", user, token[r]) \in Calls
      BY <3>1 DEF Call, Calls, TypeOK
    <3> QED
      BY <2>5, <3>1 DEF ReceiveInTab, TabsTypeOK
  <2>6. ASSUME NEW r \in Requests, ShowSignIn(r) PROVE Goal
    BY <2>6 DEF ShowSignIn, TabsTypeOK, Calls, NoCall, Call
  <2> QED
    BY <2>1, <2>2, <2>3, <2>4, <2>5, <2>6 DEF TabsNext, LogOut, SignIn, allVars
<1>4. Calls \subseteq Calls'
  BY <1>2 DEF Calls
<1> QED
  BY <1>1, <1>3, <1>4 DEF TabsTypeOK

LEMMA NextTInv == TInv /\ [TabsNext]_allVars => TInv'
<1> SUFFICES ASSUME TInv, [TabsNext]_allVars PROVE TInv'
  OBVIOUS
<1>1. [Next]_vars
  BY TabsStep
<1>2. SInv' /\ TabsTypeOK' /\ RequestsKnow'
  BY <1>1, NextSInv, TabsTyped, RequestsKnowNext
<1>3. TabsKnow'
  <2>1. ASSUME NEW r \in Requests,
               \/ \E e \in Emails : SignIn(r, e)
               \/ LogOut(r)
               \/ /\ CreateUser(r) \/ (\E k \in Tokens : StartSession(r, k)) \/ LoseResponse(r)
                  /\ UNCHANGED tabVars
        PROVE  UNCHANGED tabVars /\ UNCHANGED cookie
    BY <2>1 DEF SignIn, Register, Login, LogOut, Logout, CreateUser, StartSession, LoseResponse
  <2>2. Tick \/ LoseRedis \/ UNCHANGED allVars => UNCHANGED cookie
    BY DEF Tick, LoseRedis, allVars, vars
  <2>3. UNCHANGED allVars => UNCHANGED tabVars
    BY DEF allVars
  <2> QED
    BY <1>1, <2>1, <2>2, <2>3, TabsKnowKept, LoadKnows, AnswerMeKnows, ShowMeKnows, ReceiveKnows, ShowSignInKnows
       DEF TabsNext
<1> QED
  BY <1>2, <1>3

-----------------------------------------------------------------------------
\* The tabs of a browser do only what Sessions lets a browser do: the pages of
\* the client add no request and no order of requests to it.
THEOREM TabsImplementSessions == TabsSpec => Spec
<1>1. TabsInit => Init
  BY DEF TabsInit
<1> QED
  BY <1>1, TabsStep, PTL DEF TabsSpec, Spec

LEMMA AlwaysTInv == TabsSpec => []TInv
BY InitTInv, NextTInv, PTL DEF TabsSpec

\* TabsTypeOK always holds, with any number of tabs, browsers and requests.
THEOREM TabsTypeCorrect == TabsSpec => []TabsTypeOK
BY AlwaysTInv, PTL

\* However many registrations of an email run at the same time, fail halfway
\* and are retried, it is registered once (auth_handlers.go:87-121).
THEOREM RegisteredOnce == TabsSpec => []EmailRegisteredOnce
BY AlwaysTInv, PTL

\* Every live session belongs to a registered user, and to none who logged out
\* unless Redis failed to delete it (auth_handlers.go:70-85, 142-154).
THEOREM SessionsAccounted == TabsSpec => []SessionsAreAccountedFor
<1>1. SInv => SessionsAreAccountedFor
  BY DEF SessionsAreAccountedFor, Live
<1> QED
  BY <1>1, AlwaysTInv, PTL

\* A session that has expired, was deleted or was lost never comes back
\* (internal/auth/session.go:28-64).
THEOREM NoRevival == TabsSpec => EndedSessionsStayEnded
<1>1. SInv /\ [TabsNext]_allVars => [\A k \in generated : ~Live(k) => ~Live(k)']_vars
  BY TabsStep, StepRevivesNothing
<1> QED
  BY <1>1, AlwaysTInv, PTL DEF TabsSpec, EndedSessionsStayEnded

\* A tab that nothing has overtaken shows the user the gateway acts for
\* (AuthContext.tsx:19-38).
THEOREM ShownUserIsActing == TabsSpec => []ShownUserActs
<1>1. TInv => ShownUserActs
  <2> SUFFICES ASSUME TInv, NEW t \in Tabs, shown[t] # Nothing, ~overtaken[t], Jar(t) # Nothing, Live(Jar(t))
               PROVE  sessions[Jar(t)].user = shown[t]
    BY DEF ShownUserActs
  <2>1. Jar(t) \in Tokens
    BY DEF Jar, TypeOK
  <2> QED
    BY <2>1 DEF TabsKnow, NamedBy, Live
<1> QED
  BY <1>1, AlwaysTInv, PTL
=============================================================================
