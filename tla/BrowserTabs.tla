---------------------------- MODULE BrowserTabs ----------------------------
(***************************************************************************)
(* The tabs of a browser over Sessions: whom each of them shows as signed  *)
(* in (web/src/context/AuthContext.tsx) while all share one cookie.        *)
(* On load a tab asks GET /api/v1/auth/me; the login and registration      *)
(* pages can be used before it is answered, the rest of the client cannot  *)
(* (App.tsx, components/layout/ProtectedRoute.tsx, NavBar.tsx).            *)
(***************************************************************************)
EXTENDS Sessions

CONSTANTS
    Tabs,
    BrowserOf,  \* BrowserOf[t]: the browser tab t belongs to
    TabOf       \* TabOf[r]: the tab that makes request r

ASSUME BrowserTabsAssumption ==
    /\ BrowserOf \in [Tabs -> Browsers]
    /\ TabOf \in [Requests -> Tabs]
    /\ \A r \in Requests : JarOf[r] = BrowserOf[TabOf[r]]

VARIABLES
    shown,      \* shown[t]: user of the AuthContext of t, Nothing for null
    me,         \* me[t]: the getMe of t, its answer and the cookie it is for
    body,       \* body[r]: what r was answered, until the tab has read it
    overtaken   \* history: whom t shows was decided for an earlier cookie

tabVars == <<shown, me, body, overtaken>>
allVars == <<vars, tabVars>>

Call(state, user, jar) == [state |-> state, user |-> user, cookie |-> jar]
NoCall == Call("none", Nothing, Nothing)
Asked == Call("asked", Nothing, Nothing)

Calls == [state : {"none", "asked", "answered"}, user : Emails \union {Nothing},
          cookie : generated \union {Nothing}]

TabsTypeOK ==
    /\ TypeOK
    /\ shown \in [Tabs -> Emails \union {Nothing}]
    /\ me \in [Tabs -> Calls] /\ body \in [Requests -> Calls]
    /\ overtaken \in [Tabs -> BOOLEAN]

TabsInit ==
    /\ Init
    /\ shown = [t \in Tabs |-> Nothing]
    /\ me = [t \in Tabs |-> Asked]
    /\ body = [r \in Requests |-> NoCall]
    /\ overtaken = [t \in Tabs |-> FALSE]

\* The cookie a tab's requests carry.
Jar(t) == cookie[BrowserOf[t]]

-----------------------------------------------------------------------------
\* A tab is opened again or reloaded. A request of the old page that is still
\* under way is one whose response is lost.
Load(t) ==
    /\ \A r \in Requests : TabOf[r] = t => step[r] = "idle"
    /\ shown' = [shown EXCEPT ![t] = Nothing]
    /\ me' = [me EXCEPT ![t] = Asked]
    /\ body' = [r \in Requests |-> IF TabOf[r] = t THEN NoCall ELSE body[r]]
    /\ overtaken' = [overtaken EXCEPT ![t] = FALSE]
    /\ UNCHANGED vars

\* The gateway answers getMe with the user of the session, or a 401; or the
\* call fails, which the client takes for a 401.
AnswerMe(t) ==
    /\ me[t] = Asked
    /\ \E user \in {Nothing} \union {sessions[k].user : k \in {k \in {Jar(t)} \ {Nothing} : Live(k)}} :
          me' = [me EXCEPT ![t] = Call("answered", user, Jar(t))]
    /\ UNCHANGED <<vars, shown, body, overtaken>>

\* The answer is shown, whatever happened meanwhile.
ShowMe(t) ==
    /\ me[t].state = "answered"
    /\ shown' = [shown EXCEPT ![t] = me[t].user]
    /\ overtaken' = [overtaken EXCEPT ![t] = me[t].cookie # Jar(t)]
    /\ me' = [me EXCEPT ![t] = NoCall]
    /\ UNCHANGED <<vars, body>>

\* The log-out button is there once the tab shows a user.
LogOut(r) ==
    /\ me[TabOf[r]] = NoCall
    /\ shown[TabOf[r]] # Nothing
    /\ body[r] = NoCall
    /\ Logout(r)
    /\ UNCHANGED tabVars

\* The response of login, register or logout: the browser stores the cookie
\* at once, the tab reads on. A body that is cut off is read as null.
ReceiveInTab(r) ==
    /\ Receive(r)
    /\ \E user \in {email[r], Nothing} :
          body' = [body EXCEPT ![r] = Call("answered", user, token[r])]
    /\ overtaken' = [t \in Tabs |-> overtaken[t] \/ BrowserOf[t] = JarOf[r]]
    /\ UNCHANGED <<shown, me>>

\* setUser, whatever cookie other tabs have brought in meanwhile.
ShowSignIn(r) ==
    /\ body[r] # NoCall
    /\ shown' = [shown EXCEPT ![TabOf[r]] = body[r].user]
    /\ overtaken' = [overtaken EXCEPT ![TabOf[r]] = body[r].cookie # Jar(TabOf[r])]
    /\ body' = [body EXCEPT ![r] = NoCall]
    /\ UNCHANGED <<vars, me>>

\* Mutant of SignIn: the user is set when the form is sent.
SignInOptimistic(r, e) ==
    /\ Register(r, e) \/ Login(r, e)
    /\ shown' = [shown EXCEPT ![TabOf[r]] = e]
    /\ UNCHANGED <<me, body, overtaken>>

SignIn(r, e) ==
    /\ body[r] = NoCall
    /\ Register(r, e) \/ Login(r, e)
    /\ UNCHANGED tabVars

TabsNext ==
    \/ \E t \in Tabs : Load(t) \/ AnswerMe(t) \/ ShowMe(t)
    \/ \E r \in Requests :
          \/ \E e \in Emails : SignIn(r, e)
          \/ LogOut(r)
          \/ ReceiveInTab(r)
          \/ ShowSignIn(r)
          \/ /\ \/ CreateUser(r)
                \/ \E k \in Tokens : StartSession(r, k)
                \/ LoseResponse(r)
             /\ UNCHANGED tabVars
    \/ (Tick \/ LoseRedis) /\ UNCHANGED tabVars

TabsSpec == TabsInit /\ [][TabsNext]_allVars

-----------------------------------------------------------------------------
\* The gateway acts for the user a tab shows, as long as the cookie the tab
\* learned of its user from is the cookie it sends. So only two things make a
\* tab show one user and trade for another: a sign-in in another tab, and an
\* answer to getMe that is older than the tab's own sign-in
\* (AuthContext.tsx:19-38).
ShownUserActs ==
    \A t \in Tabs :
        shown[t] # Nothing /\ ~overtaken[t] =>
            \A k \in {Jar(t)} \ {Nothing} : Live(k) => sessions[k].user = shown[t]
=============================================================================
