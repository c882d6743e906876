------------------------------ MODULE Sessions ------------------------------
(***************************************************************************)
(* Accounts and sessions (internal/httpapi/auth_handlers.go): the users    *)
(* table, the session keys in Redis with their time to live                *)
(* (internal/auth/session.go), the cookie jars of the browsers, and the    *)
(* register, login and logout requests in between. Requests of one browser *)
(* run side by side, and their responses come back in any order. An email  *)
(* stands for the user it belongs to, who knows the password.              *)
(***************************************************************************)
EXTENDS Naturals

CONSTANTS
    Requests,    \* register, login and logout requests in progress at once
    Browsers,
    JarOf,       \* JarOf[r]: the browser that makes request r
    Emails,
    Tokens,      \* session tokens that may be generated (bounds the model)
    Nothing,     \* no token, no session, no email
    SessionTTL,  \* in ticks
    MaxTime      \* ticks (bounds the model)

ASSUME SessionsAssumption ==
    /\ JarOf \in [Requests -> Browsers]
    /\ Nothing \notin Emails \union Tokens
    /\ SessionTTL \in Nat \ {0}
    /\ MaxTime \in Nat

VARIABLES
    users,      \* Postgres: registered emails
    sessions,   \* Redis: sessions[k]
    generated,  \* tokens generateToken has returned
    cookie,     \* cookie[b]: the vot_session cookie of browser b
    now,
    step, email, token,    \* one handler (and its response) per request
    created,    \* history: created[e]: how many CreateUser calls succeeded
    loggedOut,  \* history: tokens whose logout has been answered
    undeleted   \* history: ... of which Redis failed to delete these

requestVars == <<step, email, token>>
historyVars == <<created, loggedOut, undeleted>>
vars == <<users, sessions, generated, cookie, now, requestVars, historyVars>>

TypeOK ==
    /\ users \subseteq Emails
    /\ sessions \in [Tokens -> [user : Emails, expires : 0..MaxTime + SessionTTL] \union {Nothing}]
    /\ generated \subseteq Tokens
    /\ cookie \in [Browsers -> generated \union {Nothing}]
    /\ now \in 0..MaxTime
    /\ step \in [Requests -> {"idle", "create", "session", "signedIn", "signedOut"}]
    /\ email \in [Requests -> Emails \union {Nothing}]
    /\ token \in [Requests -> generated \union {Nothing}]
    /\ created \in [Emails -> 0..2]
    /\ undeleted \subseteq loggedOut /\ loggedOut \subseteq generated

Init ==
    /\ users = {}
    /\ sessions = [k \in Tokens |-> Nothing]
    /\ generated = {}
    /\ cookie = [b \in Browsers |-> Nothing]
    /\ now = 0
    /\ step = [r \in Requests |-> "idle"]
    /\ email = [r \in Requests |-> Nothing]
    /\ token = [r \in Requests |-> Nothing]
    /\ created = [e \in Emails |-> 0]
    /\ loggedOut = {}
    /\ undeleted = {}

-----------------------------------------------------------------------------
\* SessionStore.UserID, all requireAuth asks: the key exists and has not
\* expired. Nothing is written, so a session in use expires like any other.
Live(k) == sessions[k] # Nothing /\ now < sessions[k].expires

\* The response has been read, or nobody is there to read it.
Finish(r) ==
    /\ step' = [step EXCEPT ![r] = "idle"]
    /\ email' = [email EXCEPT ![r] = Nothing]
    /\ token' = [token EXCEPT ![r] = Nothing]

\* POST register, past validation and hashing.
Register(r, e) ==
    /\ step[r] = "idle"
    /\ step' = [step EXCEPT ![r] = "create"]
    /\ email' = [email EXCEPT ![r] = e]
    /\ UNCHANGED <<users, sessions, generated, cookie, now, token, historyVars>>

\* Mutant of CreateUser: users has no unique index on email.
CreateUserNoIndex(r) ==
    /\ step[r] = "create"
    /\ users' = users \union {email[r]}
    /\ created' = [created EXCEPT ![email[r]] = @ + 1]
    /\ step' = [step EXCEPT ![r] = "session"]
    /\ UNCHANGED <<email, token>>
    /\ UNCHANGED <<sessions, generated, cookie, now, loggedOut, undeleted>>

\* CreateUser: a new row, the unique index's refusal (409), or an error
\* (500), after which the row may be there all the same.
CreateUser(r) ==
    /\ step[r] = "create"
    /\ \/ /\ email[r] \notin users
          /\ users' = users \union {email[r]}
          /\ created' = [created EXCEPT ![email[r]] = @ + 1]
          /\ step' = [step EXCEPT ![r] = "session"]
          /\ UNCHANGED <<email, token>>
       \/ /\ email[r] \in users
          /\ UNCHANGED <<users, created>>
          /\ Finish(r)
       \/ /\ users' \in {users, users \union {email[r]}}
          /\ created' = [created EXCEPT ![email[r]] = @ + IF users' = users THEN 0 ELSE 1]
          /\ Finish(r)
    /\ UNCHANGED <<sessions, generated, cookie, now, loggedOut, undeleted>>

\* POST login: the user is found and the password verified (else a 401, or
\* an error the handler cannot tell from one).
Login(r, e) ==
    /\ step[r] = "idle"
    /\ e \in users
    /\ step' = [step EXCEPT ![r] = "session"]
    /\ email' = [email EXCEPT ![r] = e]
    /\ UNCHANGED <<users, sessions, generated, cookie, now, token, historyVars>>

\* Mutant of StartSession: the session is created for no user.
StartSessionForNobody(r, k) ==
    /\ step[r] = "session"
    /\ k \notin generated
    /\ generated' = generated \union {k}
    /\ sessions' = [sessions EXCEPT ![k] = [user |-> Nothing, expires |-> now + SessionTTL]]
    /\ step' = [step EXCEPT ![r] = "signedIn"]
    /\ token' = [token EXCEPT ![r] = k]
    /\ UNCHANGED <<users, email, cookie, now, historyVars>>

\* Mutant of StartSession: the token the browser already has is used again.
StartSessionKeepsToken(r, k) ==
    /\ step[r] = "session"
    /\ IF cookie[JarOf[r]] = Nothing THEN k \notin generated ELSE k = cookie[JarOf[r]]
    /\ generated' = generated \union {k}
    /\ sessions' = [sessions EXCEPT ![k] = [user |-> email[r], expires |-> now + SessionTTL]]
    /\ step' = [step EXCEPT ![r] = "signedIn"]
    /\ token' = [token EXCEPT ![r] = k]
    /\ UNCHANGED <<users, email, cookie, now, historyVars>>

\* startSession: SET with the TTL, then Set-Cookie and the response. When the
\* SET reports an error the request ends in a 500 without a cookie; Redis may
\* hold the session all the same.
StartSession(r, k) ==
    /\ step[r] = "session"
    /\ k \notin generated
    /\ generated' = generated \union {k}
    /\ LET stored == [sessions EXCEPT ![k] = [user |-> email[r], expires |-> now + SessionTTL]] IN
       \/ /\ sessions' = stored
          /\ step' = [step EXCEPT ![r] = "signedIn"]
          /\ token' = [token EXCEPT ![r] = k]
          /\ UNCHANGED email
       \/ /\ sessions' \in {sessions, stored}
          /\ Finish(r)
    /\ UNCHANGED <<users, cookie, now, historyVars>>

\* Mutant of Logout: only the cookie is cleared.
LogoutKeepsSession(r) ==
    /\ step[r] = "idle"
    /\ step' = [step EXCEPT ![r] = "signedOut"]
    /\ loggedOut' = loggedOut \union ({cookie[JarOf[r]]} \ {Nothing})
    /\ UNCHANGED <<users, sessions, generated, cookie, now, email, token, created, undeleted>>

\* POST logout, open to anyone: the session of the cookie is deleted, and
\* an error of Redis is ignored.
Logout(r) ==
    /\ step[r] = "idle"
    /\ step' = [step EXCEPT ![r] = "signedOut"]
    /\ LET k == cookie[JarOf[r]] IN
          IF k = Nothing
          THEN UNCHANGED <<sessions, loggedOut, undeleted>>
          ELSE /\ loggedOut' = loggedOut \union {k}
               /\ \/ /\ sessions' = [sessions EXCEPT ![k] = Nothing]
                     /\ UNCHANGED undeleted
                  \/ /\ undeleted' = undeleted \union {k}
                     /\ UNCHANGED sessions
    /\ UNCHANGED <<users, generated, cookie, now, email, token, created>>

\* A response reaches the browser, which stores or clears the cookie ...
Receive(r) ==
    /\ step[r] \in {"signedIn", "signedOut"}
    /\ cookie' = [cookie EXCEPT ![JarOf[r]] = token[r]]
    /\ Finish(r)
    /\ UNCHANGED <<users, sessions, generated, now, historyVars>>

\* ... or is lost.
LoseResponse(r) ==
    /\ step[r] \in {"signedIn", "signedOut"}
    /\ Finish(r)
    /\ UNCHANGED <<users, sessions, generated, cookie, now, historyVars>>

Tick ==
    /\ now < MaxTime
    /\ now' = now + 1
    /\ UNCHANGED <<users, sessions, generated, cookie, requestVars, historyVars>>

\* Redis restarts empty: everyone is signed out.
LoseRedis ==
    /\ sessions' = [k \in Tokens |-> Nothing]
    /\ UNCHANGED <<users, generated, cookie, now, requestVars, historyVars>>

RequestStep(r) ==
    \/ CreateUser(r)
    \/ \E k \in Tokens : StartSession(r, k)
    \/ Receive(r)
    \/ LoseResponse(r)

Next ==
    \/ \E r \in Requests :
          \/ \E e \in Emails : Register(r, e) \/ Login(r, e)
          \/ Logout(r)
          \/ RequestStep(r)
    \/ Tick
    \/ LoseRedis

Spec == Init /\ [][Next]_vars

-----------------------------------------------------------------------------
\* An email is registered once, however many registrations of it run at the
\* same time, fail halfway and are retried (auth_handlers.go:87-121).
EmailRegisteredOnce == \A e \in Emails : created[e] = IF e \in users THEN 1 ELSE 0

\* No session, not even one whose cookie was never delivered, belongs to
\* someone who is not registered or survives a logout that Redis carried out
\* (auth_handlers.go:70-85, 142-154).
SessionsAreAccountedFor ==
    \A k \in Tokens : Live(k) =>
        /\ sessions[k].user \in users
        /\ k \in loggedOut => k \in undeleted

\* A session that has ended (expired, deleted, lost with Redis) never comes
\* back: not by a late response, a retry or another login.
EndedSessionsStayEnded == [][\A k \in generated : ~Live(k) => ~Live(k)']_vars
=============================================================================
