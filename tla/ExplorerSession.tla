--------------------------- MODULE ExplorerSession ---------------------------
(***************************************************************************)
(* The explorer's sign-in: browser tabs that share one localStorage, each  *)
(* with its own AuthProvider state, and the Core service's sessions table. *)
(* A call is a record that the page sends, the server processes in one or  *)
(* more steps and the page receives last; between these steps anything may *)
(* happen in any tab.  Passwords, time and the account's other columns are *)
(* left out: a call may fail for any reason, a session may expire any time.*)
(***************************************************************************)
EXTENDS Naturals, Sequences, FiniteSets

CONSTANTS
  Tabs,        \* the open tabs of one browser
  Users,       \* account names, each with one address
  NoUser,      \* no account
  Gone,        \* the page of a call that has been reloaded since
  MaxClicks    \* bound: what the user does, a reload included

ASSUME Names == NoUser \notin Users /\ Gone \notin Tabs
ASSUME Bound == MaxClicks \in Nat

VARIABLES
  owner,       \* owner[k] is the account the token k was issued for
  sessions,    \* the tokens in wallet.sessions
  store,       \* localStorage: fabric_auth_token, fabric_auth_username
  tab,         \* per tab: token, account and loading of its AuthProvider
  calls,       \* the calls not yet received
  clicks,      \* what the user has done so far
  accepted     \* transfers accepted: the account shown, the payload's from

vars == <<owner, sessions, store, tab, calls, clicks, accepted>>

NoToken == 0
Token == Nat
Call == [id : 1..MaxClicks, by : Tabs \cup {Gone},
         op : {"me", "login", "logout", "submit"}, user : Users \cup {NoUser},
         token : Token, at : {"sent", "deleted", "ok", "failed"}]

SignedOut(loading) ==
  [token |-> NoToken, account |-> NoUser, loading |-> loading]
Nothing == [token |-> NoToken, user |-> NoUser]

\* isAuthenticated: what the sign-out buttons and the login page go by.
Authenticated(t) == tab[t].token # NoToken /\ tab[t].account # NoUser

\* The token Transfer sends: the tab's own, else the stored one.
AuthToken_StoredFirst(t) ==
  IF store.token # NoToken THEN store.token ELSE tab[t].token
AuthToken(t) == IF tab[t].token # NoToken THEN tab[t].token ELSE store.token

\* The token logout sends: the stored one, else the tab's own.
LogoutToken(t) == IF store.token # NoToken THEN store.token ELSE tab[t].token

NewCall(t, op, u, k) ==
  [id |-> clicks + 1, by |-> t, op |-> op, user |-> u, token |-> k, at |-> "sent"]

\* c after the server's step; nobody waits for the answer to a page that is gone.
Moved(c, u, k, at) ==
  (calls \ {c}) \cup
    IF c.by = Gone /\ at # "deleted" THEN {}
    ELSE {[id |-> c.id, by |-> c.by, op |-> c.op, user |-> u, token |-> k, at |-> at]}

(* --- The user ----------------------------------------------------------- *)

Click == clicks < MaxClicks /\ clicks' = clicks + 1

\* What else the user does on a page leaves the session alone.
Edit == Click /\ UNCHANGED <<owner, sessions, store, tab, calls, accepted>>

\* A reload: the page's calls lose their page, and the mount effect asks the
\* server whose stored token it has found.
Reload(t) ==
  /\ Click
  /\ tab' = [tab EXCEPT ![t] = [token |-> store.token, account |-> NoUser,
                                loading |-> store.token # NoToken]]
  /\ calls' = {c \in calls : c.by # t}
       \cup {[id |-> c.id, by |-> Gone, op |-> c.op, user |-> c.user,
              token |-> c.token, at |-> c.at]
             : c \in {d \in calls : d.by = t /\ d.at \in {"sent", "deleted"}}}
       \cup (IF store.token = NoToken THEN {}
             ELSE {NewCall(t, "me", NoUser, store.token)})
  /\ UNCHANGED <<owner, sessions, store, accepted>>

\* Login's form; its button is off while loading, and the page leaves once the
\* tab is authenticated.
Login(t, u) ==
  /\ Click
  /\ ~tab[t].loading
  /\ ~Authenticated(t)
  /\ store' = Nothing
  /\ tab' = [tab EXCEPT ![t] = SignedOut(TRUE)]
  /\ calls' = calls \cup {NewCall(t, "login", u, NoToken)}
  /\ UNCHANGED <<owner, sessions, accepted>>

\* The sign-out buttons stay on while a sign-out is under way.
Logout(t) ==
  /\ Click
  /\ Authenticated(t)
  /\ calls' = calls \cup {NewCall(t, "logout", NoUser, LogoutToken(t))}
  /\ UNCHANGED <<owner, sessions, store, tab, accepted>>

\* A transfer, with the account shown, if any, as its payload's from.
Submit(t) ==
  /\ Click
  /\ calls' = calls \cup {NewCall(t, "submit", tab[t].account, AuthToken(t))}
  /\ UNCHANGED <<owner, sessions, store, tab, accepted>>

(* --- The Core service --------------------------------------------------- *)

ServeMe(c) ==
  /\ c.op = "me" /\ c.at = "sent"
  /\ calls' = IF c.token \in sessions THEN Moved(c, owner[c.token], c.token, "ok")
                                      ELSE Moved(c, NoUser, c.token, "failed")
  /\ UNCHANGED <<owner, sessions, store, tab, clicks, accepted>>

\* The right password: the account's sessions are deleted ...
DeleteSessions(c) ==
  /\ c.op = "login" /\ c.at = "sent"
  /\ sessions' = {k \in sessions : owner[k] # c.user}
  /\ calls' = Moved(c, c.user, NoToken, "deleted")
  /\ UNCHANGED <<owner, store, tab, clicks, accepted>>

\* ... and a new one is created, in a second statement.
CreateSession_Unsaved(c) ==
  /\ c.op = "login" /\ c.at = "deleted"
  /\ sessions' = sessions \cup {Len(owner) + 1}
  /\ calls' = Moved(c, c.user, Len(owner) + 1, "ok")
  /\ UNCHANGED <<owner, store, tab, clicks, accepted>>
CreateSession(c) ==
  /\ c.op = "login" /\ c.at = "deleted"
  /\ owner' = Append(owner, c.user)
  /\ sessions' = sessions \cup {Len(owner) + 1}
  /\ calls' = Moved(c, c.user, Len(owner) + 1, "ok")
  /\ UNCHANGED <<store, tab, clicks, accepted>>

ServeLogout(c) ==
  /\ c.op = "logout" /\ c.at = "sent"
  /\ sessions' = sessions \ {c.token}
  /\ calls' = Moved(c, NoUser, c.token, "ok")
  /\ UNCHANGED <<owner, store, tab, clicks, accepted>>

\* The session's account becomes the payload's from; without a session the
\* payload's own from counts, and without that the transfer is refused.
From(c) == IF c.token \in sessions THEN owner[c.token] ELSE c.user

ServeSubmit(c) ==
  /\ c.op = "submit" /\ c.at = "sent"
  /\ IF From(c) = NoUser
       THEN /\ calls' = Moved(c, c.user, c.token, "failed")
            /\ UNCHANGED accepted
       ELSE /\ calls' = Moved(c, c.user, c.token, "ok")
            /\ accepted' = accepted \cup {[shown |-> c.user, from |-> From(c)]}
  /\ UNCHANGED <<owner, sessions, store, tab, clicks>>

Serve(c) ==
  \/ ServeMe(c)
  \/ DeleteSessions(c)
  \/ CreateSession(c)
  \/ ServeLogout(c)
  \/ ServeSubmit(c)

\* A wrong password, an unreachable service, an answer that is lost.
Fail(c) ==
  /\ c.by # Gone
  /\ c.at \in {"sent", "deleted", "ok"}
  /\ calls' = Moved(c, c.user, c.token, "failed")
  /\ UNCHANGED <<owner, sessions, store, tab, clicks, accepted>>

Expire(k) ==
  /\ sessions' = sessions \ {k}
  /\ UNCHANGED <<owner, store, tab, calls, clicks, accepted>>

(* --- The pages ---------------------------------------------------------- *)

\* clearSession, for the tab and for the whole browser.
Clear(t, loading) ==
  /\ store' = Nothing
  /\ tab' = [tab EXCEPT ![t] = SignedOut(loading)]

SignIn(t, u, k) ==
  tab' = [tab EXCEPT ![t] = [token |-> k, account |-> u, loading |-> FALSE]]

\* The token is somebody else's than the name the browser remembers.
Mismatch_Never(u) == FALSE
Mismatch(u) == store.user # NoUser /\ store.user # u

Finished(c) ==
  /\ calls' = calls \ {c}
  /\ UNCHANGED <<owner, sessions, clicks, accepted>>

ReceiveMe(c) ==
  /\ c.op = "me"
  /\ IF c.at = "ok" /\ ~Mismatch(c.user)
       THEN /\ store' = [token |-> store.token, user |-> c.user]
            /\ SignIn(c.by, c.user, c.token)
       ELSE Clear(c.by, FALSE)
  /\ Finished(c)

ReceiveLogin(c) ==
  /\ c.op = "login"
  /\ IF c.at = "ok" THEN /\ store' = [token |-> c.token, user |-> c.user]
                         /\ SignIn(c.by, c.user, c.token)
                    ELSE Clear(c.by, FALSE)
  /\ Finished(c)

\* Whatever the server has answered, the page forgets its session.
ReceiveLogout(c) ==
  /\ c.op = "logout"
  /\ Clear(c.by, tab[c.by].loading)
  /\ Finished(c)

ReceiveSubmit(c) ==
  /\ c.op = "submit"
  /\ Finished(c)
  /\ UNCHANGED <<store, tab>>

Receive(c) ==
  /\ c.by # Gone
  /\ c.at \in {"ok", "failed"}
  /\ \/ ReceiveMe(c)
     \/ ReceiveLogin(c)
     \/ ReceiveLogout(c)
     \/ ReceiveSubmit(c)

(* --- The specification -------------------------------------------------- *)

\* A browser nobody has signed in with, or one in which somebody has, in a tab
\* that is closed now; that session may have ended since.
Init ==
  /\ \/ owner = <<>> /\ sessions = {} /\ store = Nothing
     \/ \E u \in Users : /\ owner = <<u>>
                        /\ sessions \in {{}, {1}}
                        /\ store = [token |-> 1, user |-> u]
  /\ tab = [t \in Tabs |-> SignedOut(FALSE)]
  /\ calls = {}
  /\ clicks = 0
  /\ accepted = {}

Next ==
  \/ \E t \in Tabs : Reload(t) \/ Logout(t) \/ Submit(t)
  \/ \E t \in Tabs, u \in Users : Login(t, u)
  \/ \E c \in calls : Serve(c) \/ Fail(c) \/ Receive(c)
  \/ \E k \in sessions : Expire(k)
  \/ Edit

Spec == Init /\ [][Next]_vars

(* --- Properties --------------------------------------------------------- *)

\* Every variable has its type; a token that anybody holds has been issued.
TypeOK ==
  /\ owner \in Seq(Users)
  /\ sessions \subseteq 1..Len(owner)
  /\ store \in [token : 0..Len(owner), user : Users \cup {NoUser}]
  /\ tab \in [Tabs -> [token : 0..Len(owner), account : Users \cup {NoUser},
                       loading : BOOLEAN]]
  /\ calls \subseteq Call /\ \A c \in calls : c.token <= Len(owner)
  /\ clicks \in 0..MaxClicks
  /\ accepted \subseteq [shown : Users \cup {NoUser}, from : Users]

\* The stored token always belongs to the stored name, whatever answers arrive
\* late in whichever tab (the expected/meUser comparison of refreshMe).
StoredPair ==
  store.token # NoToken => store.user = owner[store.token]

\* A transfer is booked on the account that the page showed when the user
\* clicked, whoever has signed in elsewhere since (authToken, enrichTransferPayload).
SubmittedFrom ==
  \A s \in accepted : s.shown # NoUser => s.from = s.shown
=============================================================================
