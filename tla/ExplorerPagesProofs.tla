------------------------- MODULE ExplorerPagesProofs -------------------------
(***************************************************************************)
(* Proofs about the explorer's sign-in, submit form and wallet: the pages  *)
(* implement the session's specification, a stored token is never          *)
(* another account's, a transfer is booked on the account shown, common    *)
(* fields are never a contract's own, and the wallet shows the balance of  *)
(* the account it shows.                                                   *)
(***************************************************************************)
EXTENDS ExplorerPages, Integers, TLAPS, SequenceTheorems

(* --- The session's invariant --------------------------------------------- *)

Holder == Users \cup {NoUser}

Typed ==
  /\ owner \in Seq(Users)
  /\ sessions \subseteq 1..Len(owner)
  /\ store \in [token : 0..Len(owner), user : Holder]
  /\ tab \in [Tabs -> [token : 0..Len(owner), account : Holder, loading : BOOLEAN]]
  /\ calls \subseteq Call
  /\ clicks \in 0..MaxClicks
  /\ accepted \subseteq [shown : Holder, from : Users]

\* Token k is one that was issued for account u.
Owns(u, k) == k \in 1..Len(owner) /\ owner[k] = u

\* What a call on its way says of tokens and accounts is so.
CallTrue(c) ==
  /\ c.token <= Len(owner)
  /\ c.op = "login" => c.user \in Users
  /\ c.op = "me" => c.token # NoToken
  /\ c.op \in {"me", "login"} /\ c.at = "ok" => Owns(c.user, c.token)
  /\ c.op = "submit" /\ c.user # NoUser => Owns(c.user, c.token)

TabTrue(t) == tab[t].account # NoUser => Owns(tab[t].account, tab[t].token)

SessionInv ==
  /\ Typed
  /\ StoredPair
  /\ \A t \in Tabs : TabTrue(t)
  /\ \A c \in calls : CallTrue(c)
  /\ SubmittedFrom

(* --- Records and sets of calls ------------------------------------------- *)

States == {"sent", "deleted", "ok", "failed"}

\* A call's record has the call's type.
LEMMA CallRecord ==
  ASSUME NEW i \in 1..MaxClicks, NEW b \in Tabs \cup {Gone},
         NEW o \in {"me", "login", "logout", "submit"}, NEW u \in Holder,
         NEW k \in Nat, NEW a \in States
  PROVE  [id |-> i, by |-> b, op |-> o, user |-> u, token |-> k, at |-> a] \in Call
  BY DEF Call, Token, Holder, States

\* The parts of a call.
LEMMA CallParts ==
  ASSUME NEW c \in Call
  PROVE  /\ c.id \in 1..MaxClicks
         /\ c.by \in Tabs \cup {Gone}
         /\ c.op \in {"me", "login", "logout", "submit"}
         /\ c.user \in Holder
         /\ c.token \in Nat
         /\ c.at \in States
  BY DEF Call, Token, Holder, States

\* The server's step leaves the other calls and at most one new form of its own.
LEMMA MovedElements ==
  ASSUME NEW c, NEW u, NEW k, NEW a, NEW x \in Moved(c, u, k, a)
  PROVE  \/ x \in calls
         \/ x = [id |-> c.id, by |-> c.by, op |-> c.op, user |-> u, token |-> k, at |-> a]
  BY DEF Moved

LEMMA MovedTyped ==
  ASSUME calls \subseteq Call, NEW c \in calls, NEW u \in Holder, NEW k \in Nat,
         NEW a \in States
  PROVE  Moved(c, u, k, a) \subseteq Call
  <1> SUFFICES ASSUME NEW x \in Moved(c, u, k, a) PROVE x \in Call
    OBVIOUS
  <1>1. c \in Call
    OBVIOUS
  <1>2. [id |-> c.id, by |-> c.by, op |-> c.op, user |-> u, token |-> k, at |-> a] \in Call
    BY <1>1, CallParts, CallRecord
  <1> QED
    BY <1>2, MovedElements

\* What was true of the calls stays true if the moved one is true.
LEMMA MovedTrue ==
  ASSUME NEW c \in calls, NEW u, NEW k, NEW a,
         calls' = Moved(c, u, k, a),
         \A d \in calls : CallTrue(d)',
         CallTrue([id |-> c.id, by |-> c.by, op |-> c.op, user |-> u, token |-> k,
                   at |-> a])'
  PROVE  (\A d \in calls : CallTrue(d))'
  BY MovedElements DEF CallTrue, Owns

\* A click's new call.
LEMMA NewCallTyped ==
  ASSUME Typed, Click, NEW t \in Tabs, NEW o \in {"me", "login", "logout", "submit"},
         NEW u \in Holder, NEW k \in Nat
  PROVE  NewCall(t, o, u, k) \in Call
  <1>1. clicks + 1 \in 1..MaxClicks
    BY Bound DEF Typed, Click
  <1> QED
    BY <1>1, CallRecord DEF NewCall, States

\* A counter's step.
LEMMA ClickTyped ==
  ASSUME Typed, Click
  PROVE  clicks' \in 0..MaxClicks
  BY Bound DEF Typed, Click

\* With the tokens unchanged what is true of a call or a tab stays so.
LEMMA CallsKept ==
  ASSUME SessionInv, owner' = owner
  PROVE  \A c \in calls : CallTrue(c)'
  BY DEF SessionInv, CallTrue, Owns

(* --- What the user does -------------------------------------------------- *)

LEMMA TabParts ==
  ASSUME Typed, NEW t \in Tabs
  PROVE  /\ tab[t].token \in 0..Len(owner)
         /\ tab[t].account \in Holder
         /\ tab[t].loading \in BOOLEAN
  BY DEF Typed

LEMMA StoreParts ==
  ASSUME Typed
  PROVE  /\ store.token \in 0..Len(owner)
         /\ store.user \in Holder
         /\ Len(owner) \in Nat
  BY DEF Typed

LEMMA TabSet ==
  ASSUME Typed, NEW t \in Tabs, NEW k \in 0..Len(owner), NEW u \in Holder,
         NEW l \in BOOLEAN,
         tab' = [tab EXCEPT ![t] = [token |-> k, account |-> u, loading |-> l]],
         u # NoUser => Owns(u, k),
         owner' = owner,
         \A s \in Tabs : TabTrue(s)
  PROVE  /\ tab' \in [Tabs -> [token : 0..Len(owner), account : Holder,
                              loading : BOOLEAN]]
         /\ (\A s \in Tabs : TabTrue(s))'
  <1>1. [token |-> k, account |-> u, loading |-> l]
          \in [token : 0..Len(owner), account : Holder, loading : BOOLEAN]
    OBVIOUS
  <1>2. tab \in [Tabs -> [token : 0..Len(owner), account : Holder, loading : BOOLEAN]]
    BY DEF Typed
  <1>3. tab' \in [Tabs -> [token : 0..Len(owner), account : Holder, loading : BOOLEAN]]
    BY <1>1, <1>2
  <1>4. ASSUME NEW s \in Tabs PROVE TabTrue(s)'
    <2>1. CASE s = t
      <3>1. tab'[s] = [token |-> k, account |-> u, loading |-> l]
        BY <1>2, <2>1
      <3> QED
        BY <3>1 DEF TabTrue, Owns
    <2>2. CASE s # t
      <3>1. tab'[s] = tab[s]
        BY <1>2, <2>2
      <3> QED
        BY <3>1 DEF TabTrue, Owns
    <2> QED
      BY <2>1, <2>2
  <1> QED
    BY <1>3, <1>4

LEMMA ReloadStep ==
  ASSUME SessionInv, NEW t \in Tabs, Reload(t)
  PROVE  SessionInv'
  <1> USE DEF SessionInv
  <1>0. UNCHANGED <<owner, sessions, store, accepted>> /\ Click
    BY DEF Reload
  <1>1. \A d \in calls : d \in Call
    BY DEF Typed
  <1>2. \A d \in calls : [id |-> d.id, by |-> Gone, op |-> d.op, user |-> d.user,
                          token |-> d.token, at |-> d.at] \in Call
    BY <1>1, CallParts, CallRecord
  <1>3. NewCall(t, "me", NoUser, store.token) \in Call
    <2>1. Typed /\ store.token \in Nat /\ NoUser \in Holder
      BY StoreParts DEF Holder
    <2> QED
      BY <2>1, <1>0, NewCallTyped
  <1>4. ASSUME NEW x \in calls'
        PROVE  \/ x \in calls
               \/ \E d \in calls : x = [id |-> d.id, by |-> Gone, op |-> d.op,
                                        user |-> d.user, token |-> d.token, at |-> d.at]
               \/ store.token # NoToken /\ x = NewCall(t, "me", NoUser, store.token)
    BY <1>4 DEF Reload
  <1>5. calls' \subseteq Call
    BY <1>1, <1>2, <1>3, <1>4
  <1>6. (\A d \in calls : CallTrue(d))'
    <2> SUFFICES ASSUME NEW x \in calls' PROVE CallTrue(x)'
      OBVIOUS
    <2>1. CASE x \in calls
      BY <2>1, <1>0, CallsKept
    <2>2. ASSUME NEW d \in calls, x = [id |-> d.id, by |-> Gone, op |-> d.op,
                     user |-> d.user, token |-> d.token, at |-> d.at]
          PROVE  CallTrue(x)'
      BY <2>2, <1>0, CallsKept DEF CallTrue, Owns
    <2>3. CASE store.token # NoToken /\ x = NewCall(t, "me", NoUser, store.token)
      BY <2>3, <1>0, StoreParts DEF CallTrue, NewCall, Owns
    <2> QED
      BY <1>4, <2>1, <2>2, <2>3
  <1>7. /\ tab' \in [Tabs -> [token : 0..Len(owner), account : Holder, loading : BOOLEAN]]
        /\ (\A s \in Tabs : TabTrue(s))'
    <2>1. tab' = [tab EXCEPT ![t] = [token |-> store.token, account |-> NoUser,
                                     loading |-> store.token # NoToken]]
      BY DEF Reload
    <2>2. (store.token # NoToken) \in BOOLEAN /\ NoUser \in Holder
      BY DEF Holder
    <2> HIDE DEF SessionInv
    <2> QED
      BY <2>1, <2>2, <1>0, StoreParts, TabSet DEF SessionInv
  <1>8. clicks' \in 0..MaxClicks
    BY <1>0, ClickTyped
  <1>9. Typed'
    BY <1>0, <1>5, <1>7, <1>8 DEF Typed
  <1>10. StoredPair' /\ SubmittedFrom'
    BY <1>0 DEF StoredPair, SubmittedFrom
  <1> QED
    BY <1>6, <1>7, <1>9, <1>10

\* A click that sends one call more.
LEMMA CallAdded ==
  ASSUME SessionInv, owner' = owner, NEW n \in Call, CallTrue(n),
         calls' = calls \cup {n}
  PROVE  calls' \subseteq Call /\ (\A c \in calls : CallTrue(c))'
  <1>1. calls' \subseteq Call
    BY DEF SessionInv, Typed
  <1>2. ASSUME NEW x \in calls' PROVE CallTrue(x)'
    <2>1. CASE x \in calls
      BY <2>1, CallsKept
    <2>2. CASE x = n
      BY <2>2 DEF CallTrue, Owns
    <2> QED
      BY <2>1, <2>2
  <1> QED
    BY <1>1, <1>2

LEMMA LoginStep ==
  ASSUME SessionInv, NEW t \in Tabs, NEW u \in Users, Login(t, u)
  PROVE  SessionInv'
  <1>0. /\ UNCHANGED <<owner, sessions, accepted>> /\ Click
        /\ store' = Nothing
        /\ calls' = calls \cup {NewCall(t, "login", u, NoToken)}
        /\ tab' = [tab EXCEPT ![t] = [token |-> NoToken, account |-> NoUser,
                                      loading |-> TRUE]]
    BY DEF Login, SignedOut
  <1>1. Typed /\ \A s \in Tabs : TabTrue(s)
    BY DEF SessionInv
  <1>2. 0 \in 0..Len(owner) /\ NoUser \in Holder /\ u \in Holder /\ NoToken = 0
    BY <1>1, StoreParts DEF Holder, NoToken
  <1>3. NewCall(t, "login", u, NoToken) \in Call
    BY <1>0, <1>1, <1>2, NewCallTyped
  <1>4. CallTrue(NewCall(t, "login", u, NoToken))
    BY <1>1, <1>2, StoreParts DEF CallTrue, NewCall
  <1>5. calls' \subseteq Call /\ (\A c \in calls : CallTrue(c))'
    BY <1>0, <1>3, <1>4, CallAdded
  <1>6. /\ tab' \in [Tabs -> [token : 0..Len(owner), account : Holder, loading : BOOLEAN]]
        /\ (\A s \in Tabs : TabTrue(s))'
    BY <1>0, <1>1, <1>2, TabSet
  <1>7. store' \in [token : 0..Len(owner), user : Holder]
    BY <1>0, <1>2 DEF Nothing
  <1>8. Typed'
    BY <1>0, <1>1, <1>5, <1>6, <1>7, ClickTyped DEF Typed
  <1>9. StoredPair' /\ SubmittedFrom'
    BY <1>0 DEF StoredPair, SubmittedFrom, SessionInv, Nothing
  <1> QED
    BY <1>5, <1>6, <1>8, <1>9 DEF SessionInv

\* A click that sends one call and changes nothing else.
LEMMA SendStep ==
  ASSUME SessionInv, Click, UNCHANGED <<owner, sessions, store, tab, accepted>>,
         NEW n \in Call, CallTrue(n), calls' = calls \cup {n}
  PROVE  SessionInv'
  <1>1. calls' \subseteq Call /\ (\A c \in calls : CallTrue(c))'
    BY CallAdded
  <1>2. Typed'
    BY <1>1, ClickTyped DEF SessionInv, Typed
  <1>3. StoredPair' /\ SubmittedFrom' /\ (\A s \in Tabs : TabTrue(s))'
    BY DEF StoredPair, SubmittedFrom, SessionInv, TabTrue, Owns
  <1> QED
    BY <1>1, <1>2, <1>3 DEF SessionInv

LEMMA LogoutStep ==
  ASSUME SessionInv, NEW t \in Tabs, Logout(t)
  PROVE  SessionInv'
  <1>0. /\ UNCHANGED <<owner, sessions, store, tab, accepted>> /\ Click
        /\ calls' = calls \cup {NewCall(t, "logout", NoUser, LogoutToken(t))}
    BY DEF Logout
  <1>1. Typed
    BY DEF SessionInv
  <1>2. /\ LogoutToken(t) \in 0..Len(owner)
        /\ LogoutToken(t) \in Nat /\ LogoutToken(t) <= Len(owner)
        /\ NoUser \in Holder
    BY <1>1, StoreParts, TabParts DEF Holder, LogoutToken
  <1>3. NewCall(t, "logout", NoUser, LogoutToken(t)) \in Call
    BY <1>0, <1>1, <1>2, NewCallTyped
  <1>4. CallTrue(NewCall(t, "logout", NoUser, LogoutToken(t)))
    BY <1>2 DEF CallTrue, NewCall
  <1> QED
    BY <1>0, <1>3, <1>4, SendStep

LEMMA SubmitStep ==
  ASSUME SessionInv, NEW t \in Tabs, Submit(t)
  PROVE  SessionInv'
  <1>0. /\ UNCHANGED <<owner, sessions, store, tab, accepted>> /\ Click
        /\ calls' = calls \cup {NewCall(t, "submit", tab[t].account, AuthToken(t))}
    BY DEF Submit
  <1>1. Typed /\ TabTrue(t)
    BY DEF SessionInv
  <1>2. /\ AuthToken(t) \in 0..Len(owner)
        /\ AuthToken(t) \in Nat /\ AuthToken(t) <= Len(owner)
        /\ tab[t].account \in Holder
    BY <1>1, StoreParts, TabParts DEF AuthToken
  <1>3. NewCall(t, "submit", tab[t].account, AuthToken(t)) \in Call
    BY <1>0, <1>1, <1>2, NewCallTyped
  <1>4. tab[t].account # NoUser => Owns(tab[t].account, AuthToken(t))
    BY <1>1, TabParts DEF TabTrue, Owns, AuthToken, NoToken
  <1>5. CallTrue(NewCall(t, "submit", tab[t].account, AuthToken(t)))
    BY <1>2, <1>4 DEF CallTrue, NewCall
  <1> QED
    BY <1>0, <1>3, <1>5, SendStep

LEMMA EditStep ==
  ASSUME SessionInv, Edit
  PROVE  SessionInv'
  <1>1. Typed'
    BY ClickTyped DEF Edit, SessionInv, Typed
  <1> QED
    BY <1>1 DEF Edit, SessionInv, StoredPair, SubmittedFrom, TabTrue, CallTrue, Owns

(* --- What the server does ------------------------------------------------ *)

\* A step of the server that issues no token and books nothing.
LEMMA ServedStep ==
  ASSUME SessionInv, UNCHANGED <<owner, store, tab, clicks, accepted>>,
         sessions' \subseteq sessions,
         NEW c \in calls, NEW u \in Holder, NEW k \in Nat, NEW a \in States,
         calls' = Moved(c, u, k, a),
         CallTrue([id |-> c.id, by |-> c.by, op |-> c.op, user |-> u, token |-> k,
                   at |-> a])
  PROVE  SessionInv'
  <1>1. calls' \subseteq Call
    BY MovedTyped DEF SessionInv, Typed
  <1>2. CallTrue([id |-> c.id, by |-> c.by, op |-> c.op, user |-> u, token |-> k,
                  at |-> a])'
    BY DEF CallTrue, Owns
  <1>3. (\A d \in calls : CallTrue(d))'
    BY <1>2, CallsKept, MovedTrue
  <1>4. Typed'
    BY <1>1 DEF SessionInv, Typed
  <1>5. StoredPair' /\ SubmittedFrom' /\ (\A s \in Tabs : TabTrue(s))'
    BY DEF StoredPair, SubmittedFrom, SessionInv, TabTrue, Owns
  <1> QED
    BY <1>3, <1>4, <1>5 DEF SessionInv

LEMMA CallFacts ==
  ASSUME SessionInv, NEW c \in calls
  PROVE  /\ c \in Call /\ CallTrue(c)
         /\ c.by \in Tabs \cup {Gone}
         /\ c.user \in Holder
         /\ c.token \in Nat
  BY CallParts DEF SessionInv, Typed

LEMMA ServeMeStep ==
  ASSUME SessionInv, NEW c \in calls, ServeMe(c)
  PROVE  SessionInv'
  <1>0. /\ UNCHANGED <<owner, store, tab, clicks, accepted>> /\ sessions' = sessions
        /\ c.op = "me"
    BY DEF ServeMe
  <1>1. /\ CallTrue(c) /\ c.token \in Nat /\ c.token <= Len(owner)
    BY CallFacts DEF CallTrue
  <1>2. CASE c.token \in sessions
    <2>1. c.token \in 1..Len(owner) /\ owner[c.token] \in Users
      <3>1. c.token \in 1..Len(owner) /\ owner \in Seq(Users)
        BY <1>2 DEF SessionInv, Typed
      <3> QED
        BY <3>1
    <2>2. calls' = Moved(c, owner[c.token], c.token, "ok")
      BY <1>2 DEF ServeMe
    <2>3. CallTrue([id |-> c.id, by |-> c.by, op |-> c.op, user |-> owner[c.token],
                    token |-> c.token, at |-> "ok"])
      BY <1>0, <1>1, <2>1 DEF CallTrue, Owns
    <2>4. owner[c.token] \in Holder /\ "ok" \in States
      BY <2>1 DEF Holder, States
    <2> QED
      BY <1>0, <1>1, <2>2, <2>3, <2>4, ServedStep
  <1>3. CASE c.token \notin sessions
    <2>2. calls' = Moved(c, NoUser, c.token, "failed")
      BY <1>3 DEF ServeMe
    <2>3. CallTrue([id |-> c.id, by |-> c.by, op |-> c.op, user |-> NoUser,
                    token |-> c.token, at |-> "failed"])
      BY <1>0, <1>1 DEF CallTrue, Owns
    <2>4. NoUser \in Holder /\ "failed" \in States
      BY DEF Holder, States
    <2> QED
      BY <1>0, <1>1, <2>2, <2>3, <2>4, ServedStep
  <1> QED
    BY <1>2, <1>3

LEMMA DeleteSessionsStep ==
  ASSUME SessionInv, NEW c \in calls, DeleteSessions(c)
  PROVE  SessionInv'
  <1>0. /\ UNCHANGED <<owner, store, tab, clicks, accepted>> /\ sessions' \subseteq sessions
        /\ c.op = "login" /\ calls' = Moved(c, c.user, NoToken, "deleted")
    BY DEF DeleteSessions
  <1>1. CallTrue(c) /\ c.user \in Holder
    BY CallFacts
  <1>2. /\ NoToken \in Nat /\ NoToken <= Len(owner) /\ "deleted" \in States
    BY StoreParts DEF NoToken, States, SessionInv
  <1>3. CallTrue([id |-> c.id, by |-> c.by, op |-> c.op, user |-> c.user,
                  token |-> NoToken, at |-> "deleted"])
    BY <1>0, <1>1, <1>2 DEF CallTrue
  <1> QED
    BY <1>0, <1>1, <1>2, <1>3, ServedStep

LEMMA ServeLogoutStep ==
  ASSUME SessionInv, NEW c \in calls, ServeLogout(c)
  PROVE  SessionInv'
  <1>0. /\ UNCHANGED <<owner, store, tab, clicks, accepted>> /\ sessions' \subseteq sessions
        /\ c.op = "logout" /\ calls' = Moved(c, NoUser, c.token, "ok")
    BY DEF ServeLogout
  <1>1. CallTrue(c) /\ c.token \in Nat /\ NoUser \in Holder /\ "ok" \in States
    BY CallFacts DEF Holder, States
  <1>3. CallTrue([id |-> c.id, by |-> c.by, op |-> c.op, user |-> NoUser,
                  token |-> c.token, at |-> "ok"])
    BY <1>0, <1>1 DEF CallTrue
  <1> QED
    BY <1>0, <1>1, <1>3, ServedStep

\* An answer that is lost or refuses leaves account and token as they are.
LEMMA FailStep ==
  ASSUME SessionInv, NEW c \in calls, Fail(c)
  PROVE  SessionInv'
  <1>0. /\ UNCHANGED <<owner, store, tab, clicks, accepted>> /\ sessions' \subseteq sessions
        /\ calls' = Moved(c, c.user, c.token, "failed")
    BY DEF Fail
  <1>1. CallTrue(c) /\ c.token \in Nat /\ c.user \in Holder /\ "failed" \in States
    BY CallFacts DEF States
  <1>3. CallTrue([id |-> c.id, by |-> c.by, op |-> c.op, user |-> c.user,
                  token |-> c.token, at |-> "failed"])
    BY <1>0, <1>1 DEF CallTrue
  <1> QED
    BY <1>0, <1>1, <1>3, ServedStep

LEMMA ExpireStep ==
  ASSUME SessionInv, NEW k \in sessions, Expire(k)
  PROVE  SessionInv'
  BY DEF Expire, SessionInv, Typed, StoredPair, SubmittedFrom, TabTrue, CallTrue, Owns

\* A new token leaves the owners of the others alone.
LEMMA TokenIssued ==
  ASSUME Typed, NEW u \in Users, owner' = Append(owner, u)
  PROVE  /\ owner' \in Seq(Users) /\ Len(owner') = Len(owner) + 1
         /\ owner'[Len(owner) + 1] = u
         /\ \A k \in 1..Len(owner) : owner'[k] = owner[k]
  BY DEF Typed

LEMMA CreateSessionStep ==
  ASSUME SessionInv, NEW c \in calls, CreateSession(c)
  PROVE  SessionInv'
  <1> PICK k : k = Len(owner) + 1
    OBVIOUS
  <1>0. /\ UNCHANGED <<store, tab, clicks, accepted>>
        /\ owner' = Append(owner, c.user)
        /\ sessions' = sessions \cup {k}
        /\ calls' = Moved(c, c.user, k, "ok")
        /\ c.op = "login"
    BY DEF CreateSession
  <1>1. CallTrue(c) /\ c.user \in Users /\ c.user \in Holder
    BY <1>0, CallFacts DEF CallTrue, Holder
  <1>2. Typed /\ Len(owner) \in Nat /\ k \in Nat /\ k > Len(owner) /\ k \in 1..k
    BY StoreParts DEF SessionInv
  <1>3. /\ owner' \in Seq(Users) /\ Len(owner') = k
        /\ owner'[k] = c.user
        /\ \A j \in 1..Len(owner) : owner'[j] = owner[j]
    BY <1>0, <1>1, <1>2, TokenIssued
  <1>10. 0..Len(owner) \subseteq 0..k /\ 1..Len(owner) \subseteq 1..k
    BY <1>2
  <1>4. \A u, j : Owns(u, j) => Owns(u, j)'
    BY <1>3, <1>10 DEF Owns
  <1>5. ASSUME NEW d \in calls PROVE CallTrue(d)'
    <2>1. CallTrue(d) /\ d.token \in Nat
      BY CallFacts
    <2>2. d.token <= Len(owner')
      BY <2>1, <1>2, <1>3 DEF CallTrue
    <2> QED
      BY <1>4, <2>1, <2>2 DEF CallTrue
  <1>6. CallTrue([id |-> c.id, by |-> c.by, op |-> c.op, user |-> c.user,
                  token |-> k, at |-> "ok"])'
    <2>1. Owns(c.user, k)'
      BY <1>2, <1>3 DEF Owns
    <2>2. k <= Len(owner')
      BY <1>2, <1>3
    <2> QED
      BY <1>0, <1>1, <2>1, <2>2 DEF CallTrue, Owns
  <1>7. (\A d \in calls : CallTrue(d))'
    BY <1>0, <1>5, <1>6, MovedTrue
  <1>8. calls' \subseteq Call
    BY <1>0, <1>1, <1>2, MovedTyped DEF Typed, States
  <1>9. sessions' \subseteq 1..k
    BY <1>0, <1>2, <1>10 DEF Typed
  <1>11. store' \in [token : 0..k, user : Holder]
    BY <1>0, <1>2, <1>10 DEF Typed
  <1>12. tab' \in [Tabs -> [token : 0..k, account : Holder, loading : BOOLEAN]]
    BY <1>0, <1>2, <1>10 DEF Typed
  <1>13. Typed'
    BY <1>0, <1>2, <1>3, <1>8, <1>9, <1>11, <1>12 DEF Typed
  <1>14. StoredPair'
    BY <1>0, <1>2, <1>3, StoreParts DEF StoredPair, SessionInv, NoToken
  <1>15. SubmittedFrom' /\ (\A s \in Tabs : TabTrue(s))'
    BY <1>0, <1>4 DEF SubmittedFrom, SessionInv, TabTrue
  <1> QED
    BY <1>7, <1>13, <1>14, <1>15 DEF SessionInv

LEMMA ServeSubmitStep ==
  ASSUME SessionInv, NEW c \in calls, ServeSubmit(c)
  PROVE  SessionInv'
  <1>0. /\ UNCHANGED <<owner, sessions, store, tab, clicks>> /\ c.op = "submit"
    BY DEF ServeSubmit
  <1>1. /\ CallTrue(c) /\ c.token \in Nat /\ c.user \in Holder
        /\ "ok" \in States /\ "failed" \in States
    BY CallFacts DEF States
  <1>2. ASSUME NEW a \in States
        PROVE  CallTrue([id |-> c.id, by |-> c.by, op |-> c.op, user |-> c.user,
                         token |-> c.token, at |-> a])
    BY <1>0, <1>1 DEF CallTrue
  <1>3. CASE From(c) = NoUser
    BY <1>0, <1>1, <1>2, <1>3, ServedStep DEF ServeSubmit
  <1>4. CASE From(c) # NoUser
    <2>1. /\ calls' = Moved(c, c.user, c.token, "ok")
          /\ accepted' = accepted \cup {[shown |-> c.user, from |-> From(c)]}
      BY <1>4 DEF ServeSubmit
    <2>2. From(c) \in Users
      BY <1>1, <1>4 DEF From, Holder, SessionInv, Typed
    <2>3. c.user # NoUser => From(c) = c.user
      BY <1>0, <1>1 DEF CallTrue, Owns, From
    <2>4. accepted' \subseteq [shown : Holder, from : Users]
      BY <1>1, <2>1, <2>2 DEF SessionInv, Typed
    <2>5. SubmittedFrom'
      BY <2>1, <2>3 DEF SubmittedFrom, SessionInv
    <2>6. calls' \subseteq Call
      BY <1>1, <2>1, MovedTyped DEF SessionInv, Typed
    <2>7. (\A d \in calls : CallTrue(d))'
      <3>1. CallTrue([id |-> c.id, by |-> c.by, op |-> c.op, user |-> c.user,
                      token |-> c.token, at |-> "ok"])'
        BY <1>0, <1>1, <1>2 DEF CallTrue, Owns
      <3> QED
        BY <1>0, <2>1, <3>1, CallsKept, MovedTrue
    <2>8. Typed'
      BY <1>0, <2>4, <2>6 DEF SessionInv, Typed
    <2>9. StoredPair' /\ (\A s \in Tabs : TabTrue(s))'
      BY <1>0 DEF SessionInv, StoredPair, TabTrue, Owns
    <2> QED
      BY <2>5, <2>7, <2>8, <2>9 DEF SessionInv
  <1> QED
    BY <1>3, <1>4

(* --- What a page makes of an answer --------------------------------------- *)

\* A call that is over leaves the others as they were.
LEMMA FinishedCalls ==
  ASSUME SessionInv, NEW c, Finished(c)
  PROVE  /\ UNCHANGED <<owner, sessions, clicks, accepted>>
         /\ calls' \subseteq Call
         /\ (\A d \in calls : CallTrue(d))'
  <1>1. /\ UNCHANGED <<owner, sessions, clicks, accepted>>
        /\ calls' = calls \ {c}
    BY DEF Finished
  <1>2. calls' \subseteq Call
    BY <1>1 DEF SessionInv, Typed
  <1>3. ASSUME NEW d \in calls' PROVE CallTrue(d)'
    BY <1>1, CallsKept
  <1> QED
    BY <1>1, <1>2, <1>3

\* A page that sets its own tab to a token it knows to be the account's.
LEMMA AnswerStep ==
  ASSUME SessionInv, NEW c, Finished(c),
         NEW t \in Tabs, NEW k \in 0..Len(owner), NEW u \in Holder, NEW l \in BOOLEAN,
         tab' = [tab EXCEPT ![t] = [token |-> k, account |-> u, loading |-> l]],
         u # NoUser => Owns(u, k),
         store' \in [token : 0..Len(owner), user : Holder],
         StoredPair'
  PROVE  SessionInv'
  <1>1. /\ UNCHANGED <<owner, sessions, clicks, accepted>>
        /\ calls' \subseteq Call
        /\ (\A d \in calls : CallTrue(d))'
    BY FinishedCalls
  <1>2. Typed /\ \A s \in Tabs : TabTrue(s)
    BY DEF SessionInv
  <1>3. /\ tab' \in [Tabs -> [token : 0..Len(owner), account : Holder, loading : BOOLEAN]]
        /\ (\A s \in Tabs : TabTrue(s))'
    BY <1>1, <1>2, TabSet
  <1>4. Typed'
    BY <1>1, <1>2, <1>3 DEF Typed
  <1>5. SubmittedFrom'
    BY <1>1 DEF SessionInv, SubmittedFrom
  <1> QED
    BY <1>1, <1>3, <1>4, <1>5 DEF SessionInv

\* clearSession.
LEMMA ClearStep ==
  ASSUME SessionInv, NEW c, Finished(c), NEW t \in Tabs, NEW l \in BOOLEAN, Clear(t, l)
  PROVE  SessionInv'
  <1>1. /\ store' = Nothing
        /\ tab' = [tab EXCEPT ![t] = [token |-> NoToken, account |-> NoUser, loading |-> l]]
    BY DEF Clear, SignedOut
  <1>2. NoToken \in 0..Len(owner) /\ NoUser \in Holder
    BY StoreParts DEF SessionInv, NoToken, Holder
  <1>3. store' \in [token : 0..Len(owner), user : Holder]
    BY <1>1, <1>2 DEF Nothing
  <1>4. StoredPair'
    BY <1>1 DEF StoredPair, Nothing
  <1> QED
    BY <1>1, <1>2, <1>3, <1>4, AnswerStep

LEMMA ReceiveMeStep ==
  ASSUME SessionInv, NEW c \in calls, c.by \in Tabs, ReceiveMe(c)
  PROVE  SessionInv'
  <1>0. Finished(c) /\ c.op = "me"
    BY DEF ReceiveMe
  <1>1. CASE c.at = "ok" /\ ~Mismatch(c.user)
    <2>1. /\ store' = [token |-> store.token, user |-> c.user]
          /\ tab' = [tab EXCEPT ![c.by] = [token |-> c.token, account |-> c.user,
                                           loading |-> FALSE]]
      BY <1>1 DEF ReceiveMe, SignIn
    <2>2. Typed /\ CallTrue(c) /\ c.user \in Holder /\ c.token \in Nat
      BY CallFacts DEF SessionInv
    <2>3. Owns(c.user, c.token)
      BY <1>0, <1>1, <2>2 DEF CallTrue
    <2>4. c.token \in 0..Len(owner)
      BY <2>2, <2>3, StoreParts DEF Owns
    <2>5. store' \in [token : 0..Len(owner), user : Holder]
      BY <2>1, <2>2, StoreParts
    <2>6. store.token # NoToken => c.user = owner[store.token]
      <3>1. SUFFICES ASSUME store.token # NoToken PROVE c.user = owner[store.token]
        OBVIOUS
      <3>2. store.token \in 1..Len(owner) /\ owner \in Seq(Users)
        BY <2>2, <3>1, StoreParts DEF NoToken, Typed
      <3>3. store.user = owner[store.token] /\ store.user # NoUser
        BY <3>1, <3>2, Names DEF SessionInv, StoredPair
      <3> QED
        BY <1>1, <3>3 DEF Mismatch
    <2>7. StoredPair'
      BY <1>0, <2>1, <2>6 DEF StoredPair, Finished
    <2> QED
      BY <1>0, <2>1, <2>2, <2>3, <2>4, <2>5, <2>7, AnswerStep
  <1>2. CASE ~(c.at = "ok" /\ ~Mismatch(c.user))
    <2>1. Clear(c.by, FALSE)
      BY <1>2 DEF ReceiveMe
    <2> QED
      BY <1>0, <2>1, ClearStep
  <1> QED
    BY <1>1, <1>2

LEMMA ReceiveLoginStep ==
  ASSUME SessionInv, NEW c \in calls, c.by \in Tabs, ReceiveLogin(c)
  PROVE  SessionInv'
  <1>0. Finished(c) /\ c.op = "login"
    BY DEF ReceiveLogin
  <1>1. CASE c.at = "ok"
    <2>1. /\ store' = [token |-> c.token, user |-> c.user]
          /\ tab' = [tab EXCEPT ![c.by] = [token |-> c.token, account |-> c.user,
                                           loading |-> FALSE]]
      BY <1>1 DEF ReceiveLogin, SignIn
    <2>2. Typed /\ CallTrue(c) /\ c.user \in Holder /\ c.token \in Nat
      BY CallFacts DEF SessionInv
    <2>3. Owns(c.user, c.token)
      BY <1>0, <1>1, <2>2 DEF CallTrue
    <2>4. c.token \in 0..Len(owner)
      BY <2>2, <2>3, StoreParts DEF Owns
    <2>5. store' \in [token : 0..Len(owner), user : Holder]
      BY <2>1, <2>2, <2>4
    <2>6. StoredPair'
      BY <1>0, <2>1, <2>3 DEF StoredPair, Finished, Owns
    <2> QED
      BY <1>0, <2>1, <2>2, <2>3, <2>4, <2>5, <2>6, AnswerStep
  <1>2. CASE c.at # "ok"
    <2>1. Clear(c.by, FALSE)
      BY <1>2 DEF ReceiveLogin
    <2> QED
      BY <1>0, <2>1, ClearStep
  <1> QED
    BY <1>1, <1>2

LEMMA ReceiveLogoutStep ==
  ASSUME SessionInv, NEW c \in calls, c.by \in Tabs, ReceiveLogout(c)
  PROVE  SessionInv'
  <1>1. Finished(c) /\ Clear(c.by, tab[c.by].loading)
    BY DEF ReceiveLogout
  <1>2. tab[c.by].loading \in BOOLEAN
    BY TabParts DEF SessionInv
  <1> QED
    BY <1>1, <1>2, ClearStep

LEMMA ReceiveSubmitStep ==
  ASSUME SessionInv, NEW c \in calls, ReceiveSubmit(c)
  PROVE  SessionInv'
  <1>1. UNCHANGED <<owner, sessions, clicks, accepted, store, tab>>
    BY DEF ReceiveSubmit, Finished
  <1>2. calls' \subseteq Call /\ (\A d \in calls : CallTrue(d))'
    BY FinishedCalls DEF ReceiveSubmit
  <1>3. Typed'
    BY <1>1, <1>2 DEF SessionInv, Typed
  <1>4. StoredPair' /\ SubmittedFrom' /\ (\A s \in Tabs : TabTrue(s))'
    BY <1>1 DEF SessionInv, StoredPair, SubmittedFrom, TabTrue, Owns
  <1> QED
    BY <1>2, <1>3, <1>4 DEF SessionInv

LEMMA ReceiveStep ==
  ASSUME SessionInv, NEW c \in calls, Receive(c)
  PROVE  SessionInv'
  <1>1. c.by \in Tabs
    BY CallFacts DEF Receive
  <1> QED
    BY <1>1, ReceiveMeStep, ReceiveLoginStep, ReceiveLogoutStep, ReceiveSubmitStep
    DEF Receive

(* --- The session's theorems ------------------------------------------------ *)

LEMMA SessionInit ==
  ASSUME Init
  PROVE  SessionInv
  <1>1. /\ tab = [t \in Tabs |-> SignedOut(FALSE)]
        /\ calls = {} /\ clicks = 0 /\ accepted = {}
    BY DEF Init
  <1>2. clicks \in 0..MaxClicks /\ NoUser \in Holder
    BY <1>1, Bound DEF Holder
  <1>3. \A t \in Tabs : TabTrue(t)
    BY <1>1 DEF TabTrue, SignedOut
  <1>4. CASE owner = <<>> /\ sessions = {} /\ store = Nothing
    <2>1. Len(owner) = 0 /\ owner \in Seq(Users) /\ 0 \in 0..0
      BY <1>4
    <2>2. store \in [token : 0..Len(owner), user : Holder]
      BY <1>2, <1>4, <2>1 DEF Nothing, NoToken
    <2>3. tab \in [Tabs -> [token : 0..Len(owner), account : Holder, loading : BOOLEAN]]
      BY <1>1, <1>2, <2>1 DEF SignedOut, NoToken
    <2>4. Typed
      BY <1>1, <1>2, <1>4, <2>1, <2>2, <2>3 DEF Typed
    <2> QED
      BY <1>1, <1>3, <1>4, <2>4 DEF SessionInv, StoredPair, SubmittedFrom, Nothing
  <1>5. ASSUME NEW u \in Users, owner = <<u>>, sessions \in {{}, {1}},
               store = [token |-> 1, user |-> u]
        PROVE  SessionInv
    <2>1. Len(owner) = 1 /\ owner \in Seq(Users) /\ owner[1] = u /\ 1 \in 0..1 /\ 0 \in 0..1
      BY <1>5
    <2>2. store \in [token : 0..Len(owner), user : Holder]
      BY <1>5, <2>1 DEF Holder
    <2>3. tab \in [Tabs -> [token : 0..Len(owner), account : Holder, loading : BOOLEAN]]
      BY <1>1, <1>2, <2>1 DEF SignedOut, NoToken
    <2>4. sessions \subseteq 1..Len(owner)
      BY <1>5, <2>1
    <2>5. Typed
      BY <1>1, <1>2, <2>1, <2>2, <2>3, <2>4 DEF Typed
    <2> QED
      BY <1>1, <1>3, <1>5, <2>1, <2>5 DEF SessionInv, StoredPair, SubmittedFrom
  <1> QED
    BY <1>4, <1>5 DEF Init

LEMMA SessionNext ==
  ASSUME SessionInv, [Next]_vars
  PROVE  SessionInv'
  <1>1. ASSUME NEW t \in Tabs, Reload(t) \/ Logout(t) \/ Submit(t) PROVE SessionInv'
    BY <1>1, ReloadStep, LogoutStep, SubmitStep
  <1>2. ASSUME NEW t \in Tabs, NEW u \in Users, Login(t, u) PROVE SessionInv'
    BY <1>2, LoginStep
  <1>3. ASSUME NEW c \in calls, Serve(c) PROVE SessionInv'
    BY <1>3, ServeMeStep, DeleteSessionsStep, CreateSessionStep, ServeLogoutStep,
       ServeSubmitStep DEF Serve
  <1>4. ASSUME NEW c \in calls, Fail(c) \/ Receive(c) PROVE SessionInv'
    BY <1>4, FailStep, ReceiveStep
  <1>5. ASSUME NEW k \in sessions, Expire(k) PROVE SessionInv'
    BY <1>5, ExpireStep
  <1>6. CASE Edit
    BY <1>6, EditStep
  <1>7. CASE UNCHANGED vars
    BY <1>7 DEF vars, SessionInv, Typed, StoredPair, SubmittedFrom, TabTrue, CallTrue, Owns
  <1> QED
    BY <1>1, <1>2, <1>3, <1>4, <1>5, <1>6, <1>7 DEF Next

\* The sign-in keeps its invariant whatever order the answers arrive in.
THEOREM SessionInvariant == Spec => []SessionInv
  <1>1. Init => SessionInv
    BY SessionInit
  <1>2. SessionInv /\ [Next]_vars => SessionInv'
    BY SessionNext
  <1> QED
    BY <1>1, <1>2, PTL DEF Spec

(* --- The pages implement the session --------------------------------------- *)

allVars == <<vars, formVars, pageVars>>

\* Every step of the pages is one of the session's or leaves it alone.
LEMMA PagesStep ==
  ASSUME [PagesNext]_allVars
  PROVE  [Next]_vars
  <1>1. CASE SessionStep
    BY <1>1 DEF SessionStep, Next
  <1>2. ASSUME NEW c \in calls, Land(c) PROVE Next
    BY <1>2 DEF Land, Next
  <1>3. CASE ReloadPage
    BY <1>3, FormNames DEF ReloadPage, Next
  <1>4. ASSUME NEW s, Go(s) PROVE Next
    BY <1>4 DEF Go, Next
  <1>5. CASE FormStep
    <2>1. CASE ContractsArrive
      BY <2>1 DEF ContractsArrive
    <2>2. ASSUME NEW c, Select(c) PROVE Next
      BY <2>2 DEF Select, Next
    <2>3. ASSUME NEW i, SchemaArrives(i) \/ SchemaFails(i) PROVE UNCHANGED vars
      BY <2>3 DEF SchemaArrives, SchemaFails
    <2>4. ASSUME NEW f, Fill(f) \/ FillRaw(f) PROVE Next
      BY <2>4 DEF Fill, FillRaw, Next
    <2>5. CASE HandleSubmit
      BY <2>5, FormNames DEF HandleSubmit, Next
    <2> QED
      BY <1>5, <2>1, <2>2, <2>3, <2>4, <2>5 DEF FormStep
  <1>6. ASSUME NEW c \in calls, SubmitReturns(c) PROVE Next
    BY <1>6 DEF SubmitReturns, Next
  <1>7. CASE StreamOpens \/ Push \/ ReceiveBalance \/ StreamBreaks \/ Reconnect \/ BalanceChanges
    BY <1>7 DEF StreamOpens, Push, ReceiveBalance, StreamBreaks, Reconnect,
       BalanceChanges, WalletOnly
  <1>8. CASE UNCHANGED allVars
    BY <1>8 DEF allVars
  <1> QED
    BY <1>1, <1>2, <1>3, <1>4, <1>5, <1>6, <1>7, <1>8 DEF PagesNext

\* The sections of the explorer, its form and its wallet, implement the sign-in's
\* own specification: no navigation, no form and no stream does to the session
\* what AuthContext and the Core service would not (AuthContext, Login, Profile, Transfer).
THEOREM PagesImplementSession == PagesSpec => Spec
  <1>1. PagesInit => Init
    BY DEF PagesInit
  <1>2. [PagesNext]_allVars => [Next]_vars
    BY PagesStep
  <1> QED
    BY <1>1, <1>2, PTL DEF PagesSpec, Spec, allVars

\* Every variable of the session keeps its type, and no token is held that has not
\* been issued (AuthContext, accounts.go).
THEOREM TypeCorrect == PagesSpec => []TypeOK
  <1>1. SessionInv => TypeOK
    <2>1. SessionInv => \A c \in calls : c.token <= Len(owner)
      BY DEF SessionInv, CallTrue
    <2> QED
      BY <2>1 DEF SessionInv, Typed, TypeOK, Holder
  <1> QED
    BY <1>1, PagesImplementSession, SessionInvariant, PTL

\* The stored token is always the stored name's (refreshMe, persistSession).
THEOREM StoredPairCorrect == PagesSpec => []StoredPair
  <1>1. SessionInv => StoredPair
    BY DEF SessionInv
  <1> QED
    BY <1>1, PagesImplementSession, SessionInvariant, PTL

\* A transfer is booked on the account its page showed (Transfer, enrichTransferPayload).
THEOREM SubmittedFromCorrect == PagesSpec => []SubmittedFrom
  <1>1. SessionInv => SubmittedFrom
    BY DEF SessionInv
  <1> QED
    BY <1>1, PagesImplementSession, SessionInvariant, PTL

(* --- The form's payloads ---------------------------------------------------- *)

\* What has been filled in is never a common field.
FormInv == DOMAIN values \cap Common = {} /\ CommonFields

LEMMA InputsUncommon ==
  ASSUME NEW c
  PROVE  Inputs(c) \cap Common = {}
  BY DEF Inputs, Fallback, CustomFields, Common

\* fieldsArg: what the payload's fields come from.
LEMMA FieldSources ==
  ASSUME FormInv, NEW signedIn \in BOOLEAN
  PROVE  /\ FieldsArg(signedIn)["amount"] = "common"
         /\ FieldsArg(signedIn)["to"] = "common"
         /\ signedIn => FieldsArg(signedIn)["from"] = "account"
         /\ "address" \notin DOMAIN FieldsArg(signedIn)
  <1>1. "address" \notin CustomPart
    BY DEF CustomPart, FormInv, Common
  <1>2. "address" \notin CustomPart \cup {"amount", "to"} \cup (IF signedIn THEN {"from"} ELSE {})
    BY <1>1
  <1> QED
    BY <1>2 DEF FieldsArg, Source

LEMMA NoValuesUncommon ==
  ASSUME values' = NoValues
  PROVE  (DOMAIN values)' \cap Common = {}
  BY DEF NoValues

LEMMA FormNext ==
  ASSUME FormInv, [PagesNext]_allVars
  PROVE  FormInv'
  <1> USE DEF FormInv
  <1>1. CASE UNCHANGED <<values, sent>>
    BY <1>1 DEF CommonFields
  <1>2. CASE values' = NoValues /\ UNCHANGED sent
    BY <1>2, NoValuesUncommon DEF CommonFields
  <1>3. ASSUME NEW s, Show(s) PROVE FormInv'
    BY <1>1, <1>2, <1>3 DEF Show, Blank
  <1>4. ASSUME NEW c, SubmitReturns(c) PROVE FormInv'
    BY <1>1, <1>2, <1>4 DEF SubmitReturns
  <1>5. CASE FormStep
    <2>1. ASSUME NEW i, SchemaArrives(i) PROVE FormInv'
      <3>1. (DOMAIN values)' \cap Common = {}
        BY <2>1, InputsUncommon DEF SchemaArrives, NoValues
      <3> QED
        BY <2>1, <3>1 DEF SchemaArrives, CommonFields
    <2>2. ASSUME NEW f \in Inputs(schema), Fill(f) PROVE FormInv'
      <3>1. (DOMAIN values)' = DOMAIN values \cup {f} /\ f \notin Common
        BY <2>2, InputsUncommon DEF Fill
      <3> QED
        BY <2>2, <3>1 DEF Fill, CommonFields
    <2>3. CASE HandleSubmit
      <3>1. (tab[Page].account # NoUser) \in BOOLEAN
        OBVIOUS
      <3>2. PICK b \in BOOLEAN : b = (tab[Page].account # NoUser)
        BY <3>1
      <3>3. PICK p : p = [contract |-> selected, schema |-> schema,
                          settled |-> ~overtaken /\ fetching = <<>>,
                          signedIn |-> b, fields |-> FieldsArg(b)]
        OBVIOUS
      <3>4. sent' = sent \cup {p} /\ values' = values
        BY <2>3, <3>2, <3>3 DEF HandleSubmit
      <3>5. p.signedIn = b /\ p.fields = FieldsArg(b)
        BY <3>3
      <3>6. /\ p.fields["amount"] = "common" /\ p.fields["to"] = "common"
            /\ p.signedIn => p.fields["from"] = "account"
            /\ "address" \notin DOMAIN p.fields
        BY <3>5, FieldSources
      <3> HIDE <3>3
      <3> QED
        BY <3>4, <3>6 DEF CommonFields
    <2>4. CASE ContractsArrive
      BY <1>1, <2>4 DEF ContractsArrive, Choose
    <2>5. ASSUME NEW c, Select(c) PROVE FormInv'
      BY <1>1, <2>5 DEF Select, Choose
    <2>6. ASSUME NEW f, SchemaFails(f) \/ FillRaw(f) PROVE FormInv'
      BY <1>1, <2>6 DEF SchemaFails, FillRaw
    <2> QED
      BY <1>5, <2>1, <2>2, <2>3, <2>4, <2>5, <2>6 DEF FormStep
  <1>6. CASE SessionStep
    BY <1>1, <1>6 DEF SessionStep, formVars
  <1>7. CASE ReloadPage
    BY <1>2, <1>7 DEF ReloadPage, Blank
  <1>8. CASE StreamOpens \/ Push \/ ReceiveBalance \/ StreamBreaks \/ Reconnect \/ BalanceChanges
    BY <1>1, <1>8 DEF StreamOpens, Push, ReceiveBalance, StreamBreaks, Reconnect,
       BalanceChanges, WalletOnly, formVars
  <1>9. CASE UNCHANGED allVars
    BY <1>1, <1>9 DEF allVars, formVars
  <1> QED
    BY <1>3, <1>4, <1>5, <1>6, <1>7, <1>8, <1>9 DEF PagesNext, Land, Go

\* Amount, recipient and a signed-in sender never come from the contract's own
\* fields (customFieldsFromSchema, handleSubmit).
THEOREM CommonFieldsCorrect == PagesSpec => []CommonFields
  <1>1. PagesInit => FormInv
    BY DEF PagesInit, FormInit, FormInv, CommonFields, NoValues
  <1>2. FormInv /\ [PagesNext]_allVars => FormInv'
    BY FormNext
  <1>3. FormInv => CommonFields
    BY DEF FormInv
  <1> QED
    BY <1>1, <1>2, <1>3, PTL DEF PagesSpec, allVars

(* --- The wallet's stream ------------------------------------------------------ *)

Seen == Balances \cup {Unknown}

\* What the stream last looked at is the last it has sent, on its way or shown.
StreamTrue ==
  /\ stream.events \in Seq(Seen)
  /\ stream.at = "closed" => stream = Closed
  /\ stream.at # "open" => stream.events = <<>>
  /\ stream.at = "open" =>
       stream.last = IF stream.events = <<>> THEN balance
                                             ELSE stream.events[Len(stream.events)]

WalletInv == chain \in Seen /\ StreamTrue /\ WatchesItsAccount

\* While the stream and what it watches stay, so does what is true of them.
LEMMA WalletKept ==
  ASSUME WalletInv, UNCHANGED <<section, stream, balance, chain>>,
         tab'[Page] = tab[Page] \/ (section # "profile" /\ stream = Closed)
  PROVE  WalletInv'
  BY DEF WalletInv, StreamTrue, WatchesItsAccount, Authenticated

\* The effect leaves a stream of the account shown, or none.
LEMMA WatchStep ==
  ASSUME WalletInv, Watch
  PROVE  WalletInv'
  <1>1. CASE section' = "profile" /\ Authenticated(Page)'
    <2>1. CASE section = "profile" /\ tab'[Page] = tab[Page]
      BY <1>1, <2>1, WalletKept DEF Watch
    <2>2. CASE ~(section = "profile" /\ tab'[Page] = tab[Page])
      <3>1. /\ stream' = Opening(tab'[Page].account) /\ chain' \in Seen
        BY <1>1, <2>2 DEF Watch, Seen
      <3>2. /\ stream'.at = "opening" /\ stream'.events = <<>>
            /\ stream'.of = tab'[Page].account
        BY <3>1 DEF Opening
      <3> QED
        BY <1>1, <3>1, <3>2 DEF WalletInv, StreamTrue, WatchesItsAccount
    <2> QED
      BY <2>1, <2>2
  <1>2. CASE ~(section' = "profile" /\ Authenticated(Page)')
    <2>1. stream' = Closed /\ chain' = Unknown
      BY <1>2 DEF Watch
    <2>2. stream'.at = "closed" /\ stream'.events = <<>>
      BY <2>1 DEF Closed
    <2> QED
      BY <1>2, <2>1, <2>2 DEF WalletInv, StreamTrue, WatchesItsAccount, Seen
  <1> QED
    BY <1>1, <1>2

\* A stream there is belongs to a wallet that shows its account.
LEMMA StreamShown ==
  ASSUME WalletInv, stream # Closed
  PROVE  section = "profile" /\ Authenticated(Page) /\ stream.of = tab[Page].account
  BY DEF WalletInv, WatchesItsAccount

\* The wallet's own steps keep its account.
LEMMA StreamKept ==
  ASSUME WalletInv, WalletOnly, stream # Closed, chain' \in Seen, StreamTrue',
         stream'.of = stream.of
  PROVE  WalletInv'
  <1>1. section' = section /\ tab' = tab
    BY DEF WalletOnly, vars
  <1> QED
    BY <1>1, StreamShown DEF WalletInv, WatchesItsAccount, Authenticated

LEMMA StreamRecord ==
  ASSUME NEW a, NEW l, NEW e, stream' = Stream(a, l, e)
  PROVE  stream'.at = a /\ stream'.of = stream.of /\ stream'.last = l /\ stream'.events = e
  BY DEF Stream

LEMMA ClosedStream ==
  Closed.at = "closed" /\ Closed.events = <<>>
  BY DEF Closed

LEMMA StreamOpensStep ==
  ASSUME WalletInv, StreamOpens
  PROVE  WalletInv'
  <1> PICK e : e = <<chain>>
    OBVIOUS
  <1>1. stream' = Stream("open", chain, e) /\ chain' = chain /\ stream.at = "opening"
    BY DEF StreamOpens
  <1>2. stream'.at = "open" /\ stream'.of = stream.of /\ stream'.last = chain /\ stream'.events = e
    BY <1>1, StreamRecord
  <1>3. e \in Seq(Seen) /\ e # <<>> /\ e[Len(e)] = chain
    BY DEF WalletInv
  <1>4. StreamTrue'
    BY <1>2, <1>3 DEF StreamTrue
  <1> QED
    BY <1>1, <1>2, <1>4, ClosedStream, StreamKept DEF StreamOpens, WalletInv

LEMMA PushStep ==
  ASSUME WalletInv, Push
  PROVE  WalletInv'
  <1> PICK e : e = Append(stream.events, chain)
    OBVIOUS
  <1>1. stream' = Stream("open", chain, e) /\ chain' = chain /\ stream.at = "open"
    BY DEF Push
  <1>2. stream'.at = "open" /\ stream'.of = stream.of /\ stream'.last = chain /\ stream'.events = e
    BY <1>1, StreamRecord
  <1>3. e \in Seq(Seen) /\ e # <<>> /\ e[Len(e)] = chain
    BY DEF WalletInv, StreamTrue
  <1>4. StreamTrue'
    BY <1>2, <1>3 DEF StreamTrue
  <1> QED
    BY <1>1, <1>2, <1>4, ClosedStream, StreamKept DEF Push, WalletInv

LEMMA ReceiveBalanceStep ==
  ASSUME WalletInv, ReceiveBalance
  PROVE  WalletInv'
  <1> PICK e : e = stream.events
    OBVIOUS
  <1> PICK r : r = Tail(e)
    OBVIOUS
  <1>1. e \in Seq(Seen) /\ e # <<>> /\ stream.at = "open" /\ stream.last = e[Len(e)]
    BY DEF ReceiveBalance, WalletInv, StreamTrue
  <1>2. /\ stream' = Stream(stream.at, stream.last, r) /\ chain' = chain
        /\ balance' = Head(e)
    BY DEF ReceiveBalance
  <1>3. /\ stream'.at = "open" /\ stream'.of = stream.of /\ stream'.last = e[Len(e)]
        /\ stream'.events = r
    BY <1>1, <1>2, StreamRecord
  <1>4. /\ r \in Seq(Seen)
        /\ r = <<>> => Head(e) = e[Len(e)]
        /\ r # <<>> => r[Len(r)] = e[Len(e)]
    <2>1. /\ Len(e) \in Nat /\ Len(e) > 0 /\ r \in Seq(Seen) /\ Len(r) = Len(e) - 1
          /\ \A i \in 1..Len(r) : r[i] = e[i + 1]
      BY <1>1
    <2>2. r = <<>> => Len(e) = 1
      <3>1. r = <<>> => Len(r) = 0
        OBVIOUS
      <3> QED
        BY <2>1, <3>1
    <2>3. r # <<>> => Len(r) \in 1..Len(r) /\ Len(r) + 1 = Len(e)
      BY <2>1
    <2>4. Head(e) = e[1]
      BY <1>1
    <2> QED
      BY <2>1, <2>2, <2>3, <2>4
  <1>5. StreamTrue'
    BY <1>2, <1>3, <1>4 DEF StreamTrue
  <1> QED
    BY <1>1, <1>2, <1>3, <1>5, ClosedStream, StreamKept DEF ReceiveBalance, WalletInv

LEMMA StreamEndsStep ==
  ASSUME WalletInv, StreamBreaks \/ Reconnect
  PROVE  WalletInv'
  <1>1. /\ WalletOnly /\ chain' = chain
        /\ stream.at \in {"opening", "open", "waiting"}
    BY DEF StreamBreaks, Reconnect
  <1>2. stream'.at \in {"opening", "waiting"} /\ stream'.of = stream.of /\ stream'.events = <<>>
    BY StreamRecord DEF StreamBreaks, Reconnect, Opening
  <1>3. StreamTrue'
    BY <1>2 DEF StreamTrue
  <1> QED
    BY <1>1, <1>2, <1>3, ClosedStream, StreamKept DEF WalletInv

LEMMA BalanceChangesStep ==
  ASSUME WalletInv, BalanceChanges
  PROVE  WalletInv'
  <1>1. /\ WalletOnly /\ stream # Closed /\ chain' \in Seen
        /\ UNCHANGED <<stream, balance>>
    BY DEF BalanceChanges, Seen
  <1>2. StreamTrue'
    BY <1>1 DEF StreamTrue, WalletInv
  <1> QED
    BY <1>1, <1>2, StreamKept

\* What another tab sets is not the page's.
LEMMA OtherTab ==
  ASSUME Typed, NEW t, t # Page, NEW r, tab' = [tab EXCEPT ![t] = r]
  PROVE  tab'[Page] = tab[Page]
  BY FormNames DEF Typed

LEMMA SessionStepKeeps ==
  ASSUME SessionInv, WalletInv, SessionStep
  PROVE  WalletInv'
  <1>0. UNCHANGED <<section, stream, balance, chain>> /\ Typed
    BY DEF SessionStep, pageVars, SessionInv
  <1>1. ASSUME NEW t, Logout(t) PROVE tab' = tab
    BY <1>1 DEF Logout
  <1>2. ASSUME NEW t, NEW u, t # Page, Login(t, u) PROVE tab'[Page] = tab[Page]
    BY <1>0, <1>2, OtherTab DEF Login
  <1>3. ASSUME NEW u, section = "login", Login(Page, u) PROVE stream = Closed
    BY <1>3 DEF WalletInv, WatchesItsAccount
  <1>4. ASSUME NEW t \in Tabs \ {Page}, Reload(t) \/ Submit(t) PROVE tab'[Page] = tab[Page]
    BY <1>0, <1>4, OtherTab DEF Reload, Submit
  <1>5. ASSUME NEW c \in calls, Serve(c) \/ Fail(c) PROVE tab' = tab
    BY <1>5 DEF Serve, Fail, ServeMe, DeleteSessions, CreateSession, ServeLogout, ServeSubmit
  <1>6. ASSUME NEW c \in calls, c.by # Page, Receive(c) PROVE tab'[Page] = tab[Page]
    <2>1. ASSUME NEW l, Clear(c.by, l) PROVE tab'[Page] = tab[Page]
      BY <1>0, <1>6, <2>1, OtherTab DEF Clear
    <2>2. ASSUME NEW u, NEW k, SignIn(c.by, u, k) PROVE tab'[Page] = tab[Page]
      BY <1>0, <1>6, <2>2, OtherTab DEF SignIn
    <2> QED
      BY <1>6, <2>1, <2>2 DEF Receive, ReceiveMe, ReceiveLogin, ReceiveLogout, ReceiveSubmit
  <1>7. ASSUME NEW k, Expire(k) PROVE tab' = tab
    BY <1>7 DEF Expire
  <1>8. \/ tab'[Page] = tab[Page]
        \/ section # "profile" /\ stream = Closed
    BY <1>1, <1>2, <1>3, <1>4, <1>5, <1>6, <1>7 DEF SessionStep
  <1> QED
    BY <1>0, <1>8, WalletKept

LEMMA WalletNext ==
  ASSUME SessionInv, WalletInv, [PagesNext]_allVars
  PROVE  WalletInv'
  <1>1. ASSUME NEW s, Show(s) PROVE WalletInv'
    BY <1>1, WatchStep DEF Show
  <1>2. CASE ReloadPage
    BY <1>2, WatchStep DEF ReloadPage
  <1>3. CASE section = "transfer" /\ FormStep /\ UNCHANGED pageVars
    <2>1. section # "profile" /\ stream = Closed
      BY <1>3 DEF WalletInv, WatchesItsAccount
    <2> QED
      BY <1>3, <2>1, WalletKept DEF pageVars
  <1>4. ASSUME NEW c \in calls, SubmitReturns(c), UNCHANGED pageVars PROVE WalletInv'
    <2>1. tab' = tab
      BY <1>4 DEF SubmitReturns, Receive, ReceiveMe, ReceiveLogin, ReceiveLogout, ReceiveSubmit
    <2> QED
      BY <1>4, <2>1, WalletKept DEF pageVars
  <1>5. CASE UNCHANGED allVars
    BY <1>5, WalletKept DEF allVars, vars, pageVars
  <1> QED
    BY <1>1, <1>2, <1>3, <1>4, <1>5, SessionStepKeeps, StreamOpensStep, PushStep,
       ReceiveBalanceStep, StreamEndsStep, BalanceChangesStep
    DEF PagesNext, Land, Go

LEMMA WalletInit ==
  ASSUME PagesInit
  PROVE  WalletInv
  <1>1. section # "profile" /\ stream = Closed /\ chain = Unknown
    BY DEF PagesInit
  <1>2. stream.events = <<>> /\ stream.at = "closed"
    BY <1>1, ClosedStream
  <1> QED
    BY <1>1, <1>2 DEF WalletInv, StreamTrue, WatchesItsAccount, Seen

LEMMA WalletInvariant == PagesSpec => []WalletInv
  <1>1. SessionInv /\ WalletInv /\ [PagesNext]_allVars => WalletInv'
    BY WalletNext
  <1>2. PagesInit => WalletInv
    BY WalletInit
  <1> QED
    BY <1>1, <1>2, PagesImplementSession, SessionInvariant, PTL DEF PagesSpec, allVars

\* No stream and no reconnect timer outlives the wallet, its account or the session
\* (the effect of Profile.jsx and its cleanup).
THEOREM WatchesItsAccountCorrect == PagesSpec => []WatchesItsAccount
  <1>1. WalletInv => WatchesItsAccount
    BY DEF WalletInv
  <1> QED
    BY <1>1, WalletInvariant, PTL

\* The wallet shows what its stream last saw once it has shown all that was sent,
\* across any number of breaks (Profile.jsx, HandleBalanceStream).
THEOREM ShowsTheBalanceCorrect == PagesSpec => []ShowsTheBalance
  <1>1. WalletInv => ShowsTheBalance
    BY DEF WalletInv, StreamTrue, ShowsTheBalance
  <1> QED
    BY <1>1, WalletInvariant, PTL

(* --- The form's schema --------------------------------------------------------- *)

\* Without a hole in the order of the answers the last fetch is the selection's.
SchemaInv ==
  /\ fetching \in Seq(Contracts)
  /\ DOMAIN values \subseteq Inputs(schema)
  /\ selected # NoContract /\ ~overtaken =>
       IF fetching = <<>> THEN schema = SchemaOf(selected)
                          ELSE fetching[Len(fetching)] = selected
  /\ OwnFields

\* What is left of the fetches when the first is answered.
LEMMA RestTyped ==
  ASSUME fetching \in Seq(Contracts), NEW i \in DOMAIN fetching
  PROVE  /\ Rest(i) \in Seq(Contracts)
         /\ i = 1 /\ Rest(i) = <<>> => Len(fetching) = 1
         /\ i = 1 /\ Rest(i) # <<>> => Rest(i)[Len(Rest(i))] = fetching[Len(fetching)]
  <1> PICK n : n = Len(fetching)
    OBVIOUS
  <1>1. n \in Nat /\ i \in 1..n
    OBVIOUS
  <1>2. /\ i - 1 \in Int /\ i + 1 \in Int /\ n \in Int
        /\ \A j \in 1..(i - 1) : fetching[j] \in Contracts
        /\ \A j \in (i + 1)..n : fetching[j] \in Contracts
    BY <1>1
  <1> PICK a : a = SubSeq(fetching, 1, i - 1)
    OBVIOUS
  <1> PICK b : b = SubSeq(fetching, i + 1, n)
    OBVIOUS
  <1>3. a \in Seq(Contracts)
    BY <1>2, SubSeqProperties
  <1>4. /\ b \in Seq(Contracts)
        /\ Len(b) = IF i + 1 <= n THEN n - (i + 1) + 1 ELSE 0
        /\ \A j \in 1..(n - (i + 1) + 1) : b[j] = fetching[(i + 1) + j - 1]
    BY SMTT(30), <1>2, SubSeqProperties
  <1>5. Rest(i) = a \o b
    BY DEF Rest
  <1>6. Rest(i) \in Seq(Contracts)
    BY <1>3, <1>4, <1>5, ConcatProperties
  <1>7. CASE i = 1
    <2>1. a = <<>>
      <3>1. 1 \in Int /\ i - 1 < 1
        BY <1>7
      <3> QED
        BY <1>2, <3>1, SubSeqEmpty
    <2>2. Rest(i) = b
      BY <1>4, <1>5, <2>1, ConcatEmptySeq
    <2>3. CASE n = 1
      <3>1. ~(i + 1 <= n)
        BY <1>7, <2>3
      <3>2. Len(b) = 0
        BY <1>4, <3>1
      <3>3. b = <<>>
        BY <1>4, <3>2, EmptySeq
      <3> QED
        BY <1>6, <2>2, <2>3, <3>3
    <2>4. CASE n # 1
      <3>1. i + 1 <= n /\ n - (i + 1) + 1 = n - 1 /\ n - 1 \in 1..(n - 1) /\ n - 1 # 0
        BY <1>1, <1>7, <2>4
      <3>2. Len(b) = n - 1
        BY <1>4, <3>1
      <3>3. b # <<>>
        <4>1. b = <<>> => Len(b) = 0
          OBVIOUS
        <4> QED
          BY <3>1, <3>2, <4>1
      <3>4. (i + 1) + (n - 1) - 1 = n
        BY <1>1, <1>7
      <3>5. b[n - 1] = fetching[n]
        BY <1>4, <3>1, <3>4
      <3> QED
        BY <1>6, <2>2, <3>2, <3>3, <3>5
    <2> QED
      BY <2>3, <2>4
  <1> QED
    BY <1>6, <1>7

LEMMA BlankSchema ==
  ASSUME SchemaInv, Blank, UNCHANGED sent
  PROVE  SchemaInv'
  BY DEF SchemaInv, Blank, NoValues, OwnFields

\* A selection's fetch is the last of all.
LEMMA ChooseStep ==
  ASSUME SchemaInv, NEW c \in Contracts, Choose(c)
  PROVE  SchemaInv'
  <1> PICK f : f = Append(fetching, c)
    OBVIOUS
  <1>1. f \in Seq(Contracts) /\ f # <<>> /\ f[Len(f)] = c
    BY DEF SchemaInv
  <1>2. fetching' = f /\ selected' = c /\ UNCHANGED <<schema, values, sent>>
    BY DEF Choose
  <1> QED
    BY <1>1, <1>2 DEF SchemaInv, OwnFields

LEMMA SchemaArrivesStep ==
  ASSUME SchemaInv, NEW i \in DOMAIN fetching, SchemaArrives(i)
  PROVE  SchemaInv'
  <1> PICK f : f = Rest(i)
    OBVIOUS
  <1>1. /\ f \in Seq(Contracts)
        /\ i = 1 /\ f = <<>> => Len(fetching) = 1
        /\ i = 1 /\ f # <<>> => f[Len(f)] = fetching[Len(fetching)]
    BY RestTyped DEF SchemaInv
  <1>2. /\ fetching' = f /\ selected' = selected /\ sent' = sent
        /\ schema' = SchemaOf(fetching[i])
        /\ overtaken' = (overtaken \/ i # 1)
        /\ (DOMAIN values)' \subseteq Inputs(schema)'
    BY DEF SchemaArrives, NoValues
  <1>3. ASSUME selected # NoContract, ~overtaken'
        PROVE  IF f = <<>> THEN schema' = SchemaOf(selected) ELSE f[Len(f)] = selected
    <2>1. i = 1 /\ ~overtaken /\ fetching # <<>>
      <3>1. i = 1 /\ ~overtaken
        BY <1>2, <1>3
      <3>2. fetching = <<>> => DOMAIN fetching = {}
        OBVIOUS
      <3> QED
        BY <3>1, <3>2
    <2>2. fetching[Len(fetching)] = selected
      BY <1>3, <2>1 DEF SchemaInv
    <2> QED
      BY <1>1, <1>2, <2>1, <2>2
  <1> QED
    BY <1>1, <1>2, <1>3 DEF SchemaInv, OwnFields

LEMMA HandleSubmitStep ==
  ASSUME SchemaInv, HandleSubmit
  PROVE  SchemaInv'
  <1> PICK b \in BOOLEAN : b = (tab[Page].account # NoUser)
    OBVIOUS
  <1> PICK s \in BOOLEAN : s = (~overtaken /\ fetching = <<>>)
    OBVIOUS
  <1> PICK p : p = [contract |-> selected, schema |-> schema, settled |-> s,
                    signedIn |-> b, fields |-> FieldsArg(b)]
    OBVIOUS
  <1>1. /\ sent' = sent \cup {p} /\ selected # NoContract
        /\ UNCHANGED <<selected, schema, values, fetching, overtaken>>
    BY DEF HandleSubmit
  <1>2. /\ p.contract = selected /\ p.schema = schema /\ p.settled = s
        /\ p.fields = FieldsArg(b)
    OBVIOUS
  <1>3. DOMAIN p.fields \subseteq CustomPart \cup {"amount", "to", "from"}
    BY <1>2 DEF FieldsArg
  <1>4. s => schema = SchemaOf(selected)
    BY <1>1 DEF SchemaInv
  <1>5. Inputs(schema) # {} => CustomPart \subseteq Inputs(schema)
    BY DEF CustomPart, SchemaInv
  <1>6. p.settled => /\ p.schema = SchemaOf(p.contract)
                     /\ Inputs(p.schema) # {} =>
                          DOMAIN p.fields \ {"amount", "to", "from"} \subseteq Inputs(p.schema)
    BY <1>2, <1>3, <1>4, <1>5
  <1>7. OwnFields'
    BY <1>1, <1>6 DEF OwnFields, SchemaInv
  <1> QED
    BY <1>1, <1>7 DEF SchemaInv

LEMMA SchemaNext ==
  ASSUME SchemaInv, [PagesNext]_allVars
  PROVE  SchemaInv'
  <1>1. CASE UNCHANGED <<selected, schema, values, fetching, overtaken, sent>>
    BY <1>1 DEF SchemaInv, OwnFields
  <1>2. ASSUME NEW s, Show(s) PROVE SchemaInv'
    BY <1>1, <1>2, BlankSchema DEF Show
  <1>3. ASSUME NEW c, SubmitReturns(c) PROVE SchemaInv'
    <2>1. /\ UNCHANGED <<selected, schema, fetching, overtaken, sent>>
          /\ values' = NoValues \/ values' = values
      BY <1>3 DEF SubmitReturns
    <2> QED
      BY <1>1, <2>1 DEF SchemaInv, OwnFields, NoValues
  <1>4. CASE FormStep
    <2>1. CASE ContractsArrive
      BY <2>1, ChooseStep, FormNames DEF ContractsArrive
    <2>2. ASSUME NEW c \in Contracts, Select(c) PROVE SchemaInv'
      BY <2>2, ChooseStep DEF Select
    <2>3. ASSUME NEW i \in DOMAIN fetching, SchemaArrives(i) PROVE SchemaInv'
      BY <2>3, SchemaArrivesStep
    <2>4. ASSUME NEW i \in DOMAIN fetching, SchemaFails(i) PROVE SchemaInv'
      BY <2>4, RestTyped DEF SchemaFails, SchemaInv, OwnFields
    <2>5. ASSUME NEW f \in Inputs(schema), Fill(f) PROVE SchemaInv'
      BY <2>5 DEF Fill, SchemaInv, OwnFields
    <2>6. ASSUME NEW n, FillRaw(n) PROVE SchemaInv'
      BY <1>1, <2>6 DEF FillRaw
    <2>7. CASE HandleSubmit
      BY <2>7, HandleSubmitStep
    <2> QED
      BY <1>4, <2>1, <2>2, <2>3, <2>4, <2>5, <2>6, <2>7 DEF FormStep
  <1>5. CASE SessionStep
    BY <1>1, <1>5 DEF SessionStep, formVars
  <1>6. CASE ReloadPage
    BY <1>6, BlankSchema DEF ReloadPage
  <1>7. CASE StreamOpens \/ Push \/ ReceiveBalance \/ StreamBreaks \/ Reconnect \/ BalanceChanges
    BY <1>1, <1>7 DEF StreamOpens, Push, ReceiveBalance, StreamBreaks, Reconnect,
       BalanceChanges, WalletOnly, formVars
  <1>8. CASE UNCHANGED allVars
    BY <1>1, <1>8 DEF allVars, formVars
  <1> QED
    BY <1>2, <1>3, <1>4, <1>5, <1>6, <1>7, <1>8 DEF PagesNext, Land, Go

\* A payload is made by the schema of the contract it goes to, once the schema
\* answers have come, all and in order (the schema effect and handleSubmit).
THEOREM OwnFieldsCorrect == PagesSpec => []OwnFields
  <1>1. PagesInit => SchemaInv
    BY DEF PagesInit, FormInit, SchemaInv, OwnFields, NoValues
  <1>2. SchemaInv /\ [PagesNext]_allVars => SchemaInv'
    BY SchemaNext
  <1>3. SchemaInv => OwnFields
    BY DEF SchemaInv
  <1> QED
    BY <1>1, <1>2, <1>3, PTL DEF PagesSpec, allVars

===============================================================================
