---------------------------- MODULE ExplorerPages ----------------------------
(***************************************************************************)
(* The sections of the explorer in one tab, over the sign-in that it       *)
(* shares with other tabs: the submit form, the wallet with its stream of  *)
(* balances, and the sign-in page.  Signing in, out and losing the session *)
(* navigate, and whoever leaves a section loses what it held.  A balance   *)
(* is a member of a small set.  The other sections keep no state here.     *)
(***************************************************************************)
EXTENDS TransferForm

CONSTANTS
  Balances,   \* of the account that the wallet shows
  Unknown,    \* no balance yet
  StreamCap   \* bound: balances on their way to the page

ASSUME Wallets == Unknown \notin Balances /\ StreamCap \in Nat

VARIABLES
  section,    \* "transfer", "profile" or "login"
  stream,     \* the wallet's EventSource or its reconnect timer
  balance,    \* the balance shown
  chain       \* the balance the committing peer has for that account

pageVars == <<section, stream, balance, chain>>

Closed == [at |-> "closed", of |-> NoUser, last |-> Unknown, events |-> <<>>]
Opening(u) == [at |-> "opening", of |-> u, last |-> Unknown, events |-> <<>>]
Stream(at, last, events) ==
  [at |-> at, of |-> stream.of, last |-> last, events |-> events]

(* --- Navigation ---------------------------------------------------------- *)

\* The sign-in page leaves when there is an account, the wallet when there is
\* none and none is being asked for.
Redirected(s) ==
  IF s = "login" /\ Authenticated(Page)' THEN "profile"
  ELSE IF s = "profile" /\ ~Authenticated(Page)' /\ ~tab'[Page].loading THEN "login"
  ELSE s

\* The wallet's effect: a stream for the account it shows, started anew when
\* the page or the account is; until it speaks, the balance shown is the
\* session's copy, which may be of any age.
Watch_OnArrival ==
  IF section' = "profile" /\ Authenticated(Page)' /\ section # "profile"
    THEN /\ stream' = Opening(tab'[Page].account)
         /\ balance' \in Balances /\ chain' \in Balances
    ELSE IF section' = "profile" THEN UNCHANGED <<stream, balance, chain>>
    ELSE stream' = Closed /\ balance' = Unknown /\ chain' = Unknown
Watch ==
  IF section' = "profile" /\ Authenticated(Page)'
    THEN IF section = "profile" /\ tab'[Page] = tab[Page]
           THEN UNCHANGED <<stream, balance, chain>>
           ELSE /\ stream' = Opening(tab'[Page].account)
                /\ balance' \in Balances /\ chain' \in Balances
    ELSE stream' = Closed /\ balance' = Unknown /\ chain' = Unknown

\* The page shows section s, or where that redirects to.
Show(s) ==
  /\ section' = Redirected(s)
  /\ Watch
  /\ UNCHANGED sent
  /\ IF section = "transfer" /\ section' = "transfer"
       THEN UNCHANGED <<selected, schema, values, raw, submitting, fetching, overtaken>>
       ELSE Blank

\* The navigation bar; it offers to sign in while nobody has.
Go(s) ==
  /\ s # section
  /\ s = "login" => ~Authenticated(Page)
  /\ Edit
  /\ Show(s)

(* --- The session's steps, and where they lead ---------------------------- *)

SessionStep ==
  /\ \/ \E t \in Tabs : Logout(t)
     \/ \E t \in Tabs, u \in Users : (t = Page => section = "login") /\ Login(t, u)
     \/ \E t \in Tabs \ {Page} : Reload(t) \/ Submit(t)
     \/ \E c \in calls : Serve(c) \/ Fail(c) \/ (c.by # Page /\ Receive(c))
     \/ \E k \in sessions : Expire(k)
  /\ UNCHANGED <<formVars, pageVars>>

\* Wherever the page is by then, a sign-in leads to the wallet and a sign-out
\* to the sign-in page.
Land(c) ==
  /\ c.by = Page /\ c.op # "submit"
  /\ Receive(c)
  /\ Show(CASE c.op = "login" /\ c.at = "ok" -> "profile"
            [] c.op = "logout" -> "login"
            [] OTHER -> section)

ReloadPage ==
  /\ Reload(Page)
  /\ section' = Redirected(section)
  /\ Watch
  /\ Blank /\ UNCHANGED sent

(* --- The wallet ---------------------------------------------------------- *)

WalletOnly == UNCHANGED <<vars, formVars, section>>

\* HandleBalanceStream: the balance when it begins, whenever it has changed,
\* and again every two seconds.
StreamOpens ==
  /\ stream.at = "opening"
  /\ stream' = Stream("open", chain, <<chain>>)
  /\ WalletOnly /\ UNCHANGED <<balance, chain>>

Push ==
  /\ stream.at = "open" /\ Len(stream.events) < StreamCap
  /\ stream' = Stream("open", chain, Append(stream.events, chain))
  /\ WalletOnly /\ UNCHANGED <<balance, chain>>

ReceiveBalance ==
  /\ stream.events # <<>>
  /\ balance' = Head(stream.events)
  /\ stream' = Stream(stream.at, stream.last, Tail(stream.events))
  /\ WalletOnly /\ UNCHANGED chain

StreamBreaks ==
  /\ stream.at \in {"opening", "open"}
  /\ stream' = Stream("waiting", stream.last, <<>>)
  /\ WalletOnly /\ UNCHANGED <<balance, chain>>

\* Three seconds later.
Reconnect_Resumes ==
  /\ stream.at = "waiting"
  /\ stream' = Stream("open", stream.last, stream.events)
  /\ WalletOnly /\ UNCHANGED <<balance, chain>>
Reconnect ==
  /\ stream.at = "waiting"
  /\ stream' = Opening(stream.of)
  /\ WalletOnly /\ UNCHANGED <<balance, chain>>

\* A block, or a mint, changes the account's balance.
BalanceChanges ==
  /\ stream # Closed
  /\ chain' \in Balances \ {chain}
  /\ WalletOnly /\ UNCHANGED <<stream, balance>>

(* --- The specification --------------------------------------------------- *)

PagesInit ==
  /\ Init /\ FormInit
  /\ section \in {"transfer", "login"}
  /\ stream = Closed /\ balance = Unknown /\ chain = Unknown

PagesNext ==
  \/ SessionStep
  \/ \E c \in calls : Land(c)
  \/ ReloadPage
  \/ \E s \in {"transfer", "profile", "login"} : Go(s)
  \/ section = "transfer" /\ FormStep /\ UNCHANGED pageVars
  \/ \E c \in calls : SubmitReturns(c) /\ UNCHANGED pageVars
  \/ StreamOpens \/ Push \/ ReceiveBalance \/ StreamBreaks \/ Reconnect \/ BalanceChanges

PagesSpec == PagesInit /\ [][PagesNext]_<<vars, formVars, pageVars>>

(* --- Properties ---------------------------------------------------------- *)

\* The wallet watches the account it shows, and only while it shows one: no
\* stream and no timer outlives the page, the account or the session.
WatchesItsAccount ==
  /\ section = "profile" /\ Authenticated(Page) => stream.of = tab[Page].account
  /\ section # "profile" \/ ~Authenticated(Page) => stream = Closed

\* Once all that the stream has sent is shown and the balance is as it was when
\* the stream last looked, it is the balance shown, whatever was shown before and
\* however often the stream has broken.
ShowsTheBalance ==
  stream.at = "open" /\ stream.events = <<>> /\ stream.last = chain => balance = chain
===============================================================================
