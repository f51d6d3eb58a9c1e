---------------------------- MODULE Connections -----------------------------
(***************************************************************************)
(* Connecting and disconnecting accounts, as the handlers do it: the       *)
(* settings pages (views/settings.templ, compiled to settings_templ.go),   *)
(* the states of Google's authorizations (google.go:51-122), the iCloud    *)
(* form (caldav.go:439-452), and the events the handlers publish once they *)
(* have written (main.go:160-222, events.go:20-58).                        *)
(*                                                                         *)
(* Handlers run at the same time, each one a request with its own place in *)
(* the code; the process may end and a browser may give up between any two *)
(* of their steps.  What follows a connection, its first sync, is          *)
(* SyncLifecycle.                                                          *)
(***************************************************************************)
EXTENDS Integers, FiniteSets

CONSTANTS
  Logins,       \* owners
  Emails,       \* identities of provider accounts
  States,       \* the random states authorizations may draw
  Requests,     \* handlers that may run at once
  Lifetime,     \* google.go:60: ten minutes
  NoState,      \* no such row, or not drawn yet
  NoAccount,    \* an unused account id
  Idle,         \* a handler that serves nothing
  NoEmail,      \* what the row of an id that is not there says
  Password,     \* what an iCloud credential is obtained by
  MaxAccounts,  \* bound: account ids
  MaxTime,      \* bound: the clock
  MaxWrites,    \* bound: accounts written or removed
  MaxFailures   \* bound: restarts, abandoned requests, lost publications

VARIABLES
  ready,      \* what the process could be set up with: the vault, Google
  clock,
  oauth,      \* oauth[s]: the row of oauth_states with the hash of s
  begun,      \* begun[s]: the login that drew s
  codes,      \* codes Google issued and nobody has exchanged
  answers,    \* addresses Google has sent a browser back to
  accounts,   \* accounts[id]: the row with that id
  pages,      \* pages[login]: the settings page in the owner's browser
  requests,   \* requests[r]: where handler r is
  happened,   \* happened[e]: how often e took place
  log,        \* log[e]: how often e was published
  overlapped, \* an account was removed under a handler that worked on it
  writes, failures

history == <<happened, overlapped, begun>>
vars == <<ready, clock, oauth, codes, answers, accounts, pages, requests, log, history,
          writes, failures>>

Ids == 1..MaxAccounts

ASSUME ConnectionsAssumption ==
  /\ Lifetime \in Nat /\ MaxAccounts \in Nat
  /\ MaxTime \in Nat /\ MaxWrites \in Nat /\ MaxFailures \in Nat
  /\ NoState \notin Logins \cup [login: Logins, until: Nat]
  /\ Password \notin States
Providers == {"gmail", "icloud"}
Answers == [state: States, email: Emails]
Account == [login: Logins, email: Emails, provider: Providers, by: States \cup {Password}]
Event == [type: {"connected", "disconnected"}, login: Logins, email: Emails \cup {NoEmail}]

(* A handler of the callback, of the iCloud form, or of a disconnection.   *)
Serving ==
  [at: {"exchange"}, login: Logins, answer: Answers]
  \cup [at: {"store"}, login: Logins, email: Emails, provider: Providers,
        by: States \cup {Password}]
  \cup [at: {"stored", "delete"}, login: Logins, id: Ids, email: Emails \cup {NoEmail}]
  \cup [at: {"publish"}, event: Event]

ASSUME NothingAssumption == NoAccount \notin Account /\ Idle \notin Serving

TypeOK ==
  /\ ready \in [vault: BOOLEAN, google: BOOLEAN]
  /\ clock \in 0..MaxTime
  /\ oauth \in [States -> [login: Logins, until: Nat] \cup {NoState}]
  /\ begun \in [States -> Logins \cup {NoState}]
  /\ codes \subseteq Answers /\ answers \subseteq Answers
  /\ accounts \in [Ids -> Account \cup {NoAccount}]
  /\ pages \in [Logins -> [shown: SUBSET Ids, google: BOOLEAN]]
  /\ requests \in [Requests -> Serving \cup {Idle}]
  /\ happened \in [Event -> Nat] /\ log \in [Event -> Nat]
  /\ overlapped \in BOOLEAN
  /\ writes \in 0..MaxWrites /\ failures \in 0..MaxFailures

Init ==
  /\ ready \in [vault: BOOLEAN, google: BOOLEAN]
  /\ clock = 0
  /\ oauth = [s \in States |-> NoState]
  /\ begun = [s \in States |-> NoState]
  /\ codes = {} /\ answers = {}
  /\ accounts = [id \in Ids |-> NoAccount]
  /\ pages = [login \in Logins |-> [shown |-> {}, google |-> FALSE]]
  /\ requests = [r \in Requests |-> Idle]
  /\ happened = [e \in Event |-> 0] /\ log = [e \in Event |-> 0]
  /\ overlapped = FALSE
  /\ writes = 0 /\ failures = 0

Present == {id \in Ids : accounts[id] # NoAccount}
Owned(login) == {id \in Present : accounts[id].login = login}

(* Request r, which was at one place, is now at another.                   *)
Goes(r, place) == requests' = [requests EXCEPT ![r] = place]
IsAt(r, place) == requests[r] # Idle /\ requests[r].at = place

-----------------------------------------------------------------------------
(* The settings page                                                       *)

(* The link to Google, if the process has both its client and a key.       *)
GoogleLink == ready.google /\ ready.vault

(* GET /settings: a form for each account.                                 *)
OpenSettings(login) ==
  /\ pages' = [pages EXCEPT ![login] = [shown |-> Owned(login), google |-> GoogleLink]]
  /\ UNCHANGED <<ready, clock, oauth, codes, answers, accounts, requests, log, history,
                 writes, failures>>

-----------------------------------------------------------------------------
(* Google                                                                  *)

(* beginGoogleOAuth: a new state for the login, good for a while.  The     *)
(* link may be on a page of an earlier process.                            *)
BeginGoogleOAuth(login, s) ==
  /\ pages[login].google /\ ready.google
  /\ begun[s] = NoState
  /\ begun' = [begun EXCEPT ![s] = login]
  /\ oauth' = [oauth EXCEPT ![s] = [login |-> login, until |-> clock + Lifetime]]
  /\ UNCHANGED <<ready, clock, codes, answers, accounts, pages, requests, log, happened,
                 overlapped, writes, failures>>

(* Google asks, and sends the browser back with the state and a code.      *)
Consent(answer) ==
  /\ begun[answer.state] # NoState /\ answer \notin answers
  /\ codes' = codes \cup {answer}
  /\ answers' = answers \cup {answer}
  /\ UNCHANGED <<ready, clock, oauth, accounts, pages, requests, log, history, writes,
                 failures>>

(* The rows that DELETE ... RETURNING takes, and what they say.            *)
Good(s) == oauth[s] # NoState /\ oauth[s].until > clock

(* Mutants: the row is looked up and stays; its login is not compared.     *)
RedeemKeeping(s) == UNCHANGED oauth
IsAnyones(login, s) == Good(s)

Redeem(s) ==
  oauth' = IF Good(s) THEN [oauth EXCEPT ![s] = NoState] ELSE oauth

IsTheirs(login, s) == Good(s) /\ oauth[s].login = login

(* finishGoogleOAuth, for whoever is logged in where the answer arrives,   *)
(* once or again: an authorization of another login is lost to both.       *)
Callback(r, login, answer) ==
  /\ requests[r] = Idle
  /\ answer \in answers
  /\ ready.vault /\ ready.google
  /\ Redeem(answer.state)
  /\ IF IsTheirs(login, answer.state)
     THEN Goes(r, [at |-> "exchange", login |-> login, answer |-> answer])
     ELSE UNCHANGED requests
  /\ UNCHANGED <<ready, clock, codes, answers, accounts, pages, log, history, writes,
                 failures>>

(* Mutant: an address Google does not tell is taken for one.               *)
AnyProfile(answer) == {answer.email, NoEmail}

(* userinfo: the address of the owner of the code; without one, none.      *)
Profile(answer) == {answer.email}

(* exchange and userinfo: a code is good once; then either call may fail.  *)
Exchange(r) ==
  /\ IsAt(r, "exchange")
  /\ codes' = codes \ {requests[r].answer}
  /\ \/ /\ requests[r].answer \in codes
        /\ \E email \in Profile(requests[r].answer) :
             Goes(r, [at |-> "store", login |-> requests[r].login, provider |-> "gmail",
                      email |-> email, by |-> requests[r].answer.state])
     \/ Goes(r, Idle)
  /\ UNCHANGED <<ready, clock, oauth, answers, accounts, pages, log, history, writes,
                 failures>>

-----------------------------------------------------------------------------
(* Writing                                                                 *)

(* addICloudAccount, up to its INSERT.                                     *)
AddICloudAccount(r, login, email) ==
  /\ requests[r] = Idle
  /\ ready.vault
  /\ Goes(r, [at |-> "store", login |-> login, email |-> email, provider |-> "icloud",
              by |-> Password])
  /\ UNCHANGED <<ready, clock, oauth, codes, answers, accounts, pages, log, history, writes,
                 failures>>

(* INTEGER PRIMARY KEY: the largest id plus one.                           *)
IsNextId(id) == id \in Ids \ Present /\ \A i \in Present : i < id /\ (id = 1 \/ id - 1 \in Present)

(* INSERT INTO accounts ... ON CONFLICT(login,email) DO UPDATE, which      *)
(* replaces the credential and not the provider.                           *)
Upsert(r, id) ==
  LET new == requests[r]
      Same == {i \in Owned(new.login) : accounts[i].email = new.email}
  IN  /\ IF Same = {} THEN IsNextId(id) ELSE id \in Same
      /\ accounts' = [accounts EXCEPT ![id] =
           [login |-> new.login, email |-> new.email, by |-> new.by,
            provider |-> IF Same = {} THEN new.provider ELSE accounts[id].provider]]

(* Another handler works on the account.                                   *)
WorkedOn(id, r) ==
  \E other \in Requests \ {r} :
    (IsAt(other, "stored") \/ IsAt(other, "delete")) /\ requests[other].id = id

TakesPlace(type, login, email) ==
  /\ writes < MaxWrites /\ writes' = writes + 1
  /\ happened' = [happened EXCEPT ![[type |-> type, login |-> login, email |-> email]] = @ + 1]

Store(r) ==
  /\ IsAt(r, "store")
  /\ TakesPlace("connected", requests[r].login, requests[r].email)
  /\ \E id \in Ids :
       /\ Upsert(r, id)
       /\ overlapped' = (overlapped \/ (id \notin Present /\ WorkedOn(id, r)))
       /\ Goes(r, [at |-> "stored", login |-> requests[r].login, id |-> id,
                   email |-> requests[r].email])
  /\ UNCHANGED <<ready, clock, oauth, codes, answers, pages, log, begun, failures>>

(* publishAccountConnected: the row that has the id now, whosever it is;   *)
(* none is no event.                                                       *)
PublishAccountConnected(r) ==
  /\ IsAt(r, "stored")
  /\ IF requests[r].id \in Present
     THEN Goes(r, [at |-> "publish", event |->
            [type |-> "connected", login |-> requests[r].login,
             email |-> accounts[requests[r].id].email]])
     ELSE Goes(r, Idle)
  /\ UNCHANGED <<ready, clock, oauth, codes, answers, accounts, pages, log, history, writes,
                 failures>>

(* A form of the page: the account is read for its event ...               *)
Disconnect(r, login, id) ==
  /\ requests[r] = Idle
  /\ id \in pages[login].shown
  /\ Goes(r, [at |-> "delete", login |-> login, id |-> id,
              email |-> IF id \in Owned(login) THEN accounts[id].email ELSE NoEmail])
  /\ UNCHANGED <<ready, clock, oauth, codes, answers, accounts, pages, log, history, writes,
                 failures>>

(* Mutant: nobody asks whether a row was deleted.                          *)
SaidUnchecked(r) ==
  Goes(r, [at |-> "publish", event |->
    [type |-> "disconnected", login |-> requests[r].login, email |-> requests[r].email]])

(* What is said next: one that is gone is not found.                       *)
Said(r) ==
  IF requests[r].id \in Owned(requests[r].login)
  THEN Goes(r, [at |-> "publish", event |->
         [type |-> "disconnected", login |-> requests[r].login, email |-> requests[r].email]])
  ELSE Goes(r, Idle)

(* ... and deleted.                                                        *)
Delete(r) ==
  LET id == requests[r].id
      login == requests[r].login
  IN  /\ IsAt(r, "delete")
      /\ IF id \in Owned(login)
         THEN /\ TakesPlace("disconnected", login, accounts[id].email)
              /\ accounts' = [accounts EXCEPT ![id] = NoAccount]
              /\ overlapped' = (overlapped \/ WorkedOn(id, r))
         ELSE UNCHANGED <<accounts, happened, overlapped, writes>>
      /\ Said(r)
      /\ UNCHANGED <<ready, clock, oauth, codes, answers, pages, log, begun, failures>>

(* publishEvent: sent, after which the handler ends.                       *)
PublishEvent(r) ==
  /\ IsAt(r, "publish")
  /\ log' = [log EXCEPT ![requests[r].event] = @ + 1]
  /\ Goes(r, Idle)
  /\ UNCHANGED <<ready, clock, oauth, codes, answers, accounts, pages, history, writes,
                 failures>>

-----------------------------------------------------------------------------
(* What goes wrong                                                         *)

Fails == failures < MaxFailures /\ failures' = failures + 1

(* The browser gives up, which cancels the context of its request, or the  *)
(* event is not accepted, which is logged only.                            *)
Abandon(r) ==
  /\ Fails
  /\ requests[r] # Idle
  /\ Goes(r, Idle)
  /\ UNCHANGED <<ready, clock, oauth, codes, answers, accounts, pages, log, history, writes>>

(* The process ends, and is started again with what it is then given.      *)
Restart ==
  /\ Fails
  /\ requests' = [r \in Requests |-> Idle]
  /\ ready' \in [vault: BOOLEAN, google: BOOLEAN]
  /\ UNCHANGED <<clock, oauth, codes, answers, accounts, pages, log, history, writes>>

Tick ==
  /\ clock < MaxTime
  /\ clock' = clock + 1
  /\ UNCHANGED <<ready, oauth, codes, answers, accounts, pages, requests, log, history,
                 writes, failures>>

Next ==
  \/ \E login \in Logins : OpenSettings(login)
  \/ \E login \in Logins, s \in States : BeginGoogleOAuth(login, s)
  \/ \E answer \in Answers : Consent(answer)
  \/ \E r \in Requests, login \in Logins, answer \in Answers : Callback(r, login, answer)
  \/ \E r \in Requests, login \in Logins, email \in Emails : AddICloudAccount(r, login, email)
  \/ \E r \in Requests, login \in Logins, id \in Ids : Disconnect(r, login, id)
  \/ \E r \in Requests : \/ Exchange(r) \/ Store(r) \/ PublishAccountConnected(r)
                         \/ Delete(r) \/ PublishEvent(r) \/ Abandon(r)
  \/ Restart
  \/ Tick

Spec == Init /\ [][Next]_vars

-----------------------------------------------------------------------------
(* Properties                                                              *)

(* What an authorization has led to: handlers on their way and accounts.   *)
OnItsWay(r, s) ==
  \/ IsAt(r, "exchange") /\ requests[r].answer.state = s
  \/ IsAt(r, "store") /\ requests[r].by = s

Uses(s) == {<<"handler", r>> : r \in {h \in Requests : OnItsWay(h, s)}}
           \cup {<<"account", id>> : id \in {i \in Present : accounts[i].by = s}}

(* google.go:74: however often and wherever Google's answer arrives, an    *)
(* authorization gives at most one account its credential, and the row it  *)
(* came by is gone.                                                        *)
AuthorizedOnce ==
  \A s \in States : \A u, v \in Uses(s) : u = v /\ oauth[s] = NoState

(* README.md:140: accounts are owner-scoped.  The account is of the login  *)
(* that went to Google, not of the one that is logged in when the answer   *)
(* arrives.                                                                *)
AuthorizedByOwner ==
  \A id \in Present : accounts[id].by # Password => begun[accounts[id].by] = accounts[id].login

(* Handler r has still to send event e; those that have.                   *)
Owes(r, e) ==
  \/ IsAt(r, "publish") /\ requests[r].event = e
  \/ IsAt(r, "stored") /\ e = [type |-> "connected", login |-> requests[r].login,
                               email |-> requests[r].email]

Pending(e) == Cardinality({r \in Requests : Owes(r, e)})

(* events.go:20-22: events are published after what they tell of was       *)
(* committed, once.  Each connection and each disconnection is told once,  *)
(* is about to be, or was lost with its handler, unless an account was     *)
(* removed while another handler worked on it.                             *)
EventsTellWhatHappened ==
  ~overlapped =>
    \A e \in Event :
      /\ log[e] + Pending(e) <= happened[e]
      /\ failures = 0 => log[e] + Pending(e) = happened[e]
=============================================================================
