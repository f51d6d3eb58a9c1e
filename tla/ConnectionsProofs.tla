------------------------- MODULE ConnectionsProofs --------------------------
(***************************************************************************)
(* Proofs about Connections, for any owners, any number of handlers at a   *)
(* time, and any bounds: the types, that an authorization is used once and *)
(* by the owner who began it, that an owner has one account for an         *)
(* address, and that events tell what happened.                            *)
(***************************************************************************)
EXTENDS Connections, TLAPS, FiniteSetTheorems

(* Where a handler is says what it carries.                                *)
LEMMA Places ==
  ASSUME NEW q \in Serving \cup {Idle}
  PROVE  /\ q # Idle /\ q.at = "exchange" =>
              q \in [at: {"exchange"}, login: Logins, answer: Answers]
         /\ q # Idle /\ q.at = "store" =>
              q \in [at: {"store"}, login: Logins, email: Emails, provider: Providers,
                     by: States \cup {Password}]
         /\ q # Idle /\ q.at \in {"stored", "delete"} =>
              q \in [at: {"stored", "delete"}, login: Logins, id: Ids,
                     email: Emails \cup {NoEmail}]
         /\ q # Idle /\ q.at = "publish" => q \in [at: {"publish"}, event: Event]
  BY DEF Serving

-----------------------------------------------------------------------------
(* Types                                                                   *)

(* The state after Upsert(r, id), typed.                                   *)
LEMMA UpsertTyped ==
  ASSUME TypeOK, NEW r \in Requests, NEW id \in Ids, IsAt(r, "store"), Upsert(r, id)
  PROVE  /\ requests[r] \in [at: {"store"}, login: Logins, email: Emails, provider: Providers,
                             by: States \cup {Password}]
         /\ accounts' \in [Ids -> Account \cup {NoAccount}]
         /\ accounts'[id] \in Account
         /\ accounts'[id].login = requests[r].login
         /\ accounts'[id].email = requests[r].email
         /\ accounts'[id].by = requests[r].by
         /\ \A i \in Ids \ {id} : accounts'[i] = accounts[i]
<1> DEFINE new == requests[r]
           Same == {i \in Owned(new.login) : accounts[i].email = new.email}
           provider == IF Same = {} THEN new.provider ELSE accounts[id].provider
           row == [login |-> new.login, email |-> new.email, by |-> new.by,
                   provider |-> provider]
<1>1. new \in [at: {"store"}, login: Logins, email: Emails, provider: Providers,
               by: States \cup {Password}]
  BY Places DEF TypeOK, IsAt
<1>2. provider \in Providers
  <2>1. CASE Same = {}
    BY <1>1, <2>1
  <2>2. CASE Same # {}
    <3>1. id \in Present
      BY <2>2 DEF Upsert, Owned
    <3>2. accounts[id] \in Account
      BY <3>1 DEF Present, TypeOK
    <3> QED BY <2>2, <3>2 DEF Account
  <2> QED BY <2>1, <2>2
<1>3. row \in Account
  BY <1>1, <1>2 DEF Account
<1>4. accounts' = [accounts EXCEPT ![id] = row]
  BY DEF Upsert
<1>5. accounts \in [Ids -> Account \cup {NoAccount}]
  BY DEF TypeOK
<1>6. accounts'[id] = row /\ \A i \in Ids \ {id} : accounts'[i] = accounts[i]
  BY <1>4, <1>5
<1>7. accounts' \in [Ids -> Account \cup {NoAccount}]
  BY <1>3, <1>4, <1>5
<1> HIDE DEF row
<1>8. row.login = new.login /\ row.email = new.email /\ row.by = new.by
  BY DEF row
<1> QED BY <1>1, <1>3, <1>6, <1>7, <1>8

(* An event that a handler is about to send is one.                        *)
LEMMA GoesTyped ==
  ASSUME TypeOK, NEW r \in Requests, NEW place \in Serving \cup {Idle}, Goes(r, place)
  PROVE  /\ requests' \in [Requests -> Serving \cup {Idle}]
         /\ requests'[r] = place
         /\ \A h \in Requests \ {r} : requests'[h] = requests[h]
  BY DEF Goes, TypeOK
(* One more.                                                               *)
LEMMA Counted ==
  ASSUME NEW S, NEW f \in [S -> Nat], NEW x
  PROVE  [f EXCEPT ![x] = @ + 1] \in [S -> Nat]
<1> DEFINE g == [f EXCEPT ![x] = @ + 1]
<1>1. g = [y \in S |-> IF y = x THEN f[x] + 1 ELSE f[y]]
  OBVIOUS
<1>2. \A y \in S : f[y] \in Nat /\ (IF y = x THEN f[x] + 1 ELSE f[y]) \in Nat
  OBVIOUS
<1> QED BY <1>1, <1>2

(* Writing an account, and removing one, leave the other variables typed.  *)
LEMMA StoreTyped ==
  ASSUME TypeOK, NEW r \in Requests, Store(r)
  PROVE  TypeOK'
<1>1. PICK id \in Ids :
        /\ Upsert(r, id)
        /\ Goes(r, [at |-> "stored", login |-> requests[r].login, id |-> id,
                    email |-> requests[r].email])
  BY DEF Store
<1>2. /\ requests[r] \in [at: {"store"}, login: Logins, email: Emails, provider: Providers,
                          by: States \cup {Password}]
      /\ accounts' \in [Ids -> Account \cup {NoAccount}]
  BY <1>1, UpsertTyped DEF Store
<1>3. [at |-> "stored", login |-> requests[r].login, id |-> id, email |-> requests[r].email]
        \in Serving \cup {Idle}
  BY <1>2 DEF Serving
<1>4. requests' \in [Requests -> Serving \cup {Idle}]
  BY <1>1, <1>3, GoesTyped
<1>5. happened' \in [Event -> Nat] /\ writes' \in 0..MaxWrites
  <2>1. happened \in [Event -> Nat] /\ writes \in 0..MaxWrites
    BY DEF TypeOK
  <2> HIDE DEF Event
  <2>2. happened' \in [Event -> Nat]
    BY <2>1, Counted DEF Store, TakesPlace
  <2>3. writes' \in 0..MaxWrites
    BY <2>1, ConnectionsAssumption DEF Store, TakesPlace
  <2> QED BY <2>2, <2>3
<1>6. overlapped' \in BOOLEAN
  BY DEF Store
<1> QED BY <1>2, <1>4, <1>5, <1>6 DEF Store, TypeOK

LEMMA DeleteTyped ==
  ASSUME TypeOK, NEW r \in Requests, Delete(r)
  PROVE  TypeOK'
<1> DEFINE id == requests[r].id
           login == requests[r].login
           event == [type |-> "disconnected", login |-> login, email |-> requests[r].email]
<1>1. requests[r] \in [at: {"stored", "delete"}, login: Logins, id: Ids,
                       email: Emails \cup {NoEmail}]
  BY Places DEF Delete, IsAt, TypeOK
<1>2. requests' \in [Requests -> Serving \cup {Idle}]
  <2>1. event \in Event
    BY <1>1 DEF Event
  <2>2. [at |-> "publish", event |-> event] \in Serving \cup {Idle}
    BY <2>1 DEF Serving
  <2>3. Goes(r, [at |-> "publish", event |-> event]) \/ Goes(r, Idle)
    BY DEF Delete, Said
  <2> QED BY <2>2, <2>3, GoesTyped
<1>3. CASE id \in Owned(login)
  <2>1. accounts[id] \in Account
    BY <1>3 DEF Owned, Present, TypeOK
  <2>2. accounts' \in [Ids -> Account \cup {NoAccount}]
    BY <1>3 DEF Delete, TypeOK
  <2>3. happened' \in [Event -> Nat] /\ writes' \in 0..MaxWrites
    <3>1. happened \in [Event -> Nat] /\ writes \in 0..MaxWrites
      BY DEF TypeOK
    <3>2. happened' \in [Event -> Nat]
      BY <1>3, <3>1, Counted DEF Delete, TakesPlace
    <3>3. writes' \in 0..MaxWrites
      BY <1>3, <3>1, ConnectionsAssumption DEF Delete, TakesPlace
    <3> QED BY <3>2, <3>3
  <2>4. overlapped' \in BOOLEAN
    BY <1>3 DEF Delete
  <2> QED BY <1>2, <2>2, <2>3, <2>4 DEF Delete, TypeOK
<1>4. CASE id \notin Owned(login)
  BY <1>2, <1>4 DEF Delete, TypeOK
<1> QED BY <1>3, <1>4

(* Every step keeps the types.                                             *)
LEMMA StepTyped ==
  ASSUME TypeOK, [Next]_vars
  PROVE  TypeOK'
<1>1. ASSUME NEW login \in Logins, OpenSettings(login)
      PROVE  TypeOK'
  BY <1>1 DEF OpenSettings, GoogleLink, TypeOK, Owned, Present, history
<1>2. ASSUME NEW login \in Logins, NEW s \in States, BeginGoogleOAuth(login, s)
      PROVE  TypeOK'
  <2>1. clock + Lifetime \in Nat
    BY ConnectionsAssumption DEF TypeOK
  <2>2. [login |-> login, until |-> clock + Lifetime] \in [login: Logins, until: Nat]
    BY <2>1
  <2>3. oauth' \in [States -> [login: Logins, until: Nat] \cup {NoState}]
    BY <1>2, <2>2 DEF BeginGoogleOAuth, TypeOK
  <2> QED BY <1>2, <2>3 DEF BeginGoogleOAuth, TypeOK
<1>3. ASSUME NEW answer \in Answers, Consent(answer)
      PROVE  TypeOK'
  BY <1>3 DEF Consent, TypeOK, history
<1>4. ASSUME NEW r \in Requests, NEW login \in Logins, NEW answer \in Answers,
             Callback(r, login, answer)
      PROVE  TypeOK'
  <2>1. [at |-> "exchange", login |-> login, answer |-> answer] \in Serving \cup {Idle}
    BY DEF Serving
  <2>2. requests' \in [Requests -> Serving \cup {Idle}]
    BY <1>4, <2>1, GoesTyped DEF Callback, TypeOK
  <2>3. oauth' \in [States -> [login: Logins, until: Nat] \cup {NoState}]
    BY <1>4 DEF Callback, Redeem, TypeOK
  <2> QED BY <1>4, <2>2, <2>3 DEF Callback, TypeOK, history
<1>5. ASSUME NEW r \in Requests, NEW login \in Logins, NEW email \in Emails,
             AddICloudAccount(r, login, email)
      PROVE  TypeOK'
  <2>1. [at |-> "store", login |-> login, email |-> email, provider |-> "icloud",
         by |-> Password] \in Serving \cup {Idle}
    BY DEF Serving, Providers
  <2>2. requests' \in [Requests -> Serving \cup {Idle}]
    BY <1>5, <2>1, GoesTyped DEF AddICloudAccount
  <2> QED BY <1>5, <2>2 DEF AddICloudAccount, TypeOK, history
<1>6. ASSUME NEW r \in Requests, NEW login \in Logins, NEW id \in Ids, Disconnect(r, login, id)
      PROVE  TypeOK'
  <2> DEFINE email == IF id \in Owned(login) THEN accounts[id].email ELSE NoEmail
  <2>1. email \in Emails \cup {NoEmail}
    BY DEF Owned, Present, TypeOK, Account
  <2>2. [at |-> "delete", login |-> login, id |-> id, email |-> email] \in Serving \cup {Idle}
    BY <2>1 DEF Serving
  <2>3. requests' \in [Requests -> Serving \cup {Idle}]
    BY <1>6, <2>2, GoesTyped DEF Disconnect
  <2> QED BY <1>6, <2>3 DEF Disconnect, TypeOK, history
<1>7. ASSUME NEW r \in Requests, Exchange(r)
      PROVE  TypeOK'
  <2>1. requests[r] \in [at: {"exchange"}, login: Logins, answer: Answers]
    BY <1>7, Places DEF Exchange, IsAt, TypeOK
  <2>2. ASSUME NEW email \in Profile(requests[r].answer)
        PROVE  [at |-> "store", login |-> requests[r].login, provider |-> "gmail",
                email |-> email, by |-> requests[r].answer.state] \in Serving \cup {Idle}
    BY <2>1, <2>2 DEF Serving, Providers, Profile, Answers
  <2>3. requests' \in [Requests -> Serving \cup {Idle}]
    BY <1>7, <2>2, GoesTyped DEF Exchange
  <2> QED BY <1>7, <2>3 DEF Exchange, TypeOK, history
<1>8. ASSUME NEW r \in Requests, PublishAccountConnected(r)
      PROVE  TypeOK'
  <2> DEFINE event == [type |-> "connected", login |-> requests[r].login,
                       email |-> accounts[requests[r].id].email]
  <2>1. requests[r] \in [at: {"stored", "delete"}, login: Logins, id: Ids,
                         email: Emails \cup {NoEmail}]
    BY <1>8, Places DEF PublishAccountConnected, IsAt, TypeOK
  <2>2. ASSUME requests[r].id \in Present
        PROVE  [at |-> "publish", event |-> event] \in Serving \cup {Idle}
    <3>1. event \in Event
      BY <2>1, <2>2 DEF Event, Present, TypeOK, Account
    <3> QED BY <3>1 DEF Serving
  <2>3. requests' \in [Requests -> Serving \cup {Idle}]
    BY <1>8, <2>2, GoesTyped DEF PublishAccountConnected
  <2> QED BY <1>8, <2>3 DEF PublishAccountConnected, TypeOK, history
<1>9. ASSUME NEW r \in Requests, PublishEvent(r)
      PROVE  TypeOK'
  <2>1. requests' \in [Requests -> Serving \cup {Idle}]
    BY <1>9, GoesTyped DEF PublishEvent
  <2>2. log' \in [Event -> Nat]
    BY <1>9, Counted DEF PublishEvent, TypeOK
  <2> QED BY <1>9, <2>1, <2>2 DEF PublishEvent, TypeOK, history
<1>10. ASSUME NEW r \in Requests, Abandon(r)
       PROVE  TypeOK'
  <2>1. requests' \in [Requests -> Serving \cup {Idle}]
    BY <1>10, GoesTyped DEF Abandon
  <2> QED BY <1>10, <2>1, ConnectionsAssumption DEF Abandon, Fails, TypeOK, history
<1>11. CASE Restart
  BY <1>11, ConnectionsAssumption DEF Restart, Fails, TypeOK, history
<1>12. CASE Tick
  BY <1>12, ConnectionsAssumption DEF Tick, TypeOK, history
<1>13. CASE UNCHANGED vars
  BY <1>13 DEF vars, history, TypeOK
<1> QED BY <1>1, <1>2, <1>3, <1>4, <1>5, <1>6, <1>7, <1>8, <1>9, <1>10, <1>11, <1>12, <1>13,
           StoreTyped, DeleteTyped DEF Next

LEMMA InitTyped ==
  ASSUME Init
  PROVE  TypeOK
<1>1. happened \in [Event -> Nat] /\ log \in [Event -> Nat]
  BY DEF Init
<1>2. /\ ready \in [vault: BOOLEAN, google: BOOLEAN]
      /\ pages \in [Logins -> [shown: SUBSET Ids, google: BOOLEAN]]
  <2> DEFINE blank == [shown |-> {}, google |-> FALSE]
  <2>1. blank \in [shown: SUBSET Ids, google: BOOLEAN]
    OBVIOUS
  <2>2. pages = [login \in Logins |-> blank]
    BY DEF Init
  <2> HIDE DEF blank
  <2>3. pages \in [Logins -> [shown: SUBSET Ids, google: BOOLEAN]]
    BY <2>1, <2>2
  <2>4. ready \in [vault: BOOLEAN, google: BOOLEAN]
    BY DEF Init
  <2> QED BY <2>3, <2>4
<1>3. clock \in 0..MaxTime /\ writes \in 0..MaxWrites /\ failures \in 0..MaxFailures
  BY ConnectionsAssumption DEF Init
<1>4. /\ oauth \in [States -> [login: Logins, until: Nat] \cup {NoState}]
      /\ begun \in [States -> Logins \cup {NoState}]
  BY DEF Init
<1>5. codes \subseteq Answers /\ answers \subseteq Answers /\ overlapped \in BOOLEAN
  BY DEF Init
<1>6. /\ accounts \in [Ids -> Account \cup {NoAccount}]
      /\ requests \in [Requests -> Serving \cup {Idle}]
  BY DEF Init
<1> QED BY <1>1, <1>2, <1>3, <1>4, <1>5, <1>6 DEF TypeOK

(* Every state of the handlers, whatever they do at once, has its types.   *)
THEOREM TypeCorrect == Spec => []TypeOK
<1>1. Init => TypeOK
  BY InitTyped
<1>2. TypeOK /\ [Next]_vars => TypeOK'
  BY StepTyped
<1> QED BY <1>1, <1>2, PTL DEF Spec

-----------------------------------------------------------------------------
(* Authorizations and addresses                                            *)

(* A state, its row and whoever carries it belong to the login that drew   *)
(* it.                                                                     *)
BegunByOwner ==
  /\ \A s \in States : oauth[s] # NoState => begun[s] = oauth[s].login
  /\ \A r \in Requests :
       /\ IsAt(r, "exchange") => begun[requests[r].answer.state] = requests[r].login
       /\ IsAt(r, "store") /\ requests[r].by # Password =>
            begun[requests[r].by] = requests[r].login

Inv == TypeOK /\ BegunByOwner /\ AuthorizedByOwner /\ AuthorizedOnce

(* AuthorizedOnce, said of handlers and of accounts.                       *)
Once(s) ==
  /\ \A r \in Requests : OnItsWay(r, s) =>
       /\ oauth[s] = NoState
       /\ \A h \in Requests : OnItsWay(h, s) => h = r
       /\ \A i \in Present : accounts[i].by # s
  /\ \A i \in Present : accounts[i].by = s =>
       /\ oauth[s] = NoState
       /\ \A j \in Present : accounts[j].by = s => i = j

OnceEach == \A s \in States : Once(s)

LEMMA OnceMeans == AuthorizedOnce <=> OnceEach
<1>1. ASSUME AuthorizedOnce, NEW s \in States
      PROVE  Once(s)
  <2>1. ASSUME NEW r \in Requests, OnItsWay(r, s)
        PROVE  <<"handler", r>> \in Uses(s)
    BY <2>1 DEF Uses
  <2>2. ASSUME NEW i \in Present, accounts[i].by = s
        PROVE  <<"account", i>> \in Uses(s)
    BY <2>2 DEF Uses
  <2>3. \A u, v \in Uses(s) : u = v /\ oauth[s] = NoState
    BY <1>1 DEF AuthorizedOnce
  <2>4. \A r, i : <<"handler", r>> # <<"account", i>>
    OBVIOUS
  <2>5. \A r, h : <<"handler", r>> = <<"handler", h>> => h = r
    OBVIOUS
  <2>6. \A i, j : <<"account", i>> = <<"account", j>> => i = j
    OBVIOUS
  <2> HIDE DEF Uses, OnItsWay
  <2> QED BY <2>1, <2>2, <2>3, <2>4, <2>5, <2>6 DEF Once
<1>2. ASSUME OnceEach, NEW s \in States, NEW u \in Uses(s), NEW v \in Uses(s)
      PROVE  u = v /\ oauth[s] = NoState
  BY <1>2 DEF OnceEach, Once, Uses
<1> QED BY <1>1, <1>2 DEF AuthorizedOnce, OnceEach

(* What holds of a state goes on to hold if nothing more comes of it.      *)
LEMMA OnceStays ==
  ASSUME NEW z \in States, Once(z),
         \A h \in Requests : OnItsWay(h, z)' => OnItsWay(h, z),
         Present' \subseteq Present, \A i \in Present' : accounts'[i] = accounts[i],
         oauth[z] = NoState => oauth'[z] = NoState
  PROVE  Once(z)'
  BY DEF Once

(* A step that carries no authorization further.                           *)
LEMMA NothingNew ==
  ASSUME Inv, TypeOK',
         UNCHANGED <<begun, oauth>>,
         \A i \in Ids : accounts'[i] = accounts[i] \/ accounts'[i] = NoAccount,
         \A r \in Requests : \/ requests'[r] = requests[r]
                             \/ requests'[r] = Idle
                             \/ requests'[r].at \in {"stored", "delete", "publish"}
                             \/ requests'[r].at = "store" /\ requests'[r].by = Password
  PROVE  Inv'
<1>1. Present' \subseteq Present /\ \A i \in Present' : accounts'[i] = accounts[i]
  BY DEF Present
<1>2. \A r \in Requests, s \in States : OnItsWay(r, s)' => OnItsWay(r, s)
  BY ConnectionsAssumption DEF OnItsWay, IsAt
<1>3. BegunByOwner'
  BY DEF Inv, BegunByOwner, IsAt
<1>4. AuthorizedByOwner'
  BY <1>1 DEF Inv, AuthorizedByOwner
<1>5. ASSUME NEW s \in States
      PROVE  Once(s)'
  BY <1>1, <1>2, OnceMeans DEF Inv, OnceEach, Once
<1>6. AuthorizedOnce'
  <2>1. OnceEach'
    BY <1>5 DEF OnceEach
  <2> QED BY <2>1, OnceMeans, PTL
<1> QED BY <1>3, <1>4, <1>6 DEF Inv

(* A new state: nothing can have come of it.                               *)
LEMMA BeginKeeps ==
  ASSUME Inv, TypeOK', NEW login \in Logins, NEW s \in States, BeginGoogleOAuth(login, s)
  PROVE  Inv'
<1> DEFINE row == [login |-> login, until |-> clock + Lifetime]
<1>1. /\ oauth'[s] = row /\ begun'[s] = login /\ begun[s] = NoState
      /\ \A z \in States \ {s} : oauth'[z] = oauth[z] /\ begun'[z] = begun[z]
      /\ row.login = login
  BY DEF BeginGoogleOAuth, Inv, TypeOK
<1> HIDE DEF row
<1>2. login # NoState /\ NoState \notin Logins
  BY ConnectionsAssumption
<1>3. \A r \in Requests :
        /\ IsAt(r, "exchange") \/ IsAt(r, "store") => requests[r].login \in Logins
        /\ IsAt(r, "exchange") => requests[r].answer.state \in States
        /\ IsAt(r, "store") => requests[r].by \in States \cup {Password}
  BY Places DEF Inv, TypeOK, IsAt, Answers
<1>4. ASSUME NEW r \in Requests
      PROVE  ~OnItsWay(r, s)
  <2>1. ASSUME IsAt(r, "exchange"), requests[r].answer.state = s
        PROVE  FALSE
    <3>1. begun[requests[r].answer.state] = requests[r].login
      BY <2>1 DEF Inv, BegunByOwner
    <3>2. requests[r].login \in Logins
      BY <1>3, <2>1
    <3>3. begun[s] = NoState
      BY <1>1
    <3> QED BY <1>2, <2>1, <3>1, <3>2, <3>3
  <2>2. ASSUME IsAt(r, "store"), requests[r].by = s
        PROVE  FALSE
    <3>1. requests[r].by # Password
      BY <2>2, ConnectionsAssumption
    <3> QED BY <1>1, <1>2, <1>3, <2>2, <3>1 DEF Inv, BegunByOwner
  <2> QED BY <2>1, <2>2 DEF OnItsWay
<1>5. \A i \in Present : accounts[i].login \in Logins /\ accounts[i].by \in States \cup {Password}
  BY DEF Present, Inv, TypeOK, Account
<1>6. \A i \in Present : accounts[i].by # s
  BY <1>1, <1>2, <1>5, ConnectionsAssumption DEF Inv, AuthorizedByOwner
<1>7. UNCHANGED <<accounts, requests>>
  BY DEF BeginGoogleOAuth
<1>8. /\ \A z \in States : oauth'[z] # NoState => begun'[z] = oauth'[z].login
      /\ \A r \in Requests :
           /\ IsAt(r, "exchange") => begun'[requests[r].answer.state] = requests[r].login
           /\ IsAt(r, "store") /\ requests[r].by # Password =>
                begun'[requests[r].by] = requests[r].login
  <2>1. \A z \in States : oauth'[z] # NoState => begun'[z] = oauth'[z].login
    BY <1>1 DEF Inv, BegunByOwner
  <2>2. ASSUME NEW r \in Requests
        PROVE  /\ IsAt(r, "exchange") => begun'[requests[r].answer.state] = requests[r].login
               /\ IsAt(r, "store") /\ requests[r].by # Password =>
                    begun'[requests[r].by] = requests[r].login
    <3>1. ASSUME IsAt(r, "exchange")
          PROVE  begun'[requests[r].answer.state] = requests[r].login
      <4>1. requests[r].answer.state \in States \ {s}
        BY <1>3, <1>4, <3>1 DEF OnItsWay
      <4> QED BY <1>1, <3>1, <4>1 DEF Inv, BegunByOwner
    <3>2. ASSUME IsAt(r, "store"), requests[r].by # Password
          PROVE  begun'[requests[r].by] = requests[r].login
      <4>1. requests[r].by \in States \ {s}
        BY <1>3, <1>4, <3>2 DEF OnItsWay
      <4> QED BY <1>1, <3>2, <4>1 DEF Inv, BegunByOwner
    <3> QED BY <3>1, <3>2
  <2> QED BY <2>1, <2>2
<1>9. BegunByOwner'
  BY <1>7, <1>8 DEF BegunByOwner, IsAt
<1>10. AuthorizedByOwner'
  BY <1>1, <1>5, <1>6, <1>7 DEF Inv, AuthorizedByOwner, Present
<1>11. OnceEach'
  <2>1. ASSUME NEW z \in States
        PROVE  Once(z)'
    <3>1. Present' = Present /\ \A r \in Requests : OnItsWay(r, z)' <=> OnItsWay(r, z)
      BY <1>7 DEF Present, OnItsWay, IsAt
    <3>2. CASE z = s
      BY <1>4, <1>6, <1>7, <3>1, <3>2 DEF Once
    <3>3. CASE z # s
      <4>1. Once(z)
        BY OnceMeans DEF Inv, OnceEach
      <4>2. oauth'[z] = oauth[z]
        BY <1>1, <3>3
      <4>3. \A h \in Requests : OnItsWay(h, z)' => OnItsWay(h, z)
        BY <1>7 DEF OnItsWay, IsAt
      <4>4. Present' \subseteq Present /\ \A i \in Present' : accounts'[i] = accounts[i]
        BY <1>7 DEF Present
      <4> QED BY <4>1, <4>2, <4>3, <4>4, OnceStays
    <3> QED BY <3>2, <3>3
  <2> QED BY <2>1 DEF OnceEach
<1>12. AuthorizedOnce'
  BY <1>11, OnceMeans, PTL
<1> QED BY <1>9, <1>10, <1>12 DEF Inv

(* An answer: its row is gone, and only the owner's handler goes on.       *)
LEMMA CallbackKeeps ==
  ASSUME Inv, TypeOK', NEW r \in Requests, NEW login \in Logins, NEW answer \in Answers,
         Callback(r, login, answer)
  PROVE  Inv'
<1> DEFINE s == answer.state
           place == [at |-> "exchange", login |-> login, answer |-> answer]
<1>1. s \in States
  BY DEF Answers
<1> HIDE DEF place
<1>2. UNCHANGED <<accounts, begun>>
  BY DEF Callback, history
<1>3. \A z \in States : oauth'[z] = oauth[z] \/ oauth'[z] = NoState
  BY DEF Callback, Redeem, Inv, TypeOK
<1>4. CASE ~IsTheirs(login, s)
  <2>1. UNCHANGED requests
    BY <1>4 DEF Callback
  <2>2. BegunByOwner'
    BY <1>2, <1>3, <2>1 DEF Inv, BegunByOwner, IsAt
  <2>3. AuthorizedByOwner'
    BY <1>2 DEF Inv, AuthorizedByOwner, Present
  <2>4. OnceEach'
    <3>1. ASSUME NEW z \in States
          PROVE  Once(z)'
      <4>1. Once(z)
        BY OnceMeans DEF Inv, OnceEach
      <4>2. \A h \in Requests : OnItsWay(h, z)' => OnItsWay(h, z)
        BY <2>1 DEF OnItsWay, IsAt
      <4>3. Present' \subseteq Present /\ \A i \in Present' : accounts'[i] = accounts[i]
        BY <1>2 DEF Present
      <4>4. oauth[z] = NoState => oauth'[z] = NoState
        BY <1>3
      <4> QED BY <4>1, <4>2, <4>3, <4>4, OnceStays
    <3> QED BY <3>1 DEF OnceEach
  <2>5. AuthorizedOnce'
    BY <2>4, OnceMeans, PTL
  <2> QED BY <2>2, <2>3, <2>5 DEF Inv
<1>5. CASE IsTheirs(login, s)
  <2>1. /\ requests'[r] = place /\ place.at = "exchange" /\ place.login = login
        /\ place.answer = answer /\ place # Idle
        /\ \A h \in Requests \ {r} : requests'[h] = requests[h]
    <3>1. place \in Serving
      BY DEF Serving, place
    <3>2. place.at = "exchange" /\ place.login = login /\ place.answer = answer
      BY DEF place
    <3>3. requests' = [requests EXCEPT ![r] = place]
      BY <1>5 DEF Callback, Goes, place
    <3> QED BY <3>1, <3>2, <3>3, NothingAssumption DEF Inv, TypeOK
  <2>2. oauth[s] # NoState /\ oauth[s].login = login /\ oauth'[s] = NoState
    BY <1>1, <1>5 DEF IsTheirs, Good, Callback, Redeem, Inv, TypeOK
  <2>3. begun[s] = login
    BY <1>1, <2>2 DEF Inv, BegunByOwner
  <2>4. BegunByOwner'
    BY <1>2, <1>3, <2>1, <2>3 DEF Inv, BegunByOwner, IsAt
  <2>5. AuthorizedByOwner'
    BY <1>2 DEF Inv, AuthorizedByOwner, Present
  <2>6. ASSUME NEW z \in States
        PROVE  Once(z)'
    <3>1. Once(z)
      BY OnceMeans DEF Inv, OnceEach
    <3>2. Present' = Present /\ accounts' = accounts
      BY <1>2 DEF Present
    <3>3. \A h \in Requests \ {r} : OnItsWay(h, z)' <=> OnItsWay(h, z)
      BY <2>1 DEF OnItsWay, IsAt
    <3>4. OnItsWay(r, z)' <=> z = s
      BY <2>1 DEF OnItsWay, IsAt
    <3>5. CASE z = s
      BY <2>2, <3>1, <3>2, <3>3, <3>5 DEF Once
    <3>6. CASE z # s
      BY <1>3, <3>1, <3>2, <3>3, <3>4, <3>6 DEF Once
    <3> QED BY <3>5, <3>6
  <2>7. OnceEach'
    BY <2>6 DEF OnceEach
  <2>8. AuthorizedOnce'
    BY <2>7, OnceMeans, PTL
  <2> QED BY <2>4, <2>5, <2>8 DEF Inv
<1> QED BY <1>4, <1>5

(* The handler that exchanged the code has the state it had.               *)
LEMMA ExchangeKeeps ==
  ASSUME Inv, TypeOK', NEW r \in Requests, Exchange(r)
  PROVE  Inv'
<1> DEFINE q == requests[r]
<1>1. UNCHANGED <<accounts, begun, oauth>>
  BY DEF Exchange, history
<1>2. q # Idle /\ q.at = "exchange" /\ q \in [at: {"exchange"}, login: Logins, answer: Answers]
  BY Places DEF Exchange, IsAt, Inv, TypeOK
<1>3. /\ \A h \in Requests \ {r} : requests'[h] = requests[h]
      /\ \/ requests'[r] = Idle
         \/ requests'[r].at = "store" /\ requests'[r].login = q.login
            /\ requests'[r].by = q.answer.state
  <2>1. CASE Goes(r, Idle)
    BY <2>1 DEF Goes, Inv, TypeOK
  <2>2. ASSUME NEW email,
               Goes(r, [at |-> "store", login |-> q.login, provider |-> "gmail",
                        email |-> email, by |-> q.answer.state])
        PROVE  <1>3
    <3> DEFINE place == [at |-> "store", login |-> q.login, provider |-> "gmail",
                         email |-> email, by |-> q.answer.state]
    <3>1. place.at = "store" /\ place.login = q.login /\ place.by = q.answer.state
      OBVIOUS
    <3>2. requests' = [requests EXCEPT ![r] = place]
      BY <2>2 DEF Goes
    <3> HIDE DEF place
    <3>3. requests'[r] = place /\ \A h \in Requests \ {r} : requests'[h] = requests[h]
      BY <3>2 DEF Inv, TypeOK
    <3> QED BY <3>1, <3>3
  <2> QED BY <2>1, <2>2 DEF Exchange
<1>4. BegunByOwner'
  BY <1>1, <1>2, <1>3 DEF Inv, BegunByOwner, IsAt
<1>5. AuthorizedByOwner'
  BY <1>1 DEF Inv, AuthorizedByOwner, Present
<1>6. ASSUME NEW z \in States
      PROVE  Once(z)'
  <2>1. Once(z)
    BY OnceMeans DEF Inv, OnceEach
  <2>2. Present' = Present /\ UNCHANGED <<accounts, oauth>>
    BY <1>1 DEF Present
  <2>3. \A h \in Requests : OnItsWay(h, z)' => OnItsWay(h, z)
    BY <1>2, <1>3 DEF OnItsWay, IsAt
  <2> QED BY <2>1, <2>2, <2>3 DEF Once
<1>7. OnceEach'
  BY <1>6 DEF OnceEach
<1>8. AuthorizedOnce'
  BY <1>7, OnceMeans, PTL
<1> QED BY <1>4, <1>5, <1>8 DEF Inv

(* The account takes the place of the handler that wrote it.               *)
LEMMA StoreKeeps ==
  ASSUME Inv, TypeOK', NEW r \in Requests, Store(r)
  PROVE  Inv'
<1> DEFINE q == requests[r]
<1>1. UNCHANGED <<begun, oauth>>
  BY DEF Store
<1>2. PICK id \in Ids :
        /\ Upsert(r, id)
        /\ Goes(r, [at |-> "stored", login |-> q.login, id |-> id, email |-> q.email])
  BY DEF Store
<1>3. /\ q \in [at: {"store"}, login: Logins, email: Emails, provider: Providers,
                by: States \cup {Password}]
      /\ accounts'[id] \in Account
      /\ accounts'[id].login = q.login /\ accounts'[id].email = q.email
      /\ accounts'[id].by = q.by
      /\ \A i \in Ids \ {id} : accounts'[i] = accounts[i]
  BY <1>2, UpsertTyped DEF Store, Inv
<1>4. /\ requests'[r].at = "stored"
      /\ \A h \in Requests \ {r} : requests'[h] = requests[h]
  <2> DEFINE place == [at |-> "stored", login |-> q.login, id |-> id, email |-> q.email]
  <2>1. place.at = "stored"
    OBVIOUS
  <2>2. requests' = [requests EXCEPT ![r] = place]
    BY <1>2 DEF Goes
  <2> HIDE DEF place
  <2> QED BY <2>1, <2>2 DEF Inv, TypeOK
<1>5. IsAt(r, "store") /\ q.at = "store"
  BY DEF Store, IsAt
<1>6. /\ Present' = Present \cup {id}
      /\ \A i \in Present' \ {id} : i \in Present /\ accounts'[i] = accounts[i]
  BY <1>3, NothingAssumption DEF Present
<1>7. BegunByOwner'
  BY <1>1, <1>4 DEF Inv, BegunByOwner, IsAt
<1>8. AuthorizedByOwner'
  <2>1. q.by # Password => begun[q.by] = q.login
    BY <1>5 DEF Inv, BegunByOwner
  <2> QED BY <1>1, <1>3, <1>6, <2>1 DEF Inv, AuthorizedByOwner
<1>9. ASSUME NEW z \in States
      PROVE  Once(z)'
  <2>1. Once(z)
    BY OnceMeans DEF Inv, OnceEach
  <2>2. \A h \in Requests : OnItsWay(h, z)' => h # r /\ OnItsWay(h, z)
    BY <1>4 DEF OnItsWay, IsAt
  <2>3. q.by = z => OnItsWay(r, z)
    BY <1>5 DEF OnItsWay
  <2>4. CASE q.by = z
    BY <1>1, <1>3, <1>6, <2>1, <2>2, <2>3, <2>4 DEF Once
  <2>5. CASE q.by # z
    BY <1>1, <1>3, <1>6, <2>1, <2>2, <2>5 DEF Once
  <2> QED BY <2>4, <2>5
<1>10. OnceEach'
  BY <1>9 DEF OnceEach
<1>11. AuthorizedOnce'
  BY <1>10, OnceMeans, PTL
<1> QED BY <1>7, <1>8, <1>11 DEF Inv

LEMMA StepKeeps ==
  ASSUME Inv, [Next]_vars
  PROVE  Inv'
<1> TypeOK'
  BY StepTyped DEF Inv
<1>1. ASSUME NEW r \in Requests, NEW place, Goes(r, place), UNCHANGED <<begun, oauth>>,
             \/ place = Idle
             \/ place.at \in {"stored", "delete", "publish"}
             \/ place.at = "store" /\ place.by = Password,
             \A i \in Ids : accounts'[i] = accounts[i] \/ accounts'[i] = NoAccount
      PROVE  Inv'
  BY <1>1, NothingNew DEF Goes, Inv, TypeOK
<1>2. ASSUME UNCHANGED <<requests, accounts, begun, oauth>>
      PROVE  Inv'
  BY <1>2, NothingNew
<1>3. ASSUME NEW r \in Requests, NEW login \in Logins, NEW email \in Emails,
             AddICloudAccount(r, login, email)
      PROVE  Inv'
  BY <1>1, <1>3 DEF AddICloudAccount, history
<1>4. ASSUME NEW r \in Requests, NEW login \in Logins, NEW id \in Ids, Disconnect(r, login, id)
      PROVE  Inv'
  BY <1>1, <1>4 DEF Disconnect, history
<1>5. ASSUME NEW r \in Requests, PublishAccountConnected(r) \/ PublishEvent(r) \/ Abandon(r)
      PROVE  Inv'
  <2>1. UNCHANGED <<begun, oauth, accounts>>
    BY <1>5 DEF PublishAccountConnected, PublishEvent, Abandon, history
  <2>2. CASE Goes(r, Idle)
    BY <1>1, <2>1, <2>2
  <2>3. CASE ~Goes(r, Idle)
    BY <1>1, <1>5, <2>1, <2>3 DEF PublishAccountConnected, PublishEvent, Abandon
  <2> QED BY <2>2, <2>3
<1>6. ASSUME NEW r \in Requests, Delete(r)
      PROVE  Inv'
  <2>1. UNCHANGED <<begun, oauth>>
    BY <1>6 DEF Delete
  <2>2. \A i \in Ids : accounts'[i] = accounts[i] \/ accounts'[i] = NoAccount
    BY <1>6 DEF Delete, Inv, TypeOK
  <2>3. CASE Goes(r, Idle)
    BY <1>1, <2>1, <2>2, <2>3
  <2>4. CASE ~Goes(r, Idle)
    BY <1>1, <1>6, <2>1, <2>2, <2>4 DEF Delete, Said
  <2> QED BY <2>3, <2>4
<1>7. CASE Restart
  BY <1>7, NothingNew DEF Restart, history
<1>8. CASE Tick \/ UNCHANGED vars \/ (\E login \in Logins : OpenSettings(login))
             \/ (\E answer \in Answers : Consent(answer))
  BY <1>2, <1>8 DEF Tick, vars, OpenSettings, Consent, history
<1> QED BY <1>3, <1>4, <1>5, <1>6, <1>7, <1>8, BeginKeeps, CallbackKeeps, ExchangeKeeps,
           StoreKeeps DEF Next

LEMMA Invariant == Spec => []Inv
<1>1. Init => Inv
  <2> SUFFICES ASSUME Init PROVE Inv
    OBVIOUS
  <2>1. TypeOK
    BY InitTyped
  <2>2. Present = {} /\ \A r \in Requests : requests[r] = Idle
    BY DEF Init, Present
  <2>3. BegunByOwner /\ AuthorizedByOwner
    BY <2>2 DEF Init, BegunByOwner, AuthorizedByOwner, IsAt
  <2>4. AuthorizedOnce
    BY <2>2 DEF AuthorizedOnce, Uses, OnItsWay, IsAt
  <2> QED BY <2>1, <2>3, <2>4 DEF Inv
<1>2. Inv /\ [Next]_vars => Inv'
  BY StepKeeps
<1> QED BY <1>1, <1>2, PTL DEF Spec

(* google.go:74: an authorization is used once, whoever's answer comes     *)
(* first, and however often and by whatever handlers it is served.         *)
THEOREM OnceAuthorized == Spec => []AuthorizedOnce
  BY Invariant, PTL DEF Inv

(* google.go:74: the account is of the login that went to Google.          *)
THEOREM OwnerAuthorized == Spec => []AuthorizedByOwner
  BY Invariant, PTL DEF Inv

-----------------------------------------------------------------------------
(* Events                                                                  *)

Busy == {r \in Requests : requests[r] # Idle}

(* The row a handler has written is still there as it wrote it, and the    *)
(* row that one is to remove is the one whose address it has read.         *)
AsTold ==
  \A r \in Requests :
    /\ IsAt(r, "stored") =>
         /\ requests[r].id \in Owned(requests[r].login)
         /\ accounts[requests[r].id].email = requests[r].email
    /\ IsAt(r, "delete") /\ requests[r].id \in Owned(requests[r].login) =>
         accounts[requests[r].id].email = requests[r].email

(* Events sent and to be sent are those that took place, but for those     *)
(* that were lost with a handler.                                          *)
Told(e) ==
  /\ log[e] + Pending(e) <= happened[e]
  /\ failures = 0 => log[e] + Pending(e) = happened[e]

EventInv ==
  /\ TypeOK
  /\ IsFiniteSet(Busy)
  /\ ~overlapped => AsTold
  /\ EventsTellWhatHappened

(* At any time only so many requests are served.                           *)
LEMMA BusyStep ==
  ASSUME TypeOK, IsFiniteSet(Busy), [Next]_vars
  PROVE  IsFiniteSet(Busy')
<1>1. ASSUME NEW r \in Requests, NEW place, Goes(r, place)
      PROVE  IsFiniteSet(Busy')
  <2>1. Busy' \subseteq Busy \cup {r}
    BY <1>1 DEF Busy, Goes, TypeOK
  <2>2. IsFiniteSet(Busy \cup {r})
    BY FS_AddElement
  <2> QED BY <2>1, <2>2, FS_Subset
<1>2. ASSUME UNCHANGED requests
      PROVE  IsFiniteSet(Busy')
  BY <1>2 DEF Busy
<1>3. CASE Restart
  <2>1. Busy' = {}
    BY <1>3 DEF Restart, Busy
  <2> QED BY <2>1, FS_EmptySet
<1>4. ASSUME NEW r \in Requests, NEW login \in Logins,
             \/ \E answer \in Answers : Callback(r, login, answer)
             \/ \E email \in Emails : AddICloudAccount(r, login, email)
             \/ \E id \in Ids : Disconnect(r, login, id)
      PROVE  IsFiniteSet(Busy')
  BY <1>1, <1>2, <1>4 DEF Callback, AddICloudAccount, Disconnect
<1>5. ASSUME NEW r \in Requests,
             \/ Exchange(r) \/ Store(r) \/ PublishAccountConnected(r)
             \/ Delete(r) \/ PublishEvent(r) \/ Abandon(r)
      PROVE  IsFiniteSet(Busy')
  BY <1>1, <1>5
  DEF Exchange, Store, PublishAccountConnected, Delete, Said, PublishEvent, Abandon
<1>6. CASE \/ Tick \/ UNCHANGED vars
           \/ \E login \in Logins : \/ OpenSettings(login)
                                    \/ \E s \in States : BeginGoogleOAuth(login, s)
           \/ \E answer \in Answers : Consent(answer)
  BY <1>2, <1>6 DEF Tick, vars, OpenSettings, BeginGoogleOAuth, Consent
<1> QED BY <1>3, <1>4, <1>5, <1>6 DEF Next

(* What a handler has written or read of a row goes on to be so, unless    *)
(* the row is removed or its id used again meanwhile.                      *)
LEMMA AsToldStep ==
  ASSUME TypeOK, [Next]_vars, ~overlapped => AsTold, ~overlapped'
  PROVE  AsTold'
<1> DEFINE Works(h) == IsAt(h, "stored") \/ IsAt(h, "delete")
<1>1. ASSUME UNCHANGED <<accounts, overlapped>>,
             \A h \in Requests : Works(h)' => requests'[h] = requests[h]
      PROVE  AsTold'
  BY <1>1 DEF AsTold, IsAt, Owned, Present
<1>2. ASSUME NEW r \in Requests, NEW login \in Logins, NEW id \in Ids, Disconnect(r, login, id)
      PROVE  AsTold'
  <2>1. /\ requests'[r] = [at |-> "delete", login |-> login, id |-> id,
              email |-> IF id \in Owned(login) THEN accounts[id].email ELSE NoEmail]
        /\ \A h \in Requests \ {r} : requests'[h] = requests[h]
        /\ accounts' = accounts /\ overlapped' = overlapped
    BY <1>2 DEF Disconnect, Goes, TypeOK, history
  <2> QED BY <2>1 DEF AsTold, IsAt, Owned, Present
<1>3. ASSUME NEW r \in Requests, Store(r)
      PROVE  AsTold'
  <2>1. PICK id \in Ids :
          /\ Upsert(r, id)
          /\ overlapped' = (overlapped \/ (id \notin Present /\ WorkedOn(id, r)))
          /\ Goes(r, [at |-> "stored", login |-> requests[r].login, id |-> id,
                      email |-> requests[r].email])
    BY <1>3 DEF Store
  <2>2. /\ accounts'[id] \in Account
        /\ accounts'[id].login = requests[r].login
        /\ accounts'[id].email = requests[r].email
        /\ \A i \in Ids \ {id} : accounts'[i] = accounts[i]
    BY <1>3, <2>1, UpsertTyped DEF Store
  <2>3. /\ requests'[r] = [at |-> "stored", login |-> requests[r].login, id |-> id,
                           email |-> requests[r].email]
        /\ \A h \in Requests \ {r} : requests'[h] = requests[h]
    BY <2>1 DEF Goes, TypeOK
  <2>4. \/ id \in Present /\ accounts[id].login = accounts'[id].login
                         /\ accounts[id].email = accounts'[id].email
        \/ id \notin Present
    BY <2>1, <2>2 DEF Upsert, Owned, IsNextId
  <2>5. id \in Present'
    BY <2>2, NothingAssumption DEF Present
  <2>6. \A i \in Ids \ {id} : i \in Present' <=> i \in Present
    BY <2>2 DEF Present
  <2>7. ASSUME NEW h \in Requests \ {r}, Works(h), requests[h].id = id
        PROVE  id \in Present
    BY <2>1, <2>7 DEF WorkedOn
  <2>8. AsTold
    BY <2>1
  <2>9. ASSUME NEW h \in Requests, Works(h)'
        PROVE  \/ h = r
               \/ h # r /\ Works(h) /\ requests'[h] = requests[h] /\ requests[h].id \in Ids
    BY <2>3, <2>9, Places DEF TypeOK, IsAt
  <2>10. ASSUME NEW h \in Requests \ {r}, Works(h), requests[h].id \in Ids
         PROVE  /\ requests[h].id \in Owned(requests[h].login)' <=>
                     requests[h].id \in Owned(requests[h].login)
                /\ requests[h].id \in Owned(requests[h].login) =>
                     accounts'[requests[h].id].email = accounts[requests[h].id].email
    BY <2>2, <2>3, <2>4, <2>5, <2>6, <2>7, <2>10 DEF Owned
  <2>11. ASSUME NEW h \in Requests \ {r}, Works(h)'
         PROVE  /\ IsAt(h, "stored")' =>
                     /\ requests'[h].id \in Owned(requests[h].login)'
                     /\ accounts'[requests'[h].id].email = requests'[h].email
                /\ IsAt(h, "delete")' /\ requests'[h].id \in Owned(requests[h].login)' =>
                     accounts'[requests'[h].id].email = requests'[h].email
    BY <2>3, <2>8, <2>9, <2>10, <2>11 DEF AsTold, IsAt
  <2>12. /\ requests'[r].id \in Owned(requests[r].login)'
         /\ accounts'[requests'[r].id].email = requests'[r].email
         /\ ~IsAt(r, "delete")'
    BY <2>2, <2>3, <2>5 DEF Owned, IsAt
  <2> QED BY <2>3, <2>11, <2>12 DEF AsTold
<1>4. ASSUME NEW r \in Requests, Delete(r)
      PROVE  AsTold'
  <2>1. \A h \in Requests : Works(h)' => h # r /\ Works(h) /\ requests'[h] = requests[h]
    BY <1>4 DEF Delete, Said, Goes, TypeOK, IsAt
  <2>2. CASE requests[r].id \notin Owned(requests[r].login)
    BY <1>1, <1>4, <2>1, <2>2 DEF Delete
  <2>3. CASE requests[r].id \in Owned(requests[r].login)
    <3>1. /\ accounts' = [accounts EXCEPT ![requests[r].id] = NoAccount]
          /\ ~overlapped /\ ~WorkedOn(requests[r].id, r)
      BY <1>4, <2>3 DEF Delete
    <3>2. \A h \in Requests : Works(h)' => requests[h].id # requests[r].id
      BY <2>1, <3>1 DEF WorkedOn
    <3>3. \A i \in Ids : i # requests[r].id =>
             accounts'[i] = accounts[i] /\ (i \in Present' <=> i \in Present)
      BY <3>1 DEF TypeOK, Present
    <3>4. \A h \in Requests : Works(h)' => requests[h].id \in Ids
      BY <2>1, Places DEF TypeOK, IsAt
    <3> QED BY <2>1, <3>1, <3>2, <3>3, <3>4 DEF AsTold, Owned, IsAt
  <2> QED BY <2>2, <2>3
<1>5. ASSUME NEW r \in Requests,
             \/ Exchange(r) \/ PublishAccountConnected(r) \/ PublishEvent(r) \/ Abandon(r)
             \/ \E login \in Logins, email \in Emails : AddICloudAccount(r, login, email)
             \/ \E login \in Logins, answer \in Answers : Callback(r, login, answer)
      PROVE  AsTold'
  <2>1. UNCHANGED <<accounts, overlapped>>
    BY <1>5 DEF Exchange, PublishAccountConnected, PublishEvent, Abandon, AddICloudAccount,
                Callback, history
  <2> DEFINE Leaves ==
        \/ UNCHANGED requests
        \/ \E place : /\ Goes(r, place)
                      /\ place = Idle \/ place.at \in {"exchange", "store", "publish"}
  <2>2. Leaves
    <3>1. Goes(r, Idle) => Leaves
      OBVIOUS
    <3>2. ASSUME NEW login \in Logins, NEW email \in Emails, AddICloudAccount(r, login, email)
          PROVE  Leaves
      BY <3>2 DEF AddICloudAccount
    <3>3. ASSUME NEW login \in Logins, NEW answer \in Answers, Callback(r, login, answer)
          PROVE  Leaves
      <4> DEFINE place == [at |-> "exchange", login |-> login, answer |-> answer]
      <4>1. Goes(r, place) \/ UNCHANGED requests
        BY <3>3 DEF Callback
      <4> QED BY <4>1
    <3>4. CASE Exchange(r)
      <4>1. ASSUME NEW email,
                   Goes(r, [at |-> "store", login |-> requests[r].login, provider |-> "gmail",
                            email |-> email, by |-> requests[r].answer.state])
            PROVE  Leaves
        BY <4>1
      <4> QED BY <3>1, <3>4, <4>1 DEF Exchange
    <3>5. CASE PublishAccountConnected(r)
      BY <3>5 DEF PublishAccountConnected
    <3> QED BY <1>5, <3>1, <3>2, <3>3, <3>4, <3>5 DEF PublishEvent, Abandon
  <2>3. \A h \in Requests : Works(h)' => requests'[h] = requests[h]
    BY <2>2 DEF Goes, TypeOK, IsAt
  <2> QED BY <1>1, <2>1, <2>3
<1>6. CASE Restart
  BY <1>1, <1>6 DEF Restart, history, IsAt
<1>7. CASE \/ Tick \/ UNCHANGED vars
           \/ \E login \in Logins : \/ OpenSettings(login)
                                    \/ \E s \in States : BeginGoogleOAuth(login, s)
           \/ \E answer \in Answers : Consent(answer)
  BY <1>1, <1>7 DEF Tick, vars, OpenSettings, BeginGoogleOAuth, Consent, history
<1> QED BY <1>2, <1>3, <1>4, <1>5, <1>6, <1>7 DEF Next

(* One handler moves: what is pending changes by what it owed and owes.    *)
LEMMA PendingStep ==
  ASSUME TypeOK, IsFiniteSet(Busy), NEW r \in Requests, NEW place, Goes(r, place), NEW e
  PROVE  /\ Pending(e) \in Nat /\ Pending(e)' \in Nat
         /\ (Owes(r, e) <=> Owes(r, e)') => Pending(e)' = Pending(e)
         /\ ~Owes(r, e) /\ Owes(r, e)' => Pending(e)' = Pending(e) + 1
         /\ Owes(r, e) /\ ~Owes(r, e)' => Pending(e)' = Pending(e) - 1
<1> DEFINE Owing == {h \in Requests : Owes(h, e)}
           Rest == Owing \ {r}
<1>1. \A h \in Requests \ {r} : requests'[h] = requests[h]
  BY DEF Goes, TypeOK
<1>2. \A h \in Requests \ {r} : Owes(h, e)' <=> Owes(h, e)
  BY <1>1 DEF Owes, IsAt
<1>3. Owing \subseteq Busy
  BY DEF Busy, Owes, IsAt
<1>4. IsFiniteSet(Rest) /\ r \notin Rest
  BY <1>3, FS_Subset
<1>5. Owing = IF Owes(r, e) THEN Rest \cup {r} ELSE Rest
  OBVIOUS
<1>6. Owing' = IF Owes(r, e)' THEN Rest \cup {r} ELSE Rest
  BY <1>2
<1> HIDE DEF Rest
<1>7. Cardinality(Rest) \in Nat /\ Cardinality(Rest \cup {r}) = Cardinality(Rest) + 1
  BY <1>4, FS_CardinalityType, FS_AddElement
<1>8. /\ Pending(e) = Cardinality(Owing)
      /\ Pending(e)' = Cardinality(Owing')
  BY DEF Pending
<1> HIDE DEF Owing
<1> QED BY <1>5, <1>6, <1>7, <1>8

(* One handler moves and the events keep in step: nothing took place, an   *)
(* event took place that is now owed, or one that was owed was sent.       *)
LEMMA Balanced ==
  ASSUME EventInv, ~overlapped, NEW r \in Requests, NEW place, Goes(r, place),
         UNCHANGED failures, NEW e \in Event,
         \/ UNCHANGED <<log, happened>> /\ (Owes(r, e) <=> Owes(r, e)')
         \/ \E new \in Event :
              /\ UNCHANGED log /\ happened' = [happened EXCEPT ![new] = @ + 1]
              /\ ~Owes(r, e) /\ (Owes(r, e)' <=> e = new)
         \/ \E sent \in Event :
              /\ UNCHANGED happened /\ log' = [log EXCEPT ![sent] = @ + 1]
              /\ (Owes(r, e) <=> e = sent) /\ ~Owes(r, e)'
  PROVE  Told(e)'
<1>1. Told(e)
  BY DEF EventInv, EventsTellWhatHappened, Told
<1>2. /\ Pending(e) \in Nat /\ Pending(e)' \in Nat
      /\ (Owes(r, e) <=> Owes(r, e)') => Pending(e)' = Pending(e)
      /\ ~Owes(r, e) /\ Owes(r, e)' => Pending(e)' = Pending(e) + 1
      /\ Owes(r, e) /\ ~Owes(r, e)' => Pending(e)' = Pending(e) - 1
  BY PendingStep DEF EventInv
<1>3. log \in [Event -> Nat] /\ happened \in [Event -> Nat]
  BY DEF EventInv, TypeOK
<1> HIDE DEF Event
<1>4. log[e] \in Nat /\ happened[e] \in Nat
  BY <1>3
<1>5. \/ /\ log'[e] = log[e] /\ happened'[e] = happened[e] /\ Pending(e)' = Pending(e)
      \/ /\ log'[e] = log[e] /\ happened'[e] = happened[e] + 1
         /\ Pending(e)' = Pending(e) + 1
      \/ /\ log'[e] = log[e] + 1 /\ happened'[e] = happened[e]
         /\ Pending(e)' = Pending(e) - 1
  <2>1. CASE UNCHANGED <<log, happened>> /\ (Owes(r, e) <=> Owes(r, e)')
    BY <1>2, <2>1
  <2>2. ASSUME NEW new \in Event,
               UNCHANGED log, happened' = [happened EXCEPT ![new] = @ + 1],
               ~Owes(r, e), Owes(r, e)' <=> e = new
        PROVE  \/ /\ log'[e] = log[e] /\ happened'[e] = happened[e]
                  /\ Pending(e)' = Pending(e)
               \/ /\ log'[e] = log[e] /\ happened'[e] = happened[e] + 1
                  /\ Pending(e)' = Pending(e) + 1
    BY <1>2, <1>3, <2>2
  <2>3. ASSUME NEW sent \in Event,
               UNCHANGED happened, log' = [log EXCEPT ![sent] = @ + 1],
               Owes(r, e) <=> e = sent, ~Owes(r, e)'
        PROVE  \/ /\ log'[e] = log[e] /\ happened'[e] = happened[e]
                  /\ Pending(e)' = Pending(e)
               \/ /\ log'[e] = log[e] + 1 /\ happened'[e] = happened[e]
                  /\ Pending(e)' = Pending(e) - 1
    BY <1>2, <1>3, <2>3
  <2> QED BY <2>1, <2>2, <2>3
<1> HIDE DEF Pending
<1> QED BY <1>1, <1>2, <1>4, <1>5 DEF Told

(* A step that fails: what was pending is lost or is not.                  *)
LEMMA Lost ==
  ASSUME EventInv, ~overlapped, Fails, UNCHANGED <<log, happened>>, NEW e \in Event,
         Pending(e) \in Nat, Pending(e)' \in Nat, Pending(e)' <= Pending(e)
  PROVE  Told(e)'
<1>1. Told(e)
  BY DEF EventInv, EventsTellWhatHappened, Told
<1>2. log[e] \in Nat /\ happened[e] \in Nat /\ failures \in Nat
  BY ConnectionsAssumption DEF EventInv, TypeOK
<1>3. failures' # 0
  BY <1>2 DEF Fails
<1> QED BY <1>1, <1>2, <1>3 DEF Told

(* What each step tells is what it does.                                   *)
LEMMA EventsStep ==
  ASSUME EventInv, [Next]_vars
  PROVE  EventsTellWhatHappened'
<1> SUFFICES ASSUME ~overlapped', NEW e \in Event
             PROVE  Told(e)'
  BY DEF EventsTellWhatHappened, Told
<1>1. /\ TypeOK /\ IsFiniteSet(Busy)
      /\ requests \in [Requests -> Serving \cup {Idle}]
  BY DEF EventInv, TypeOK
<1>2. ASSUME NEW r \in Requests, NEW place, Goes(r, place)
      PROVE  requests'[r] = place
  BY <1>1, <1>2 DEF Goes
<1>3. ASSUME UNCHANGED <<requests, log, happened, failures, overlapped>>
      PROVE  Told(e)'
  BY <1>3 DEF EventInv, EventsTellWhatHappened, Told, Pending, Owes, IsAt
<1>4. ASSUME NEW r \in Requests, NEW place, Goes(r, place),
             UNCHANGED <<log, happened, failures, overlapped>>,
             Owes(r, e) <=> Owes(r, e)'
      PROVE  Told(e)'
  BY <1>4, Balanced
<1>5. ASSUME NEW r \in Requests, NEW login \in Logins,
             \/ \E answer \in Answers : Callback(r, login, answer)
             \/ \E email \in Emails : AddICloudAccount(r, login, email)
             \/ \E id \in Ids : Disconnect(r, login, id)
      PROVE  Told(e)'
  <2>1. UNCHANGED <<log, happened, failures, overlapped>> /\ ~Owes(r, e)
    BY <1>5 DEF Callback, AddICloudAccount, Disconnect, history, Owes, IsAt
  <2>2. ASSUME NEW answer \in Answers, Callback(r, login, answer)
        PROVE  Told(e)'
    <3> DEFINE place == [at |-> "exchange", login |-> login, answer |-> answer]
    <3>1. CASE Goes(r, place)
      <4>1. ~Owes(r, e)'
        BY <1>2, <3>1 DEF Owes, IsAt
      <4> QED BY <1>4, <2>1, <3>1, <4>1
    <3>2. CASE UNCHANGED requests
      BY <1>3, <2>1, <3>2
    <3> QED BY <2>2, <3>1, <3>2 DEF Callback
  <2>3. ASSUME NEW email \in Emails, AddICloudAccount(r, login, email)
        PROVE  Told(e)'
    <3> DEFINE place == [at |-> "store", login |-> login, email |-> email,
                         provider |-> "icloud", by |-> Password]
    <3>1. Goes(r, place)
      BY <2>3 DEF AddICloudAccount
    <3>2. ~Owes(r, e)'
      BY <1>2, <3>1 DEF Owes, IsAt
    <3> QED BY <1>4, <2>1, <3>1, <3>2
  <2>4. ASSUME NEW id \in Ids, Disconnect(r, login, id)
        PROVE  Told(e)'
    <3> DEFINE place == [at |-> "delete", login |-> login, id |-> id,
                         email |-> IF id \in Owned(login) THEN accounts[id].email ELSE NoEmail]
    <3>1. Goes(r, place)
      BY <2>4 DEF Disconnect
    <3>2. ~Owes(r, e)'
      BY <1>2, <3>1 DEF Owes, IsAt
    <3> QED BY <1>4, <2>1, <3>1, <3>2
  <2> QED BY <1>5, <2>2, <2>3, <2>4
<1>6. ASSUME NEW r \in Requests, Exchange(r)
      PROVE  Told(e)'
  <2>1. UNCHANGED <<log, happened, failures, overlapped>> /\ ~Owes(r, e)
    BY <1>6 DEF Exchange, history, Owes, IsAt
  <2>2. PICK place : Goes(r, place) /\ (place = Idle \/ place.at = "store")
    <3>1. CASE Goes(r, Idle)
      BY <3>1
    <3>2. ASSUME NEW email,
                 Goes(r, [at |-> "store", login |-> requests[r].login, provider |-> "gmail",
                          email |-> email, by |-> requests[r].answer.state])
          PROVE  \E place : Goes(r, place) /\ (place = Idle \/ place.at = "store")
      BY <3>2
    <3> QED BY <1>6, <3>1, <3>2 DEF Exchange
  <2>3. ~Owes(r, e)'
    BY <1>2, <2>2 DEF Owes, IsAt
  <2> QED BY <1>4, <2>1, <2>2, <2>3
<1>7. ASSUME NEW r \in Requests, Store(r)
      PROVE  Told(e)'
  <2> DEFINE new == [type |-> "connected", login |-> requests[r].login,
                     email |-> requests[r].email]
  <2>1. PICK id \in Ids :
          /\ overlapped' = (overlapped \/ (id \notin Present /\ WorkedOn(id, r)))
          /\ Goes(r, [at |-> "stored", login |-> requests[r].login, id |-> id,
                      email |-> requests[r].email])
    BY <1>7 DEF Store
  <2>2. requests[r] \in [at: {"store"}, login: Logins, email: Emails, provider: Providers,
                         by: States \cup {Password}]
    BY <1>1, <1>7, Places DEF Store, IsAt
  <2>3. new \in Event
    BY <2>2 DEF Event
  <2>4. /\ UNCHANGED log /\ happened' = [happened EXCEPT ![new] = @ + 1]
        /\ UNCHANGED failures /\ ~overlapped
    BY <1>7, <2>1 DEF Store, TakesPlace
  <2>5. ~Owes(r, e)
    BY <1>7 DEF Store, Owes, IsAt
  <2>6. Owes(r, e)' <=> e = new
    <3>1. requests'[r] = [at |-> "stored", login |-> requests[r].login, id |-> id,
                          email |-> requests[r].email]
      BY <1>2, <2>1
    <3>2. requests'[r] # Idle
      <4>1. requests'[r] \in Serving
        BY <2>2, <3>1 DEF Serving
      <4> QED BY <4>1, NothingAssumption
    <3> QED BY <3>1, <3>2 DEF Owes, IsAt
  <2> HIDE DEF new
  <2> QED BY <2>1, <2>3, <2>4, <2>5, <2>6, Balanced
<1>8. ASSUME NEW r \in Requests, PublishAccountConnected(r)
      PROVE  Told(e)'
  <2> DEFINE new == [type |-> "connected", login |-> requests[r].login,
                     email |-> requests[r].email]
             place == [at |-> "publish", event |-> new]
  <2>1. UNCHANGED <<log, happened, failures, overlapped>>
    BY <1>8 DEF PublishAccountConnected, history
  <2>2. /\ requests[r].id \in Owned(requests[r].login)
        /\ accounts[requests[r].id].email = requests[r].email
    BY <1>8, <2>1 DEF EventInv, AsTold, PublishAccountConnected
  <2>3. Goes(r, place)
    BY <1>8, <2>2 DEF PublishAccountConnected, Owned
  <2>4. requests'[r] = place
    BY <1>2, <2>3
  <2>5. requests[r] \in [at: {"stored", "delete"}, login: Logins, id: Ids,
                         email: Emails \cup {NoEmail}]
    BY <1>1, <1>8, Places DEF PublishAccountConnected, IsAt
  <2>6. requests'[r] # Idle
    <3>1. place \in Serving
      BY <2>5 DEF Serving, Event
    <3> QED BY <2>4, <3>1, NothingAssumption
  <2>7. Owes(r, e) <=> e = new
    BY <1>8 DEF PublishAccountConnected, Owes, IsAt
  <2>8. Owes(r, e)' <=> e = new
    BY <2>4, <2>6 DEF Owes, IsAt
  <2> QED BY <1>4, <2>1, <2>3, <2>7, <2>8
<1>9. ASSUME NEW r \in Requests, Delete(r)
      PROVE  Told(e)'
  <2> DEFINE new == [type |-> "disconnected", login |-> requests[r].login,
                     email |-> requests[r].email]
             place == [at |-> "publish", event |-> new]
  <2>1. UNCHANGED <<log, failures>> /\ ~Owes(r, e) /\ ~overlapped
    BY <1>9 DEF Delete, Owes, IsAt
  <2>2. CASE requests[r].id \notin Owned(requests[r].login)
    <3>1. Goes(r, Idle) /\ UNCHANGED <<happened, overlapped>>
      BY <1>9, <2>2 DEF Delete, Said
    <3>2. ~Owes(r, e)'
      BY <1>2, <3>1 DEF Owes, IsAt
    <3> QED BY <1>4, <2>1, <3>1, <3>2
  <2>3. CASE requests[r].id \in Owned(requests[r].login)
    <3>1. accounts[requests[r].id].email = requests[r].email
      BY <1>9, <2>1, <2>3 DEF EventInv, AsTold, Delete
    <3>2. happened' = [happened EXCEPT ![new] = @ + 1] /\ Goes(r, place)
      BY <1>9, <2>3, <3>1 DEF Delete, Said, TakesPlace
    <3>3. requests[r] \in [at: {"stored", "delete"}, login: Logins, id: Ids,
                           email: Emails \cup {NoEmail}]
      BY <1>1, <1>9, Places DEF Delete, IsAt
    <3>4. new \in Event /\ place \in Serving
      BY <3>3 DEF Event, Serving
    <3>5. Owes(r, e)' <=> e = new
      <4>1. requests'[r] = place
        BY <1>2, <3>2
      <4> QED BY <3>4, <4>1, NothingAssumption DEF Owes, IsAt
    <3> HIDE DEF new
    <3> QED BY <2>1, <3>2, <3>4, <3>5, Balanced
  <2> QED BY <2>2, <2>3
<1>10. ASSUME NEW r \in Requests, PublishEvent(r)
       PROVE  Told(e)'
  <2> DEFINE sent == requests[r].event
  <2>1. /\ UNCHANGED <<happened, failures, overlapped>> /\ Goes(r, Idle)
        /\ log' = [log EXCEPT ![sent] = @ + 1]
    BY <1>10 DEF PublishEvent, history
  <2>2. sent \in Event
    BY <1>1, <1>10, Places DEF PublishEvent, IsAt
  <2>3. (Owes(r, e) <=> e = sent) /\ ~Owes(r, e)'
    BY <1>2, <1>10, <2>1 DEF PublishEvent, Owes, IsAt
  <2> QED BY <2>1, <2>2, <2>3, Balanced
<1>11. ASSUME NEW r \in Requests, Abandon(r)
       PROVE  Told(e)'
  <2>1. Fails /\ Goes(r, Idle) /\ UNCHANGED <<log, happened, overlapped>>
    BY <1>11 DEF Abandon, history
  <2>2. ~Owes(r, e)'
    BY <1>2, <2>1 DEF Owes, IsAt
  <2>3. /\ Pending(e) \in Nat /\ Pending(e)' \in Nat
        /\ Pending(e)' = Pending(e) \/ Pending(e)' = Pending(e) - 1
    BY <1>1, <2>1, <2>2, PendingStep
  <2>4. Pending(e)' <= Pending(e)
    BY <2>3
  <2> QED BY <2>1, <2>3, <2>4, Lost
<1>12. CASE Restart
  <2>1. Fails /\ UNCHANGED <<log, happened, overlapped>>
    BY <1>12 DEF Restart, history
  <2>2. {h \in Requests : Owes(h, e)}' = {}
    BY <1>12 DEF Restart, Owes, IsAt
  <2>3. Pending(e)' = 0
    BY <2>2, FS_EmptySet DEF Pending
  <2>4. Pending(e) \in Nat
    <3>1. {h \in Requests : Owes(h, e)} \subseteq Busy
      BY DEF Busy, Owes, IsAt
    <3> QED BY <1>1, <3>1, FS_Subset, FS_CardinalityType DEF Pending
  <2>5. Pending(e)' \in Nat /\ Pending(e)' <= Pending(e)
    BY <2>3, <2>4
  <2> QED BY <2>1, <2>4, <2>5, Lost
<1>13. CASE \/ Tick \/ UNCHANGED vars
            \/ \E login \in Logins : \/ OpenSettings(login)
                                     \/ \E s \in States : BeginGoogleOAuth(login, s)
            \/ \E answer \in Answers : Consent(answer)
  BY <1>3, <1>13 DEF Tick, vars, OpenSettings, BeginGoogleOAuth, Consent, history
<1> QED BY <1>5, <1>6, <1>7, <1>8, <1>9, <1>10, <1>11, <1>12, <1>13 DEF Next

(* The invariant of the events holds from the start.                       *)
LEMMA EventInvariant == Spec => []EventInv
<1>1. Init => EventInv
  <2> SUFFICES ASSUME Init PROVE EventInv
    OBVIOUS
  <2>1. TypeOK
    BY InitTyped
  <2>2. Busy = {} /\ \A e : {h \in Requests : Owes(h, e)} = {}
    BY DEF Init, Busy, Owes, IsAt
  <2>3. AsTold
    BY DEF Init, AsTold, IsAt
  <2>4. \A e : Pending(e) = 0
    BY <2>2, FS_EmptySet DEF Pending
  <2>5. EventsTellWhatHappened
    <3>1. ASSUME NEW e \in Event
          PROVE  log[e] = 0 /\ happened[e] = 0
      BY <3>1 DEF Init
    <3> QED BY <2>4, <3>1 DEF EventsTellWhatHappened
  <2> QED BY <2>1, <2>2, <2>3, <2>5, FS_EmptySet DEF EventInv
<1>2. EventInv /\ [Next]_vars => EventInv'
  <2> SUFFICES ASSUME EventInv, [Next]_vars PROVE EventInv'
    OBVIOUS
  <2>1. TypeOK'
    BY StepTyped DEF EventInv
  <2>2. IsFiniteSet(Busy')
    BY BusyStep DEF EventInv
  <2>3. ~overlapped' => AsTold'
    BY AsToldStep DEF EventInv
  <2>4. EventsTellWhatHappened'
    BY EventsStep
  <2> QED BY <2>1, <2>2, <2>3, <2>4 DEF EventInv
<1> QED BY <1>1, <1>2, PTL DEF Spec

(* events.go:20-22: what was committed is told once, whatever handlers do  *)
(* at once, unless it is lost with its handler, or an account was removed  *)
(* under another one.                                                      *)
THEOREM EventsAlwaysTell == Spec => []EventsTellWhatHappened
  BY EventInvariant, PTL DEF EventInv
=============================================================================
