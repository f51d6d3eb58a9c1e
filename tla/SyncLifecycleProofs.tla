------------------------- MODULE SyncLifecycleProofs -------------------------
(***************************************************************************)
(* What SyncLifecycle keeps for every number of accounts, of connections,   *)
(* disconnections, restarts and faults, and every capacity of the queue.   *)
(***************************************************************************)
EXTENDS SyncLifecycle, FiniteSetTheorems, TLAPS

-----------------------------------------------------------------------------
(* The inductive invariant                                                 *)

(* The part of TypeOK that the argument about `syncing` needs.              *)
WorkerTyped ==
  /\ accounts \in [AccountIds -> Account \cup {NoAccount}]
  /\ vault \in Keys \cup {NoKey}
  /\ calls \subseteq AccountIds
  /\ queue \in Seq(AccountIds)
  /\ poll \in Seq(AccountIds)
  /\ pc \in {"idle", "read", "marked", "running", "failed"}
  /\ sync \in Sync \cup {NoSync}
  /\ crashes \in Nat /\ faults \in Nat /\ connects \in Nat

LiveInv == WorkerTyped /\ HoldsAccount /\ MarkedByWorker

-----------------------------------------------------------------------------
LEMMA LiveInit == Init => LiveInv
<1> SUFFICES ASSUME Init PROVE LiveInv
  OBVIOUS
<1>1. WorkerTyped
  BY DEF Init, WorkerTyped
<1>2. HoldsAccount
  BY DEF Init, HoldsAccount
<1>3. MarkedByWorker
  BY DEF Init, MarkedByWorker, Present
<1> QED
  BY <1>1, <1>2, <1>3 DEF LiveInv

(* Writing a status through the id of a sync keeps the table well typed.   *)
LEMMA StatusSetTyped ==
  ASSUME LiveInv, NEW status \in Status, sync \in Sync, StatusSet(status)
  PROVE  /\ accounts' \in [AccountIds -> Account \cup {NoAccount}]
         /\ Present' = Present
         /\ \A id \in Present :
              accounts'[id].status = IF id = sync.id THEN status ELSE accounts[id].status
<1>1. accounts \in [AccountIds -> Account \cup {NoAccount}]
  BY DEF LiveInv, WorkerTyped
<1>2. sync.id \in AccountIds
  BY DEF Sync
<1>3. CASE sync.id \in Present
  <2>1. accounts[sync.id] \in Account
    BY <1>1, <1>2, <1>3 DEF Present
  <2> DEFINE row == [accounts[sync.id] EXCEPT !.status = status]
  <2>2. row \in Account /\ row.status = status
    BY <2>1 DEF Account
  <2>3. accounts' = [accounts EXCEPT ![sync.id] = row]
    BY <1>3 DEF StatusSet
  <2>4. row # NoAccount
    BY <2>2, LifecycleAssumption DEF LifecycleAssumption
  <2> QED
    BY <1>1, <1>2, <1>3, <2>2, <2>3, <2>4 DEF Present
<1>4. CASE sync.id \notin Present
  BY <1>1, <1>2, <1>4 DEF StatusSet, Present
<1> QED
  BY <1>3, <1>4

(* Writing a credential does, too, and leaves the statuses alone.          *)
LEMMA CredentialSetTyped ==
  ASSUME LiveInv, NEW id \in Present, NEW cred \in Credential,
         accounts' = [accounts EXCEPT ![id].cred = cred]
  PROVE  /\ accounts' \in [AccountIds -> Account \cup {NoAccount}]
         /\ Present' = Present
         /\ \A i \in Present : accounts'[i].status = accounts[i].status
<1>1. accounts \in [AccountIds -> Account \cup {NoAccount}]
  BY DEF LiveInv, WorkerTyped
<1>2. accounts[id] \in Account /\ id \in AccountIds
  BY <1>1 DEF Present
<1> DEFINE row == [accounts[id] EXCEPT !.cred = cred]
<1>3. row \in Account /\ row.status = accounts[id].status
  BY <1>2 DEF Account
<1>4. row # NoAccount
  BY <1>3, LifecycleAssumption DEF LifecycleAssumption
<1>5. accounts' = [accounts EXCEPT ![id] = row]
  OBVIOUS
<1> QED
  BY <1>1, <1>2, <1>3, <1>4, <1>5 DEF Present

(* The queue takes an account id or stays as it is.                        *)
LEMMA OfferedTyped ==
  ASSUME LiveInv, NEW id \in AccountIds
  PROVE  Offered(id) \in Seq(AccountIds)
BY DEF LiveInv, WorkerTyped, Offered

-----------------------------------------------------------------------------
(* The steps                                                               *)

(* What is stored of a provider is sealed under the key at hand.           *)
LEMMA CredentialIssued ==
  ASSUME LiveInv, NEW email \in Emails, NEW kind \in Kinds, Connect(email, kind)
  PROVE  NewCredential(kind) \in Credential /\ connects' \in Nat
<1>1. connects + 1 \in 1..MaxConnects /\ connects' \in Nat
  BY LifecycleAssumption DEF LiveInv, WorkerTyped, Connect, LifecycleAssumption
<1> QED
  BY <1>1 DEF Credential, NewCredential, LiveInv, WorkerTyped, Connect

LEMMA ConnectStep ==
  ASSUME LiveInv, NEW email \in Emails, NEW kind \in Kinds, Connect(email, kind)
  PROVE  LiveInv'
<1> DEFINE cred == NewCredential(kind)
<1>1. connects' \in Nat
  BY CredentialIssued
<1>2. cred \in Credential
  BY CredentialIssued
<1>3. UNCHANGED <<vault, queue, poll, pc, sync, crashes, faults>>
  BY DEF Connect
<1>4. CASE Insert(email, kind)
  <2>1. PICK id \in AccountIds \ Present :
          /\ accounts' = [accounts EXCEPT ![id] =
                            [email |-> email, provider |-> kind, status |-> "pending",
                             cred |-> cred]]
          /\ calls' = calls \cup {id}
    BY <1>4 DEF Insert
  <2>2. [email |-> email, provider |-> kind, status |-> "pending", cred |-> cred] \in Account
    BY <1>2 DEF Account, Status
  <2>3. WorkerTyped'
    BY <1>1, <1>3, <2>1, <2>2 DEF LiveInv, WorkerTyped
  <2>4. HoldsAccount'
    BY <1>3 DEF LiveInv, HoldsAccount
  <2>5. MarkedByWorker'
    BY <1>3, <2>1 DEF LiveInv, WorkerTyped, MarkedByWorker, Present
  <2> QED
    BY <2>3, <2>4, <2>5 DEF LiveInv
<1>5. CASE Renew(email, kind)
  <2>1. PICK id \in Present :
          /\ accounts' = [accounts EXCEPT ![id].cred = cred, ![id].status = "pending"]
          /\ calls' = calls \cup {id}
    BY <1>5 DEF Renew
  <2> DEFINE row == [accounts[id] EXCEPT !.cred = cred, !.status = "pending"]
  <2>2. id \in AccountIds /\ accounts[id] \in Account
    BY DEF LiveInv, WorkerTyped, Present
  <2>3. row \in Account /\ row.status = "pending"
    BY <1>2, <2>2 DEF Account, Status
  <2>4. accounts' = [accounts EXCEPT ![id] = row]
    BY <2>1, <2>2 DEF LiveInv, WorkerTyped
  <2>5. WorkerTyped'
    BY <1>1, <1>3, <2>1, <2>2, <2>3, <2>4 DEF LiveInv, WorkerTyped
  <2>6. HoldsAccount'
    BY <1>3 DEF LiveInv, HoldsAccount
  <2>7. MarkedByWorker'
    BY <1>3, <2>2, <2>3, <2>4 DEF LiveInv, WorkerTyped, MarkedByWorker, Present
  <2> QED
    BY <2>5, <2>6, <2>7 DEF LiveInv
<1> QED
  BY <1>4, <1>5 DEF Connect

LEMMA DisconnectStep ==
  ASSUME LiveInv, NEW id \in AccountIds, Disconnect(id)
  PROVE  LiveInv'
<1>1. WorkerTyped'
  BY DEF LiveInv, WorkerTyped, Disconnect
<1>2. HoldsAccount'
  BY DEF LiveInv, HoldsAccount, Disconnect
<1>3. MarkedByWorker'
  BY DEF LiveInv, WorkerTyped, MarkedByWorker, Disconnect, Present
<1> QED
  BY <1>1, <1>2, <1>3 DEF LiveInv

(* Steps that leave the table and the worker alone: asking for a sync,      *)
(* queueing it, and the poller's.                                          *)
LEMMA QueueOnlyStep ==
  ASSUME LiveInv, UNCHANGED <<accounts, vault, pc, sync, crashes, faults, connects>>,
         calls' \subseteq AccountIds, queue' \in Seq(AccountIds), poll' \in Seq(AccountIds)
  PROVE  LiveInv'
<1>1. WorkerTyped'
  BY DEF LiveInv, WorkerTyped
<1>2. HoldsAccount'
  BY DEF LiveInv, HoldsAccount
<1>3. MarkedByWorker'
  BY DEF LiveInv, MarkedByWorker, Present
<1> QED
  BY <1>1, <1>2, <1>3 DEF LiveInv

LEMMA RequestSyncStep ==
  ASSUME LiveInv, NEW id \in AccountIds, RequestSync(id)
  PROVE  LiveInv'
BY QueueOnlyStep DEF RequestSync, LiveInv, WorkerTyped

LEMMA QueueSyncStep ==
  ASSUME LiveInv, NEW id \in AccountIds, QueueSync(id)
  PROVE  LiveInv'
BY QueueOnlyStep, OfferedTyped DEF QueueSync, counters, LiveInv, WorkerTyped

LEMMA CallToolStep ==
  ASSUME LiveInv, CallTool
  PROVE  LiveInv'
BY QueueOnlyStep DEF CallTool, LiveInv, WorkerTyped

LEMMA ToolOffersStep ==
  ASSUME LiveInv, NEW id \in AccountIds, ToolOffers(id)
  PROVE  LiveInv'
BY QueueOnlyStep, OfferedTyped DEF ToolOffers, counters, LiveInv, WorkerTyped

(* Every order in which the poller may list the accounts is a sequence.    *)
LEMMA TickStep ==
  ASSUME LiveInv, Tick
  PROVE  LiveInv'
<1>1. IsFiniteSet(Polled)
  <2>1. IsFiniteSet(AccountIds)
    BY FS_Interval, LifecycleAssumption DEF AccountIds, LifecycleAssumption
  <2> QED
    BY <2>1, FS_Subset DEF Polled, Present
<1>2. Cardinality(Polled) \in Nat
  BY <1>1, FS_CardinalityType
<1>3. poll' \in [1..Cardinality(Polled) -> AccountIds]
  BY DEF Tick, Orders, Polled, Present
<1>4. poll' \in Seq(AccountIds)
  BY <1>2, <1>3
<1> QED
  BY <1>4, QueueOnlyStep DEF Tick, counters, LiveInv, WorkerTyped

LEMMA PollerOffersStep ==
  ASSUME LiveInv, PollerOffers
  PROVE  LiveInv'
<1>1. Head(poll) \in AccountIds /\ Tail(poll) \in Seq(AccountIds)
  BY DEF LiveInv, WorkerTyped, PollerOffers
<1>2. queue' \in Seq(AccountIds) /\ poll' \in Seq(AccountIds)
  BY <1>1, OfferedTyped DEF PollerOffers
<1> QED
  BY <1>2, QueueOnlyStep DEF PollerOffers, counters, LiveInv, WorkerTyped

LEMMA ReadAccountStep ==
  ASSUME LiveInv, ReadAccount
  PROVE  LiveInv'
<1> DEFINE id == Head(queue)
<1>1. id \in AccountIds /\ queue' \in Seq(AccountIds)
  BY DEF LiveInv, WorkerTyped, ReadAccount
<1>2. CASE id \in Present /\ ~Unreadable(id)
  <2>1. accounts[id] \in Account
    BY <1>1, <1>2 DEF LiveInv, WorkerTyped, Present
  <2>2. FirstSync(id) \in BOOLEAN
    BY DEF FirstSync, HasSynced
  <2>3. pc' = "read" /\ sync' \in Sync
    BY <1>1, <1>2, <2>1, <2>2 DEF ReadAccount, Sync, Account
  <2>4. WorkerTyped'
    BY <1>1, <2>3 DEF LiveInv, WorkerTyped, ReadAccount, counters
  <2>5. HoldsAccount'
    BY <2>3 DEF HoldsAccount
  <2>6. MarkedByWorker'
    BY DEF LiveInv, MarkedByWorker, ReadAccount, counters, Present
  <2> QED
    BY <2>4, <2>5, <2>6 DEF LiveInv
<1>3. CASE ~(id \in Present /\ ~Unreadable(id))
  <2>1. UNCHANGED <<pc, sync>>
    BY <1>3 DEF ReadAccount
  <2> QED
    BY <1>1, <2>1, QueueOnlyStep DEF ReadAccount, counters, LiveInv, WorkerTyped
<1> QED
  BY <1>2, <1>3

LEMMA MarkSyncingStep ==
  ASSUME LiveInv, MarkSyncing
  PROVE  LiveInv'
<1>1. sync \in Sync /\ sync' = sync /\ pc' = "marked"
  BY DEF LiveInv, HoldsAccount, MarkSyncing
<1>2. /\ accounts' \in [AccountIds -> Account \cup {NoAccount}]
      /\ Present' = Present
      /\ \A id \in Present :
           accounts'[id].status = IF id = sync.id THEN "syncing" ELSE accounts[id].status
  BY <1>1, StatusSetTyped DEF MarkSyncing, Status
<1>3. WorkerTyped'
  BY <1>1, <1>2 DEF LiveInv, WorkerTyped, MarkSyncing, counters
<1>4. HoldsAccount'
  BY <1>1 DEF HoldsAccount
<1>5. MarkedByWorker'
  BY <1>1, <1>2 DEF LiveInv, MarkedByWorker, MarkSyncing, counters
<1> QED
  BY <1>3, <1>4, <1>5 DEF LiveInv

LEMMA AuthorizeStep ==
  ASSUME LiveInv, Authorize
  PROVE  LiveInv'
<1>1. sync \in Sync /\ sync' = sync /\ pc = "marked" /\ pc' = "running"
  BY DEF LiveInv, HoldsAccount, Authorize
<1>2. /\ accounts' \in [AccountIds -> Account \cup {NoAccount}]
      /\ Present' = Present
      /\ \A id \in Present : accounts'[id].status = accounts[id].status
  <2>1. CASE UNCHANGED accounts
    BY <2>1 DEF LiveInv, WorkerTyped, Present
  <2>2. CASE sync.id \in Present /\ accounts' = [accounts EXCEPT ![sync.id].cred = sync.cred]
    BY <1>1, <2>2, CredentialSetTyped DEF Sync
  <2> QED
    BY <2>1, <2>2 DEF Authorize
<1>3. WorkerTyped'
  BY <1>1, <1>2 DEF LiveInv, WorkerTyped, Authorize, counters
<1>4. HoldsAccount'
  BY <1>1 DEF HoldsAccount
<1>5. MarkedByWorker'
  BY <1>1, <1>2 DEF LiveInv, MarkedByWorker, Authorize, counters
<1> QED
  BY <1>3, <1>4, <1>5 DEF LiveInv

LEMMA StoreDataStep ==
  ASSUME LiveInv, StoreData
  PROVE  LiveInv'
BY QueueOnlyStep DEF StoreData, counters, LiveInv, WorkerTyped

(* A sync that ends has written another status over its `syncing`.         *)
LEMMA EndedStep ==
  ASSUME LiveInv, pc \in {"marked", "running"}, NEW status \in Status \ {"syncing"},
         StatusSet(status),
         UNCHANGED <<vault, calls, queue, poll, crashes, faults, connects>>,
         \/ pc' = "idle" /\ sync' = NoSync
         \/ pc' = "failed" /\ sync' = sync /\ NewlyBroken
  PROVE  LiveInv'
<1>1. sync \in Sync
  BY DEF LiveInv, HoldsAccount
<1>2. /\ accounts' \in [AccountIds -> Account \cup {NoAccount}]
      /\ Present' = Present
      /\ \A id \in Present :
           accounts'[id].status = IF id = sync.id THEN status ELSE accounts[id].status
  BY <1>1, StatusSetTyped
<1>3. WorkerTyped'
  BY <1>1, <1>2 DEF LiveInv, WorkerTyped
<1>4. HoldsAccount'
  BY <1>1 DEF HoldsAccount, NewlyBroken
<1>5. MarkedByWorker'
  BY <1>2 DEF LiveInv, MarkedByWorker
<1> QED
  BY <1>3, <1>4, <1>5 DEF LiveInv

LEMMA SyncFailsStep ==
  ASSUME LiveInv, SyncFails
  PROVE  LiveInv'
<1>1. \/ pc' = "idle" /\ sync' = NoSync
      \/ pc' = "failed" /\ sync' = sync /\ NewlyBroken
  BY DEF SyncFails, EndSync
<1> QED
  BY <1>1, EndedStep DEF SyncFails, Status, counters

LEMMA SyncSucceedsStep ==
  ASSUME LiveInv, SyncSucceeds
  PROVE  LiveInv'
BY EndedStep DEF SyncSucceeds, EndSync, Status, counters

LEMMA PublishFailureStep ==
  ASSUME LiveInv, PublishFailure
  PROVE  LiveInv'
<1>1. WorkerTyped'
  BY DEF LiveInv, WorkerTyped, PublishFailure, EndSync, counters
<1>2. HoldsAccount'
  BY DEF HoldsAccount, PublishFailure, EndSync
<1>3. MarkedByWorker'
  BY DEF LiveInv, MarkedByWorker, PublishFailure, counters, Present
<1> QED
  BY <1>1, <1>2, <1>3 DEF LiveInv

(* A success left unrecorded, or a restart: from here on the counters       *)
(* excuse a status nobody is working on.                                   *)
LEMMA SuccessNotRecordedStep ==
  ASSUME LiveInv, SuccessNotRecorded
  PROVE  LiveInv'
<1>1. WorkerTyped'
  BY DEF LiveInv, WorkerTyped, SuccessNotRecorded, EndSync
<1>2. HoldsAccount'
  BY DEF HoldsAccount, SuccessNotRecorded, EndSync
<1>3. crashes' + faults' > 0
  BY DEF LiveInv, WorkerTyped, SuccessNotRecorded
<1>4. MarkedByWorker'
  BY <1>3 DEF MarkedByWorker
<1> QED
  BY <1>1, <1>2, <1>4 DEF LiveInv

LEMMA CrashStep ==
  ASSUME LiveInv, Crash
  PROVE  LiveInv'
<1>1. WorkerTyped'
  BY DEF LiveInv, WorkerTyped, Crash, EndSync
<1>2. HoldsAccount'
  BY DEF HoldsAccount, Crash, EndSync
<1>3. crashes' + faults' > 0
  BY DEF LiveInv, WorkerTyped, Crash
<1>4. MarkedByWorker'
  BY <1>3 DEF MarkedByWorker
<1> QED
  BY <1>1, <1>2, <1>4 DEF LiveInv

LEMMA WorkerStepKeeps ==
  ASSUME LiveInv, WorkerStep
  PROVE  LiveInv'
BY ReadAccountStep, MarkSyncingStep, AuthorizeStep, StoreDataStep, SyncFailsStep,
   PublishFailureStep, SyncSucceedsStep, SuccessNotRecordedStep
   DEF WorkerStep

LEMMA LiveStep == LiveInv /\ [Next]_vars => LiveInv'
<1> SUFFICES ASSUME LiveInv, [Next]_vars PROVE LiveInv'
  OBVIOUS
<1>1. CASE \E email \in Emails, kind \in Kinds : Connect(email, kind)
  BY <1>1, ConnectStep
<1>2. CASE \E id \in AccountIds : Disconnect(id) \/ RequestSync(id) \/ QueueSync(id)
  BY <1>2, DisconnectStep, RequestSyncStep, QueueSyncStep
<1>8. CASE CallTool \/ \E id \in AccountIds : ToolOffers(id)
  BY <1>8, CallToolStep, ToolOffersStep
<1>3. CASE Tick
  BY <1>3, TickStep
<1>4. CASE PollerOffers
  BY <1>4, PollerOffersStep
<1>5. CASE WorkerStep
  BY <1>5, WorkerStepKeeps
<1>6. CASE Crash
  BY <1>6, CrashStep
<1>7. CASE UNCHANGED vars
  BY <1>7, QueueOnlyStep DEF vars, counters, LiveInv, WorkerTyped
<1> QED
  BY <1>1, <1>2, <1>3, <1>4, <1>5, <1>6, <1>7, <1>8 DEF Next

-----------------------------------------------------------------------------
(* The theorems                                                            *)

(* The worker's copy of an account and the table stay well formed, and      *)
(* `syncing` is always the mark of the sync under way: the inductive       *)
(* invariant, for every number of accounts and every interleaving of the   *)
(* handlers, the poller and the worker.                                    *)
THEOREM LiveInvariance == Spec => []LiveInv
<1>1. Init => LiveInv
  BY LiveInit
<1>2. LiveInv /\ [Next]_vars => LiveInv'
  BY LiveStep
<1> QED
  BY <1>1, <1>2, PTL DEF Spec

(* sync.go:38-58: every way out of a sync replaces the status it wrote at   *)
(* its start, whatever handlers did to the row meanwhile, so an account    *)
(* shows `syncing` only while the worker is at it, unless the app was       *)
(* restarted or the success could not be recorded.                         *)
THEOREM SyncingAlwaysLive == Spec => []SyncingIsLive
<1>1. LiveInv => SyncingIsLive
  BY DEF LiveInv, MarkedByWorker, SyncingIsLive
<1> QED
  BY <1>1, LiveInvariance, PTL

-----------------------------------------------------------------------------
(* Types, and what a sync knows of its account                             *)

LEMMA IInvLive == AccountInv => LiveInv
BY LifecycleAssumption
DEF AccountInv, TypeOK, LiveInv, WorkerTyped, LifecycleAssumption

LEMMA IInvInit == Init => IInv
<1> SUFFICES ASSUME Init PROVE IInv
  OBVIOUS
<1> USE LifecycleAssumption DEF LifecycleAssumption, Init
<1>1. TypeOK
  BY DEF TypeOK
<1>2. Present = {}
  BY DEF Present
<1> QED
  BY <1>1, <1>2
  DEF IInv, AccountInv, HoldsAccount, SyncedIsPresent, MarkedByWorker, LaterSyncKnown, ErrorWasAnnounced,
      BrokenIsKnown, AlarmsCounted

(* Taking an id out of the order of the successes leaves a sequence of ids. *)
LEMMA WithoutTyped ==
  ASSUME NEW s \in Seq(AccountIds), NEW id
  PROVE  Without(s, id) \in Seq(AccountIds)
<1>1. CASE \A i \in DOMAIN s : s[i] # id
  BY <1>1 DEF Without
<1>2. CASE \E i \in DOMAIN s : s[i] = id
  <2> DEFINE k == CHOOSE i \in DOMAIN s : s[i] = id
  <2>1. Len(s) - 1 \in Nat /\ DOMAIN s = 1..Len(s) /\ \A i \in 1..Len(s) : s[i] \in AccountIds
    BY <1>2
  <2>2. Without(s, id) = [i \in 1..(Len(s) - 1) |-> IF i < k THEN s[i] ELSE s[i + 1]]
    BY <1>2 DEF Without
  <2> HIDE DEF k
  <2>3. \A i \in 1..(Len(s) - 1) : (IF i < k THEN s[i] ELSE s[i + 1]) \in AccountIds
    BY <2>1
  <2>4. Without(s, id) \in [1..(Len(s) - 1) -> AccountIds]
    BY <2>2, <2>3
  <2> QED
    BY <2>1, <2>4
<1> QED
  BY <1>1, <1>2

(* The queue never grows beyond its capacity.                              *)
LEMMA OfferedFits ==
  ASSUME TypeOK, NEW id \in AccountIds
  PROVE  Len(Offered(id)) <= QueueCap
BY LifecycleAssumption DEF TypeOK, Offered, LifecycleAssumption

LEMMA QueueFits == AccountInv /\ [Next]_vars => Len(queue)' <= QueueCap
<1> SUFFICES ASSUME AccountInv, [Next]_vars PROVE Len(queue') <= QueueCap
  OBVIOUS
<1>1. TypeOK /\ queue \in Seq(AccountIds) /\ Len(queue) <= QueueCap /\ poll \in Seq(AccountIds)
      /\ QueueCap \in Nat
  BY LifecycleAssumption DEF AccountInv, TypeOK, LifecycleAssumption
<1>2. CASE UNCHANGED queue
  BY <1>1, <1>2
<1>3. ASSUME NEW id \in AccountIds, queue' = Offered(id) PROVE Len(queue') <= QueueCap
  BY <1>1, <1>3, OfferedFits
<1>4. CASE ReadAccount
  BY <1>1, <1>4 DEF ReadAccount
<1>5. CASE PollerOffers
  <2>1. Head(poll) \in AccountIds
    BY <1>1, <1>5 DEF PollerOffers
  <2> QED
    BY <1>3, <1>5, <2>1 DEF PollerOffers
<1>6. CASE Crash
  BY <1>1, <1>6 DEF Crash
<1>7. ASSUME NEW id \in AccountIds, QueueSync(id) \/ ToolOffers(id)
      PROVE  Len(queue') <= QueueCap
  BY <1>3, <1>7 DEF QueueSync, ToolOffers
<1> QED
  BY <1>2, <1>4, <1>5, <1>6, <1>7
  DEF Next, WorkerStep, vars, Connect, Disconnect, RequestSync, CallTool, Tick, MarkSyncing,
      Authorize, StoreData, SyncFails, PublishFailure, SyncSucceeds, SuccessNotRecorded

(* Every step keeps the types.                                             *)
LEMMA TypeStep == AccountInv /\ [Next]_vars => TypeOK' /\ renewals' <= connects'
<1> SUFFICES ASSUME AccountInv, [Next]_vars PROVE TypeOK' /\ renewals' <= connects'
  OBVIOUS
<1>1. TypeOK /\ LiveInv /\ LiveInv' /\ renewals <= connects
  BY IInvLive, LiveStep DEF AccountInv
<1>2. WorkerTyped' /\ Len(queue') <= QueueCap
  BY <1>1, QueueFits DEF LiveInv
<1>3. /\ connects \in Nat /\ renewals \in Nat /\ disconnects \in Nat /\ requests \in Nat
      /\ crashes \in Nat /\ faults \in Nat /\ imported \in Nat
      /\ MaxAlarms \in Nat /\ MaxImports \in Nat
      /\ \A id \in AccountIds : alarms[id] \in 0..MaxAlarms
  BY <1>1, LifecycleAssumption DEF TypeOK, LifecycleAssumption
<1> DEFINE Counters == /\ connects' \in 0..MaxConnects /\ renewals' \in 0..MaxConnects
                       /\ disconnects' \in 0..MaxDisconnects
                       /\ requests' \in 0..MaxRequests
                       /\ crashes' \in 0..MaxCrashes
                       /\ faults' \in 0..MaxFaults
                       /\ renewals' <= connects'
           Tables == /\ recency' \in Seq(AccountIds)
                     /\ holds' \in [AccountIds -> SUBSET Emails]
                     /\ tool' \subseteq AccountIds
                     /\ imported' \in 0..MaxImports
                     /\ alarms' \in [AccountIds -> 0..MaxAlarms]
<1>4. Counters
  <2>1. CASE UNCHANGED counters
    BY <1>1, <2>1 DEF TypeOK, counters
  <2>2. ASSUME NEW email \in Emails, NEW kind \in Kinds, Connect(email, kind) PROVE Counters
    <3>1. /\ connects < MaxConnects /\ connects' = connects + 1
          /\ renewals' = renewals \/ renewals' = renewals + 1
          /\ UNCHANGED <<disconnects, requests, crashes, faults>>
      BY <2>2 DEF Connect, Insert, Renew
    <3>2. MaxConnects \in Nat
      BY LifecycleAssumption DEF LifecycleAssumption
    <3> QED
      BY <1>1, <1>3, <3>1, <3>2 DEF TypeOK
  <2>3. ASSUME NEW id \in AccountIds, Disconnect(id) PROVE Counters
    BY <1>1, <1>3, <2>3, LifecycleAssumption DEF TypeOK, Disconnect, LifecycleAssumption
  <2>4. ASSUME CallTool \/ \E id \in AccountIds : RequestSync(id) PROVE Counters
    <3>1. /\ requests < MaxRequests /\ requests' = requests + 1
          /\ UNCHANGED <<connects, renewals, disconnects, crashes, faults>>
      BY <2>4 DEF CallTool, RequestSync
    <3> QED
      BY <1>1, <1>3, <3>1, LifecycleAssumption DEF TypeOK, LifecycleAssumption
  <2>5. CASE SuccessNotRecorded
    BY <1>1, <1>3, <2>5, LifecycleAssumption DEF TypeOK, SuccessNotRecorded, LifecycleAssumption
  <2>6. CASE Crash
    BY <1>1, <1>3, <2>6, LifecycleAssumption DEF TypeOK, Crash, LifecycleAssumption
  <2> QED
    BY <2>1, <2>2, <2>3, <2>4, <2>5, <2>6
    DEF Next, WorkerStep, vars, QueueSync, ToolOffers, Tick, PollerOffers, ReadAccount,
        MarkSyncing, Authorize, StoreData, SyncFails, PublishFailure, SyncSucceeds
<1>5. Tables
  <2>1. CASE UNCHANGED <<recency, holds, imported, alarms>> /\ tool' \subseteq AccountIds
    BY <1>1, <2>1 DEF TypeOK
  <2>2. ASSUME NEW email \in Emails, NEW kind \in Kinds, Connect(email, kind) PROVE Tables
    <3>1. /\ UNCHANGED <<recency, holds, tool, imported>>
          /\ \/ UNCHANGED alarms
             \/ \E id \in AccountIds : alarms' = [alarms EXCEPT ![id] = 0]
      BY <2>2 DEF Connect, Insert, Renew
    <3>2. 0 \in 0..MaxAlarms
      BY <1>3
    <3> QED
      BY <1>1, <3>1, <3>2 DEF TypeOK
  <2>3. ASSUME NEW id \in AccountIds, Disconnect(id) PROVE Tables
    BY <1>1, <2>3, WithoutTyped DEF TypeOK, Disconnect
  <2>4. CASE StoreData
    <3>1. sync \in Sync /\ sync.id \in AccountIds /\ sync.email \in Emails
      BY <1>1, <2>4 DEF LiveInv, HoldsAccount, StoreData, Sync
    <3>2. holds' \in [AccountIds -> SUBSET Emails]
      BY <1>1, <2>4, <3>1 DEF TypeOK, StoreData
    <3>3. imported' \in 0..MaxImports
      BY <1>1, <1>3, <2>4 DEF TypeOK, StoreData
    <3> QED
      BY <1>1, <2>4, <3>2, <3>3 DEF TypeOK, StoreData
  <2>5. CASE PublishFailure
    <3>1. \A id \in AccountIds :
            (IF alarms[id] < MaxAlarms THEN alarms[id] + 1 ELSE alarms[id]) \in 0..MaxAlarms
      BY <1>3
    <3>2. alarms' \in [AccountIds -> 0..MaxAlarms]
      BY <1>1, <2>5, <3>1 DEF TypeOK, PublishFailure
    <3> QED
      BY <1>1, <2>5, <3>2 DEF TypeOK, PublishFailure
  <2>6. CASE SyncSucceeds
    <3>1. sync \in Sync /\ sync.id \in AccountIds
      BY <1>1, <2>6 DEF LiveInv, HoldsAccount, SyncSucceeds, Sync
    <3>2. Without(recency, sync.id) \in Seq(AccountIds)
      BY <1>1, WithoutTyped DEF TypeOK
    <3>3. Append(Without(recency, sync.id), sync.id) \in Seq(AccountIds)
      BY <3>1, <3>2
    <3>4. UNCHANGED alarms \/ alarms' = [alarms EXCEPT ![sync.id] = 0]
      BY <2>6 DEF SyncSucceeds
    <3>5. 0 \in 0..MaxAlarms
      BY <1>3
    <3>6. alarms' \in [AccountIds -> 0..MaxAlarms]
      BY <1>1, <3>4, <3>5 DEF TypeOK
    <3>7. recency' \in Seq(AccountIds)
      BY <1>1, <2>6, <3>3 DEF TypeOK, SyncSucceeds
    <3> QED
      BY <1>1, <2>6, <3>6, <3>7 DEF TypeOK, SyncSucceeds
  <2>7. ASSUME NEW id \in AccountIds, ToolOffers(id) PROVE tool' \subseteq AccountIds
    BY <1>1, <2>7 DEF TypeOK, ToolOffers
  <2> QED
    BY <1>1, <2>1, <2>2, <2>3, <2>4, <2>5, <2>6, <2>7
    DEF TypeOK, Next, WorkerStep, vars, RequestSync, QueueSync, CallTool, ToolOffers, Tick,
        PollerOffers, ReadAccount, MarkSyncing, Authorize, SyncFails, SuccessNotRecorded, Crash,
        Present
<1> QED
  BY <1>2, <1>4, <1>5 DEF TypeOK, WorkerTyped

(* A sync that began after a success keeps the right to publish imports    *)
(* only for an account that has the success on record.                     *)
LEMMA LaterSyncStep == AccountInv /\ [Next]_vars => LaterSyncKnown'
<1> SUFFICES ASSUME AccountInv, [Next]_vars PROVE LaterSyncKnown'
  OBVIOUS
<1>1. LaterSyncKnown /\ disconnects \in Nat
  BY DEF AccountInv, TypeOK
<1>2. CASE ReadAccount
  <2>1. UNCHANGED <<recency, disconnects>>
    BY <1>2 DEF ReadAccount, counters
  <2>2. \/ UNCHANGED <<pc, sync>>
        \/ sync'.id = Head(queue) /\ sync'.first = FirstSync(Head(queue))
    BY <1>2 DEF ReadAccount
  <2> QED
    BY <1>1, <2>1, <2>2 DEF LaterSyncKnown, HasSynced, FirstSync
<1>3. CASE pc' = "idle"
  BY <1>3 DEF LaterSyncKnown
<1>4. ASSUME NEW id \in AccountIds, Disconnect(id) PROVE LaterSyncKnown'
  BY <1>1, <1>4 DEF Disconnect, LaterSyncKnown
<1>5. CASE pc # "idle" /\ UNCHANGED <<sync, recency, disconnects>>
  BY <1>1, <1>5 DEF LaterSyncKnown, HasSynced
<1>6. CASE UNCHANGED <<pc, sync, recency, disconnects>>
  BY <1>1, <1>6 DEF LaterSyncKnown, HasSynced
<1> QED
  BY <1>2, <1>3, <1>4, <1>5, <1>6
  DEF Next, WorkerStep, vars, counters, EndSync, Connect, RequestSync, QueueSync, CallTool,
      ToolOffers, Tick, PollerOffers, MarkSyncing, Authorize, StoreData, SyncFails,
      PublishFailure, SyncSucceeds, SuccessNotRecorded, Crash

-----------------------------------------------------------------------------
(* What is published of an outage                                          *)

Outage == SyncedIsPresent /\ ErrorWasAnnounced /\ BrokenIsKnown /\ AlarmsCounted

LEMMA Counters ==
  ASSUME IInv
  PROVE  /\ LiveInv /\ Outage
         /\ renewals \in Nat /\ disconnects \in Nat /\ crashes \in Nat /\ faults \in Nat
         /\ \A id \in AccountIds : alarms[id] \in Nat
         /\ pc # "idle" => sync \in Sync /\ sync.id \in AccountIds
BY IInvLive, LifecycleAssumption
DEF IInv, AccountInv, TypeOK, LifecycleAssumption, Outage, HoldsAccount, Sync

(* A step that neither ends a sync nor begins one, and writes no status but *)
(* the `syncing` of the account it is at.                                  *)
LEMMA QuietStep ==
  ASSUME IInv, UNCHANGED <<sync, alarms, renewals, disconnects, crashes, faults>>,
         \/ pc' = pc
         \/ /\ pc \in {"read", "marked", "running"}
            /\ pc' \in {"read", "marked", "running"},
         Present' = Present,
         \A id \in Present :
           \/ accounts'[id].status = accounts[id].status
           \/ pc = "read" /\ id = sync.id /\ accounts'[id].status = "syncing"
  PROVE  Outage'
<1>1. Outage
  BY Counters
<1>2. SyncedIsPresent'
  BY <1>1 DEF Outage, SyncedIsPresent
<1>3. ErrorWasAnnounced'
  BY <1>1 DEF Outage, ErrorWasAnnounced
<1>4. BrokenIsKnown'
  BY <1>1 DEF Outage, BrokenIsKnown
<1>5. AlarmsCounted'
  <2>1. ASSUME NEW id \in Present
        PROVE  /\ MayAnnounce(id)' = MayAnnounce(id)
               /\ MayBreak(id)' => MayBreak(id)
    BY DEF MayAnnounce, MayBreak, AtIt
  <2>2. ASSUME NEW id \in Present
        PROVE  /\ Pending(MayAnnounce(id))' = Pending(MayAnnounce(id))
               /\ Pending(MayBreak(id))' \in {0, Pending(MayBreak(id))}
               /\ Pending(MayAnnounce(id)) \in {0, 1} /\ Pending(MayBreak(id)) \in {0, 1}
    BY <2>1 DEF Pending
  <2>3. \A id \in Present : alarms[id] \in Nat
    BY Counters DEF Present
  <2> QED
    BY <1>1, <2>2, <2>3, Counters DEF Outage, AlarmsCounted
<1> QED
  BY <1>2, <1>3, <1>4, <1>5 DEF Outage

(* A new account has raised no alarm.  If the worker is at its id, another *)
(* account had the id before and was disconnected.                         *)
LEMMA InsertOutage ==
  ASSUME IInv, NEW email \in Emails, NEW kind \in Kinds, Connect(email, kind),
         Insert(email, kind)
  PROVE  Outage'
<1>1. PICK id \in AccountIds \ Present :
        /\ accounts' = [accounts EXCEPT ![id] =
                          [email |-> email, provider |-> kind, status |-> "pending",
                           cred |-> NewCredential(kind)]]
        /\ alarms' = [alarms EXCEPT ![id] = 0]
  BY DEF Insert
<1>2. /\ accounts \in [AccountIds -> Account \cup {NoAccount}]
      /\ accounts' \in [AccountIds -> Account \cup {NoAccount}]
      /\ alarms \in [AccountIds -> 0..MaxAlarms]
  BY TypeStep DEF IInv, AccountInv, TypeOK, Next
<1>3. /\ accounts'[id].status = "pending" /\ accounts'[id].email = email
      /\ \A i \in AccountIds \ {id} : accounts'[i] = accounts[i] /\ alarms'[i] = alarms[i]
      /\ alarms'[id] = 0
  BY <1>1, <1>2
<1>4. Present' \subseteq Present \cup {id} /\ Present \subseteq Present'
  BY <1>1, <1>3 DEF Present
<1>5. UNCHANGED <<pc, sync, renewals, disconnects, crashes, faults>>
  BY DEF Connect, Insert
<1>6. Outage /\ (pc # "idle" /\ sync.id = id => disconnects > 0)
  BY <1>1, Counters DEF Outage, SyncedIsPresent
<1>7. SyncedIsPresent'
  BY <1>4, <1>5, <1>6 DEF Outage, SyncedIsPresent
<1>8. ErrorWasAnnounced'
  BY <1>3, <1>4, <1>5, <1>6 DEF Outage, ErrorWasAnnounced, Present
<1>9. BrokenIsKnown'
  BY <1>3, <1>5, <1>6, Counters DEF Outage, BrokenIsKnown
<1>10. AlarmsCounted'
  <2>1. ASSUME NEW i \in Present, i # id
        PROVE  /\ Pending(MayAnnounce(i))' = Pending(MayAnnounce(i))
               /\ Pending(MayBreak(i))' = Pending(MayBreak(i))
               /\ alarms'[i] = alarms[i]
    BY <1>3, <1>5, <2>1 DEF Pending, MayAnnounce, MayBreak, AtIt, Present
  <2>2. /\ Pending(MayAnnounce(id))' \in {0, 1} /\ Pending(MayBreak(id))' \in {0, 1}
        /\ Pending(MayAnnounce(id))' = 1 => disconnects > 0
    BY <1>5, <1>6 DEF Pending, MayAnnounce, AtIt
  <2>3. alarms'[id] + Pending(MayAnnounce(id))' + Pending(MayBreak(id))'
          <= 1 + renewals + disconnects + crashes + faults
    BY <1>3, <2>2, Counters
  <2> QED
    BY <1>1, <1>4, <1>5, <1>6, <2>1, <2>3 DEF Outage, AlarmsCounted
<1> QED
  BY <1>7, <1>8, <1>9, <1>10 DEF Outage

(* A renewal pays for one more alarm of the account.                       *)
LEMMA RenewOutage ==
  ASSUME IInv, NEW email \in Emails, NEW kind \in Kinds, Connect(email, kind),
         Renew(email, kind)
  PROVE  Outage'
<1>1. PICK id \in Present :
        accounts' = [accounts EXCEPT ![id].cred = NewCredential(kind), ![id].status = "pending"]
  BY DEF Renew
<1>2. /\ accounts \in [AccountIds -> Account \cup {NoAccount}]
      /\ accounts' \in [AccountIds -> Account \cup {NoAccount}]
      /\ id \in AccountIds /\ accounts[id] \in Account
  BY TypeStep DEF IInv, AccountInv, TypeOK, Next, Present
<1> DEFINE row == [accounts[id] EXCEPT !.cred = NewCredential(kind), !.status = "pending"]
<1>3. row.status = "pending" /\ row.email = accounts[id].email
  BY <1>2 DEF Account
<1>4. accounts' = [accounts EXCEPT ![id] = row]
  BY <1>1, <1>2
<1>5. /\ accounts'[id].status = "pending"
      /\ \A i \in AccountIds \ {id} : accounts'[i] = accounts[i]
  BY <1>2, <1>3, <1>4
<1>6. row \in Account
  BY <1>2, Counters, CredentialIssued DEF Account, Status
<1>7. Present' = Present
  BY <1>2, <1>4, <1>5, <1>6, LifecycleAssumption DEF Present, LifecycleAssumption
<1>8. renewals' = renewals + 1 /\ UNCHANGED <<pc, sync, alarms, disconnects, crashes, faults>>
  BY DEF Connect, Renew
<1>9. Outage
  BY Counters
<1>10. SyncedIsPresent'
  BY <1>7, <1>8, <1>9 DEF Outage, SyncedIsPresent
<1>11. ErrorWasAnnounced'
  BY <1>5, <1>7, <1>8, <1>9 DEF Outage, ErrorWasAnnounced, Present
<1>12. BrokenIsKnown'
  BY <1>8, <1>9 DEF Outage, BrokenIsKnown
<1>13. AlarmsCounted'
  <2>1. ASSUME NEW i \in Present
        PROVE  /\ Pending(MayAnnounce(i))' = Pending(MayAnnounce(i))
               /\ Pending(MayAnnounce(i)) \in {0, 1} /\ Pending(MayBreak(i)) \in {0, 1}
               /\ Pending(MayBreak(i))' \in {0, 1}
    BY <1>8 DEF Pending, MayAnnounce, AtIt
  <2>2. \A i \in Present : alarms[i] \in Nat
    BY Counters DEF Present
  <2>3. ASSUME NEW i \in Present
        PROVE  alarms'[i] + Pending(MayAnnounce(i))' + Pending(MayBreak(i))'
                 <= 1 + renewals' + disconnects' + crashes' + faults'
    <3>1. alarms[i] + Pending(MayAnnounce(i)) + Pending(MayBreak(i))
            <= 1 + renewals + disconnects + crashes + faults
      BY <1>9 DEF Outage, AlarmsCounted
    <3>2. CASE i = id
      <4>1. alarms[i] + Pending(MayAnnounce(i))
              <= 1 + renewals + disconnects + crashes + faults
        BY <2>1, <2>2, <3>1, Counters
      <4> QED
        BY <1>8, <2>1, <2>2, <4>1, Counters
    <3>3. CASE i # id
      <4>1. Pending(MayBreak(i))' = Pending(MayBreak(i))
        BY <1>5, <1>8, <3>3 DEF Pending, MayBreak, AtIt, Present
      <4> QED
        BY <1>8, <2>1, <2>2, <3>1, <4>1, Counters
    <3> QED
      BY <3>2, <3>3
  <2> QED
    BY <1>7, <2>3 DEF AlarmsCounted
<1> QED
  BY <1>10, <1>11, <1>12, <1>13 DEF Outage

LEMMA DisconnectOutage ==
  ASSUME IInv, NEW id \in AccountIds, Disconnect(id)
  PROVE  Outage'
<1>1. /\ accounts \in [AccountIds -> Account \cup {NoAccount}]
      /\ disconnects' = disconnects + 1 /\ disconnects' > 0
      /\ UNCHANGED <<pc, sync, alarms, renewals, crashes, faults>>
  BY Counters DEF IInv, AccountInv, TypeOK, Disconnect
<1>2. /\ Present' \subseteq Present
      /\ \A i \in Present' : accounts'[i] = accounts[i]
  BY <1>1 DEF Disconnect, Present
<1>3. SyncedIsPresent' /\ ErrorWasAnnounced' /\ BrokenIsKnown'
  BY <1>1, Counters DEF SyncedIsPresent, ErrorWasAnnounced, BrokenIsKnown
<1>4. AlarmsCounted'
  <2>1. ASSUME NEW i \in Present'
        PROVE  /\ Pending(MayAnnounce(i))' = Pending(MayAnnounce(i))
               /\ Pending(MayBreak(i))' = Pending(MayBreak(i))
               /\ Pending(MayAnnounce(i)) \in {0, 1} /\ Pending(MayBreak(i)) \in {0, 1}
               /\ alarms[i] \in Nat
    BY <1>1, <1>2, Counters DEF Pending, MayAnnounce, MayBreak, AtIt, Present
  <2> QED
    BY <1>1, <1>2, <2>1, Counters DEF Outage, AlarmsCounted
<1> QED
  BY <1>3, <1>4 DEF Outage

(* A broken account may raise no alarm, and one was raised; any other may  *)
(* raise one, if its sync fails.                                           *)
LEMMA ReadAccountOutage ==
  ASSUME IInv, ReadAccount
  PROVE  Outage'
<1> DEFINE id == Head(queue)
<1>1. /\ pc = "idle" /\ Outage /\ queue # <<>>
      /\ UNCHANGED <<accounts, alarms, renewals, disconnects, crashes, faults>>
  BY Counters DEF ReadAccount, counters
<1>2. CASE UNCHANGED <<pc, sync>>
  BY <1>1, <1>2, QuietStep DEF Present
<1>3. CASE /\ id \in Present /\ pc' = "read" /\ sync'.id = id
           /\ sync'.prev = accounts[id].status
  <2>1. SyncedIsPresent'
    BY <1>1, <1>3 DEF SyncedIsPresent, Present
  <2>2. ErrorWasAnnounced'
    BY <1>1, <1>3 DEF Outage, ErrorWasAnnounced, Present
  <2>3. BrokenIsKnown'
    BY <1>1, <1>3 DEF Outage, ErrorWasAnnounced, BrokenIsKnown, Present
  <2>4. AlarmsCounted'
    <3>1. ASSUME NEW i \in Present
          PROVE  /\ Pending(MayAnnounce(i)) = 0
                 /\ \/ /\ Pending(MayAnnounce(i))' = Pending(MayBreak(i))
                       /\ Pending(MayBreak(i))' = 0
                    \/ /\ Pending(MayAnnounce(i))' = 0
                       /\ Pending(MayBreak(i))' = Pending(MayBreak(i))
                 /\ Pending(MayBreak(i)) \in {0, 1}
      BY <1>1, <1>3 DEF Pending, MayAnnounce, MayBreak, AtIt
    <3>2. \A i \in Present : alarms[i] \in Nat
      BY Counters DEF Present
    <3> QED
      BY <1>1, <3>1, <3>2, Counters DEF Outage, AlarmsCounted, Present
  <2> QED
    BY <2>1, <2>2, <2>3, <2>4 DEF Outage
<1> QED
  BY <1>2, <1>3 DEF ReadAccount

(* The failure of a sync is pending when its status is written, and only   *)
(* of an account that was not broken.                                      *)
LEMMA SyncFailsOutage ==
  ASSUME IInv, SyncFails
  PROVE  Outage'
<1>1. /\ pc \in {"marked", "running"} /\ Outage /\ sync \in Sync
      /\ UNCHANGED <<alarms, renewals, disconnects, crashes, faults>>
  BY Counters DEF SyncFails, counters
<1>2. \/ sync.prev # "error" /\ pc' = "failed" /\ UNCHANGED sync
      \/ sync.prev = "error" /\ pc' = "idle"
  BY DEF SyncFails, NewlyBroken, EndSync
<1>3. /\ Present' = Present
      /\ \A i \in Present :
           accounts'[i].status = IF i = sync.id THEN "error" ELSE accounts[i].status
  BY <1>1, Counters, StatusSetTyped DEF SyncFails, Status
<1>4. SyncedIsPresent'
  BY <1>1, <1>2, <1>3 DEF Outage, SyncedIsPresent
<1>5. ErrorWasAnnounced'
  BY <1>1, <1>2, <1>3 DEF Outage, ErrorWasAnnounced, BrokenIsKnown
<1>6. BrokenIsKnown'
  BY <1>2 DEF BrokenIsKnown
<1>7. AlarmsCounted'
  <2>1. ASSUME NEW i \in Present
        PROVE  /\ Pending(MayAnnounce(i))' = Pending(MayAnnounce(i))
               /\ Pending(MayBreak(i))' \in {0, Pending(MayBreak(i))}
               /\ Pending(MayAnnounce(i)) \in {0, 1} /\ Pending(MayBreak(i)) \in {0, 1}
    BY <1>1, <1>2, <1>3 DEF Pending, MayAnnounce, MayBreak, AtIt
  <2>2. \A i \in Present : alarms[i] \in Nat
    BY Counters DEF Present
  <2> QED
    BY <1>1, <1>3, <2>1, <2>2, Counters DEF Outage, AlarmsCounted
<1> QED
  BY <1>4, <1>5, <1>6, <1>7 DEF Outage

(* The pending alarm becomes a raised one.                                 *)
LEMMA PublishFailureOutage ==
  ASSUME IInv, MaxAlarms > 0, PublishFailure
  PROVE  Outage'
<1>1. /\ pc = "failed" /\ pc' = "idle" /\ Outage
      /\ sync.id \in AccountIds /\ sync.prev # "error" /\ MaxAlarms \in Nat
      /\ alarms \in [AccountIds -> 0..MaxAlarms]
      /\ UNCHANGED <<accounts, renewals, disconnects, crashes, faults>>
  BY Counters, LifecycleAssumption
  DEF IInv, AccountInv, TypeOK, HoldsAccount, Sync, PublishFailure, EndSync, counters, LifecycleAssumption
<1>2. /\ alarms'[sync.id] <= alarms[sync.id] + 1 /\ alarms'[sync.id] \in Nat
      /\ alarms'[sync.id] > 0
      /\ \A i \in AccountIds \ {sync.id} : alarms'[i] = alarms[i]
  BY <1>1 DEF PublishFailure
<1>3. Present' = Present
  BY <1>1 DEF Present
<1>4. SyncedIsPresent' /\ BrokenIsKnown'
  BY <1>1 DEF SyncedIsPresent, BrokenIsKnown
<1>5. ErrorWasAnnounced'
  BY <1>1, <1>2, <1>3 DEF Outage, ErrorWasAnnounced, Present
<1>6. AlarmsCounted'
  <2>1. ASSUME NEW i \in Present
        PROVE  /\ Pending(MayAnnounce(i))' = 0
               /\ Pending(MayAnnounce(i)) = IF i = sync.id THEN 1 ELSE 0
               /\ Pending(MayBreak(i))' = Pending(MayBreak(i))
               /\ Pending(MayBreak(i)) \in {0, 1}
    BY <1>1 DEF Pending, MayAnnounce, MayBreak, AtIt
  <2>2. \A i \in Present : alarms[i] \in Nat /\ alarms'[i] \in Nat
    BY <1>1, <1>2 DEF Present
  <2> QED
    BY <1>1, <1>2, <1>3, <2>1, <2>2, Counters DEF Outage, AlarmsCounted, Present
<1> QED
  BY <1>4, <1>5, <1>6 DEF Outage

(* A success forgets the alarms before it.                                 *)
LEMMA SyncSucceedsOutage ==
  ASSUME IInv, SyncSucceeds
  PROVE  Outage'
<1>1. /\ pc = "running" /\ pc' = "idle" /\ Outage /\ sync \in Sync /\ sync.id \in AccountIds
      /\ alarms \in [AccountIds -> 0..MaxAlarms]
      /\ UNCHANGED <<renewals, disconnects, crashes, faults>>
  BY Counters DEF IInv, AccountInv, TypeOK, SyncSucceeds, EndSync, counters
<1>2. /\ Present' = Present
      /\ \A i \in Present :
           accounts'[i].status = IF i = sync.id THEN "healthy" ELSE accounts[i].status
  BY <1>1, Counters, StatusSetTyped DEF SyncSucceeds, Status
<1>3. /\ sync.id \in Present => alarms'[sync.id] = 0
      /\ \A i \in Present \ {sync.id} : alarms'[i] = alarms[i]
  BY <1>1 DEF SyncSucceeds, Present
<1>4. SyncedIsPresent' /\ BrokenIsKnown'
  BY <1>1 DEF SyncedIsPresent, BrokenIsKnown
<1>5. ErrorWasAnnounced'
  BY <1>1, <1>2, <1>3 DEF Outage, ErrorWasAnnounced
<1>6. AlarmsCounted'
  <2>1. ASSUME NEW i \in Present
        PROVE  /\ Pending(MayAnnounce(i))' = 0
               /\ Pending(MayAnnounce(i)) \in {0, 1}
               /\ Pending(MayBreak(i))' \in {0, 1} /\ Pending(MayBreak(i)) \in {0, 1}
               /\ i # sync.id => Pending(MayBreak(i))' = Pending(MayBreak(i))
    BY <1>1, <1>2 DEF Pending, MayAnnounce, MayBreak, AtIt
  <2>2. \A i \in Present : alarms[i] \in Nat
    BY <1>1 DEF Present
  <2> QED
    BY <1>1, <1>2, <1>3, <2>1, <2>2, Counters DEF Outage, AlarmsCounted
<1> QED
  BY <1>4, <1>5, <1>6 DEF Outage

(* A restart, or a success that is not recorded, leaves the account as it  *)
(* was: the next sync of it may announce the same outage again.            *)
LEMMA BrokenOffOutage ==
  ASSUME IInv, SuccessNotRecorded \/ Crash
  PROVE  Outage'
<1>1. /\ pc' = "idle" /\ Outage
      /\ UNCHANGED <<accounts, alarms, renewals, disconnects>>
      /\ Present' = Present
      /\ crashes' \in Nat /\ crashes' >= crashes
      /\ crashes' + faults' = crashes + faults + 1
      /\ pc = "running" \/ crashes' > 0
  BY Counters DEF SuccessNotRecorded, Crash, EndSync, Present
<1>2. SyncedIsPresent' /\ BrokenIsKnown'
  BY <1>1 DEF SyncedIsPresent, BrokenIsKnown
<1>3. ErrorWasAnnounced'
  BY <1>1, Counters DEF Outage, ErrorWasAnnounced
<1>4. AlarmsCounted'
  <2>1. ASSUME NEW i \in Present
        PROVE  /\ Pending(MayAnnounce(i))' = 0
               /\ Pending(MayAnnounce(i)) \in {0, 1} /\ Pending(MayBreak(i)) \in {0, 1}
               /\ Pending(MayBreak(i))' \in {0, 1} /\ alarms[i] \in Nat
               /\ AtIt(i) \/ Pending(MayBreak(i))' = Pending(MayBreak(i))
    BY <1>1, Counters DEF Pending, MayAnnounce, MayBreak, AtIt, Present
  <2>2. crashes' \in Nat /\ faults' \in Nat
    BY Counters DEF SuccessNotRecorded, Crash
  <2> QED
    BY <1>1, <2>1, <2>2, Counters DEF Outage, AlarmsCounted
<1> QED
  BY <1>2, <1>3, <1>4 DEF Outage

(* The steps of handlers and poller, and those of a sync before its end.   *)
LEMMA BetweenOutage ==
  ASSUME IInv,
         \/ \E id \in AccountIds : RequestSync(id) \/ QueueSync(id) \/ ToolOffers(id)
         \/ CallTool \/ Tick \/ PollerOffers \/ MarkSyncing \/ Authorize \/ StoreData
         \/ UNCHANGED vars
  PROVE  Outage'
<1>1. UNCHANGED <<sync, alarms, renewals, disconnects, crashes, faults>>
  BY DEF vars, counters, RequestSync, QueueSync, ToolOffers, CallTool, Tick, PollerOffers,
     MarkSyncing, Authorize, StoreData
<1>2. CASE UNCHANGED <<accounts, pc>>
  BY <1>1, <1>2, QuietStep DEF Present
<1>3. CASE MarkSyncing
  <2>1. sync \in Sync
    BY <1>3, Counters DEF MarkSyncing
  <2>2. /\ Present' = Present
        /\ \A i \in Present :
             accounts'[i].status = IF i = sync.id THEN "syncing" ELSE accounts[i].status
    BY <1>3, <2>1, Counters, StatusSetTyped DEF MarkSyncing, Status
  <2>3. pc = "read" /\ pc' = "marked"
    BY <1>3 DEF MarkSyncing
  <2> QED
    BY <1>1, <2>2, <2>3, QuietStep
<1>4. CASE Authorize
  <2>1. pc = "marked" /\ pc' = "running" /\ sync \in Sync /\ sync.cred \in Credential
    BY <1>4, Counters DEF Authorize, Sync
  <2>2. /\ Present' = Present
        /\ \A i \in Present : accounts'[i].status = accounts[i].status
    BY <1>4, <2>1, Counters, CredentialSetTyped DEF Authorize, Present
  <2> QED
    BY <1>1, <2>1, <2>2, QuietStep
<1> QED
  BY <1>2, <1>3, <1>4
  DEF vars, RequestSync, QueueSync, ToolOffers, CallTool, Tick, PollerOffers, StoreData

LEMMA OutageStep ==
  ASSUME IInv, MaxAlarms > 0, [Next]_vars
  PROVE  Outage'
BY InsertOutage, RenewOutage, DisconnectOutage, ReadAccountOutage, SyncFailsOutage,
   PublishFailureOutage, SyncSucceedsOutage, BrokenOffOutage, BetweenOutage
DEF Next, WorkerStep, Connect

LEMMA AccountStep == AccountInv /\ [Next]_vars => AccountInv'
BY IInvLive, LiveStep, TypeStep, LaterSyncStep DEF AccountInv, LiveInv

-----------------------------------------------------------------------------
(* The theorems about what is published                                    *)

(* The table, the queue of main.go:42 and the worker's copy of the account *)
(* keep their types; the queue never exceeds its capacity.                 *)
THEOREM AccountInvariance == Spec => []AccountInv
<1>1. Init => AccountInv
  BY IInvInit DEF IInv
<1>2. AccountInv /\ [Next]_vars => AccountInv'
  BY AccountStep
<1> QED
  BY <1>1, <1>2, PTL DEF Spec

THEOREM TypeCorrect == Spec => []TypeOK
<1>1. AccountInv => TypeOK
  BY DEF AccountInv
<1> QED
  BY <1>1, AccountInvariance, PTL

(* sync.go:37, events.go:84: a sync that publishes imports writes to an    *)
(* account that has a successful sync on record, unless the id it writes   *)
(* to may have gone to another account.                                    *)
THEOREM FirstSyncIsSuppressed == Spec => FirstSyncSuppressed
<1>1. ASSUME AccountInv, [Next]_vars, imported' # imported
      PROVE  sync.id \in Present /\ (HasSynced(sync.id) \/ disconnects > 0)
  <2>1. StoreData
    BY <1>1
    DEF Next, WorkerStep, vars, Connect, Disconnect, RequestSync, QueueSync, CallTool, ToolOffers,
        Tick, PollerOffers, ReadAccount, MarkSyncing, Authorize, SyncFails, PublishFailure,
        SyncSucceeds, SuccessNotRecorded, Crash
  <2> QED
    BY <1>1, <2>1 DEF StoreData, AccountInv, LaterSyncKnown
<1>2. AccountInv /\ [Next]_vars
        => [imported' # imported =>
              sync.id \in Present /\ (HasSynced(sync.id) \/ disconnects > 0)]_vars
  BY <1>1
<1> QED
  BY <1>2, AccountInvariance, PTL DEF Spec, FirstSyncSuppressed

(* The inductive invariant.  Where alarms are not counted, none says that  *)
(* an error was announced.                                                 *)
THEOREM Invariance == Spec => [](MaxAlarms > 0 => IInv)
<1>1. Init => (MaxAlarms > 0 => IInv)
  BY IInvInit
<1>2. (MaxAlarms > 0 => IInv) /\ [Next]_vars => (MaxAlarms > 0 => IInv)'
  BY OutageStep, AccountStep DEF IInv, Outage
<1> QED
  BY <1>1, <1>2, PTL DEF Spec

(* sync.go:49-51: an account that shows `error` has had its failure        *)
(* published, or is about to, unless the app was stopped between the two   *)
(* statements or an id was given out again.                                *)
THEOREM ErrorsAreAnnounced == Spec => [](MaxAlarms > 0 => ErrorWasAnnounced)
<1>1. (MaxAlarms > 0 => IInv) => (MaxAlarms > 0 => ErrorWasAnnounced)
  BY DEF IInv
<1> QED
  BY <1>1, Invariance, PTL

(* sync.go:49-58: an outage is published once, and once more at most for   *)
(* each renewal, restart, unrecorded success or disconnection, whatever    *)
(* the handlers, the poller and the worker do to the account between them. *)
THEOREM AlarmsAlwaysBounded == Spec => []AlarmsBounded
<1>1. ASSUME TypeOK, MaxAlarms > 0 => IInv
      PROVE  AlarmsBounded
  <2>1. CASE MaxAlarms = 0
    <3>1. ASSUME NEW id \in Present PROVE alarms[id] = 0
      BY <1>1, <2>1 DEF TypeOK, Present
    <3>2. 0 <= 1 + renewals + disconnects + crashes + faults
      BY <1>1 DEF TypeOK
    <3> QED
      BY <3>1, <3>2 DEF AlarmsBounded
  <2>2. CASE MaxAlarms > 0
    <3>1. IInv
      BY <1>1, <2>2
    <3>2. ASSUME NEW id \in Present
          PROVE  /\ Pending(MayAnnounce(id)) \in {0, 1} /\ Pending(MayBreak(id)) \in {0, 1}
                 /\ alarms[id] \in Nat
      BY <3>1, Counters DEF Pending, Present
    <3> QED
      BY <3>1, <3>2, Counters DEF IInv, AlarmsCounted, AlarmsBounded
  <2> QED
    BY <2>1, <2>2, LifecycleAssumption DEF LifecycleAssumption
<1> QED
  BY <1>1, TypeCorrect, Invariance, PTL
=============================================================================
