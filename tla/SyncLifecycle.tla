--------------------------- MODULE SyncLifecycle ----------------------------
(***************************************************************************)
(* The life of the owner's accounts: connecting, renewing and              *)
(* disconnecting them (google.go, caldav.go, main.go), the bounded queue,  *)
(* the ten-minute poller and the one worker that syncs them (main.go), and *)
(* what a sync reads of its account before and writes to it after          *)
(* (sync.go).  What a sync does to events is GoogleSync and CalDAVSync;    *)
(* here it stores data, fails or succeeds.                                 *)
(*                                                                         *)
(* A sync works on the copy of the account row it read at its start, and   *)
(* writes by id.  Handlers run between any two of its steps, and an id is  *)
(* given out again once the newest account is gone.                        *)
(***************************************************************************)
EXTENDS Integers, Sequences, FiniteSets

CONSTANTS
  Emails,          \* identities of provider accounts
  Kinds,           \* providers that are set up: "gmail", "icloud"
  NoAccount,       \* an unused account id
  NoSync,          \* the worker has no account
  Keys,            \* encryption keys the app may be started with
  NoKey,           \* it is started without a usable one
  QueueCap,        \* capacity of the queue (main.go:42: 32)
  MaxAccounts,     \* bound: account ids
  MaxConnects,     \* bound: connections and renewals
  MaxDisconnects,  \* bound: disconnections
  MaxRequests,     \* bound: syncs asked for by handlers
  MaxCrashes,      \* bound: restarts of the app
  MaxFaults,       \* bound: successes whose UPDATE fails
  MaxUpsets,       \* bound: these three together
  MaxImports,      \* bound: counted imports
  MaxAlarms        \* bound: counted alarms of an outage

VARIABLES
  accounts,   \* accounts[id]: the row with that id, or NoAccount
  recency,    \* ids that have a last_sync_at, the oldest first
  holds,      \* holds[id]: whose calendars are stored under account id
  vault,      \* the key of this process, or NoKey
  calls,      \* ids that handlers are about to queue
  tool,       \* ids a sync_accounts call has still to queue
  queue,      \* the channel of sync requests
  poll,       \* ids the poller's current tick has still to offer
  pc,         \* where the worker is
  sync,       \* its copy of the account row
  imported,   \* calendar.event.imported published so far
  alarms,     \* alarms[id]: sync_failed published since its last success
  connects, renewals, disconnects, requests, crashes, faults

counters == <<connects, renewals, disconnects, requests, crashes, faults>>
vars == <<accounts, recency, holds, vault, calls, tool, queue, poll, pc, sync, imported,
          alarms, counters>>

AccountIds == 1..MaxAccounts
Status == {"pending", "syncing", "healthy", "error"}

(* A credential: which kind of provider it is for, the how-manieth         *)
(* connection it was obtained by, and the key it is sealed under.          *)
Credential == [kind: Kinds, gen: 1..MaxConnects, key: Keys]
Account == [email: Emails, provider: Kinds, cred: Credential, status: Status]
Sync == [id: AccountIds, email: Emails, provider: Kinds, cred: Credential,
         prev: Status, first: BOOLEAN]

ASSUME LifecycleAssumption ==
  /\ QueueCap \in Nat \ {0}
  /\ MaxAccounts \in Nat
  /\ MaxConnects \in Nat
  /\ MaxDisconnects \in Nat
  /\ MaxRequests \in Nat
  /\ MaxCrashes \in Nat
  /\ MaxFaults \in Nat
  /\ MaxUpsets \in Nat
  /\ MaxImports \in Nat
  /\ MaxAlarms \in Nat
  /\ NoAccount \notin Account
  /\ NoSync \notin Sync
  /\ NoKey \notin Keys
  /\ Kinds \subseteq {"gmail", "icloud"}

TypeOK ==
  /\ accounts \in [AccountIds -> Account \cup {NoAccount}]
  /\ recency \in Seq(AccountIds)
  /\ holds \in [AccountIds -> SUBSET Emails]
  /\ vault \in Keys \cup {NoKey}
  /\ calls \subseteq AccountIds /\ tool \subseteq AccountIds
  /\ queue \in Seq(AccountIds) /\ Len(queue) <= QueueCap
  /\ poll \in Seq(AccountIds)
  /\ pc \in {"idle", "read", "marked", "running", "failed"}
  /\ sync \in Sync \cup {NoSync}
  /\ imported \in 0..MaxImports
  /\ alarms \in [AccountIds -> 0..MaxAlarms]
  /\ connects \in 0..MaxConnects /\ renewals \in 0..MaxConnects
  /\ disconnects \in 0..MaxDisconnects
  /\ requests \in 0..MaxRequests
  /\ crashes \in 0..MaxCrashes
  /\ faults \in 0..MaxFaults

Init ==
  /\ accounts = [id \in AccountIds |-> NoAccount]
  /\ recency = <<>>
  /\ holds = [id \in AccountIds |-> {}]
  /\ vault \in Keys \cup {NoKey}
  /\ calls = {} /\ tool = {} /\ queue = <<>> /\ poll = <<>>
  /\ pc = "idle" /\ sync = NoSync
  /\ imported = 0
  /\ alarms = [id \in AccountIds |-> 0]
  /\ connects = 0 /\ renewals = 0 /\ disconnects = 0
  /\ requests = 0 /\ crashes = 0 /\ faults = 0

Present == {id \in AccountIds : accounts[id] # NoAccount}

(* last_sync_at of the row is set.                                         *)
HasSynced(id) == \E i \in DOMAIN recency : recency[i] = id

(* Mutant: an account that was never tried is the one syncing for the first *)
(* time.                                                                   *)
NeverTried(id) == accounts[id].status = "pending"

(* sync.go:37: no successful sync is on record.                            *)
FirstSync(id) == ~HasSynced(id)

(* A sequence that has id at most once, without it.                        *)
Without(s, id) ==
  IF \A i \in DOMAIN s : s[i] # id THEN s
  ELSE LET k == CHOOSE i \in DOMAIN s : s[i] = id
       IN  [i \in 1..(Len(s) - 1) |-> IF i < k THEN s[i] ELSE s[i + 1]]

MayUpset == requests + crashes + faults < MaxUpsets

-----------------------------------------------------------------------------
(* The handlers                                                            *)

(* The new credential, sealed under the key of the process.                *)
NewCredential(kind) == [kind |-> kind, gen |-> connects + 1, key |-> vault]

(* INSERT INTO accounts ... ON CONFLICT(login,email) DO UPDATE: renewing   *)
(* replaces the credential and the status, and nothing else.               *)
Insert(email, kind) ==
  /\ \A id \in Present : accounts[id].email # email
  /\ \E id \in AccountIds \ Present :
       /\ \A i \in Present : i < id
       /\ id = 1 \/ id - 1 \in Present
       /\ accounts' = [accounts EXCEPT ![id] =
            [email |-> email, provider |-> kind, status |-> "pending",
             cred |-> NewCredential(kind)]]
       /\ alarms' = [alarms EXCEPT ![id] = 0]
       /\ calls' = calls \cup {id}
  /\ UNCHANGED renewals

Renew(email, kind) ==
  /\ \E id \in Present :
       /\ accounts[id].email = email
       /\ accounts' = [accounts EXCEPT
            ![id].cred = NewCredential(kind), ![id].status = "pending"]
       /\ calls' = calls \cup {id}
  /\ renewals' = renewals + 1
  /\ UNCHANGED alarms

(* Without a key nothing can be sealed, and nothing is stored.             *)
Connect(email, kind) ==
  /\ connects < MaxConnects
  /\ vault # NoKey
  /\ connects' = connects + 1
  /\ Insert(email, kind) \/ Renew(email, kind)
  /\ UNCHANGED <<recency, holds, vault, tool, queue, poll, pc, sync, imported,
                 disconnects, requests, crashes, faults>>

(* DELETE FROM accounts: its calendars and events go by cascade.           *)
Disconnect(id) ==
  /\ disconnects < MaxDisconnects
  /\ disconnects' = disconnects + 1
  /\ id \in Present
  /\ accounts' = [accounts EXCEPT ![id] = NoAccount]
  /\ holds' = [holds EXCEPT ![id] = {}]
  /\ recency' = Without(recency, id)
  /\ UNCHANGED <<vault, calls, tool, queue, poll, pc, sync, imported, alarms,
                 connects, renewals, requests, crashes, faults>>

(* A manual sync, a tool, or a mutation of an event finds the account ...  *)
RequestSync(id) ==
  /\ requests < MaxRequests /\ MayUpset
  /\ requests' = requests + 1
  /\ id \in Present
  /\ calls' = calls \cup {id}
  /\ UNCHANGED <<accounts, recency, holds, vault, tool, queue, poll, pc, sync,
                 imported, alarms, connects, renewals, disconnects, crashes,
                 faults>>

(* Mutant: the queue grows.                                                *)
OfferedAnyway(id) == Append(queue, id)

(* ... and then queues it, or is told that the queue is busy.              *)
Offered(id) == IF Len(queue) < QueueCap THEN Append(queue, id) ELSE queue

QueueSync(id) ==
  /\ id \in calls
  /\ queue' = Offered(id)
  /\ calls' = calls \ {id}
  /\ UNCHANGED <<accounts, recency, holds, vault, tool, poll, pc, sync,
                 imported, alarms, counters>>

(* The tool sync_accounts lists the accounts, in no stated order, and      *)
(* queues one after the other; the first busy answer ends the call.        *)
CallTool ==
  /\ requests < MaxRequests /\ MayUpset
  /\ requests' = requests + 1
  /\ tool = {} /\ tool' = Present
  /\ UNCHANGED <<accounts, recency, holds, vault, calls, queue, poll, pc,
                 sync, imported, alarms, connects, renewals, disconnects,
                 crashes, faults>>

ToolOffers(id) ==
  /\ id \in tool
  /\ queue' = Offered(id)
  /\ tool' = IF Len(queue) < QueueCap THEN tool \ {id} ELSE {}
  /\ UNCHANGED <<accounts, recency, holds, vault, calls, poll, pc, sync,
                 imported, alarms, counters>>

-----------------------------------------------------------------------------
(* The poller                                                              *)

(* Mutants: an account that is broken, or is being synced, is passed over.  *)
PolledUnlessBroken == {id \in Present : accounts[id].status # "error"}
PolledUnlessSyncing == {id \in Present : accounts[id].status # "syncing"}

(* WHERE status!='disabled': nothing in the code disables an account.      *)
Polled == Present

(* ORDER BY COALESCE(last_sync_at,''): accounts that never synced, then    *)
(* the others, the longest ago first.                                      *)
Orders == {s \in [1..Cardinality(Polled) -> Polled] :
             /\ \A i, j \in DOMAIN s : s[i] = s[j] => i = j
             /\ \A i, j \in DOMAIN s :
                  i < j =>
                    \/ ~HasSynced(s[i])
                    \/ \E k, l \in DOMAIN recency :
                         recency[k] = s[i] /\ recency[l] = s[j] /\ k < l}

Tick ==
  /\ poll = <<>> /\ Polled # {}
  /\ poll' \in Orders
  /\ UNCHANGED <<accounts, recency, holds, vault, calls, tool, queue, pc,
                 sync, imported, alarms, counters>>

PollerOffers ==
  /\ poll # <<>>
  /\ queue' = Offered(Head(poll))
  /\ poll' = Tail(poll)
  /\ UNCHANGED <<accounts, recency, holds, vault, calls, tool, pc, sync,
                 imported, alarms, counters>>

-----------------------------------------------------------------------------
(* The worker: synchronizer.Sync                                           *)

EndSync == pc' = "idle" /\ sync' = NoSync

(* The credential was sealed under another key than the one at hand.       *)
Unreadable(id) == accounts[id].cred.key # vault

(* The account is read, unless it is gone, and its credential opened.  If  *)
(* that fails the sync is over, and the status is what it was.             *)
ReadAccount ==
  /\ pc = "idle" /\ queue # <<>>
  /\ queue' = Tail(queue)
  /\ LET id == Head(queue) IN
       IF id \in Present /\ ~Unreadable(id)
       THEN /\ pc' = "read"
            /\ sync' = [id |-> id, email |-> accounts[id].email,
                        provider |-> accounts[id].provider, cred |-> accounts[id].cred,
                        prev |-> accounts[id].status, first |-> FirstSync(id)]
       ELSE UNCHANGED <<pc, sync>>
  /\ UNCHANGED <<accounts, recency, holds, vault, calls, tool, poll, imported,
                 alarms, counters>>

(* Mutant: a failure is written under the deadline that caused it.         *)
StatusSetInTime(status) ==
  accounts' = IF sync.id \in Present /\ status # "error"
              THEN [accounts EXCEPT ![sync.id].status = status] ELSE accounts

(* UPDATE accounts SET status=... WHERE id=?                               *)
StatusSet(status) ==
  accounts' = IF sync.id \in Present
              THEN [accounts EXCEPT ![sync.id].status = status] ELSE accounts

MarkSyncing ==
  /\ pc = "read"
  /\ StatusSet("syncing")
  /\ pc' = "marked"
  /\ UNCHANGED <<recency, holds, vault, calls, tool, queue, poll, sync,
                 imported, alarms, counters>>

(* freshGoogle: an expiring access token is renewed, and the credential the *)
(* sync read is written back with it.  A credential for the other kind of  *)
(* provider gets nowhere.                                                  *)
Usable == sync.cred.kind = sync.provider

Authorize ==
  /\ pc = "marked" /\ Usable
  /\ \/ UNCHANGED accounts
     \/ /\ sync.provider = "gmail"
        /\ sync.id \in Present
        /\ accounts' = [accounts EXCEPT ![sync.id].cred = sync.cred]
  /\ pc' = "running"
  /\ UNCHANGED <<recency, holds, vault, calls, tool, queue, poll, sync,
                 imported, alarms, counters>>

(* Calendars and events are stored, and unknown events published unless    *)
(* this is a first sync.                                                   *)
StoreData ==
  /\ pc = "running"
  /\ sync.id \in Present
  /\ holds' = [holds EXCEPT ![sync.id] = @ \cup {sync.email}]
  /\ \/ UNCHANGED imported
     \/ ~sync.first /\ imported < MaxImports /\ imported' = imported + 1
  /\ UNCHANGED <<accounts, recency, vault, calls, tool, queue, poll, pc, sync,
                 alarms, counters>>

(* Mutants: every failure is published; only that of a healthy account is. *)
EveryFailure == TRUE
WasHealthy == sync.prev = "healthy"

(* sync.go:51: the copy of the account read before the sync was not broken. *)
NewlyBroken == sync.prev # "error"

(* The provider refuses or cannot be reached, the deadline passes, or the  *)
(* account is gone and a foreign key fails.                                *)
SyncFails ==
  /\ pc \in {"marked", "running"}
  /\ StatusSet("error")
  /\ IF NewlyBroken THEN pc' = "failed" /\ UNCHANGED sync ELSE EndSync
  /\ UNCHANGED <<recency, holds, vault, calls, tool, queue, poll, imported,
                 alarms, counters>>

PublishFailure ==
  /\ pc = "failed"
  /\ alarms' = [alarms EXCEPT ![sync.id] = IF @ < MaxAlarms THEN @ + 1 ELSE @]
  /\ EndSync
  /\ UNCHANGED <<accounts, recency, holds, vault, calls, tool, queue, poll,
                 imported, counters>>

SyncSucceeds ==
  /\ pc = "running"
  /\ StatusSet("healthy")
  /\ IF sync.id \in Present
     THEN /\ recency' = Append(Without(recency, sync.id), sync.id)
          /\ alarms' = [alarms EXCEPT ![sync.id] = 0]
     ELSE UNCHANGED <<recency, alarms>>
  /\ EndSync
  /\ UNCHANGED <<holds, vault, calls, tool, queue, poll, imported, counters>>

(* The UPDATE that records a success runs under the deadline of the sync.  *)
SuccessNotRecorded ==
  /\ pc = "running"
  /\ faults < MaxFaults /\ MayUpset
  /\ faults' = faults + 1
  /\ EndSync
  /\ UNCHANGED <<accounts, recency, holds, vault, calls, tool, queue, poll,
                 imported, alarms, connects, renewals, disconnects, requests,
                 crashes>>

(* The app restarts, perhaps with another key or without one: the table    *)
(* remains, the queue does not.                                            *)
Crash ==
  /\ crashes < MaxCrashes /\ MayUpset
  /\ crashes' = crashes + 1
  /\ vault' \in Keys \cup {NoKey}
  /\ calls' = {} /\ tool' = {} /\ queue' = <<>> /\ poll' = <<>>
  /\ EndSync
  /\ UNCHANGED <<accounts, recency, holds, imported, alarms, connects,
                 renewals, disconnects, requests, faults>>

EndsSync == SyncFails \/ SyncSucceeds

WorkerStep ==
  \/ ReadAccount \/ MarkSyncing \/ Authorize \/ StoreData \/ SyncFails \/ PublishFailure
  \/ SyncSucceeds \/ SuccessNotRecorded

Next ==
  \/ \E email \in Emails, kind \in Kinds : Connect(email, kind)
  \/ \E id \in AccountIds : Disconnect(id) \/ RequestSync(id) \/ QueueSync(id)
  \/ CallTool \/ \E id \in AccountIds : ToolOffers(id)
  \/ Tick \/ PollerOffers
  \/ WorkerStep
  \/ Crash

Spec == Init /\ [][Next]_vars

(* The poller and the worker run, and every sync ends within its three      *)
(* minutes (main.go:45).  Ticks are ten minutes apart: for up to three      *)
(* accounts, once handlers no longer ask for more, a tick finds what the    *)
(* one before it queued served.                                             *)
FairSpec ==
  /\ Spec
  /\ WF_vars(ReadAccount) /\ WF_vars(MarkSyncing) /\ WF_vars(EndsSync)
  /\ WF_vars(PublishFailure)
  /\ WF_vars(PollerOffers)
  /\ SF_vars(Tick /\ queue = <<>>)
  /\ <>[][Tick => queue = <<>>]_vars

-----------------------------------------------------------------------------
(* Safety                                                                  *)

(* The poller cannot notify again while an account stays broken            *)
(* (README.md:92-95): in one outage sync_failed is published once, and     *)
(* once more at most for each renewal, restart, unrecorded success, or     *)
(* disconnection of an account whose id was given out again.               *)
AlarmsBounded ==
  \A id \in Present : alarms[id] <= 1 + renewals + disconnects + crashes + faults

(* README.md:65: an account that turns broken is announced.  A broken one  *)
(* was, or is about to be, unless the app was stopped between the status   *)
(* and the publication: from then on it counts as broken already, and no   *)
(* later sync announces it (sync.go:49-51).  A disconnection lets a sync   *)
(* of the account before write to the one that took over its id.           *)
ErrorWasAnnounced ==
  \A id \in Present :
    accounts[id].status = "error" =>
      \/ alarms[id] > 0
      \/ pc = "failed" /\ sync.id = id
      \/ crashes + disconnects > 0

(* An account shows `syncing` only while the worker is at it, unless the   *)
(* app was stopped or a success could not be recorded.                     *)
SyncingIsLive ==
  \A id \in Present :
    accounts[id].status = "syncing" =>
      \/ pc # "idle" /\ sync.id = id
      \/ crashes + faults > 0

(* README.md:78-81: until an account has a successful sync on record,      *)
(* imports publish nothing, whatever was renewed, queued twice or restarted *)
(* since the sync began, unless an account was disconnected: the id the    *)
(* sync writes to may have gone to another one.                            *)
FirstSyncSuppressed ==
  [][imported' # imported =>
       sync.id \in Present /\ (HasSynced(sync.id) \/ disconnects > 0)]_vars

(* README.md:92-95: sync_failed fires once per outage, and can fire again  *)
(* only after a successful sync resets the status.                         *)
OncePerOutage == \A id \in Present : alarms[id] <= 1

(* README.md:98-100: disconnecting deletes the account's locally synced    *)
(* calendars and events.  None is left under another account.              *)
HoldsOwnData == \A id \in Present : holds[id] \subseteq {accounts[id].email}

-----------------------------------------------------------------------------
(* The inductive invariant: what a sync may rely on of the account it read, *)
(* and what it may not.                                                    *)

(* The worker holds an account whenever it is not idle, and publishes a    *)
(* failure only of one that was not broken when it was read.               *)
HoldsAccount ==
  /\ pc # "idle" => sync \in Sync
  /\ pc = "failed" => sync.prev # "error"

(* The account may be gone by then, but only by a disconnection.           *)
SyncedIsPresent == pc # "idle" => sync.id \in Present \/ disconnects > 0

(* An account that shows `syncing` has been marked by the sync under way,  *)
(* which has not yet failed.                                               *)
MarkedByWorker ==
  \A id \in Present :
    accounts[id].status = "syncing" =>
      \/ pc \in {"marked", "running"} /\ sync.id = id
      \/ crashes + faults > 0

(* A sync that publishes imports read an account that had synced before.   *)
LaterSyncKnown ==
  pc # "idle" /\ ~sync.first => HasSynced(sync.id) \/ disconnects > 0

(* The sync of an account that was broken when it was read will publish no *)
(* failure: one was published.                                             *)
BrokenIsKnown ==
  pc \in {"read", "marked", "running"} /\ sync.prev = "error" =>
    \/ alarms[sync.id] > 0
    \/ crashes + disconnects > 0

(* Each alarm of an account was paid for, and so is the one that the sync  *)
(* under way may still publish, or the next sync of an account that is not *)
(* broken.                                                                 *)
AtIt(id) == pc # "idle" /\ sync.id = id
MayAnnounce(id) == AtIt(id) /\ sync.prev # "error"
MayBreak(id) == accounts[id].status # "error" /\ (AtIt(id) => pc = "failed")
Pending(p) == IF p THEN 1 ELSE 0

AlarmsCounted ==
  \A id \in Present :
    alarms[id] + Pending(MayAnnounce(id)) + Pending(MayBreak(id))
      <= 1 + renewals + disconnects + crashes + faults

(* What holds of the account under way, and then of its alarms.            *)
AccountInv ==
  /\ TypeOK
  /\ HoldsAccount
  /\ MarkedByWorker
  /\ LaterSyncKnown
  /\ renewals <= connects

IInv ==
  /\ AccountInv
  /\ SyncedIsPresent
  /\ ErrorWasAnnounced
  /\ BrokenIsKnown
  /\ AlarmsCounted

-----------------------------------------------------------------------------
(* Liveness, under FairSpec                                                *)

(* Every connected account whose credential can be opened is synced again  *)
(* and again, whatever else fails and whichever call found the queue busy, *)
(* as long as the queue holds them all.                                    *)
EveryAccountServed ==
  \A id \in AccountIds :
    []<>(id \notin Present \/ Unreadable(id) \/ (pc = "read" /\ sync.id = id))

(* No account shows `syncing` for ever: after a restart the poller sees to *)
(* it, if the app still has the key.                                       *)
SyncingEnds ==
  \A id \in AccountIds :
    (id \in Present /\ accounts[id].status = "syncing")
      ~> (id \notin Present \/ accounts[id].status # "syncing" \/ Unreadable(id))
=============================================================================
