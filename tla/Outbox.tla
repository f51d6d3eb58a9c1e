------------------------------- MODULE Outbox -------------------------------
(***************************************************************************)
(* What a two-way synchronisation promises the owner of a calendar account *)
(* (README.md:162-163): local mutations are queued, a queued mutation is   *)
(* retained until the provider has answered for it, and what is queued is  *)
(* never touched by what comes in.  Only the life of an entry is told      *)
(* here; requests, pages, calendars and identifiers belong to GoogleSync   *)
(* and CalDAVSync, which are shown to implement this module.               *)
(***************************************************************************)
EXTENDS Naturals

CONSTANTS
  Ids,        \* names of entries
  NoEntry,    \* an unused name
  NoOffer,    \* nothing is being sent
  MayForget   \* a cancelled entry may be discarded although it was sent once

VARIABLES
  box,        \* box[id]: the entry with that name
  offered     \* the one entry being sent, and whether as a cancellation

outbox == <<box, offered>>

(* sent: the provider was told of it; queued: it has something to tell;    *)
(* gone: the owner cancelled it.                                           *)
Entry == [sent: BOOLEAN, queued: BOOLEAN, gone: BOOLEAN]
Offers == [id: Ids, gone: BOOLEAN]

Used == {id \in Ids : box[id] # NoEntry}

Init ==
  /\ box = [id \in Ids |-> NoEntry]
  /\ offered = NoOffer

(* The owner *)

Put(id) ==
  /\ id \notin Used
  /\ box' = [box EXCEPT ![id] = [sent |-> FALSE, queued |-> TRUE, gone |-> FALSE]]
  /\ UNCHANGED offered

Change(id) ==
  /\ id \in Used
  /\ box' = [box EXCEPT ![id].queued = TRUE]
  /\ UNCHANGED offered

Cancel(id) ==
  /\ id \in Used
  /\ box' = [box EXCEPT ![id].queued = TRUE, ![id].gone = TRUE]
  /\ UNCHANGED offered

(* The synchronisation *)

(* A cancellation is offered only for an entry that is cancelled.          *)
Offer(id, gone) ==
  /\ offered = NoOffer
  /\ id \in Used
  /\ box[id].queued
  /\ gone => box[id].gone
  /\ offered' = [id |-> id, gone |-> gone]
  /\ UNCHANGED box

(* Only the answer to its own offer takes an entry off the queue.          *)
Acknowledge ==
  /\ offered # NoOffer
  /\ offered.id \in Used
  /\ box' = IF offered.gone
            THEN [box EXCEPT ![offered.id] = NoEntry]
            ELSE [box EXCEPT ![offered.id].sent = TRUE, ![offered.id].queued = FALSE]
  /\ offered' = NoOffer

Abandon ==
  /\ offered # NoOffer
  /\ offered' = NoOffer
  /\ UNCHANGED box

Discard(id) ==
  /\ id \in Used
  /\ box[id].gone
  /\ ~box[id].sent \/ MayForget
  /\ box' = [box EXCEPT ![id] = NoEntry]
  /\ UNCHANGED offered

Receive(id) ==
  /\ id \notin Used
  /\ box' = [box EXCEPT ![id] = [sent |-> TRUE, queued |-> FALSE, gone |-> FALSE]]
  /\ UNCHANGED offered

Withdraw(id) ==
  /\ id \in Used
  /\ ~box[id].queued
  /\ box' = [box EXCEPT ![id] = NoEntry]
  /\ UNCHANGED offered

Next ==
  \/ \E id \in Ids :
       \/ Put(id) \/ Change(id) \/ Cancel(id)
       \/ Discard(id) \/ Receive(id) \/ Withdraw(id)
       \/ \E gone \in BOOLEAN : Offer(id, gone)
  \/ Acknowledge
  \/ Abandon

Spec == Init /\ [][Next]_outbox
=============================================================================
