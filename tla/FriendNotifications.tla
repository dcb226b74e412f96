------------------------- MODULE FriendNotifications -------------------------
(***************************************************************************)
(* The friend request notifications of notification-service, composed with  *)
(* the user-service calls of module Friendship: one consumer reads the      *)
(* friendship events, partition by partition, and keeps two collections,    *)
(* the request notifications (for the receiver) and the accepted ones (for  *)
(* the requester), both looked up by the id of the friendship row.          *)
(*                                                                          *)
(* Times are compared only in one place: an ACCEPTED event is refused when  *)
(* the notification's updatedAt is later than the event's timestamp.  A     *)
(* notification therefore carries how many events had been created when it  *)
(* was last written; clocks are taken to agree.                             *)
(***************************************************************************)
EXTENDS Friendship

CONSTANT MaxMishaps   \* bound: restarts of notification-service, handlers that throw

ASSUME FriendNotificationsAssumption == MaxMishaps \in Nat

VARIABLES
  reqNotis,   \* friend request notifications
  accNotis,   \* ids of the accepted-request notifications
  position,   \* per partition, how many messages were handled
  committed,  \* per partition, how many of them kafkajs has surely committed
  halfway,    \* the message whose second write is still to come, if any
  mishaps,
  hurried     \* history: a user acted before the effects of an earlier call were in

notiVars == <<reqNotis, accNotis, position, committed, halfway, mishaps>>
allVars  == <<vars, notiVars, hurried>>

NotiInit ==
  /\ FriendInit
  /\ reqNotis  = {}
  /\ accNotis  = {}
  /\ position  = [p \in Partition |-> 0]
  /\ committed = [p \in Partition |-> 0]
  /\ halfway   = {}
  /\ mishaps   = 0
  /\ hurried   = FALSE

NotisOf(id) == {n \in reqNotis : n.id = id}

NextOf(p) == friendTopic[p][position[p] + 1]

\* eachMessage is entered with the next message of partition p.
Receives(p, types) ==
  /\ halfway = {}
  /\ position[p] < Len(friendTopic[p])
  /\ NextOf(p).event.type \in types

MovesOn(p) == position' = [position EXCEPT ![p] = @ + 1]

NotYetThereUnchecked(id) == TRUE   \* slip: no look for an existing entry
NotYetThere(id) == NotisOf(id) = {}

\* create; here and below an error is logged and the message counts as handled.
HandleSent(p) ==
  /\ Receives(p, {"SENT"})
  /\ LET e == NextOf(p).event
         n == [id |-> e.id, status |-> e.status, updatedAt |-> created]
     IN  reqNotis' = IF NotYetThere(e.id) THEN reqNotis \cup {n} ELSE reqNotis
  /\ MovesOn(p)
  /\ UNCHANGED <<accNotis, committed, halfway, mishaps>>

CurrentReversed(n, m) == n.updatedAt > m.at   \* slip: compared the wrong way
Current(n, m) == n.updatedAt < m.at

\* updateFriendReqStatus, the first of two writes.
HandleAccepted(p) ==
  /\ Receives(p, {"ACCEPTED"})
  /\ LET m == NextOf(p)
         n == {x \in NotisOf(m.event.id) : Current(x, m)}
     IN  IF n # {}
         THEN /\ reqNotis' = (reqNotis \ n) \cup
                   {[x EXCEPT !.status = m.event.status, !.updatedAt = created] : x \in n}
              /\ halfway' = {[partition |-> p, event |-> m.event]}
              /\ UNCHANGED position
         ELSE MovesOn(p) /\ UNCHANGED <<reqNotis, halfway>>
  /\ UNCHANGED <<accNotis, committed, mishaps>>

\* delete, for a request cancelled or declined, or as the first of two writes.
HandleEnded(p) ==
  /\ Receives(p, Ended)
  /\ reqNotis' = reqNotis \ NotisOf(NextOf(p).event.id)
  /\ IF NextOf(p).event.type = "DELETED"
     THEN /\ halfway' = {[partition |-> p, event |-> NextOf(p).event]}
          /\ UNCHANGED position
     ELSE MovesOn(p) /\ UNCHANGED halfway
  /\ UNCHANGED <<accNotis, committed, mishaps>>

\* The second write: create or delete the accepted notification.
SecondWrite ==
  \E h \in halfway :
    /\ accNotis' = IF h.event.type = "ACCEPTED" THEN accNotis \cup {h.event.id}
                                                ELSE accNotis \ {h.event.id}
    /\ MovesOn(h.partition)
    /\ halfway' = {}
    /\ UNCHANGED <<reqNotis, committed, mishaps>>

\* Between the two writes the handler asks who is online and who the actor is;
\* when that throws, the second write is skipped and the message counts as
\* handled.
ThrowsHalfway ==
  /\ mishaps < MaxMishaps
  /\ mishaps' = mishaps + 1
  /\ \E h \in halfway : MovesOn(h.partition)
  /\ halfway' = {}
  /\ UNCHANGED <<reqNotis, accNotis, committed>>

\* markAsRead is an update like any other: mongoose sets updatedAt.
MarkAsRead(n) ==
  /\ reqNotis' = (reqNotis \ {n}) \cup {[n EXCEPT !.updatedAt = created]}
  /\ UNCHANGED <<accNotis, position, committed, halfway, mishaps>>

\* notification-service restarts and reads on from some committed offsets.
RestartConsumer ==
  /\ mishaps < MaxMishaps
  /\ mishaps' = mishaps + 1
  /\ \E back \in [Partition -> 0 .. Cardinality(Call)] :
       /\ \A p \in Partition : back[p] \in committed[p] .. position[p]
       /\ position'  = back
       /\ committed' = back
  /\ halfway' = {}
  /\ UNCHANGED <<reqNotis, accNotis>>

ConsumerStep ==
  \/ \E p \in Partition : HandleSent(p) \/ HandleAccepted(p) \/ HandleEnded(p)
  \/ SecondWrite
  \/ ThrowsHalfway

Idle    == \A c \in Call : calls[c].pc \in {"new", "done"}
Drained == halfway = {} /\ \A p \in Partition : position[p] = Len(friendTopic[p])
CaughtUp == Idle /\ Drained

UserActs == hurried' = (hurried \/ ~CaughtUp)

NotiNext ==
  \/ (\E c \in Call, op \in Op : Make(c, op)) /\ UserActs /\ UNCHANGED notiVars
  \/ (\E n \in reqNotis : MarkAsRead(n)) /\ UserActs /\ UNCHANGED vars
  \/ ((\E c \in Call : Proceed(c)) \/ Restart) /\ UNCHANGED <<notiVars, hurried>>
  \/ (ConsumerStep \/ RestartConsumer) /\ UNCHANGED <<vars, hurried>>

NotiSpec == NotiInit /\ [][NotiNext]_allVars

----------------------------------------------------------------------------

\* However events are reordered and redelivered, a request never has two
\* notifications, and an accepted one never falls back to pending: "we dont
\* what a old event overriding the existing doc in case of retry".
RetriesAreHarmless ==
  [][ /\ \A id \in 1 .. ids : Cardinality(NotisOf(id)') <= 1
      /\ \A n \in reqNotis, x \in reqNotis' :
           n.id = x.id /\ n.status = "ACCEPTED" => x.status = "ACCEPTED" ]_allVars

\* If nobody hurries (acts before what was done earlier has arrived) and
\* nothing fails, the notifications mirror the table whenever everything was
\* handled: a request has one exactly while its row is there, with the row's
\* status, and exactly an accepted one has its accepted notification.  (After a
\* restart this may fail: a SENT read again from one partition comes after the
\* CANCELLED handled from another.)
NotificationsMirrorRows ==
  CaughtUp /\ ~hurried /\ friendFaults + mishaps = 0 =>
    /\ {[id |-> n.id, status |-> n.status] : n \in reqNotis}
         = {[id |-> row.id, status |-> row.status] : row \in rows}
    /\ accNotis = {row.id : row \in {r \in rows : r.status = "ACCEPTED"}}
============================================================================
