----------------------------- MODULE Friendship -----------------------------
(***************************************************************************)
(* The friendship of two users in user-service: the row both of them share  *)
(* in table friendShip (its key is the sorted pair of user ids) and the use  *)
(* cases send, accept, cancel, decline and remove (unfriend).  Each HTTP    *)
(* call first reads the row, then writes it and then publishes an event,    *)
(* awaiting each time, so that calls of both users, on any of their         *)
(* devices, interleave there; the row is not locked and the write does not  *)
(* repeat the check.                                                        *)
(*                                                                          *)
(* The checks on users and blocks that come first only make a call throw    *)
(* before it has done anything, and are left out: what is modelled are the  *)
(* calls that pass them.  Only send records who the caller is: accept,      *)
(* cancel and decline do not look at which side of the request it is on.    *)
(***************************************************************************)
EXTENDS Naturals, Sequences, FiniteSets

CONSTANTS
  User,        \* the two users
  Call,        \* HTTP calls; each is made once
  Partition,   \* partitions of FRIENDSHIP_EVENTS_TOPIC
  MaxFaults    \* bound: restarts and publishes without an ack

ASSUME FriendshipAssumption == MaxFaults \in Nat

Op == {"send", "accept", "cancel", "decline", "remove"}

VARIABLES
  rows,         \* the table's rows for the pair: at most one
  ids,          \* how many rows were ever created
  calls,        \* per call, what it does and how far it is
  created,      \* how many events were created
  friendTopic,  \* per partition, the events published
  friendFaults

vars == <<rows, ids, calls, created, friendTopic, friendFaults>>

Row == [id : Nat, requester : User, status : {"PENDING", "ACCEPTED"}]
FriendshipEvent ==
  [type : {"SENT", "ACCEPTED", "CANCELLED", "DECLINED", "DELETED"},
   id : Nat, requester : User, status : {"PENDING", "ACCEPTED", "DECLINED"}]
Message == [event : FriendshipEvent, at : Nat]   \* at stands for the event's timestamp

\* The payload is the row as the write returned it.
EventFor(type, row) ==
  [type |-> type, id |-> row.id, requester |-> row.requester,
   status |-> IF type = "DECLINED" THEN "DECLINED" ELSE row.status]

NotMade == [pc |-> "new"]
Done    == [pc |-> "done"]

At(c, pc, ops) == calls[c].pc = pc /\ calls[c].op \in ops

----------------------------------------------------------------------------
FriendInit ==
  /\ rows         = {}
  /\ ids          = 0
  /\ calls        = [c \in Call |-> NotMade]
  /\ created      = 0
  /\ friendTopic  = [p \in Partition |-> << >>]
  /\ friendFaults = 0

\* retriveFriendship: a call that finds nothing to do throws.
Finds(op) ==
  CASE op = "send"   -> rows = {}
    [] op = "remove" -> rows # {}
    [] OTHER         -> \E row \in rows : row.status = "PENDING"

Make(c, op) ==
  /\ calls[c].pc = "new"
  /\ Finds(op)
  /\ calls' = [calls EXCEPT ![c] = [pc |-> "found", op |-> op]]
  /\ UNCHANGED <<rows, ids, created, friendTopic, friendFaults>>

Wrote(c, event) ==
  /\ calls' = [calls EXCEPT ![c] = [pc |-> "wrote", event |-> event]]
  /\ UNCHANGED <<created, friendTopic, friendFaults>>

Free == rows = {}

\* slip: an upsert, which turns the other user's request into one's own
CreateUpserts(c, by) ==
  /\ At(c, "found", {"send"})
  /\ LET row == [id |-> IF Free THEN ids + 1 ELSE ids, requester |-> by, status |-> "PENDING"]
     IN  /\ rows' = {row}
         /\ Wrote(c, EventFor("SENT", row))
         /\ ids' = row.id

\* addFriendRequest: create fails when there is a row by now.
CreateRow(c, by) ==
  /\ At(c, "found", {"send"})
  /\ Free
  /\ LET row == [id |-> ids + 1, requester |-> by, status |-> "PENDING"]
     IN  /\ rows' = rows \cup {row}
         /\ Wrote(c, EventFor("SENT", row))
  /\ ids' = ids + 1

\* updateFriendRequest: update fails when the row is gone by now.
Accept(c) ==
  /\ At(c, "found", {"accept"})
  /\ \E row \in rows :
       LET accepted == [row EXCEPT !.status = "ACCEPTED"]
       IN  /\ rows' = (rows \ {row}) \cup {accepted}
           /\ Wrote(c, EventFor("ACCEPTED", accepted))
  /\ UNCHANGED ids

Ending == [cancel |-> "CANCELLED", decline |-> "DECLINED", remove |-> "DELETED"]

Left(row) == rows \ {row}

\* deleteFriendship: delete fails when the row is gone by now.
Delete(c) ==
  /\ At(c, "found", {"cancel", "decline", "remove"})
  /\ \E row \in rows :
       /\ rows' = Left(row)
       /\ Wrote(c, EventFor(Ending[calls[c].op], row))
  /\ UNCHANGED ids

\* The row is not as the call found it: prisma throws.
WriteThrows(c) ==
  /\ calls[c].pc = "found"
  /\ IF calls[c].op = "send" THEN ~Free ELSE rows = {}
  /\ calls' = [calls EXCEPT ![c] = Done]
  /\ UNCHANGED <<rows, ids, created, friendTopic, friendFaults>>

\* createEvent stamps the event once the reply to the write is back, which
\* need not be the order in which the database did the writes.
CreateEvent(c) ==
  /\ calls[c].pc = "wrote"
  /\ calls' = [calls EXCEPT ![c] =
                 [pc |-> "publish", message |-> [event |-> @.event, at |-> created + 1]]]
  /\ created' = created + 1
  /\ UNCHANGED <<rows, ids, friendTopic, friendFaults>>

\* The message has no key: any partition may get it.
PublishEvent(c, p) ==
  /\ calls[c].pc = "publish"
  /\ friendTopic' = [friendTopic EXCEPT ![p] = Append(@, calls[c].message)]
  /\ calls' = [calls EXCEPT ![c] = Done]
  /\ UNCHANGED <<rows, ids, created, friendFaults>>

\* No ack: EventBusError, although the row is written.
PublishFails(c) ==
  /\ calls[c].pc = "publish"
  /\ friendFaults < MaxFaults
  /\ friendFaults' = friendFaults + 1
  /\ calls' = [calls EXCEPT ![c] = Done]
  /\ UNCHANGED <<rows, ids, created, friendTopic>>

\* user-service restarts: the calls it was serving are gone.
Restart ==
  /\ friendFaults < MaxFaults
  /\ friendFaults' = friendFaults + 1
  /\ calls' = [c \in Call |-> IF calls[c].pc = "new" THEN NotMade ELSE Done]
  /\ UNCHANGED <<rows, ids, created, friendTopic>>

Proceed(c) ==
  \/ \E by \in User : CreateRow(c, by)
  \/ Accept(c) \/ Delete(c) \/ WriteThrows(c)
  \/ CreateEvent(c)
  \/ \E p \in Partition : PublishEvent(c, p)
  \/ PublishFails(c)

FriendNext ==
  \/ \E c \in Call, op \in Op : Make(c, op)
  \/ \E c \in Call : Proceed(c)
  \/ Restart

FriendSpec == FriendInit /\ [][FriendNext]_vars

----------------------------------------------------------------------------
Published == UNION {{friendTopic[p][i].event : i \in 1 .. Len(friendTopic[p])} : p \in Partition}
InCall(c) ==
  CASE calls[c].pc = "wrote"   -> {calls[c].event}
    [] calls[c].pc = "publish" -> {calls[c].message.event}
    [] OTHER                   -> {}
Pending      == UNION {InCall(c) : c \in Call}
EventsOf(id) == {e \in Published \cup Pending : e.id = id}

Ended == {"CANCELLED", "DECLINED", "DELETED"}

\* However calls race, two requests never coexist, and of the calls that want
\* to end one, exactly one does.  Consumers can tell the table from the events
\* alone: an id has one SENT, one ending if and only if the row is gone, and an
\* ACCEPTED if and only if the row is accepted, even when an accept that had
\* found one request ends up accepting the one made after it.
EventsTellTheStory ==
  /\ Cardinality(rows) <= 1
  /\ friendFaults = 0 => \A id \in 1 .. ids :
       /\ Cardinality({e \in EventsOf(id) : e.type = "SENT"}) = 1
       /\ Cardinality({e \in EventsOf(id) : e.type \in Ended})
            = IF \E row \in rows : row.id = id THEN 0 ELSE 1
  /\ friendFaults = 0 => \A row \in rows :
       row.status = "ACCEPTED" <=> \E e \in EventsOf(row.id) : e.type = "ACCEPTED"

\* FriendRequest.usecase.ts:160 ("cannot cancel a accepted friend request") and
\* :205 ("Cannot decline a accepted request. Try unfriending"): a friendship
\* that was accepted ends only by unfriending.
OnlyUnfriendingEndsFriendship ==
  [][\A row \in rows \ rows' : row.status = "ACCEPTED" =>
       \E c \in Call : calls[c].pc = "found" /\ calls[c].op = "remove"
                         /\ calls'[c] # calls[c]]_vars
==============================================================================
