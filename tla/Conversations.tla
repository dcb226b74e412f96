---------------------------- MODULE Conversations ----------------------------
(***************************************************************************)
(* One-to-one conversations of chat-service: websocket handlers send and    *)
(* delete messages and note when a conversation was opened, while the same  *)
(* clients read the history page by page, list their conversations, search  *)
(* and clear over HTTP.                                                     *)
(*                                                                          *)
(* A send looks the conversation up (through a redis entry), creates it if  *)
(* there is none, stores the message in a transaction and only then tells   *)
(* the devices that are online; it awaits each time, so that sends, page    *)
(* loads and reconnects interleave there.  A socket handles one send or     *)
(* deletion at a time here; devices of a user run side by side.             *)
(*                                                                          *)
(* Conversations are numbered as they are created (ObjectIds grow).  Times  *)
(* are small numbers of one clock, which may stand still between two        *)
(* stamps; 0 is the start of the process: createdAt defaults to it, as the  *)
(* schema calls Date.now() once.  POST /convo never gets past its check for *)
(* req.user (its route has no isAuthenticatedV2), so there are no groups.   *)
(***************************************************************************)
EXTENDS Naturals, Sequences, FiniteSets

CONSTANTS
  User,
  Socket,        \* the sockets of devices
  UserOf,        \* the user of each
  Writes,        \* the users each writes to
  Client,        \* the device whose screen is looked at,
  Peer,          \*   and with whom, other than its user, it shows the conversation
  PageSize,      \* limit of both lists
  MaxTime,       \* bound: the clock
  MaxActs        \* bound: sends, clears, opens, deletions, expiries, lost connections

ASSUME ConversationsAssumption ==
  /\ UserOf \in [Socket -> User] /\ Writes \in [Socket -> SUBSET User]
  /\ Client \in Socket /\ Peer \in User \ {UserOf[Client]} /\ PageSize \in Nat \ {0}
  /\ IsFiniteSet(User)
  /\ MaxTime \in Nat \ {0} /\ MaxActs \in Nat

VARIABLES
  convos,     \* participants of each conversation
  cache,      \* redis: the conversation known for a pair, 0 for none
  updatedAt,  \* convofreqchangingmetadatas, 0 for none
  opened,     \* conovusermetadatas: lastOpenedAt and
  cleared,    \*   clearedAt, per user and conversation, 0 for none
  messages,   \* the messages collection
  deleted,    \* ids of the messages with status.deleted
  sent,       \* how many sends were begun,
  clock,
  sending,    \* what each socket's handler is doing
  online,     \* connected devices
  acts,       \*   and how many other bounded acts done
  screen,     \* what the client shows: a conversation or the list of them
  reader,     \* how far it has loaded
  view,       \* the messages it was shown, and
  gone        \*   those it knows to be deleted

store   == <<convos, cache, updatedAt, opened, cleared, messages, deleted>>
client  == <<screen, reader, view, gone>>
convoVars == <<store, sent, acts, clock, sending, online, client>>

Reader == UserOf[Client]

Pair == {{u, v} : u \in User, v \in User}
Id   == 1 .. MaxActs
Idle == [pc |-> "idle"]
Top  == [at |-> MaxTime + 1, id |-> 0]    \* no cursor: from the newest on

Message == [id : Id, convo : Id, from : User, to : User, at : 1 .. MaxTime]

ConvoInit ==
  /\ convos = << >> /\ updatedAt = [c \in Id |-> 0]
  /\ cache  = [p \in Pair |-> 0]
  /\ opened  = [u \in User |-> [c \in Id |-> 0]]
  /\ cleared = [u \in User |-> [c \in Id |-> 0]]
  /\ messages = {} /\ deleted = {}
  /\ sent = 0 /\ acts = 0 /\ clock = 1
  /\ sending = [d \in Socket |-> Idle]
  /\ online = Socket
  /\ screen \in {"history", "recent"}
  /\ reader = [pc |-> "load", from |-> Top]
  /\ view = {} /\ gone = {}

Counted == sent + acts < MaxActs /\ acts' = acts + 1

\* new Date(): the clock may or may not have moved on.
Stamp(t) ==
  /\ t \in {clock, clock + 1} /\ t <= MaxTime
  /\ clock' = t

Doing(d, pc) == sending[d].pc = pc
Go(d, task) == sending' = [sending EXCEPT ![d] = task]
DevicesOf(u) == {d \in online : UserOf[d] = u}
Show(to, ids) == view' = IF Client \in to THEN view \cup ids ELSE view

----------------------------------------------------------------------------
(* Looking a conversation up                                                *)

FoundAny(pair) ==    \* slip: $in instead of $all
  {c \in 1 .. Len(convos) : pair \cap convos[c] # {}}
\* $all: for a message to oneself any conversation of the user will do.
Found(pair) == {c \in 1 .. Len(convos) : pair \subseteq convos[c]}

\* Read through the cache; 0 when there is none.  The query does not sort.
Lookup(pair) ==
  CASE cache[pair] # 0   -> {cache[pair]}
    [] Found(pair) = {}  -> {0}
    [] OTHER             -> Found(pair)

Remember(pair, c) == cache' = [cache EXCEPT ![pair] = c]

\* Five minutes have passed.
CacheExpires(pair) ==
  /\ cache[pair] # 0 /\ Counted
  /\ Remember(pair, 0)
  /\ UNCHANGED <<convos, updatedAt, opened, cleared, messages, deleted, sent,
                 clock, sending, online, client>>

----------------------------------------------------------------------------
(* send-one-to-one-message                                                  *)

Composed(d, to, c, t) ==
  [pc |-> "write",
   message |-> [id |-> sent', convo |-> c, from |-> UserOf[d], to |-> to, at |-> t]]

\* The lookup; when it finds a conversation the message is stamped at once.
Send(d, to) ==
  /\ d \in online /\ Doing(d, "idle") /\ sent + acts < MaxActs
  /\ sent' = sent + 1
  /\ LET pair == {UserOf[d], to} IN
     \E c \in Lookup(pair) :
       /\ Remember(pair, c)
       /\ IF c = 0
          THEN /\ Go(d, [pc |-> "create", to |-> to, id |-> sent'])
               /\ UNCHANGED clock
          ELSE \E t \in 1 .. MaxTime : Stamp(t) /\ Go(d, Composed(d, to, c, t))
  /\ UNCHANGED <<convos, updatedAt, opened, cleared, messages, deleted, acts, online, client>>

Participants(d, to) == {UserOf[d], to}

\* The conversation is not looked for again.
Create(d) ==
  /\ Doing(d, "create")
  /\ LET to == sending[d].to IN
     /\ convos' = Append(convos, Participants(d, to))
     /\ \E t \in 1 .. MaxTime :
          /\ Stamp(t)
          /\ Go(d, [pc |-> "write",
                    message |-> [id |-> sending[d].id, convo |-> Len(convos'),
                                 from |-> UserOf[d], to |-> to, at |-> t]])
  /\ UNCHANGED <<cache, updatedAt, opened, cleared, messages, deleted, sent, acts,
                 online, client>>

\* The transaction inserts the message and sets updatedAt of its conversation.
Commit(d) ==
  /\ Doing(d, "write")
  /\ LET m == sending[d].message IN
     /\ messages' = messages \cup {m}
     /\ updatedAt' = [updatedAt EXCEPT ![m.convo] = clock]
     /\ Go(d, [pc |-> "ask", message |-> m])
     /\ reader' = IF screen = "recent" /\ reader.pc # "load"
                  THEN [reader EXCEPT !.due = @ \ {m.convo}] ELSE reader
  /\ UNCHANGED <<convos, cache, opened, cleared, deleted, sent, acts, clock, online,
                 screen, view, gone>>

\* Another transaction updates the same document: this one is aborted, and
\* nobody tries again; the client gets success: false.
WriteConflict(d) ==
  /\ Doing(d, "write")
  /\ \E e \in Socket \ {d} :
       Doing(e, "write") /\ sending[e].message.convo = sending[d].message.convo
  /\ Go(d, Idle)
  /\ UNCHANGED <<store, sent, acts, clock, online, client>>

\* isUserOnline(event.to)
AskOnline(d) ==
  /\ Doing(d, "ask")
  /\ LET m == sending[d].message IN
     Go(d, [pc |-> "emit", message |-> m, online |-> DevicesOf(m.to) # {}])
  /\ UNCHANGED <<store, sent, acts, clock, online, client>>

\* The room is what it is by now; then the other devices of the sender, and
\* the callback (the sending socket itself is never emitted to).
Emit(d) ==
  /\ Doing(d, "emit")
  /\ LET m == sending[d].message IN
     Show(DevicesOf(m.from) \cup IF sending[d].online THEN DevicesOf(m.to) ELSE {}, {m.id})
  /\ Go(d, Idle)
  /\ UNCHANGED <<store, sent, acts, clock, online, screen, reader, gone>>

----------------------------------------------------------------------------
(* delete-one-to-one-message, convo-opened and clearing                     *)

\* Only the text goes; the sender may do it again.
Delete(d, m) ==
  /\ d \in online /\ Doing(d, "idle") /\ Counted /\ m.from = UserOf[d]
  /\ \E c \in Lookup({m.from, m.to}) \ {0} :
       /\ Remember({m.from, m.to}, c)
       /\ Go(d, [pc |-> "deleted", message |-> m, participants |-> convos[c]])
  /\ deleted' = deleted \cup {m.id}
  /\ UNCHANGED <<convos, updatedAt, opened, cleared, messages, sent, clock,
                 online, client>>

EmitDeleted(d) ==
  /\ Doing(d, "deleted")
  /\ gone' = IF Client \in online /\ (Reader \in sending[d].participants \/ Client = d)
             THEN gone \cup {sending[d].message.id} ELSE gone
  /\ Go(d, Idle)
  /\ UNCHANGED <<store, sent, acts, clock, online, screen, reader, view>>

SetUserLastOpenedAt(u, c, t) == opened' = [opened EXCEPT ![u][c] = t]
SetUserConvoClearedAt(u, c) == cleared' = [cleared EXCEPT ![u][c] = clock]

\* The client gives the time.
Open(d, c) ==
  /\ d \in online /\ UserOf[d] \in convos[c] /\ Counted
  /\ SetUserLastOpenedAt(UserOf[d], c, clock)
  /\ UNCHANGED <<convos, cache, updatedAt, cleared, messages, deleted, sent, clock,
                 sending, online, client>>

\* The entry is written before the service asks whether the user takes part in
\* the conversation; what a stranger leaves there is read by nobody.
Clear(u, c) ==
  /\ u \in convos[c] /\ Counted
  /\ SetUserConvoClearedAt(u, c)
  /\ UNCHANGED <<convos, cache, updatedAt, opened, messages, deleted, sent, clock,
                 sending, online, client>>

----------------------------------------------------------------------------
(* The history of a conversation, page by page                              *)

Visible(u, c) == {m \in messages : m.convo = c /\ m.at > cleared[u][c]}

After(m, from) == m.at < from.at \/ (m.at <= from.at /\ m.id < from.id)

\* Sorted by sendAt alone (there is no field "id"): ties come in any order.
Pages(rows) ==
  {page \in SUBSET rows :
     /\ Cardinality(page) = PageSize \/ (Cardinality(page) < PageSize /\ page = rows)
     /\ \A m \in page, n \in rows \ page : m.at >= n.at}
Lowest(page) == {m \in page : \A n \in page : m.at <= n.at}

HasMoreThan(page) == Cardinality(page) > PageSize   \* slip: as if limit + 1 were read
HasMore(page) == Cardinality(page) = PageSize

GetMessages(u, c, from) == Pages({m \in Visible(u, c) : After(m, from)})

Cursor(m) == [at |-> m.at, id |-> m.id]

\* GET /convo/one-to-one/messages; without a conversation it answers 404.
LoadPage ==
  /\ Client \in online /\ screen = "history" /\ reader.pc = "load"
  /\ LET pair == {Reader, Peer} IN
     \E c \in Lookup(pair) :
       /\ Remember(pair, c)
       /\ IF c = 0
          THEN reader' = [pc |-> "loaded"] /\ UNCHANGED <<view, gone>>
          ELSE \E page \in GetMessages(Reader, c, reader.from) :
                 /\ view' = view \cup {m.id : m \in page}
                 /\ gone' = gone \cup ({m.id : m \in page} \cap deleted)
                 /\ IF HasMore(page)
                    THEN \E m \in Lowest(page) : reader' = [reader EXCEPT !.from = Cursor(m)]
                    ELSE reader' = [pc |-> "loaded"]
  /\ UNCHANGED <<convos, updatedAt, opened, cleared, messages, deleted, sent, acts,
                 clock, sending, online, screen>>

\* The socket joins its user's room; the client starts over with the history.
ComesOnline(d) ==
  /\ d \notin online
  /\ online' = online \cup {d}
  /\ IF d = Client /\ screen = "history"
     THEN reader' = [pc |-> "load", from |-> Top] /\ view' = {} /\ gone' = {}
     ELSE UNCHANGED <<reader, view, gone>>
  /\ UNCHANGED <<store, sent, acts, clock, sending, screen>>

\* Handlers under way go on.
Disconnect(d) ==
  /\ d \in online /\ Counted
  /\ online' = online \ {d}
  /\ UNCHANGED <<store, sent, clock, sending, client>>

----------------------------------------------------------------------------
(* Recent conversations and search                                          *)

ConvosOf(u) == {c \in 1 .. Len(convos) : u \in convos[c]}

Newer(c, e) == updatedAt[c] > updatedAt[e] \/ (updatedAt[c] = updatedAt[e] /\ c > e)

BeyondTime(c, from) == updatedAt[c] < from.at    \* slip: no tie-break by _id
Beyond(c, from) == updatedAt[c] < from.at \/ (updatedAt[c] = from.at /\ c < from.id)

FirstOf(rows, limit) == {c \in rows : Cardinality({e \in rows : Newer(e, c)}) < limit}

LastMessage(u, c) ==
  {m \in Visible(u, c) : \A n \in Visible(u, c) : n.at < m.at \/ (n.at = m.at /\ n.id <= m.id)}

UnreadAll(u, c) ==   \* slip: what was cleared is counted too
  {m \in messages : m.convo = c /\ m.from # u /\ m.at > opened[u][c]}
Unread(u, c) == {m \in Visible(u, c) : m.from # u /\ m.at > opened[u][c]}

RecentPage(u, from) == FirstOf({c \in ConvosOf(u) : Beyond(c, from)}, PageSize)

\* The next page of GET /recent; due are the conversations that were there at
\* the start and got no message since.
List ==
  /\ screen = "recent" /\ reader.pc \in {"load", "paging"}
  /\ LET first == reader.pc = "load"
         page  == RecentPage(Reader, reader.from)
         seen  == IF first THEN {} ELSE reader.shown
         last  == {c \in page : \A e \in page : e = c \/ Newer(e, c)}
         due   == IF first THEN ConvosOf(Reader) ELSE reader.due
         again == IF first THEN {} ELSE reader.again \cup (seen \cap page)
     IN  IF Cardinality(page) = PageSize
         THEN \E c \in last :
                reader' = [pc |-> "paging", from |-> [at |-> updatedAt[c], id |-> c],
                           due |-> due, shown |-> seen \cup page, again |-> again]
         ELSE reader' = [pc |-> "listed",
                         due |-> due, shown |-> seen \cup page, again |-> again]
  /\ UNCHANGED <<store, sent, acts, clock, sending, online, screen, view, gone>>

\* findManyUserOneToOneConvoByParticipantIds
Known(u, others, limit) ==
  FirstOf({c \in ConvosOf(u) : convos[c] \cap others # {}}, limit)

\* Users found by name, split into those there is a conversation with and the
\* rest, to which the user himself always belongs.
SearchUserConvo(u, hits) ==
  LET existing == {v \in hits \ {u} :
                     \E c \in Known(u, hits \ {u}, Cardinality(hits)) : v \in convos[c]}
  IN  [existing |-> existing, startNew |-> hits \ existing]

----------------------------------------------------------------------------
HandlerStep(d) ==
  Create(d) \/ Commit(d) \/ WriteConflict(d) \/ AskOnline(d) \/ Emit(d)
    \/ EmitDeleted(d)

HttpStep == LoadPage \/ List \/ \E c \in 1 .. Len(convos), d \in Socket : Clear(UserOf[d], c)

ClientStep(d) ==
  \/ \E to \in Writes[d] : Send(d, to)
  \/ \E m \in messages : Delete(d, m)
  \/ \E c \in 1 .. Len(convos) : Open(d, c)
  \/ ComesOnline(d) \/ Disconnect(d)

ConvoNext ==
  \/ \E d \in Socket : HandlerStep(d) \/ ClientStep(d)
  \/ \E pair \in Pair : CacheExpires(pair)
  \/ HttpStep

ConvoSpec == ConvoInit /\ [][ConvoNext]_convoVars

----------------------------------------------------------------------------

Split(pair) == Cardinality({c \in 1 .. Len(convos) : convos[c] = pair}) > 1

\* Whatever sends race to create conversations, a message to somebody else is
\* stored where its sender and its addressee, and nobody else, find it: also
\* when the redis entry is used or a conversation "to oneself" is around.
StoredForBoth ==
  \A m \in messages : m.from # m.to => convos[m.convo] = {m.from, m.to}

\* A device that has been online since before it began to load the history
\* knows every message and every deletion in the conversation it shows, once
\* the handlers that announce them are done: those the pages miss, because they
\* were stored after a page was read, come over the socket.  It takes distinct
\* stamps, as the pages tell messages of one millisecond apart by a field that
\* does not exist, and a pair whose first messages did not race.
Ties(c) == \E m, n \in messages : m # n /\ m.convo = c /\ n.convo = c /\ m.at = n.at
Announcing(m) ==
  \E d \in Socket : ~Doing(d, "idle") /\ ~Doing(d, "create") /\ sending[d].message.id = m.id
NoMessageMissed ==
  screen = "history" /\ Client \in online /\ reader.pc = "loaded" =>
    \A c \in Found({Reader, Peer}) : ~Split({Reader, Peer}) /\ ~Ties(c) =>
      \A m \in Visible(Reader, c) : ~Announcing(m) /\ m.from # m.to =>
        /\ m.id \in view
        /\ m.id \in deleted => m.id \in gone

\* The list of conversations, the search and the history agree about a pair
\* whose first messages did not race: messages counted as unread and the last
\* message are in the history the user can page to, and a user who is found is
\* offered a new conversation only when there is none.
ViewsAgree ==
  /\ \A u \in User : \A c \in ConvosOf(u) :
       /\ Unread(u, c) \cup LastMessage(u, c) \subseteq Visible(u, c)
       /\ Visible(u, c) # {} => LastMessage(u, c) # {}
  /\ \A u \in User, hits \in SUBSET User :
       (\A v \in User : ~Split({u, v})) =>
         \A v \in hits \ {u} :
           v \in SearchUserConvo(u, hits).startNew <=> Found({u, v}) = {}

\* A conversation without news while its user pages through the list of recent
\* conversations is shown, exactly once, however others move to the top.
RecentsShowEach ==
  reader.pc = "listed" =>
    reader.due \subseteq reader.shown /\ reader.again \cap reader.due = {}
============================================================================
