------------------------------ MODULE Rewards ------------------------------
(***************************************************************************)
(* Rewards, from the events that earn them to the score users see.          *)
(*  - chat-service, RepliedWithinResonableTimeWorker: for each new chat     *)
(*    message it announces a first reply, unless the redis cache says that  *)
(*    the sender had one in this conversation within the interval;          *)
(*  - reward-service: two consumers, one of first replies and one of        *)
(*    comments liked by the post's author, each grant a reward (a row and a *)
(*    higher score, in one transaction) and publish USER_REWARDED;          *)
(*  - elasticsearch-proxy, RewardEventsAggregator: adds these up, in the    *)
(*    document UserProfileEventsConsumer keeps of the user.                 *)
(*                                                                          *)
(* Each consumer handles one message at a time and hands it in by offsets   *)
(* that kafkajs commits later: a restart delivers some of what was handled  *)
(* again.  Topics have no order.  Every reward is worth one point, and time *)
(* is a counter.  Reads that nobody else can make stale are made together.  *)
(***************************************************************************)
EXTENDS Naturals, FiniteSets

CONSTANTS
  User, Convo, Post, Comment,
  Interval,      \* TIME_24HRS, and the cool-off interval, which is the same
  MaxTime,       \* bound: the clock
  MaxInputs,     \* bound: chat messages and likes of post authors
  MaxFaults      \* bound: restarts, failures of cache, broker, database and index

ASSUME RewardsAssumption == {Interval, MaxTime, MaxInputs, MaxFaults} \subseteq Nat

VARIABLES
  now,
  messages,   \* chat messages
  cache,      \* redis: when the sender last had a first reply announced
  worker,     \* progress of RepliedWithinResonableTimeWorker
  inbox,      \* per consumer, what it has yet to handle
  handled,    \* per consumer, what it has handled
  task,       \* per reward consumer, progress with its current item
  rewards,    \* reward-service: rows of table Rewards
  score,      \* reward-service: HumaneScore
  events,     \* USER_REWARDED events, numbered per reward
  shown,      \* elasticsearch: humaneScore
  lost,       \* history: points that will not be shown, by user
  extra,      \* history: points announced or delivered without a reward of their own
  faults

histories == <<lost, extra>>
vars == <<now, messages, cache, worker, inbox, handled, task, rewards, score,
          events, shown, histories, faults>>
chat  == <<messages, cache, worker>>
bank  == <<rewards, score, events>>
index == <<shown, histories>>

Time     == 0 .. MaxTime
Message  == [user : User, convo : Convo, at : Time, n : 1 .. MaxInputs]
Liked    == [user : User, post : Post, comment : Comment]   \* user: the comment's author
Granter  == {"chat", "helpful"}
Consumer == Granter \cup {"worker", "aggregator"}

Idle == [pc |-> "idle"]
NoEntry == [sendAt |-> 0, until |-> 0]   \* gone since the clock started

----------------------------------------------------------------------------
Init ==
  /\ now      = 0
  /\ messages = {}
  /\ cache    = [k \in Convo \X User |-> NoEntry]
  /\ worker   = Idle
  /\ inbox    = [c \in Consumer |-> {}]
  /\ handled  = [c \in Consumer |-> {}]
  /\ task     = [c \in Granter |-> Idle]
  /\ rewards  = {}
  /\ score    = [u \in User |-> 0]
  /\ events   = {}
  /\ shown    = [u \in User |-> 0]
  /\ lost     = [u \in User |-> 0]
  /\ extra    = [u \in User |-> 0]
  /\ faults   = 0

Fault == faults < MaxFaults /\ faults' = faults + 1

Tick ==
  /\ now < MaxTime
  /\ now' = now + 1
  /\ UNCHANGED <<chat, inbox, handled, task, bank, index, faults>>

Likes  == inbox["helpful"] \cup handled["helpful"]
Inputs == Cardinality(messages) + Cardinality(Likes)

\* send-one-to-one-message: the message is stored, then NEW_MESSAGE published.
Send(u, convo) ==
  /\ Inputs < MaxInputs
  /\ LET m == [user |-> u, convo |-> convo, at |-> now, n |-> Cardinality(messages) + 1]
     IN  /\ messages' = messages \cup {m}
         /\ inbox' = [inbox EXCEPT !["worker"] = @ \cup {m}]
  /\ UNCHANGED <<now, cache, worker, handled, task, bank, index, faults>>

\* COMMENT_LIKED_BY_POST_AUTHOR.
AuthorLikes(l) ==
  /\ Inputs < MaxInputs
  /\ l \notin Likes
  /\ inbox' = [inbox EXCEPT !["helpful"] = @ \cup {l}]
  /\ UNCHANGED <<now, chat, handled, task, bank, index, faults>>

HandsIn(c, item, new) ==
  /\ inbox'   = [d \in Consumer |-> (inbox[d] \ IF d = c THEN {item} ELSE {}) \cup new[d]]
  /\ handled' = [handled EXCEPT ![c] = @ \cup {item}]
Nothing == [d \in Consumer |-> {}]

----------------------------------------------------------------------------
(* RepliedWithinResonableTimeWorker                                         *)

Entry(m) == cache[<<m.convo, m.user>>]

\* msgProcessedInIntervalKey is in the cache, and not too old.
AlreadyProcessed(m) ==
  /\ now < Entry(m).until
  /\ m.at < Entry(m).sendAt + Interval

\* The other user's last message before m is not older than the interval.
IsReply(m) ==
  LET others == {o \in messages : o.convo = m.convo /\ o.user # m.user /\ o.at < m.at}
  IN  \E o \in others : m.at <= o.at + Interval

WorkerTakes(m) ==
  /\ worker = Idle
  /\ m \in inbox["worker"]
  /\ IF ~AlreadyProcessed(m) /\ IsReply(m)
     THEN worker' = [pc |-> "publish", message |-> m] /\ UNCHANGED <<inbox, handled>>
     ELSE HandsIn("worker", m, Nothing) /\ UNCHANGED worker
  /\ UNCHANGED <<now, messages, cache, task, bank, index, faults>>

WorkerPublishes ==
  /\ worker.pc = "publish"
  /\ worker' = [worker EXCEPT !.pc = "remember"]
  /\ inbox' = [inbox EXCEPT !["chat"] = @ \cup {worker.message}]
  /\ UNCHANGED <<now, messages, cache, handled, task, bank, index, faults>>

\* No ack: the worker returns, and forgets the message.
WorkerGetsNoAck ==
  /\ worker.pc = "publish"
  /\ Fault
  /\ HandsIn("worker", worker.message, Nothing)
  /\ worker' = Idle
  /\ UNCHANGED <<now, messages, cache, task, bank, index>>

WorkerIsDone ==
  /\ HandsIn("worker", worker.message, Nothing)
  /\ worker' = Idle
  /\ UNCHANGED <<now, messages, task, bank, index>>

WorkerRemembers ==
  /\ worker.pc = "remember"
  /\ cache' = [cache EXCEPT ![<<worker.message.convo, worker.message.user>>] =
                 [sendAt |-> worker.message.at, until |-> now + Interval]]
  /\ WorkerIsDone
  /\ UNCHANGED faults

\* cache.set resolves to { ack: false }, which the worker does not look at.
WorkerFailsToRemember ==
  /\ worker.pc = "remember"
  /\ Fault
  /\ WorkerIsDone
  /\ UNCHANGED cache

----------------------------------------------------------------------------
(* reward-service                                                           *)

\* generateIdempotencyKey
Key(c, item) ==
  IF c = "chat" THEN <<item.convo, item.user, item.at>> ELSE <<item.post, item.user>>

RowsOf(c, u) == {r \in rewards : r.type = c /\ r.user = u}

LimitedByNow(item) ==   \* slip: the age of the reward, not when the reply was sent
  \E last \in RowsOf("chat", item.user) :
    /\ \A r \in RowsOf("chat", item.user) : r.n <= last.n
    /\ last.convo = item.convo
    /\ now < last.createdAt + Interval

\* The user's last reward, of any conversation, is of this one and recent.
Limited(item) ==
  \E last \in RowsOf("chat", item.user) :
    /\ \A r \in RowsOf("chat", item.user) : r.n <= last.n
    /\ last.convo = item.convo
    /\ item.at < last.createdAt + Interval

\* execute up to create: only friends are rewarded.
GrantTakes(c, item, friends) ==
  /\ task[c] = Idle
  /\ item \in inbox[c]
  /\ IF friends /\ ~ (c = "chat" /\ Limited(item))
     THEN task' = [task EXCEPT ![c] = [pc |-> "create", item |-> item]] /\ UNCHANGED <<inbox, handled>>
     ELSE HandsIn(c, item, Nothing) /\ UNCHANGED task
  /\ UNCHANGED <<now, chat, bank, index, faults>>

Row(c, item) ==
  [type |-> c, user |-> item.user, key |-> Key(c, item), n |-> Cardinality(rewards) + 1,
   createdAt |-> now, convo |-> IF c = "chat" THEN item.convo ELSE "none"]

TakenNever(c, item) == FALSE   \* slip: the key is no primary key
Taken(c, item) == \E r \in rewards : r.key = Key(c, item)

OneMore(f, u) == [f EXCEPT ![u] = @ + 1]

\* RewardRepository.create: the transaction commits.
GrantCreates(c) ==
  /\ task[c].pc = "create"
  /\ ~Taken(c, task[c].item)
  /\ rewards' = rewards \cup {Row(c, task[c].item)}
  /\ score' = OneMore(score, task[c].item.user)
  /\ task' = [task EXCEPT ![c].pc = "publish"]
  /\ UNCHANGED <<now, chat, inbox, handled, events, index, faults>>

GrantIsRefusedQuietly(c) ==   \* slip: the null that create returns is not looked at
  /\ task[c].pc = "create"
  /\ Taken(c, task[c].item)
  /\ task' = [task EXCEPT ![c].pc = "publish"]
  /\ UNCHANGED <<now, chat, inbox, handled, bank, index, faults>>

\* Any other known error is swallowed, too, but leaves the row that was created
\* before it in res: when it comes at the commit, what is announced next is
\* rolled back.
GrantCommitFails(c) ==
  /\ task[c].pc = "create"
  /\ ~Taken(c, task[c].item)
  /\ Fault
  /\ extra' = OneMore(extra, task[c].item.user)
  /\ task' = [task EXCEPT ![c].pc = "publish"]
  /\ UNCHANGED <<now, chat, inbox, handled, bank, shown, lost>>

\* An error before that, or of another kind: no reward, and the message is gone.
GrantFails(c) ==
  /\ task[c].pc = "create"
  /\ Fault
  /\ HandsIn(c, task[c].item, Nothing)
  /\ task' = [task EXCEPT ![c] = Idle]
  /\ UNCHANGED <<now, chat, bank, index>>

\* P2002 rolls the score back, too: no reward, no event.
GrantIsRefused(c) ==
  /\ task[c].pc = "create"
  /\ Taken(c, task[c].item)
  /\ HandsIn(c, task[c].item, Nothing)
  /\ task' = [task EXCEPT ![c] = Idle]
  /\ UNCHANGED <<now, chat, bank, index, faults>>

GrantIsDone(c, published) ==
  /\ HandsIn(c, task[c].item, [Nothing EXCEPT !["aggregator"] = published])
  /\ events' = events \cup published
  /\ task' = [task EXCEPT ![c] = Idle]
  /\ UNCHANGED <<now, chat, rewards, score, shown, extra>>

GrantPublishes(c) ==
  /\ task[c].pc = "publish"
  /\ LET key == Key(c, task[c].item)
         n   == Cardinality({e \in events : e.key = key}) + 1
     IN  GrantIsDone(c, {[user |-> task[c].item.user, key |-> key, n |-> n]})
  /\ UNCHANGED <<lost, faults>>

\* The ack of send is not looked at.
GrantGetsNoAck(c) ==
  /\ task[c].pc = "publish"
  /\ Fault
  /\ lost' = OneMore(lost, task[c].item.user)
  /\ GrantIsDone(c, {})

----------------------------------------------------------------------------
(* elasticsearch-proxy: one event of a batch (see BatchWorker).             *)

\* bulkUpdateHumaneScoreFromDiff.
ScoresWith(e) == OneMore(shown, e.user)

Aggregate(e) ==
  /\ e \in inbox["aggregator"]
  /\ shown' = ScoresWith(e)
  /\ HandsIn("aggregator", e, Nothing)
  /\ UNCHANGED <<now, chat, task, bank, histories, faults>>

\* The bulk fails, or this item of it (a conflict with an update of the profile):
\* items are not looked at, and later batches commit what lies behind them.
AggregateDrops(e) ==
  /\ e \in inbox["aggregator"]
  /\ Fault
  /\ lost' = OneMore(lost, e.user)
  /\ HandsIn("aggregator", e, Nothing)
  /\ UNCHANGED <<now, chat, task, bank, shown, extra>>

\* createProfile writes the whole document, and user-service gives no score: over
\* one whose time could not be read, or that came since it was looked for.
ProfileIsCreated(u) ==
  /\ Fault
  /\ shown' = [shown EXCEPT ![u] = 0]
  /\ lost' = [lost EXCEPT ![u] = @ + shown[u]]
  /\ UNCHANGED <<now, chat, inbox, handled, task, bank, extra>>

\* A service restarts.  What the aggregator gets again, it counts again.
InCall(u) == {c \in Granter : task[c].pc = "publish" /\ task[c].item.user = u}
Again(cs, again, u) == {e \in again : "aggregator" \in cs /\ e.user = u}
Restart(cs) ==
  /\ Fault
  /\ \E again \in SUBSET (UNION {handled[c] : c \in cs}) :
       /\ inbox'   = [c \in Consumer |-> inbox[c] \cup IF c \in cs THEN again \cap handled[c] ELSE {}]
       /\ handled' = [c \in Consumer |-> handled[c] \ IF c \in cs THEN again ELSE {}]
       /\ extra' = [u \in User |-> extra[u] + Cardinality(Again(cs, again, u))]
  /\ lost' = [u \in User |-> lost[u] + Cardinality(InCall(u) \cap cs)]
  /\ worker' = IF "worker" \in cs THEN Idle ELSE worker
  /\ task' = [c \in Granter |-> IF c \in cs THEN Idle ELSE task[c]]
  /\ UNCHANGED <<now, messages, cache, bank, shown>>

ConsumerStep ==
  \/ \E m \in inbox["worker"] : WorkerTakes(m)
  \/ WorkerPublishes \/ WorkerRemembers
  \/ \E c \in Granter :
       \/ \E item \in inbox[c], friends \in BOOLEAN : GrantTakes(c, item, friends)
       \/ GrantCreates(c) \/ GrantIsRefused(c) \/ GrantPublishes(c)
  \/ \E e \in inbox["aggregator"] : Aggregate(e)

Failure ==
  \/ WorkerGetsNoAck \/ WorkerFailsToRemember
  \/ \E c \in Granter : GrantCommitFails(c) \/ GrantFails(c) \/ GrantGetsNoAck(c)
  \/ \E e \in inbox["aggregator"] : AggregateDrops(e)
  \/ \E u \in User : ProfileIsCreated(u)
  \/ Restart({"worker"}) \/ Restart(Granter) \/ Restart({"aggregator"})

Next ==
  \/ Tick
  \/ \E u \in User, convo \in Convo : Send(u, convo)
  \/ \E l \in Liked : AuthorLikes(l)
  \/ ConsumerStep
  \/ Failure

Spec == Init /\ [][Next]_vars

----------------------------------------------------------------------------

\* IssueHelpfulCommentReward.usercase.ts:19 ("a user can get only one reward
\* per post"): whatever is liked, unliked, redelivered, and the score of a
\* user is the sum of the rewards.
RewardedOnce ==
  /\ \A r, s \in rewards : r.key = s.key => r = s
  /\ \A p \in Post, u \in User : Cardinality({r \in RowsOf("helpful", u) : r.key[1] = p}) <= 1
  /\ \A u \in User : score[u] = Cardinality({r \in rewards : r.user = u})

\* What the search index shows, with what is on its way to it, is the score in the
\* bank, give or take the points of known failures: whatever is delivered twice,
\* refused, or restarted between the transaction and the event, a reward is
\* announced at most once, and a point more or less has its own lost event,
\* repeated event, rolled-back row or overwritten document.
ShownIsEarned ==
  \A u \in User :
    LET coming == shown[u] + Cardinality({e \in inbox["aggregator"] : e.user = u})
                    + Cardinality(InCall(u))
    IN  coming + lost[u] = score[u] + extra[u]

\* Even when the cache forgets, or messages are handled late, twice or out of
\* order: two chat rewards of a user in one conversation, with none of another
\* conversation between them, are for messages sent an interval apart.
CoolOff ==
  \A u \in User : \A r, s \in RowsOf("chat", u) :
    r.n < s.n /\ r.convo = s.convo
      /\ (\A t \in RowsOf("chat", u) : ~ (r.n < t.n /\ t.n < s.n)) =>
         r.key[3] + Interval <= s.key[3]
==============================================================================
