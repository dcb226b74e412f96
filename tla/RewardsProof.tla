----------------------------- MODULE RewardsProof -----------------------------
(***************************************************************************)
(* Proofs about Rewards, for any users, conversations, posts, interval and  *)
(* bounds: no redelivery, restart or race grants a reward twice or lets     *)
(* score and rewards disagree, the cool-off holds between rewards of one    *)
(* conversation, whatever the cache forgets, and what is shown was earned.  *)
(***************************************************************************)
EXTENDS Rewards, FiniteSetTheorems, TLAPS

Earned(u) == {r \in rewards : r.user = u}

\* The first and the last part of RewardedOnce, and what the second follows
\* from: the key of a reward for a helpful comment names its user.
OnceInv ==
  /\ IsFiniteSet(rewards)
  /\ score \in [User -> Nat]
  /\ \A r \in rewards : r.type = "helpful" => r.key = <<r.key[1], r.user>>
  /\ \A r, s \in rewards : r.key = s.key => r = s
  /\ \A u \in User : score[u] = Cardinality(Earned(u))

LEMMA InitOnceInv == Init => OnceInv
BY FS_EmptySet DEF Init, OnceInv, Earned

\* Only the transaction of RewardRepository.create touches rows and scores.
LEMMA OthersKeepTheBank ==
  ASSUME [Next]_vars, ~ \E c \in Granter : GrantCreates(c)
  PROVE  UNCHANGED <<rewards, score>>
BY DEF Next, ConsumerStep, Failure, Tick, Send, AuthorLikes, WorkerTakes, WorkerPublishes,
       WorkerRemembers, WorkerGetsNoAck, WorkerFailsToRemember, WorkerIsDone, GrantTakes,
       GrantIsRefused, GrantPublishes, GrantGetsNoAck, GrantIsDone, GrantCommitFails, GrantFails,
       Aggregate, AggregateDrops, ProfileIsCreated, Restart, bank, vars

LEMMA CreatesOnceInv ==
  ASSUME OnceInv, NEW c \in Granter, GrantCreates(c)
  PROVE  OnceInv'
<1> DEFINE item == task[c].item
           row  == Row(c, item)
<1>1. rewards' = rewards \cup {row} /\ score' = [score EXCEPT ![item.user] = @ + 1]
  BY DEF GrantCreates, OneMore
<1>2. row.user = item.user /\ row.key = Key(c, item) /\ row.type = c
  BY DEF Row
<1>3. \A r \in rewards : r.key # row.key
  BY <1>2 DEF GrantCreates, Taken
<1>4. row \notin rewards
  BY <1>3
<1>5. c = "helpful" => row.key = <<row.key[1], row.user>>
  BY <1>2 DEF Key
<1>6. IsFiniteSet(rewards') /\ score' \in [User -> Nat]
  <2> HIDE DEF row
  <2>1. IsFiniteSet(rewards \cup {row})
    BY FS_AddElement DEF OnceInv
  <2>2. score' \in [User -> Nat]
    <3>1. score \in [User -> Nat]
      BY DEF OnceInv
    <3>2. score' = [u \in User |-> IF u = item.user THEN score[u] + 1 ELSE score[u]]
      <4> HIDE DEF item
      <4> QED BY <1>1, <3>1
    <3>3. ASSUME NEW u \in User PROVE score[u] \in Nat /\ score[u] + 1 \in Nat
      BY <3>1
    <3> HIDE DEF item
    <3> QED BY <3>2, <3>3
  <2> QED BY <1>1, <2>1, <2>2
<1>7. \A r \in rewards' : r.type = "helpful" => r.key = <<r.key[1], r.user>>
  <2> HIDE DEF row
  <2> QED BY <1>1, <1>2, <1>5 DEF OnceInv
<1>8. \A r, s \in rewards' : r.key = s.key => r = s
  <2> HIDE DEF row
  <2> QED BY <1>1, <1>3 DEF OnceInv
<1>9. ASSUME NEW u \in User PROVE score'[u] = Cardinality(Earned(u)')
  <2> HIDE DEF row
  <2>1. IsFiniteSet(Earned(u))
    BY FS_Subset DEF OnceInv, Earned
  <2>2. CASE u = item.user
    <3>1. Earned(u)' = Earned(u) \cup {row} /\ row \notin Earned(u)
      BY <1>1, <1>2, <1>4, <2>2 DEF Earned
    <3>2. Cardinality(Earned(u)') = Cardinality(Earned(u)) + 1
      BY <2>1, <3>1, FS_AddElement
    <3> QED BY <1>1, <2>2, <3>2 DEF OnceInv
  <2>3. CASE u # item.user
    <3>1. Earned(u)' = Earned(u)
      BY <1>1, <1>2, <2>3 DEF Earned
    <3> QED BY <1>1, <2>3, <3>1 DEF OnceInv
  <2> QED BY <2>2, <2>3
<1> QED BY <1>6, <1>7, <1>8, <1>9 DEF OnceInv

LEMMA NextOnceInv == OnceInv /\ [Next]_vars => OnceInv'
<1> SUFFICES ASSUME OnceInv, [Next]_vars PROVE OnceInv'
  OBVIOUS
<1>1. CASE \E c \in Granter : GrantCreates(c)
  BY <1>1, CreatesOnceInv
<1>2. CASE ~ \E c \in Granter : GrantCreates(c)
  BY <1>2, OthersKeepTheBank DEF OnceInv, Earned
<1> QED BY <1>1, <1>2

LEMMA OnceInvIsEnough == OnceInv => RewardedOnce
<1> SUFFICES ASSUME OnceInv PROVE RewardedOnce
  OBVIOUS
<1>1. ASSUME NEW p \in Post, NEW u \in User
      PROVE  Cardinality({r \in RowsOf("helpful", u) : r.key[1] = p}) <= 1
  <2> DEFINE S == {r \in RowsOf("helpful", u) : r.key[1] = p}
  <2>1. \A r, s \in S : r = s
    BY DEF OnceInv, RowsOf
  <2>2. CASE S = {}
    <3>1. Cardinality(S) = 0
      BY <2>2, FS_EmptySet
    <3> QED BY <3>1
  <2>3. CASE S # {}
    <3>1. PICK r \in S : TRUE
      BY <2>3
    <3>2. S = {r}
      BY <2>1, <3>1
    <3>3. Cardinality(S) = 1
      BY <3>2, FS_Singleton
    <3> QED BY <3>3
  <2> QED BY <2>2, <2>3
<1> QED BY <1>1 DEF OnceInv, RewardedOnce, Earned

\* One row per key, one reward per post for a helpful user, and a score that is
\* the sum of the rewards (RewardRepository.create).
THEOREM NothingTwice == Spec => []RewardedOnce
BY InitOnceInv, NextOnceInv, OnceInvIsEnough, PTL DEF Spec

----------------------------------------------------------------------------
(***************************************************************************)
(* The cool-off.  The look at the last reward and the creation of the next  *)
(* are two steps; but there is one consumer of replies, and it alone makes  *)
(* rows of that kind, so what it saw is still so when it creates.  That a   *)
(* reward is created after its message was sent takes the history of every  *)
(* message through worker, inbox and redelivery.                            *)
(***************************************************************************)
Sent(m) == m.at \in Nat /\ m.at <= now

\* What is, or may come again, before the two consumers of messages.
Around == inbox["worker"] \cup handled["worker"] \cup inbox["chat"] \cup handled["chat"]
MessagesAreSent ==
  /\ now \in Nat
  /\ \A m \in messages \cup Around : Sent(m)
  /\ worker # Idle => Sent(worker.message)
  /\ task["chat"] # Idle => Sent(task["chat"].item)

\* Rows are numbered as they come.
RowsAreOrdered ==
  /\ IsFiniteSet(rewards)
  /\ \A r \in rewards : r.n \in 1 .. Cardinality(rewards)
  /\ \A r \in rewards : r.type = "chat" =>
       r.key[3] \in Nat /\ r.createdAt \in Nat /\ r.key[3] <= r.createdAt

StillNotLimited == task["chat"].pc = "create" => ~Limited(task["chat"].item)

Shapes ==
  /\ inbox = [c \in Consumer |-> inbox[c]] /\ handled = [c \in Consumer |-> handled[c]]
  /\ task = [c \in Granter |-> task[c]]

CoolInv == Shapes /\ MessagesAreSent /\ RowsAreOrdered /\ StillNotLimited /\ CoolOff

LEMMA InitCoolInv == Init => CoolInv
BY FS_EmptySet DEF Init, CoolInv, Shapes, MessagesAreSent, Around, RowsAreOrdered,
                   StillNotLimited, CoolOff, RowsOf, Idle, Consumer, Granter

LEMMA NextShapes == Shapes /\ [Next]_vars => Shapes'
<1> SUFFICES ASSUME Shapes, [Next]_vars PROVE Shapes'
  OBVIOUS
<1> QED
BY DEF Shapes, Next, ConsumerStep, Failure, Tick, Send, AuthorLikes, WorkerTakes, WorkerPublishes,
       WorkerRemembers, WorkerGetsNoAck, WorkerFailsToRemember, WorkerIsDone, GrantTakes,
       GrantCreates, GrantIsRefused, GrantPublishes, GrantGetsNoAck, GrantIsDone, GrantCommitFails,
       GrantFails, Aggregate, AggregateDrops, ProfileIsCreated, Restart, HandsIn, vars, chat

LEMMA NextMessagesAreSent == Shapes /\ MessagesAreSent /\ [Next]_vars => MessagesAreSent'
<1> SUFFICES ASSUME Shapes, MessagesAreSent, [Next]_vars PROVE MessagesAreSent'
  OBVIOUS
<1> USE DEF Shapes, MessagesAreSent, Around, Sent, Granter, Consumer
<1>1. CASE Tick
  BY <1>1 DEF Tick, chat
<1>2. ASSUME NEW u \in User, NEW convo \in Convo, Send(u, convo) PROVE MessagesAreSent'
  BY <1>2 DEF Send
<1>3. ASSUME NEW l \in Liked, AuthorLikes(l) PROVE MessagesAreSent'
  BY <1>3 DEF AuthorLikes, chat
<1>4. ASSUME NEW m \in inbox["worker"], WorkerTakes(m) PROVE MessagesAreSent'
  BY <1>4 DEF WorkerTakes, HandsIn, Nothing, Idle
<1>5. CASE WorkerPublishes
  BY <1>5 DEF WorkerPublishes, Idle
<1>6. CASE WorkerGetsNoAck \/ WorkerRemembers \/ WorkerFailsToRemember
  BY <1>6 DEF WorkerGetsNoAck, WorkerRemembers, WorkerFailsToRemember, WorkerIsDone, HandsIn, Nothing, Idle
<1>7. ASSUME NEW c \in Granter, NEW item \in inbox[c], NEW friends \in BOOLEAN,
             GrantTakes(c, item, friends)
      PROVE  MessagesAreSent'
  BY <1>7 DEF GrantTakes, HandsIn, Nothing, Idle, chat
<1>8. ASSUME NEW c \in Granter, GrantCreates(c) \/ GrantCommitFails(c) PROVE MessagesAreSent'
  <2>1. CASE GrantCreates(c)
    BY <2>1 DEF GrantCreates, Idle, chat
  <2>2. CASE GrantCommitFails(c)
    BY <2>2 DEF GrantCommitFails, Idle, chat
  <2> QED BY <1>8, <2>1, <2>2
<1>9. ASSUME NEW c \in Granter, \/ GrantIsRefused(c) \/ GrantFails(c)
                                \/ GrantPublishes(c) \/ GrantGetsNoAck(c)
      PROVE  MessagesAreSent'
  BY <1>9 DEF GrantIsRefused, GrantFails, GrantPublishes, GrantGetsNoAck, GrantIsDone, HandsIn,
              Nothing, Idle, chat
<1>10. ASSUME NEW e \in inbox["aggregator"], Aggregate(e) \/ AggregateDrops(e) PROVE MessagesAreSent'
  BY <1>10 DEF Aggregate, AggregateDrops, HandsIn, Nothing, chat
<1>11. CASE Restart({"worker"}) \/ Restart(Granter) \/ Restart({"aggregator"})
  BY <1>11 DEF Restart, Idle
<1>12. CASE UNCHANGED vars \/ \E u \in User : ProfileIsCreated(u)
  BY <1>12 DEF ProfileIsCreated, vars, chat
<1> QED
  BY <1>1, <1>2, <1>3, <1>4, <1>5, <1>6, <1>7, <1>8, <1>9, <1>10, <1>11, <1>12
  DEF Next, ConsumerStep, Failure

\* A chat row is newer than all rows before it, and was created after its
\* message was sent.
LEMMA CreatesInOrder ==
  ASSUME CoolInv, NEW c \in Granter, GrantCreates(c)
  PROVE  /\ RowsAreOrdered'
         /\ Row(c, task[c].item).n = Cardinality(rewards) + 1
         /\ Row(c, task[c].item) \notin rewards
<1> DEFINE item == task[c].item
           row  == Row(c, item)
<1>1. rewards' = rewards \cup {row} /\ now' = now
  BY DEF GrantCreates
<1>2. row.n = Cardinality(rewards) + 1 /\ row.createdAt = now /\ row.type = c /\ row.key = Key(c, item)
  BY DEF Row
<1>3. Cardinality(rewards) \in Nat
  BY FS_CardinalityType DEF CoolInv, RowsAreOrdered
<1>4. row \notin rewards
  BY <1>2, <1>3 DEF CoolInv, RowsAreOrdered
<1>5. IsFiniteSet(rewards') /\ Cardinality(rewards') = Cardinality(rewards) + 1
  <2> HIDE DEF row
  <2> QED BY <1>1, <1>4, FS_AddElement DEF CoolInv, RowsAreOrdered
<1>6. c = "chat" => row.key[3] \in Nat /\ row.createdAt \in Nat /\ row.key[3] <= row.createdAt
  <2> SUFFICES ASSUME c = "chat" PROVE item.at \in Nat /\ now \in Nat /\ item.at <= now
    BY <1>2 DEF Key
  <2>1. task["chat"] # Idle
    BY DEF GrantCreates, Idle
  <2> QED BY <2>1 DEF CoolInv, MessagesAreSent, Sent
<1>7. RowsAreOrdered'
  <2> HIDE DEF row
  <2>1. ASSUME NEW r \in rewards' PROVE r.n \in 1 .. Cardinality(rewards')
    BY <1>1, <1>2, <1>3, <1>5 DEF CoolInv, RowsAreOrdered
  <2>2. ASSUME NEW r \in rewards', r.type = "chat"
        PROVE  r.key[3] \in Nat /\ r.createdAt \in Nat /\ r.key[3] <= r.createdAt
    BY <1>1, <1>2, <1>6, <2>2 DEF CoolInv, RowsAreOrdered
  <2> QED BY <1>5, <2>1, <2>2 DEF RowsAreOrdered
<1> QED BY <1>2, <1>4, <1>7

LEMMA CreatesCoolOff ==
  ASSUME CoolInv, NEW c \in Granter, GrantCreates(c)
  PROVE  CoolOff'
<1> DEFINE item == task[c].item
           row  == Row(c, item)
<1>1. rewards' = rewards \cup {row}
  BY DEF GrantCreates
<1>2. row.n = Cardinality(rewards) + 1 /\ Cardinality(rewards) \in Nat
  BY CreatesInOrder, FS_CardinalityType DEF CoolInv, RowsAreOrdered
<1>3. row.type = c /\ row.key = Key(c, item) /\ row.user = item.user
  BY DEF Row
<1>4. c = "chat" => row.convo = item.convo /\ row.key[3] = item.at
  BY <1>3 DEF Row, Key
<1>5. c = "chat" => ~Limited(item)
  BY DEF CoolInv, StillNotLimited, GrantCreates
<1> SUFFICES ASSUME NEW u \in User, NEW r \in RowsOf("chat", u)', NEW s \in RowsOf("chat", u)',
                    r.n < s.n, r.convo = s.convo,
                    \A t \in RowsOf("chat", u)' : ~ (r.n < t.n /\ t.n < s.n)
             PROVE  r.key[3] + Interval <= s.key[3]
  BY DEF CoolOff
<1> HIDE DEF row
<1>6. RowsOf("chat", u) \subseteq RowsOf("chat", u)'
  BY <1>1 DEF RowsOf
<1>7. \A t \in rewards : t.n \in Nat /\ t.n < row.n
  BY <1>2 DEF CoolInv, RowsAreOrdered
<1>8. r # row
  BY <1>1, <1>2, <1>7 DEF RowsOf
<1>9. r \in RowsOf("chat", u) /\ r \in rewards /\ r.type = "chat" /\ r.user = u
  BY <1>1, <1>8 DEF RowsOf
<1>10. CASE s # row
  <2>1. s \in RowsOf("chat", u)
    BY <1>1, <1>10 DEF RowsOf
  <2> QED BY <1>6, <1>9, <2>1 DEF CoolInv, CoolOff
<1>11. CASE s = row
  <2>1. c = "chat" /\ item.user = u
    BY <1>3, <1>11 DEF RowsOf
  <2>2. \A t \in RowsOf("chat", item.user) : t.n <= r.n
    BY <1>6, <1>7, <1>9, <1>11, <2>1 DEF RowsOf
  <2>3. ~ (item.at < r.createdAt + Interval)
    BY <1>4, <1>5, <1>9, <1>11, <2>1, <2>2 DEF Limited
  <2>4. item.at \in Nat
    BY <2>1 DEF CoolInv, MessagesAreSent, Sent, GrantCreates, Idle
  <2>5. r.key[3] \in Nat /\ r.createdAt \in Nat /\ r.key[3] <= r.createdAt
    BY <1>9 DEF CoolInv, RowsAreOrdered
  <2> QED BY <1>4, <1>11, <2>1, <2>3, <2>4, <2>5, RewardsAssumption
<1> QED BY <1>10, <1>11

LEMMA NextStillNotLimited == CoolInv /\ [Next]_vars => StillNotLimited'
<1> SUFFICES ASSUME CoolInv, [Next]_vars, task'["chat"].pc = "create"
             PROVE  ~Limited(task["chat"].item)'
  BY DEF StillNotLimited
<1> USE DEF CoolInv, Shapes, StillNotLimited, Granter
<1>1. CASE UNCHANGED <<rewards, task>>
  BY <1>1 DEF Limited, RowsOf
<1>2. ASSUME NEW c \in Granter, NEW item \in inbox[c], NEW friends \in BOOLEAN,
             GrantTakes(c, item, friends)
      PROVE  ~Limited(task["chat"].item)'
  BY <1>2 DEF GrantTakes, Limited, RowsOf, bank
<1>3. ASSUME NEW c \in Granter, GrantCreates(c) PROVE ~Limited(task["chat"].item)'
  <2>1. c = "helpful" /\ task'["chat"] = task["chat"]
    BY <1>3 DEF GrantCreates
  <2>2. \A u : RowsOf("chat", u)' = RowsOf("chat", u)
    BY <1>3, <2>1 DEF GrantCreates, RowsOf, Row
  <2> QED BY <2>1, <2>2 DEF Limited
<1>4. ASSUME NEW c \in Granter, \/ GrantIsRefused(c) \/ GrantCommitFails(c) \/ GrantFails(c)
                                \/ GrantPublishes(c) \/ GrantGetsNoAck(c)
      PROVE  ~Limited(task["chat"].item)'
  <2>1. task'["chat"] = task["chat"] /\ rewards' = rewards
    <3>1. CASE GrantCommitFails(c)
      BY <3>1 DEF GrantCommitFails, bank
    <3>2. CASE GrantIsRefused(c) \/ GrantFails(c) \/ GrantPublishes(c) \/ GrantGetsNoAck(c)
      BY <3>2 DEF GrantIsRefused, GrantFails, GrantPublishes, GrantGetsNoAck, GrantIsDone, Idle, bank
    <3> QED BY <1>4, <3>1, <3>2
  <2> QED BY <2>1 DEF Limited, RowsOf
<1>5. CASE Restart({"worker"}) \/ Restart(Granter) \/ Restart({"aggregator"})
  <2>1. task'["chat"] = task["chat"] /\ rewards' = rewards
    BY <1>5 DEF Restart, Idle, bank
  <2> QED BY <2>1 DEF Limited, RowsOf
<1>6. CASE \/ Tick \/ WorkerPublishes \/ WorkerRemembers \/ WorkerGetsNoAck \/ WorkerFailsToRemember
           \/ \E u \in User, convo \in Convo : Send(u, convo)
           \/ \E l \in Liked : AuthorLikes(l)
           \/ \E m \in inbox["worker"] : WorkerTakes(m)
           \/ \E e \in inbox["aggregator"] : Aggregate(e) \/ AggregateDrops(e)
           \/ \E u \in User : ProfileIsCreated(u)
           \/ UNCHANGED vars
  BY <1>1, <1>6 DEF Tick, WorkerPublishes, WorkerRemembers, WorkerGetsNoAck, WorkerFailsToRemember,
     WorkerIsDone, Send, AuthorLikes, WorkerTakes, Aggregate, AggregateDrops, ProfileIsCreated, bank, vars
<1> QED
  BY <1>2, <1>3, <1>4, <1>5, <1>6 DEF Next, ConsumerStep, Failure

LEMMA NextCoolInv == CoolInv /\ [Next]_vars => CoolInv'
<1> SUFFICES ASSUME CoolInv, [Next]_vars PROVE CoolInv'
  OBVIOUS
<1>1. Shapes' /\ MessagesAreSent' /\ StillNotLimited'
  BY NextShapes, NextMessagesAreSent, NextStillNotLimited DEF CoolInv
<1>2. RowsAreOrdered' /\ CoolOff'
  <2>1. CASE \E c \in Granter : GrantCreates(c)
    BY <2>1, CreatesInOrder, CreatesCoolOff
  <2>2. CASE ~ \E c \in Granter : GrantCreates(c)
    BY <2>2, OthersKeepTheBank DEF CoolInv, RowsAreOrdered, CoolOff, RowsOf
  <2> QED BY <2>1, <2>2
<1> QED BY <1>1, <1>2 DEF CoolInv

\* Two chat rewards of a user in one conversation, none of another one between
\* them, are for messages an interval apart, even when the cache of chat-service
\* forgets and messages are handled late or again (IssueChatReward, RewardRepository).
THEOREM CoolOffHolds == Spec => []CoolOff
<1>1. CoolInv => CoolOff
  BY DEF CoolInv
<1> QED
  BY <1>1, InitCoolInv, NextCoolInv, PTL DEF Spec

----------------------------------------------------------------------------
(***************************************************************************)
(* What is shown.  A point is in the bank, then with the consumer that      *)
(* publishes it, then in an event, then in the index, and each step passes  *)
(* it on or is noted in a history; that an event is not taken for one       *)
(* before it, so that the points of both are one, follows from the numbers  *)
(* of events.                                                               *)
(***************************************************************************)
Waiting(u) == {e \in inbox["aggregator"] : e.user = u}
Coming(u)  == shown[u] + Cardinality(Waiting(u)) + Cardinality(InCall(u))
EventsOf(key) == {e \in events : e.key = key}

TasksAreTasks ==
  \A c \in Granter : \/ task[c] = Idle
                     \/ /\ task[c].pc \in {"create", "publish"}
                        /\ task[c] = [pc |-> task[c].pc, item |-> task[c].item]

EventsAreNumbered ==
  /\ IsFiniteSet(events)
  /\ \A e \in events : e.n \in Nat /\ e.n <= Cardinality(EventsOf(e.key))
  /\ inbox["aggregator"] \subseteq events /\ handled["aggregator"] \subseteq events
  /\ inbox["aggregator"] \cap handled["aggregator"] = {}

ScoresAreNumbers ==
  /\ shown \in [User -> Nat] /\ score \in [User -> Nat]
  /\ lost \in [User -> Nat] /\ extra \in [User -> Nat]

ShownInv == Shapes /\ TasksAreTasks /\ EventsAreNumbered /\ ScoresAreNumbers /\ ShownIsEarned

LEMMA InitShownInv == Init => ShownInv
<1> SUFFICES ASSUME Init PROVE ShownInv
  OBVIOUS
<1>1. \A u \in User : InCall(u) = {} /\ Waiting(u) = {}
  BY DEF Init, InCall, Waiting, Idle, Granter, Consumer
<1>2. ASSUME NEW u \in User PROVE shown[u] = 0 /\ score[u] = 0 /\ Coming(u) = 0
  <2>1. shown[u] = 0 /\ score[u] = 0
    BY DEF Init
  <2>2. Cardinality(Waiting(u)) = 0 /\ Cardinality(InCall(u)) = 0
    BY <1>1, FS_EmptySet
  <2> QED BY <2>1, <2>2 DEF Coming
<1>3. ShownIsEarned
  BY <1>2 DEF Init, ShownIsEarned, Coming, Waiting
<1> QED BY <1>3, FS_EmptySet DEF Init, ShownInv, Shapes, TasksAreTasks, EventsAreNumbered,
           ScoresAreNumbers, Granter, Consumer

LEMMA CountsAreNumbers ==
  ASSUME ShownInv, NEW u \in User
  PROVE  /\ IsFiniteSet(Waiting(u)) /\ Cardinality(Waiting(u)) \in Nat
         /\ IsFiniteSet(InCall(u)) /\ Cardinality(InCall(u)) \in Nat
         /\ shown[u] \in Nat /\ score[u] \in Nat /\ lost[u] \in Nat /\ extra[u] \in Nat
         /\ Coming(u) \in Nat
<1>1. IsFiniteSet(Waiting(u))
  BY FS_Subset DEF ShownInv, EventsAreNumbered, Waiting
<1>2. IsFiniteSet({"chat", "helpful"})
  <2>1. IsFiniteSet({"chat"} \cup {"helpful"})
    BY FS_Singleton, FS_AddElement
  <2>2. {"chat"} \cup {"helpful"} = {"chat", "helpful"}
    OBVIOUS
  <2> QED BY <2>1, <2>2
<1>3. IsFiniteSet(InCall(u))
  BY <1>2, FS_Subset DEF InCall, Granter
<1>4. Cardinality(Waiting(u)) \in Nat /\ Cardinality(InCall(u)) \in Nat
  BY <1>1, <1>3, FS_CardinalityType
<1>5. shown[u] \in Nat /\ score[u] \in Nat /\ lost[u] \in Nat /\ extra[u] \in Nat
  BY DEF ShownInv, ScoresAreNumbers
<1> QED BY <1>1, <1>3, <1>4, <1>5 DEF Coming

LEMMA OneMoreCounts ==
  ASSUME NEW f \in [User -> Nat], NEW x
  PROVE  /\ OneMore(f, x) \in [User -> Nat]
         /\ \A u \in User : OneMore(f, x)[u] = f[u] + IF u = x THEN 1 ELSE 0
<1>1. ASSUME NEW u \in User PROVE f[u] \in Nat /\ f[u] + 1 \in Nat /\ f[u] + 0 = f[u]
  OBVIOUS
<1> QED BY <1>1 DEF OneMore

\* Who hands in a message or a reply leaves the aggregator's events alone.
LEMMA ElsewhereKept ==
  ASSUME Shapes, NEW c \in Granter \cup {"worker"}, NEW item, HandsIn(c, item, Nothing)
  PROVE  inbox'["aggregator"] = inbox["aggregator"] /\ handled'["aggregator"] = handled["aggregator"]
BY DEF HandsIn, Nothing, Consumer, Granter, Shapes

\* The account of a step: what comes, and what is noted, changes as the bank does.
LEMMA AccountsNext ==
  ASSUME ShownInv, Shapes', TasksAreTasks', EventsAreNumbered', ScoresAreNumbers',
         \A u \in User : Coming(u)' + lost'[u] + score[u] + extra[u] =
                           Coming(u) + lost[u] + score'[u] + extra'[u]
  PROVE  ShownInv'
<1>1. ASSUME NEW u \in User, Coming(u)' \in Nat PROVE Coming(u)' + lost'[u] = score'[u] + extra'[u]
  <2>1. Coming(u) + lost[u] = score[u] + extra[u]
    BY DEF ShownInv, ShownIsEarned, Coming, Waiting
  <2>2. lost'[u] \in Nat /\ score'[u] \in Nat /\ extra'[u] \in Nat
    BY DEF ScoresAreNumbers
  <2>3. Coming(u)' + lost'[u] + score[u] + extra[u] = Coming(u) + lost[u] + score'[u] + extra'[u]
    OBVIOUS
  <2> QED BY <1>1, <2>1, <2>2, <2>3, CountsAreNumbers
<1>2. ASSUME NEW u \in User PROVE Coming(u)' \in Nat
  <2>1. IsFiniteSet(Waiting(u)')
    BY FS_Subset DEF EventsAreNumbered, Waiting
  <2>2. IsFiniteSet(InCall(u)')
    <3>1. IsFiniteSet({"chat"} \cup {"helpful"})
      BY FS_Singleton, FS_AddElement
    <3>2. InCall(u)' \subseteq {"chat"} \cup {"helpful"}
      BY DEF InCall, Granter
    <3> QED BY <3>1, <3>2, FS_Subset
  <2>3. shown'[u] \in Nat
    BY DEF ScoresAreNumbers
  <2> QED BY <2>1, <2>2, <2>3, FS_CardinalityType DEF Coming
<1>3. ShownIsEarned'
  BY <1>1, <1>2 DEF ShownIsEarned, Coming, Waiting
<1> QED BY <1>3 DEF ShownInv

\* A step that leaves the events as they are.
LEMMA EventsKept ==
  ASSUME EventsAreNumbered, events' = events,
         inbox'["aggregator"] = inbox["aggregator"], handled'["aggregator"] = handled["aggregator"]
  PROVE  EventsAreNumbered' /\ \A u \in User : Waiting(u)' = Waiting(u)
BY DEF EventsAreNumbered, EventsOf, Waiting

LEMMA NothingCounted ==
  ASSUME ShownInv, UNCHANGED <<shown, score, events, lost, extra>>,
         inbox'["aggregator"] = inbox["aggregator"], handled'["aggregator"] = handled["aggregator"],
         \A u \in User : InCall(u)' = InCall(u), Shapes', TasksAreTasks'
  PROVE  ShownInv'
<1>1. EventsAreNumbered' /\ \A u \in User : Waiting(u)' = Waiting(u)
  BY EventsKept DEF ShownInv
<1>2. ScoresAreNumbers'
  BY DEF ShownInv, ScoresAreNumbers
<1>3. \A u \in User : Coming(u)' = Coming(u)
  BY <1>1 DEF Coming
<1> QED BY <1>1, <1>2, <1>3, AccountsNext

LEMMA NextTasksAreTasks == Shapes /\ TasksAreTasks /\ [Next]_vars => TasksAreTasks'
<1> SUFFICES ASSUME Shapes, TasksAreTasks, [Next]_vars PROVE TasksAreTasks'
  OBVIOUS
<1> USE DEF Shapes, TasksAreTasks
<1>1. ASSUME NEW c \in Granter, NEW item \in inbox[c], NEW friends \in BOOLEAN,
             GrantTakes(c, item, friends)
      PROVE  TasksAreTasks'
  BY <1>1 DEF GrantTakes
<1>2. ASSUME NEW c \in Granter, GrantCreates(c) \/ GrantCommitFails(c) PROVE TasksAreTasks'
  <2>1. task[c] = [pc |-> "create", item |-> task[c].item]
    BY <1>2 DEF GrantCreates, GrantCommitFails, Idle
  <2>2. [task[c] EXCEPT !.pc = "publish"] = [pc |-> "publish", item |-> task[c].item]
    BY <2>1
  <2>3. task' = [task EXCEPT ![c] = [pc |-> "publish", item |-> task[c].item]]
    BY <1>2, <2>2 DEF GrantCreates, GrantCommitFails
  <2> QED BY <2>3
<1>3. ASSUME NEW c \in Granter, \/ GrantIsRefused(c) \/ GrantFails(c)
                                \/ GrantPublishes(c) \/ GrantGetsNoAck(c)
      PROVE  TasksAreTasks'
  BY <1>3 DEF GrantIsRefused, GrantFails, GrantPublishes, GrantGetsNoAck, GrantIsDone
<1>4. CASE Restart({"worker"}) \/ Restart(Granter) \/ Restart({"aggregator"})
  BY <1>4 DEF Restart
<1>5. CASE \/ Tick \/ WorkerPublishes \/ WorkerRemembers \/ WorkerGetsNoAck \/ WorkerFailsToRemember
           \/ \E u \in User, convo \in Convo : Send(u, convo)
           \/ \E l \in Liked : AuthorLikes(l)
           \/ \E m \in inbox["worker"] : WorkerTakes(m)
           \/ \E e \in inbox["aggregator"] : Aggregate(e) \/ AggregateDrops(e)
           \/ \E u \in User : ProfileIsCreated(u)
           \/ UNCHANGED vars
  BY <1>5 DEF Tick, WorkerPublishes, WorkerRemembers, WorkerGetsNoAck, WorkerFailsToRemember,
     WorkerIsDone, Send, AuthorLikes, WorkerTakes, Aggregate, AggregateDrops, ProfileIsCreated, vars
<1> HIDE DEF Shapes, TasksAreTasks
<1>6. CASE ConsumerStep
  BY <1>1, <1>2, <1>3, <1>5, <1>6 DEF ConsumerStep
<1>7. CASE Failure
  BY <1>2, <1>3, <1>4, <1>5, <1>7 DEF Failure
<1> QED
  BY <1>5, <1>6, <1>7 DEF Next

\* A consumer whose transaction is done, or seems to be, enters the call.
LEMMA EntersTheCall ==
  ASSUME ShownInv, NEW c \in Granter, task[c].pc = "create",
         task' = [task EXCEPT ![c].pc = "publish"], NEW u \in User
  PROVE  Cardinality(InCall(u)') = Cardinality(InCall(u)) + IF u = task[c].item.user THEN 1 ELSE 0
<1>1. /\ task'[c].pc = "publish" /\ task'[c].item = task[c].item
      /\ \A d \in Granter \ {c} : task'[d] = task[d]
  <2>1. task[c] = [pc |-> "create", item |-> task[c].item]
    BY DEF ShownInv, TasksAreTasks, Idle
  <2>2. [task[c] EXCEPT !.pc = "publish"] = [pc |-> "publish", item |-> task[c].item]
    BY <2>1
  <2>3. task' = [task EXCEPT ![c] = [pc |-> "publish", item |-> task[c].item]]
    BY <2>2
  <2> QED BY <2>3 DEF ShownInv, Shapes
<1>2. CASE u = task[c].item.user
  <2>1. c \notin InCall(u) /\ InCall(u)' = InCall(u) \cup {c}
    BY <1>1, <1>2 DEF InCall
  <2> QED BY <1>2, <2>1, CountsAreNumbers, FS_AddElement
<1>3. CASE u # task[c].item.user
  <2>1. InCall(u)' = InCall(u)
    BY <1>1, <1>3 DEF InCall
  <2> QED BY <1>3, <2>1, CountsAreNumbers
<1> QED BY <1>2, <1>3

\* The transaction commits, or the row is announced although it was rolled back.
LEMMA CreatesShownInv ==
  ASSUME ShownInv, NEW c \in Granter, GrantCreates(c) \/ GrantCommitFails(c), Shapes', TasksAreTasks'
  PROVE  ShownInv'
<1> DEFINE v == task[c].item.user
<1>1. /\ UNCHANGED <<inbox, handled, shown, events, lost>> /\ task[c].pc = "create"
      /\ task' = [task EXCEPT ![c].pc = "publish"]
      /\ \/ score' = OneMore(score, v) /\ extra' = extra
         \/ extra' = OneMore(extra, v) /\ score' = score
  BY DEF GrantCreates, GrantCommitFails, bank, index, histories
<1>2. EventsAreNumbered' /\ \A u \in User : Waiting(u)' = Waiting(u)
  BY <1>1, EventsKept DEF ShownInv
<1>3. score \in [User -> Nat] /\ extra \in [User -> Nat]
  BY DEF ShownInv, ScoresAreNumbers
<1> HIDE DEF v
<1>4. ScoresAreNumbers'
  BY <1>1, <1>3, OneMoreCounts DEF ShownInv, ScoresAreNumbers
<1>5. ASSUME NEW u \in User
      PROVE  Coming(u)' + lost'[u] + score[u] + extra[u] = Coming(u) + lost[u] + score'[u] + extra'[u]
  <2>1. Cardinality(InCall(u)') = Cardinality(InCall(u)) + IF u = v THEN 1 ELSE 0
    BY <1>1, EntersTheCall DEF v
  <2>2. \/ score'[u] = score[u] + (IF u = v THEN 1 ELSE 0) /\ extra'[u] = extra[u]
        \/ extra'[u] = extra[u] + (IF u = v THEN 1 ELSE 0) /\ score'[u] = score[u]
    BY <1>1, <1>3, OneMoreCounts
  <2>3. Coming(u)' = Coming(u) + IF u = v THEN 1 ELSE 0
    BY <1>1, <1>2, <2>1, CountsAreNumbers DEF Coming
  <2> QED BY <1>1, <2>2, <2>3, CountsAreNumbers
<1> QED BY <1>2, <1>4, <1>5, AccountsNext

\* A consumer that is done with an item, having published for it or not.
LEMMA LeavesTheCall ==
  ASSUME ShownInv, NEW c \in Granter, task[c].pc = "publish", task' = [task EXCEPT ![c] = Idle],
         NEW u \in User
  PROVE  Cardinality(InCall(u)') = Cardinality(InCall(u)) - IF u = task[c].item.user THEN 1 ELSE 0
<1>1. InCall(u)' = InCall(u) \ {c}
  BY DEF ShownInv, Shapes, InCall, Idle
<1>2. c \in InCall(u) <=> u = task[c].item.user
  BY DEF InCall
<1>3. CASE c \in InCall(u)
  <2>1. Cardinality(InCall(u) \ {c}) = Cardinality(InCall(u)) - 1
    BY <1>3, CountsAreNumbers, FS_RemoveElement
  <2> QED BY <1>1, <1>2, <1>3, <2>1
<1>4. CASE c \notin InCall(u)
  <2>1. InCall(u)' = InCall(u)
    BY <1>1, <1>4
  <2>2. Cardinality(InCall(u)') = Cardinality(InCall(u)) - 0
    BY <2>1, CountsAreNumbers
  <2> QED BY <1>2, <1>4, <2>2
<1> QED BY <1>3, <1>4

LEMMA PublishesShownInv ==
  ASSUME ShownInv, NEW c \in Granter, GrantPublishes(c), Shapes', TasksAreTasks'
  PROVE  ShownInv'
<1> DEFINE v   == task[c].item.user
           key == Key(c, task[c].item)
           n   == Cardinality(EventsOf(key)) + 1
           e   == [user |-> v, key |-> key, n |-> n]
<1>1. /\ task[c].pc = "publish" /\ task' = [task EXCEPT ![c] = Idle]
      /\ UNCHANGED <<shown, score, lost, extra>>
      /\ events' = events \cup {e} /\ inbox'["aggregator"] = inbox["aggregator"] \cup {e}
      /\ handled'["aggregator"] = handled["aggregator"]
  BY DEF GrantPublishes, GrantIsDone, HandsIn, Nothing, EventsOf, Consumer, Granter, ShownInv, Shapes
<1>2. e.user = v /\ e.key = key /\ e.n = n
  OBVIOUS
<1> HIDE DEF e
<1>3. IsFiniteSet(EventsOf(key)) /\ Cardinality(EventsOf(key)) \in Nat
  BY FS_Subset, FS_CardinalityType DEF ShownInv, EventsAreNumbered, EventsOf
<1>4. e \notin events
  <2>1. ASSUME e \in events PROVE FALSE
    <3>1. n <= Cardinality(EventsOf(key))
      BY <1>2, <2>1 DEF ShownInv, EventsAreNumbered
    <3> QED BY <1>3, <3>1
  <2> QED BY <2>1
<1> HIDE DEF key, n
<1>5. EventsAreNumbered'
  <2>1. IsFiniteSet(events')
    BY <1>1, FS_AddElement DEF ShownInv, EventsAreNumbered
  <2>2. ASSUME NEW f \in events' PROVE f.n \in Nat /\ f.n <= Cardinality(EventsOf(f.key)')
    <3>1. CASE f.key = key
      <4>1. EventsOf(f.key)' = EventsOf(key) \cup {e} /\ e \notin EventsOf(key)
        BY <1>1, <1>2, <1>4, <3>1 DEF EventsOf
      <4>2. Cardinality(EventsOf(f.key)') = n
        BY <1>3, <4>1, FS_AddElement DEF n
      <4>3. n \in Nat
        BY <1>3 DEF n
      <4>4. f = e \/ (f.n \in Nat /\ f.n <= Cardinality(EventsOf(key)))
        BY <1>1, <3>1 DEF ShownInv, EventsAreNumbered
      <4> QED BY <1>2, <1>3, <4>2, <4>3, <4>4 DEF n
    <3>2. CASE f.key # key
      <4>1. EventsOf(f.key)' = EventsOf(f.key) /\ f \in events
        BY <1>1, <1>2, <3>2 DEF EventsOf
      <4> QED BY <4>1 DEF ShownInv, EventsAreNumbered
    <3> QED BY <3>1, <3>2
  <2>3. /\ inbox'["aggregator"] \subseteq events' /\ handled'["aggregator"] \subseteq events'
        /\ inbox'["aggregator"] \cap handled'["aggregator"] = {}
    BY <1>1, <1>4 DEF ShownInv, EventsAreNumbered
  <2> QED BY <2>1, <2>2, <2>3 DEF EventsAreNumbered
<1>6. ScoresAreNumbers'
  BY <1>1 DEF ShownInv, ScoresAreNumbers
<1>7. ASSUME NEW u \in User PROVE Coming(u)' = Coming(u)
  <2>1. Cardinality(Waiting(u)') = Cardinality(Waiting(u)) + IF u = v THEN 1 ELSE 0
    <3>1. CASE u = v
      <4>1. Waiting(u)' = Waiting(u) \cup {e} /\ e \notin Waiting(u)
        BY <1>1, <1>2, <1>4, <3>1 DEF Waiting, ShownInv, EventsAreNumbered
      <4> QED BY <3>1, <4>1, CountsAreNumbers, FS_AddElement
    <3>2. CASE u # v
      <4>1. Waiting(u)' = Waiting(u)
        BY <1>1, <1>2, <3>2 DEF Waiting
      <4> QED BY <3>2, <4>1, CountsAreNumbers
    <3> QED BY <3>1, <3>2
  <2>2. Cardinality(InCall(u)') = Cardinality(InCall(u)) - IF u = v THEN 1 ELSE 0
    BY <1>1, LeavesTheCall
  <2> QED BY <1>1, <2>1, <2>2, CountsAreNumbers DEF Coming
<1>8. ASSUME NEW u \in User
      PROVE  Coming(u)' + lost'[u] + score[u] + extra[u] = Coming(u) + lost[u] + score'[u] + extra'[u]
  BY <1>1, <1>7
<1> QED BY <1>5, <1>6, <1>8, AccountsNext

\* An event that is handed in, its point being counted or dropped.
LEMMA AggregatesShownInv ==
  ASSUME ShownInv, NEW e \in inbox["aggregator"], Aggregate(e) \/ AggregateDrops(e),
         Shapes', TasksAreTasks'
  PROVE  ShownInv'
<1>1. /\ inbox'["aggregator"] = inbox["aggregator"] \ {e}
      /\ handled'["aggregator"] = handled["aggregator"] \cup {e}
      /\ UNCHANGED <<task, score, events, extra>>
      /\ \/ shown' = OneMore(shown, e.user) /\ lost' = lost
         \/ lost' = OneMore(lost, e.user) /\ shown' = shown
  BY DEF Aggregate, AggregateDrops, ScoresWith, HandsIn, Nothing, Consumer, bank, histories,
         ShownInv, Shapes
<1>2. EventsAreNumbered'
  BY <1>1 DEF ShownInv, EventsAreNumbered, EventsOf
<1>3. shown \in [User -> Nat] /\ lost \in [User -> Nat]
  BY DEF ShownInv, ScoresAreNumbers
<1>4. ScoresAreNumbers'
  BY <1>1, <1>3, OneMoreCounts DEF ShownInv, ScoresAreNumbers
<1>5. ASSUME NEW u \in User
      PROVE  Coming(u)' + lost'[u] + score[u] + extra[u] = Coming(u) + lost[u] + score'[u] + extra'[u]
  <2>1. InCall(u)' = InCall(u)
    BY <1>1 DEF InCall
  <2>2. Cardinality(Waiting(u)') = Cardinality(Waiting(u)) - IF u = e.user THEN 1 ELSE 0
    <3>1. CASE u = e.user
      <4>1. Waiting(u)' = Waiting(u) \ {e} /\ e \in Waiting(u)
        BY <1>1, <3>1 DEF Waiting
      <4> QED BY <3>1, <4>1, CountsAreNumbers, FS_RemoveElement
    <3>2. CASE u # e.user
      <4>1. Waiting(u)' = Waiting(u)
        BY <1>1, <3>2 DEF Waiting
      <4> QED BY <3>2, <4>1, CountsAreNumbers
    <3> QED BY <3>1, <3>2
  <2>3. \/ shown'[u] = shown[u] + (IF u = e.user THEN 1 ELSE 0) /\ lost'[u] = lost[u]
        \/ lost'[u] = lost[u] + (IF u = e.user THEN 1 ELSE 0) /\ shown'[u] = shown[u]
    BY <1>1, <1>3, OneMoreCounts
  <2> QED BY <1>1, <2>1, <2>2, <2>3, CountsAreNumbers DEF Coming
<1> QED BY <1>2, <1>4, <1>5, AccountsNext

\* A new document over that of a user.
LEMMA CreatedProfileShownInv ==
  ASSUME ShownInv, NEW v \in User, ProfileIsCreated(v), Shapes', TasksAreTasks'
  PROVE  ShownInv'
<1>1. /\ UNCHANGED <<task, inbox, handled, score, events, extra>>
      /\ shown' = [shown EXCEPT ![v] = 0] /\ lost' = [lost EXCEPT ![v] = @ + shown[v]]
  BY DEF ProfileIsCreated, bank
<1>2. EventsAreNumbered' /\ \A u \in User : Waiting(u)' = Waiting(u)
  BY <1>1, EventsKept DEF ShownInv
<1>3. \A u \in User : lost[u] \in Nat /\ shown[u] \in Nat /\ lost[u] + shown[u] \in Nat
  BY CountsAreNumbers
<1>4. ScoresAreNumbers'
  BY <1>1, <1>3 DEF ShownInv, ScoresAreNumbers
<1>5. ASSUME NEW u \in User
      PROVE  Coming(u)' + lost'[u] + score[u] + extra[u] = Coming(u) + lost[u] + score'[u] + extra'[u]
  <2>1. shown'[u] + lost'[u] = shown[u] + lost[u]
    BY <1>1, <1>3 DEF ShownInv, ScoresAreNumbers
  <2>2. InCall(u)' = InCall(u)
    BY <1>1 DEF InCall
  <2>3. shown'[u] \in Nat /\ lost'[u] \in Nat
    BY <1>4 DEF ScoresAreNumbers
  <2> QED BY <1>1, <1>2, <2>1, <2>2, <2>3, CountsAreNumbers DEF Coming
<1> QED BY <1>2, <1>4, <1>5, AccountsNext

\* reward-service restarts: what was about to be announced is not.
LEMMA GranterRestarts ==
  ASSUME ShownInv, Restart(Granter), Shapes', TasksAreTasks'
  PROVE  ShownInv'
<1>1. /\ UNCHANGED <<shown, score, events>>
      /\ inbox'["aggregator"] = inbox["aggregator"] /\ handled'["aggregator"] = handled["aggregator"]
      /\ \A c \in Granter : task'[c] = Idle
      /\ lost' = [u \in User |-> lost[u] + Cardinality(InCall(u) \cap Granter)]
      /\ \E again : extra' = [u \in User |-> extra[u] + Cardinality(Again(Granter, again, u))]
  BY DEF Restart, Consumer, Granter, bank, ShownInv, Shapes
<1>2. ASSUME NEW u \in User
      PROVE  extra'[u] = extra[u] /\ lost'[u] = lost[u] + Cardinality(InCall(u))
  <2>1. \A again : Again(Granter, again, u) = {}
    BY DEF Again, Granter
  <2>2. InCall(u) \cap Granter = InCall(u)
    BY DEF InCall
  <2>3. PICK again : extra' = [v \in User |-> extra[v] + Cardinality(Again(Granter, again, v))]
    BY <1>1
  <2>4. extra'[u] = extra[u] + 0
    BY <2>1, <2>3, FS_EmptySet
  <2>5. lost'[u] = lost[u] + Cardinality(InCall(u))
    BY <1>1, <2>2
  <2> QED BY <2>4, <2>5, CountsAreNumbers
<1>3. EventsAreNumbered' /\ \A u \in User : Waiting(u)' = Waiting(u)
  BY <1>1, EventsKept DEF ShownInv
<1>4. ScoresAreNumbers'
  <2>1. \A u \in User : extra'[u] \in Nat /\ lost'[u] \in Nat
    BY <1>2, CountsAreNumbers
  <2>2. extra' = [u \in User |-> extra'[u]] /\ lost' = [u \in User |-> lost'[u]]
    BY <1>1
  <2> QED BY <1>1, <2>1, <2>2 DEF ShownInv, ScoresAreNumbers
<1>5. ASSUME NEW u \in User
      PROVE  Coming(u)' + lost'[u] + score[u] + extra[u] = Coming(u) + lost[u] + score'[u] + extra'[u]
  <2>1. InCall(u)' = {}
    BY <1>1 DEF InCall, Idle
  <2>2. Cardinality(InCall(u)') = 0
    BY <2>1, FS_EmptySet
  <2> QED BY <1>1, <1>2, <1>3, <2>2, CountsAreNumbers DEF Coming
<1> QED BY <1>3, <1>4, <1>5, AccountsNext

\* The aggregator restarts: what it gets again is counted again.
LEMMA AggregatorRestarts ==
  ASSUME ShownInv, Restart({"aggregator"}), Shapes', TasksAreTasks'
  PROVE  ShownInv'
<1>1. PICK again \in SUBSET handled["aggregator"] :
        /\ inbox'["aggregator"] = inbox["aggregator"] \cup again
        /\ handled'["aggregator"] = handled["aggregator"] \ again
        /\ extra' = [u \in User |-> extra[u] + Cardinality(Again({"aggregator"}, again, u))]
  <2>1. UNION {handled[c] : c \in {"aggregator"}} = handled["aggregator"]
    OBVIOUS
  <2> QED BY <2>1 DEF Restart, Consumer
<1>2. /\ UNCHANGED <<shown, score, events>> /\ \A c \in Granter : task'[c] = task[c]
      /\ lost' = [u \in User |-> lost[u] + Cardinality(InCall(u) \cap {"aggregator"})]
  BY DEF Restart, Granter, bank
<1>3. ASSUME NEW u \in User
      PROVE  /\ lost'[u] = lost[u]
             /\ Cardinality(Waiting(u)') + extra[u] = Cardinality(Waiting(u)) + extra'[u]
             /\ extra'[u] \in Nat
  <2>1. InCall(u) \cap {"aggregator"} = {}
    BY DEF InCall, Granter
  <2>2. lost'[u] = lost[u]
    BY <1>2, <2>1, FS_EmptySet, CountsAreNumbers
  <2> DEFINE back == {e \in again : e.user = u}
  <2>3. Again({"aggregator"}, again, u) = back
    BY DEF Again
  <2>4. Waiting(u)' = Waiting(u) \cup back /\ Waiting(u) \cap back = {}
    BY <1>1 DEF Waiting, ShownInv, EventsAreNumbered
  <2>5. IsFiniteSet(back)
    BY <1>1, FS_Subset DEF ShownInv, EventsAreNumbered
  <2>6. Cardinality(back) \in Nat
    BY <2>5, FS_CardinalityType
  <2> HIDE DEF back
  <2>7. Cardinality(Waiting(u)') = Cardinality(Waiting(u)) + Cardinality(back)
    <3>1. Cardinality(Waiting(u) \cup back) =
            Cardinality(Waiting(u)) + Cardinality(back) - Cardinality(Waiting(u) \cap back)
      BY <2>5, CountsAreNumbers, FS_Union
    <3>2. Cardinality(Waiting(u) \cap back) = 0
      BY <2>4, FS_EmptySet
    <3> QED BY <2>4, <2>6, <3>1, <3>2, CountsAreNumbers
  <2> QED BY <1>1, <2>2, <2>3, <2>6, <2>7, CountsAreNumbers
<1>4. EventsAreNumbered'
  BY <1>1, <1>2 DEF ShownInv, EventsAreNumbered, EventsOf
<1>5. ScoresAreNumbers'
  <2>1. \A u \in User : extra'[u] \in Nat /\ lost'[u] \in Nat
    BY <1>3, CountsAreNumbers
  <2>2. extra' = [u \in User |-> extra'[u]] /\ lost' = [u \in User |-> lost'[u]]
    BY <1>1, <1>2
  <2> QED BY <1>2, <2>1, <2>2 DEF ShownInv, ScoresAreNumbers
<1>6. ASSUME NEW u \in User
      PROVE  Coming(u)' + lost'[u] + score[u] + extra[u] = Coming(u) + lost[u] + score'[u] + extra'[u]
  <2>1. InCall(u)' = InCall(u)
    BY <1>2 DEF InCall
  <2>2. IsFiniteSet(Waiting(u)')
    BY <1>4, FS_Subset DEF EventsAreNumbered, Waiting
  <2>3. Cardinality(Waiting(u)') \in Nat
    BY <2>2, FS_CardinalityType
  <2> QED BY <1>2, <1>3, <2>1, <2>3, CountsAreNumbers DEF Coming
<1> QED BY <1>4, <1>5, <1>6, AccountsNext

\* chat-service restarts: nothing that is counted is its own.
LEMMA WorkerRestarts ==
  ASSUME ShownInv, Restart({"worker"}), Shapes', TasksAreTasks'
  PROVE  ShownInv'
<1>1. /\ UNCHANGED <<shown, score, events>> /\ \A c \in Granter : task'[c] = task[c]
      /\ inbox'["aggregator"] = inbox["aggregator"] /\ handled'["aggregator"] = handled["aggregator"]
      /\ lost' = [u \in User |-> lost[u] + Cardinality(InCall(u) \cap {"worker"})]
      /\ \E again : extra' = [u \in User |-> extra[u] + Cardinality(Again({"worker"}, again, u))]
  BY DEF Restart, Consumer, Granter, bank, ShownInv, Shapes
<1>2. ASSUME NEW u \in User PROVE extra'[u] = extra[u] /\ lost'[u] = lost[u]
  <2>1. \A again : Again({"worker"}, again, u) = {}
    BY DEF Again
  <2>2. InCall(u) \cap {"worker"} = {}
    BY DEF InCall, Granter
  <2>3. PICK again : extra' = [v \in User |-> extra[v] + Cardinality(Again({"worker"}, again, v))]
    BY <1>1
  <2>4. extra'[u] = extra[u] + 0
    BY <2>1, <2>3, FS_EmptySet
  <2>5. lost'[u] = lost[u] + 0
    BY <1>1, <2>2, FS_EmptySet
  <2> QED BY <2>4, <2>5, CountsAreNumbers
<1>3. extra' = extra /\ lost' = lost
  <2>1. extra' = [u \in User |-> extra'[u]] /\ lost' = [u \in User |-> lost'[u]]
    BY <1>1
  <2> QED BY <1>2, <2>1 DEF ShownInv, ScoresAreNumbers
<1>4. \A u \in User : InCall(u)' = InCall(u)
  BY <1>1 DEF InCall
<1> QED BY <1>1, <1>3, <1>4, NothingCounted

LEMMA NextShownInv == ShownInv /\ [Next]_vars => ShownInv'
<1> SUFFICES ASSUME ShownInv, [Next]_vars PROVE ShownInv'
  OBVIOUS
<1>1. Shapes' /\ TasksAreTasks'
  BY NextShapes, NextTasksAreTasks DEF ShownInv
<1>2. CASE \E c \in Granter : GrantCreates(c) \/ GrantCommitFails(c) \/ GrantPublishes(c)
  BY <1>1, <1>2, CreatesShownInv, PublishesShownInv
<1>3. CASE \E e \in inbox["aggregator"] : Aggregate(e) \/ AggregateDrops(e)
  BY <1>1, <1>3, AggregatesShownInv
<1>4. ASSUME NEW c \in Granter, GrantGetsNoAck(c) PROVE ShownInv'
  <2>1. /\ UNCHANGED <<shown, score, extra>> /\ events' = events \cup {}
        /\ lost' = OneMore(lost, task[c].item.user)
        /\ task[c].pc = "publish" /\ task' = [task EXCEPT ![c] = Idle]
        /\ HandsIn(c, task[c].item, [Nothing EXCEPT !["aggregator"] = {}])
    BY <1>4 DEF GrantGetsNoAck, GrantIsDone
  <2>2. [Nothing EXCEPT !["aggregator"] = {}] = Nothing
    BY DEF Nothing
  <2>3. inbox'["aggregator"] = inbox["aggregator"] /\ handled'["aggregator"] = handled["aggregator"]
    BY <2>1, <2>2, ElsewhereKept DEF ShownInv
  <2>4. EventsAreNumbered' /\ \A u \in User : Waiting(u)' = Waiting(u)
    BY <2>1, <2>3, EventsKept DEF ShownInv
  <2>5. lost \in [User -> Nat]
    BY DEF ShownInv, ScoresAreNumbers
  <2>6. ScoresAreNumbers'
    BY <2>1, <2>5, OneMoreCounts DEF ShownInv, ScoresAreNumbers
  <2>7. ASSUME NEW u \in User
        PROVE  Coming(u)' + lost'[u] + score[u] + extra[u] = Coming(u) + lost[u] + score'[u] + extra'[u]
    <3>1. Cardinality(InCall(u)') = Cardinality(InCall(u)) - IF u = task[c].item.user THEN 1 ELSE 0
      BY <2>1, LeavesTheCall
    <3>2. lost'[u] = lost[u] + IF u = task[c].item.user THEN 1 ELSE 0
      BY <2>1, <2>5, OneMoreCounts
    <3> QED BY <2>1, <2>4, <3>1, <3>2, CountsAreNumbers DEF Coming
  <2> QED BY <1>1, <2>4, <2>6, <2>7, AccountsNext
<1>5. CASE Restart({"worker"}) \/ Restart(Granter) \/ Restart({"aggregator"})
  BY <1>1, <1>5, WorkerRestarts, GranterRestarts, AggregatorRestarts
<1>6. CASE \E u \in User : ProfileIsCreated(u)
  BY <1>1, <1>6, CreatedProfileShownInv
<1>7. ASSUME NEW c \in Granter, \/ GrantIsRefused(c) \/ GrantFails(c)
                                \/ \E item \in inbox[c], friends \in BOOLEAN : GrantTakes(c, item, friends)
      PROVE  ShownInv'
  <2>1. /\ UNCHANGED <<shown, score, events, lost, extra>>
        /\ inbox'["aggregator"] = inbox["aggregator"] /\ handled'["aggregator"] = handled["aggregator"]
        /\ task[c].pc # "publish" /\ task'[c].pc # "publish"
        /\ \A d \in Granter \ {c} : task'[d] = task[d]
    <3>1. CASE GrantIsRefused(c) \/ GrantFails(c)
      <4>1. /\ HandsIn(c, task[c].item, Nothing) /\ task[c].pc = "create"
            /\ task' = [task EXCEPT ![c] = Idle] /\ UNCHANGED <<shown, score, events, lost, extra>>
        BY <3>1 DEF GrantIsRefused, GrantFails, bank, index, histories
      <4>2. inbox'["aggregator"] = inbox["aggregator"] /\ handled'["aggregator"] = handled["aggregator"]
        BY <4>1, ElsewhereKept DEF ShownInv
      <4>3. task'[c] = Idle /\ \A d \in Granter \ {c} : task'[d] = task[d]
        BY <4>1 DEF ShownInv, Shapes
      <4> QED BY <4>1, <4>2, <4>3 DEF Idle
    <3>2. ASSUME NEW item \in inbox[c], NEW friends \in BOOLEAN, GrantTakes(c, item, friends)
          PROVE  /\ UNCHANGED <<shown, score, events, lost, extra>>
                 /\ inbox'["aggregator"] = inbox["aggregator"]
                 /\ handled'["aggregator"] = handled["aggregator"]
                 /\ task[c].pc # "publish" /\ task'[c].pc # "publish"
                 /\ \A d \in Granter \ {c} : task'[d] = task[d]
      <4>1. task[c] = Idle /\ UNCHANGED <<shown, score, events, lost, extra>>
        BY <3>2 DEF GrantTakes, bank, index, histories
      <4>2. inbox'["aggregator"] = inbox["aggregator"] /\ handled'["aggregator"] = handled["aggregator"]
        BY <3>2, ElsewhereKept DEF GrantTakes, ShownInv
      <4>3. task'[c].pc # "publish" /\ \A d \in Granter \ {c} : task'[d] = task[d]
        BY <3>2 DEF GrantTakes, ShownInv, Shapes, Idle
      <4> QED BY <4>1, <4>2, <4>3 DEF Idle
    <3> QED BY <1>7, <3>1, <3>2
  <2>2. \A u \in User : InCall(u)' = InCall(u)
    BY <2>1 DEF InCall
  <2> QED BY <1>1, <2>1, <2>2, NothingCounted
<1>8. CASE \/ Tick \/ WorkerPublishes \/ WorkerRemembers \/ WorkerGetsNoAck \/ WorkerFailsToRemember
           \/ \E u \in User, convo \in Convo : Send(u, convo)
           \/ \E l \in Liked : AuthorLikes(l)
           \/ \E m \in inbox["worker"] : WorkerTakes(m)
           \/ UNCHANGED vars
  <2>1. UNCHANGED <<shown, score, events, lost, extra, task>>
    BY <1>8 DEF Tick, WorkerPublishes, WorkerRemembers, WorkerGetsNoAck, WorkerFailsToRemember,
       WorkerIsDone, Send, AuthorLikes, WorkerTakes, bank, index, histories, vars
  <2>2. inbox'["aggregator"] = inbox["aggregator"] /\ handled'["aggregator"] = handled["aggregator"]
    <3>1. CASE \/ WorkerRemembers \/ WorkerGetsNoAck \/ WorkerFailsToRemember
               \/ \E m \in inbox["worker"] : WorkerTakes(m)
      BY <3>1, ElsewhereKept DEF WorkerRemembers, WorkerGetsNoAck, WorkerFailsToRemember,
         WorkerIsDone, WorkerTakes, ShownInv
    <3>2. CASE \/ Tick \/ WorkerPublishes \/ UNCHANGED vars
               \/ \E u \in User, convo \in Convo : Send(u, convo)
               \/ \E l \in Liked : AuthorLikes(l)
      <4>1. inbox = [d \in Consumer |-> inbox[d]] /\ "aggregator" \in Consumer
        BY DEF ShownInv, Shapes, Consumer
      <4>2. CASE WorkerPublishes
        BY <4>1, <4>2 DEF WorkerPublishes
      <4>3. CASE \E u \in User, convo \in Convo : Send(u, convo)
        BY <4>1, <4>3 DEF Send
      <4>4. CASE \E l \in Liked : AuthorLikes(l)
        BY <4>1, <4>4 DEF AuthorLikes
      <4>5. CASE Tick \/ UNCHANGED vars
        BY <4>5 DEF Tick, vars
      <4> QED BY <3>2, <4>2, <4>3, <4>4, <4>5
    <3> QED BY <1>8, <3>1, <3>2
  <2>3. \A u \in User : InCall(u)' = InCall(u)
    BY <2>1 DEF InCall
  <2> QED BY <1>1, <2>1, <2>2, <2>3, NothingCounted
<1> QED
  BY <1>2, <1>3, <1>4, <1>5, <1>6, <1>7, <1>8 DEF Next, ConsumerStep, Failure

\* Whatever is delivered twice, refused or restarted, the shown score is that of
\* the bank but for what the histories of known failures account for
\* (RewardRepository.create, RewardEventsAggregator, bulkUpdateHumaneScoreFromDiff).
THEOREM ShownWasEarned == Spec => []ShownIsEarned
<1>1. ShownInv => ShownIsEarned
  BY DEF ShownInv
<1> QED
  BY <1>1, InitShownInv, NextShownInv, PTL DEF Spec
==============================================================================
