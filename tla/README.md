# Formal models of humane-backend

TLA+ specifications of the event-driven core of humane-backend: nine small
services over Kafka, RabbitMQ, redis, MongoDB, PostgreSQL and Elasticsearch.
What is hard in this code is not any one handler: it is that each handler
awaits between its steps, that what one service writes reaches the others as
events which may be late, repeated, overtaken or lost, and that buffers, locks
and retries are written by hand. That is what is modelled.

`PROJECT.json` maps every definition to the lines it stands for and lists
components, runs, hazards, findings and theorems. Tools: TLC and TLAPS.

## 1. The system

| Service | State | Operations | Talks to |
|---|---|---|---|
| user-service | PostgreSQL: users, one `friendShip` row per sorted pair, blocks | sign-up, log-in, profile; send, accept, cancel, decline, remove | publishes friendship and profile events |
| writer-service | MongoDB: posts, comments, likes, hashtags | create and delete posts and comments; requests to like or unlike; workers that write likes and counts | publishes post, comment and like events, reads its own like topics and POST_MODERATED |
| moderation-service | RabbitMQ queue MODERATE_MEDIA; a main and a child process | queue created posts; moderate; report | reads POST_CREATED, publishes POST_MODERATED |
| notification-service | MongoDB: notifications, several kinds in one collection | one consumer per topic; mark as read; websocket | reads friendship, post, comment and reward events |
| chat-service | MongoDB: conversations, messages; redis: calls, cool-offs | send, delete; call protocol between devices | publishes messages and first replies |
| reward-service | PostgreSQL: `Rewards`, `HumaneScore` | grant a reward for a reply or a helpful comment | publishes USER_REWARDED |
| elasticsearch-proxy | Elasticsearch: users, posts, comments | upsert, delete, count comments and scores in batches; queries | reads nearly every topic; called by feed, chat and others |
| feed-service | MongoDB: timelines; redis: their heads | fan out judged posts; page through a timeline | reads POST_MODERATION_COMPLETED and deletions |
| email-service | none | send mail | reads sign-up and recovery events |

Every service runs once (`infra/k8s/3-microservices`: `replicas: 1`). Containers
run `tsx watch`, so a process that dies is not always started again.

### What is hard, and what makes each part correct

* **Batching consumers** (likes in writer-service, counts in elasticsearch-proxy).
  A timer and the message handler both start flushes, which overlap at each
  `await`; offsets are committed by hand. Correct if flushes exclude each other,
  no event falls between the buffers, no commit passes an unsettled event, and
  repetition needs a restart.
* **Likes.** A click passes two topics and four workers before it counts, likes
  and unlikes by different routes, and `$inc` is not idempotent. Correct if
  rows, counts and events agree and the last click decides.
* **Friendships.** Two users, several devices, read-check-write without locks.
  Correct if each request ends once, events tell the outcome, and only
  unfriending ends a friendship.
* **Notifications of requests.** Two collections follow the events, by
  timestamps and two separate writes. Correct if they mirror the rows.
* **Comments.** Row, search document, count, and three kinds of notification are
  kept by consumers that are not in step; deleting a post deletes them all.
  Correct if what is left without a post comes from a race or from a clearing that
  failed, documents and notifications agree with the rows, and a count is off by
  no more than the mishaps that happened.
* **Conversations.** Sends create what they do not find; pages, live events and
  reconnects overlap. Correct if both sides find every message, the client
  misses none, and list, search and unread marks agree with the history.
* **Calls.** Several devices and the caller race on a redis hash. Correct if one
  device decides and everybody learns of the end.
* **Rewards.** Events are redelivered, caches forget, and the shown score passes
  through a transaction, an event and a bulk write, each of which may fail on its
  own. Correct if nothing is granted twice, the shown score is off by the points of
  known failures only, and the cool-off holds.
* **Moderation.** Two brokers, two processes, retries. Correct if no post is
  forgotten, none fails without a retry and no job goes round for ever.
* **Read models of posts.** Events come in any order, writes are not awaited.
  Correct if documents end at the last change, late and repeated events never take
  them back, and timelines hold what was judged.
* **Accounts and profiles.** Handlers read the row, wait for a hash and act on
  what they read; profile events have no key, and one `updatedAt` guards all
  fields. Correct if accounts are proven and announced once, a block keeps its
  user out, and the index settles on the row.
* **Lists.** Eleven cursors over data that changes meanwhile. Correct if whoever
  scrolls to the end has seen everything that stayed, once.

## 2. Modules

| Module | Models | State | Composed with |
|---|---|---|---|
| `AckedConsumer` | contract of a consumer that commits by hand | settled messages, committed offsets | abstract specification |
| `BatchWorker` | `CommentLikeCountWorker.consumer.ts`, `commentRepository.bulkUpdate…` | log, position, committed, two buffers, a program counter per running flush, counts | implements `AckedConsumer` |
| `LikePipeline` | five workers, `LikeServices`, `LikeRepository`, `CommentServices` | likes, counts, flags, four topics, per worker its batch and acks | builds on `AckedConsumer`'s contract |
| `Friendship` | `FriendRequest.usecase.ts`, `RemoveFriendship`, the repository | the row of a pair, calls in progress, the event topic | |
| `FriendNotifications` | `FriendreqEventConsumer.ts` and its use cases | two notification collections, consumer position | EXTENDS `Friendship` |
| `CallProtocol` | `MDUCCProtocol.service.ts`, `ClientEventHandler.ts` | the call's hash, each device's handlers with the copy they read, what devices were told | |
| `Rewards` | chat's reply worker, reward-service, score aggregator | messages, cool-off cache, rewards, scores, inboxes | three services in one module |
| `Moderation` | `PostCreatedEvent.consumer`, `ModerateMediaWorker`, writer's `PostModeratedEvent.consumer` | post status, topics, job queue, progress of the three processes | three processes in one module |
| `PostReadModels` | elasticsearch-proxy's and feed-service's consumers of post events | post row, per-service topic, document, timelines, cache | verdicts are those of `Moderation` |
| `Conversations` | websocket handlers, HTTP controllers and repositories of messages and conversations | conversations, messages, redis entry, sends in progress, a client's screen | |
| `Comments` | `CommentServices`, `PostServices.deletePost`, elasticsearch-proxy's comment, count and post consumers | posts, comments, documents, double buffers, what each consumer has handled | |
| `CommentNotifications` | notification-service's consumers of comments, likes and verdicts | its notifications, the progress of two consumers | EXTENDS `Comments` |
| `Accounts` | sign-up, log-in, Google, tokens, passwords, profile, pictures, blocks, email-service | rows, tokens, letters, requests in progress, events | |
| `ProfileIndex` | elasticsearch-proxy's consumer of profile events | documents, updates nobody awaits | EXTENDS `Accounts` |
| `Lists` | the queries of eleven lists and the clients' cursors | stored entries, the feed's cache, cursor | initial state picks the list |

`MC…` modules and their `.cfg` files are the instances for TLC; `…Proof` modules
hold the proofs. A definition marked "slip" is a plausible bug in the definition
that follows it: each property is shown to fail when its slip is used instead.

Conventions. One action per stretch of code between two awaits that another
actor could interleave with. A handler's local copy of what it read is part of
its progress record. A message is a record, a topic a sequence per partition
where order matters and partition counts are known to matter, otherwise a set
from which messages are taken in any order (partition counts and message keys are
not in the repository). Histories used only by properties are named as such.

### Abstractions worth knowing

* `BatchWorker`: the map from comment to difference is kept per message (same
  sum, terms told apart). Offsets are one-based. Crash and rebalance set the
  position back to what was committed.
* `LikePipeline`: a worker takes any set of messages not yet acknowledged and
  goes through write and publish; that this is what a batching worker does is
  `BatchWorker`'s refinement. Rebalances are considered there only. `likeCount`
  may be negative for a while: an unlike lowers it at once, a like a topic later.
* `Friendship`: the checks on users and blocks only make a call throw before
  it has done anything and are left out.
* `CallProtocol`: one call. Times are abstracted, the hash may expire at any
  moment; properties of the protocol itself are conditional on `expiries = 0`.
* `Rewards`: every reward is one point; whether two users are friends is decided
  nondeterministically; the aggregator's batches have one event each, and a restart
  gives it any events it handled again (`extra`). A transaction may fail before its
  commit (`GrantFails`) or at it, after which the reward is announced all the same
  (`GrantCommitFails`). A failed bulk, or item of it, loses its points
  (`AggregateDrops`), and so does a profile that is created anew over its document
  (`ProfileIsCreated`). `lost` and `extra` are histories of such points.
* `Moderation`: posts share nothing but the worker's slot, so one post is
  checked. What is attached is chosen initially; "explicit" means that
  classification will flag it. The commit in the catch block is taken to work.
  `silenced` records that a publish went without an ack or a store failed.
* `PostReadModels`: comments and their count are left out; the friends of an
  author are written together; `updatedAt` counts changes. An event that gets no ack
  is either in the topic, which is then the ordinary case, or lost (`missed`).
  The read before an upsert may fail, which the code takes for "no document"
  (`unread`); what its write then overwrites is `missed`, too.
* `Comments`: ids carry author and post. Consumers meet only in the documents, so a
  `Scene` (chosen initially) may leave some of them out. `troubled`, `raced` and
  `uncleared` are histories: comments one of whose events was lost, repeated or
  overtaken, comments whose creation was under way when the post was deleted, and
  posts whose comments were left behind as the call that deletes them failed or was
  cut off (`ClearingFails`; nothing calls it again). Any item of a bulk update of
  counts may fail by a conflict (`Flush`), and a verdict may index a post anew after a
  failed read (`UpsertPost`); `slack` counts both.
* `Conversations`: the clock may stand still between two stamps; `createdAt` of a
  conversation is the start of the process, as the schema calls `Date.now()` once.
  `POST /convo` never passes its check for `req.user` (its route lacks the middleware), so
  there are no groups.
* `Accounts`: tokens never expire, the last login's time is left out, a value a
  request chooses is the number of the request. An acknowledgement email-service
  does not get changes nothing. A refresh through the admins' route looks at neither
  the type of the token nor a row (`RefreshAdmin`); what it gives for a user's token
  names nobody.
* `ProfileIndex`: USER_UPDATED carries the whole row as it was read; covers and blocks
  are written without being awaited, and a rejection there ends the process. After a
  failed read a profile event replaces the document whatever its time
  (`UpsertProfile`), which leaves its user `amiss`.
* `Lists`: a page is one query. Between pages, entries appear, change and go.
* A constant `Bound` or `Scene` is a set of bounds from which `Init` picks: one run then
  covers several small instances instead of one that is too large.
* `humane-common` (event names, `createEvent`) is an empty submodule here and is
  modelled from its use, like Kafka, RabbitMQ and redis.

## 3. Runs

| Run | Instance | Checked |
|---|---|---|
| `batch_worker` | 2 partitions, 3 messages, a timer call and `eachMessage`, batch size 1, one rewind, one failing write, fair | `TypeOK`, `FlushIsExclusive`, `NothingForgotten`, `CommittedIsSettled`, `DuplicatesOnlyFromRewinds`, refinement `ImplementsAckedConsumer`, `EventuallySettled` |
| `like_pipeline` | 2 users (one the post's author), a comment; 3 clicks, or 2 and a deletion, or 1 and a fault anywhere, or 2 and a fault without the workers of flags; fair (198 549 states) | `CountsAgree`, `EventsMirrorLikes`, `LikeArrives`, `LastClickDecides`, `CountsCatchUp` |
| `friend_notifications` | 2 users, 3 racing calls, 2 partitions, one fault in each service | `EventsTellTheStory`, `NotificationsMirrorRows`, `RetriesAreHarmless` |
| `friendship_race` | the same without faults | **violated**: `OnlyUnfriendingEndsFriendship` |
| `call_protocol` | 3 devices of the recipient, one expiry, one failing call | `TypeOK`, `OneDeviceTakes`, `EveryoneLearnsTheEnd` |
| `rewards` | 2 users, 2 conversations, 2 comments of a post, 3 inputs, one fault in any of the services, interval 2 of 3 ticks (449 000 states) | `RewardedOnce`, `ShownIsEarned`, `CoolOff` |
| `moderation` | one post, any attachment, 2 faults, fair | `PendingIsWaiting`, `FailedIsRetried`, `PostsAreJudged` |
| `post_read_models` | one post, hot author or not, 2 verdicts, 2 faults | `IndexAgrees`, `IndexNeverBack`, `FeedIsComplete` |
| `conversations` | 3 users, 2 devices, 3 acts, pages of one | `StoredForBoth`, `NoMessageMissed`, `ViewsAgree`, `RecentsShowEach` |
| `comments` | 3 users, 2 comments of a post, 5 scenes, one fault | `OrphansAreExplained`, `IndexMirrorsComments`, `CountsWithinSlack`, `PostAuthorsKnow`, `LikesAreCounted` |
| `accounts` | 2 addresses, an admin, up to 4 acts, 10 scenes, one fault | `AccountsAreProven`, `BlockedStaysOut`, `IndexSettles` |
| `lists` | each of 11 lists, 3 or 4 entries, 2 times, pages of 1 and 2, 2 changes (2.4 million states) | `ScrollShowsAll` |

Why the bounds are enough for the cases the properties are about:

* Flushes: the timer and `eachMessage` overlap at every await; two messages of
  different partitions in one batch need one commit each; one rewind before, during
  and after each step.
* Likes: like, unlike, like of one user and a like of another in any overlap
  are three clicks; the post author's is one of the two. A fault that concerns
  flags needs one click, one that concerns counts two.
* Friendship: three calls are the least for request, accept and a call overtaking
  it, and for a request ended and made again.
* Calls: with three devices, two lose the race in different ways. The properties
  compare two devices at a time.
* Rewards: three inputs are two in one conversation and one between; replies
  within and outside the interval both occur in three ticks.
* Moderation: two faults combine a lost connection with a failing report or a
  restart with a redelivery; a job is dropped on its second attempt.
* Read models: creation and two verdicts are three versions, the least for a
  version to be both newer and older than what is stored; a restart and a failing
  or lost call, or two of either, in any place.
* Conversations: three acts are two first messages of a pair from both sides and
  a deletion between, or a send during a page load and a reconnect; pages of one make
  every message the end of a page; two stamps can coincide.
* Comments: two comments are one of the post's author and one of another user,
  created or deleted while the other is buffered. A scene per group of consumers
  that write the same document or notification.
* Accounts: three requests of one address and a block are the longest race the
  handlers allow (read, block, write, next request); each scene has the
  operations that share fields.
* Lists: pages of one and two, all times of entries, an entry that appears and one
  that goes between two pages; the exceptions of `ScrollShowsAll` each occur.

`CHECK_DEADLOCK FALSE`: users may stop, and a system with nothing left to do is at rest.

### Fairness

Weak fairness is on the steps of timers, of kafkajs and amqplib that deliver the next
message, and of calls that return. `setInterval` fires for ever, the client libraries
keep polling, and an awaited call resolves or rejects. No fairness on users, on
crashes, on expiry, on restarts (nothing in the repository guarantees a process
comes back), or on any failure. `PostsAreJudged` therefore exempts the state in
which the child process no longer consumes: the code has no step that leaves it.

### Finding

`friendship_race`: `cancel` reads PENDING, the other user accepts, and the row
deleted at `FriendRequest.usecase.ts:166` is a friendship, which the text at :160
excludes; the same for decline (:205).

### Behaviour that is modelled as it is

The properties are stated around it. No text of the repository excludes it, but for
the failing read of `getUpdatedAt`.

* Calls: a device that answers an ended call is told `callEnded` and then connected
  (`ClientEventHandler.ts:289` has no `return`); redis answers `{}` for an expired hash,
  which `MDUCCProtocol.service.ts:45` takes for a call.
* Events whose publish gets no ack are lost for good: a like then is stored and
  not counted, and a verified user is unknown to the index until the next change
  (`VerifyUser.usecase.ts:60`, which also answers with an error although the row exists).
* Index: a creation handled after the deletion brings a document back; of two
  profile events of one millisecond the second is skipped; a block and a
  picture guard each other by the same `updatedAt`.
* `getUpdatedAt` (`PostRepository.ts:86`) and `updatedAtQuery` (`UserRepository.ts:72`)
  test for a 404 by an expression without effect and answer null to every error
  response, so an older event may be indexed over a newer document, although
  `Post.services.ts:29` speaks of "Skipping post creation since incommiing document is
  old". `IndexAgrees`, `IndexNeverBack`, `CountsWithinSlack` and `IndexSettles` except
  what is overwritten after such a read, by name.
* Comments of a deleted post: `Post.controller.ts:103` deletes them by a call of its
  own, and if it fails they stay; a conflict of one item of a bulk write of counts or
  scores loses it, as answers of items are not read.
* The admins' refresh route answers any refresh token with one of type admin
  (`RefreshAdminToken.usecase.ts`), a user's included, blocked or not.
  `BlockedStaysOut` therefore speaks of tokens of type user only.
* Several exceptions are hazards no property catches: a stale flag of an author who
  unlikes, comments indexed after their post was deleted, the lost second notification
  of an acceptance, a like that comes while the last one of a notification is removed,
  notifications of a deleted comment that come back, two conversations of a pair.
  `PROJECT.json` says so at each.
* Two password changes compare first and write later, so both may succeed.
* Rewards: another conversation's reward hides a cool-off.
* Moderation: the queue's version is never used by retries.
* Lists: cursors of requests and friends repeat the cursor's millisecond, and a page
  size no larger than a crowded millisecond never ends; mutual friends skip one
  when the cursor's user is unfriended; feed cache and user search lose entries
  of a page's last millisecond; a late post cached over a cold cache hides
  older ones; numbered pages shift; the hashtag list shows unjudged posts.

## 4. Proofs

For every set of partitions, comments, timer calls, any batch size and any bound
(`BatchWorkerAssumption`: the bounds and the batch size are naturals, `Consumer`
is not a timer call) `BatchWorkerProof` proves, of `Spec`:

| Theorem | Statement |
|---|---|
| `TypeCorrect` | `[]TypeOK` |
| `FlushExclusion` | `[]FlushIsExclusive` |
| `NeverForgets` | `[]NothingForgotten` |
| `CommitSafety` | `[]CommittedIsSettled` |
| `NoUnexplainedDuplicates` | `[]DuplicatesOnlyFromRewinds` |
| `Implements` | `ImplementsAckedConsumer` |

None of these is inductive alone. That a committed offset covers only settled
messages depends on what the flushing buffer holds between the bulk write and
the commit, which depends on nobody else touching that buffer. The invariant
`IInv` adds to the properties: an occupied flushing buffer belongs to one running
flush (`FlushingIsOwned`); each buffer's offsets are those of messages it holds
(`OffsetsAreHeld`); after the write everything in it is settled
(`WrittenIsSettled`); the flushing buffer alone, and with the active one, leaves no
gap above what is settled (`FlushingIsClosed`, `ClosedWith`); and what was handed
out is held or settled (`Remembers`). `NextIInv` has a step per action; the two
shared parts of actions, the swap and the clearing, are lemmas (`RotateIInv`,
`ClearIInv`). Refinement then needs only that settled messages stay so
(`SettledStays`) and that a commit acknowledges settled ones.

`LikePipelineProof` proves, for any users, comments and bounds, all four safety
properties of the likes. All rest on `BasicsInv`: what a worker holds was sent to it and
is not yet done with, it has events to publish only when it is publishing (`Holds`), and
likes, topics and outboxes are finite, so that they can be counted.

* `EventsTellOfLikes` (`[]EventsMirrorLikes`): inductive once it is known that the
  events of a topic about a key are numbered without a gap (`NumberedEvents`), so that
  an event published is a new one.
* `LikesArrive` (`[]LikeArrives`). What a worker's write has taken into account is what it
  has acknowledged or is publishing (`Written`). A like so written and never unliked is
  stored (`LikesInv`), no event tells of an unlike nobody asked for (`UnlikedInv`), and a
  like event the flag worker has seen is flagged, and announced or about to be (`FlagInv`).
  That there is such an event at all is `EventsTellOfLikes`.
* `TheLastClickDecides` (`[]LastClickDecides`). All clicks of who waits but the last are
  acknowledged, and once the last was written the like is there if it was one (`LastInv`).
  So a worker never holds an earlier click than the last (`OnlyTheLastIsPending`): no stale
  batch can undo it.
* `TheCountsAgree` (`[]CountsAgree`). Every step moves as much from rows, outbox, events and
  count to another of them; a failing one leaves the count lower (`NeverHigh`, `FailureCounts`).

`ChatServiceProof` proves, of `CallProtocol`, for any set of devices:

* `TypeCorrect` and `OneDeviceDecides` (`[]OneDeviceTakes`), by the invariant that, as
  long as the hash has not expired, who was told of an outcome holds the lock
  (`LockIsHeld`), that what the caller was told is what the holder did (`OutcomeIsLast`),
  and that connection and refusal exclude each other (`NeverBoth`).
* `TheEndIsLearnt` (`[]EveryoneLearnsTheEnd`). Whoever ends a call tells the others by the
  copy of the hash he read before. `EndInv` says how old it may be: it has the caller, and
  lacks at most the device that took the call since (`CopyIsRecent`); once that device has
  acted, the others were told to stop (`OthersStopRinging`). A call that ended was hung up
  by somebody both sides know of, or declined before anyone was connected (`EndIsKnown`).

and of `Conversations`, for any finite set of users, any sockets, page size and bounds
(`ConversationsAssumption`: the client shows a conversation with somebody other than its user):

* `MessagesAreForBoth` (`[]StoredForBoth`). A handler carries the number of a conversation
  across awaits; `PlacesInv` says that each number in a task, a message or the cache is that
  of a conversation its two users are in.
* `TheHistoryIsComplete` (`[]NoMessageMissed`). Of each message that is visible in the
  conversation, the client still has it to load, or was shown it, or a handler is about to
  tell it; and so for its deletion (`Followed`, `NothingMissed`). A message left out of a page
  lies beyond the next cursor because times differ (`PageKeeps`). That deletions name the right
  message rests on fresh ids (`IdsInv`), that nothing reappears on `ClearsInv`.
* `TheListShowsEach` (`[]RecentsShowEach`). What is due was shown exactly when it is not
  beyond the cursor (`Undisturbed`); a page is closed upwards in the order of the list
  (`NewerOnesFirst`), and one that is not full is all there is (`ShortPageIsAll`).
* `TheViewsAgree` (`[]ViewsAgree`). A last message exists as times and ids are bounded
  (`LastMessageExists`), and the limit of the search query cuts nobody off, as each
  user it hits has at most one conversation with the searcher (`SearchKnowsAll`).

`RewardsProof` proves, for any users, conversations, posts, interval and bounds:

* `NothingTwice` (`[]RewardedOnce`). Only the transaction that creates a reward
  touches rows and scores (`OthersKeepTheBank`); it refuses a key that is taken and
  raises the score with the row, so keys are unique and the score of a user is
  the number of his rows (`OnceInv`, with the cardinalities of the library). That a
  helpful comment is rewarded once per post follows because its key names post and user.
* `CoolOffHolds` (`[]CoolOff`). The cache is not trusted, the database is: `CoolInv` says
  that no message or event is from the future (`MessagesAreSent`), that rows are
  numbered as they come and none is older than its message (`RowsAreOrdered`), and that
  a grant past its check still is not limited (`StillNotLimited`), as no other chat
  reward is created between: the consumer handles one event at a time.

* `ShownWasEarned` (`[]ShownIsEarned`). A point is in the bank, then with the consumer
  that publishes it, then in an event, then in the index (`Coming`), and each step passes
  it on, or adds it to `lost` or `extra`. That the event of one point is not taken for another's follows from the numbers
  of the events of a key (`EventsAreNumbered`).

`CommentsProof` proves all five safety properties of `CommentNotifications`'
specification, for any users, posts, comments and scenes (`SceneAssumption`: a scene
that has a consumer has those that handle the opposite events; leaving one of them out
would not be the program):

* `OrphansAreAccounted` (`[]OrphansAreExplained`) needs that a creation past its check has
  found a post that is there, unless the post was deleted since (`AskedOfPosts`).
* `IndexMirrors` (`[]IndexMirrorsComments`) and the next three rest on `OrderInv`: what was
  announced of a comment stays true (`EventsTell`), and news of a comment (made, liked,
  unliked) waits for a consumer only while the comment and its post are there
  (`NewsOfPresent`), for each comment no event of which was lost, repeated or overtaken.
* `PostAuthorsAreTold` (`[]PostAuthorsKnow`) adds for each post whether its verdict is still
  waiting (`VerdictIsTold`).
* `LikesAreRight` (`[]LikesAreCounted`). Two consumers write one notification, and each
  waits between reading and writing. `LikesInv` says what a task in hand relies on: not
  both are at the same comment, what one found is still there (`NoticeIsSound`).
* `CountsAreWithinSlack` (`[]CountsWithinSlack`). What is shown, buffered and on its way,
  less the comments there are, is a sum each step preserves or changes by what it adds
  to the slack (`CountsWere`).

`UserServiceProof` proves, of `ProfileIndex`' specification, for any addresses and scenes
(`AccountsAssumption`: who has a token initially is registered):

* `BlockedUsersStayOut` (`[]BlockedStaysOut`), of tokens of type user. They are signed after the last await,
  from a row that may be stale; `AllEarly` says of each request in progress and each
  token that it was asked for before the last block if its user is blocked now, and
  `RowsInv` that whoever acts on an address has seen its row.
* `AccountsAreMadeOnce` (`[]AccountsAreProven`). What an act leads to bears its number
  (`NumbersInv`); a code goes to the address of its sign-up only, and is behind an account
  only if it arrived (`CodesInv`); who announces an account as made made it (`CreatedInv`).
* `TheIndexSettles` (`[]IndexSettles`). Of each field of a row, somebody still has to say
  what it is, or has said so in an event to be handled, or the document shows it and no
  event to come is taken for newer (`Saying`, `Said`, `Heard`); requests never end
  without one of these (`FieldsOf`).

and of `Friendship`'s and `FriendNotifications`' specifications, for any users, calls,
partitions and bounds:

* `TheEventsTellTheStory` (`[]EventsTellTheStory`). What is published or in the hands of a
  call tells of rows that were made (`IdsAreUsed`), so the SENT event of a new row is the
  only one of its id; an id has an ending event exactly when its row is gone (`StoryOf`).
* `OldEventsAreHarmless` (`RetriesAreHarmless`), of every step: an ACCEPTED event carries
  that status (`ShapeOf`), a request has one notification at most (`NotisInv`), and the
  consumer's second write belongs to the next message of its partition (`PositionsInv`).
* `NotificationsMirror` (`[]NotificationsMirrorRows`). While nobody hurries and nothing fails,
  one thing happens at a time (`Unhurried`): all rests and mirrors the table, or one
  call is in hand, or one event is on its way; and an event told but not handled is
  what makes the collections mirror the table (`Due`; between its two writes `HalfDue`),
  and is newer than what is shown (`Newer`), or it would be refused.

`ReadModelsProof` proves, for any posts and bounds, all three safety properties of
`PostReadModels`. `DocumentsAgree` (`[]IndexAgrees`) and `DocumentsNeverGoBack`
(`IndexNeverBack`) rest on `IndexInv`: nothing known of a post is newer than its row
and a version names one change (`NothingNewer`); what `getUpdatedAt` found still holds
when the upsert is sent, unless the document was deleted between, and a failed read found
nothing (`FoundIsCurrent`); and
an event not yet handled is what keeps a document behind its row (`LastIsTold`).
`FeedsAreComplete` (`[]FeedIsComplete`) rests on `FeedInv`: events for the feed, handled
again or not, and the task in hand are of judged posts (`Judged`, `TaskIsForFeed`).

It also proves, of `Lists`' specification, for any nonempty finite set of natural
numbers as entries, any times, page sizes and bounds:

* `TheScrollShowsAll` (`[]ScrollShowsAll`). The property is of a list that was scrolled
  to its end; `ScrollInv` says what holds on the way there. What has not been shown is
  ahead of the cursor or excused, and of mutual friends no more is missed than were
  dropped (`NoneMissed`); what was shown is behind it (`NoneRepeated`); every page brings
  the cursor to a new stop, unless a page of a millisecond is full (`Advances`). While
  nothing changes, an entry was shown exactly when its place is on one of the pages
  asked for (`Numbered`), and the count is that of the list (`CountKept`). Notifications
  marked as read are no newer than one that was shown (`ReadIsShown`).
  Pages are what `First` returns, the entry of each rank, so the argument needs that
  ranks are the numbers below the size of a set (`RankRange`, `RankOnto`) and that a list
  by rank is a sorted beginning of the set (`FirstIsPrefix`). Each query is then shown to
  answer for all that is ahead of its cursor (`RequestsContinue`, `ByIdContinues`,
  `SearchContinues`, `MutualContinues`, which may skip one, `FeedContinues`, where the
  database goes on after the cache, and `PagesAreNumbered`), and `TurnContinues` and
  `TurnByNumber` say, once for all lists, that such a page keeps the invariant.

`ModerationProof` proves, for any posts, attachments and number of faults:

* `NoPostIsForgotten` (`[]PendingIsWaiting`). The property alone says nothing of who
  will speak for a post that a process lets go of. `WaitInv` adds it for each such
  moment: before the commit the post is past the main process
  (`OffloadedIsOffered`), before the ack its verdict is told (`AckedIsTold`), a stored
  verdict is no longer pending (`StoredIsTold`), and a job that slipped from the child
  process is back in the queue (`Released`). What is told stays told (`ToldForGood`), what
  is offered stays offered until then (`OfferedForGood`).
* `FailuresAreRetried` (`[]FailedIsRetried`). `RetryInv` follows the redelivered flag: who
  holds it has been attempted before. `BudgetInv` counts attempts made and still possible,
  two per job never delivered, one per job that came back, one for the job held for the
  first time: no step adds more of them than it offloads or cuts short.

Only model-checked:

* all liveness (`EventuallySettled`, `CountsCatchUp`, `PostsAreJudged`): it rests on
  fairness, which TLAPS cannot reason about here;
* `OnlyUnfriendingEndsFriendship`, which is violated (see the finding).

## 5. What is left

Nothing of the plan: every safety and action property of the passing runs is a theorem.
The prover cannot reach the liveness properties (section 4).

## 6. Not modelled

* Hashtags, pre-signed uploads and the admin's statistics: single reads or writes
  that nothing else depends on.
* The rule over frames of a video and the classifier: no state; only whether a job
  succeeds and flags is modelled. (`moderation-service/README.md:58` says ">2%", the
  code takes 0.2; the first frame is left out of the hottest.)
* Point values of rewards, presentation and hydration of what is read, metrics, seeds,
  models and notebooks.
* Deployment, except that every service runs once.
