------------------------------- MODULE Lists -------------------------------
(***************************************************************************)
(* The lists a client scrolls through, page after page, while what is       *)
(* listed changes: requests and friends (user-service, Postgres),           *)
(* notifications and the feed (MongoDB, with a redis cache before the       *)
(* feed), posts, comments and users (Elasticsearch).  Each has its own       *)
(* cursor.  The initial state picks the list; the entries it is drawn from  *)
(* are identifiers with a creation time in ms, and identifiers are ordered. *)
(***************************************************************************)
EXTENDS Naturals, FiniteSets, Sequences

CONSTANTS
  Id,          \* identifiers, as numbers
  Time,        \* creation times, in ms
  Kind,        \* the lists to scroll
  Limit,       \* sizes of a page a client asks for
  CacheSize,   \* FEED_CACHE_SIZE
  MaxPages,    \* bound: pages asked for
  MaxChanges,  \* bound: changes while the client scrolls
  Nothing

ASSUME ListsAssumption ==
  /\ Id # {} /\ Id \subseteq Nat /\ IsFiniteSet(Id)
  /\ Time \subseteq Nat /\ Limit \subseteq Nat \ {0}
  /\ CacheSize \in Nat /\ MaxPages \in Nat /\ MaxChanges \in Nat
  /\ Nothing \notin Nat /\ Nothing \notin {"accepted", "sent", "received", "self"}

VARIABLES
  kind, limit,   \* the list and the size of its pages
  time,          \* creation time of an entry; for a list without an order, its place
  entry,         \* what is stored of each entry there is
  bond,          \* the friendship of the reader with the author of the posts
  feedCache,     \* the feed's sorted set in redis
  owed,          \* writes to the feed and to its cache under way
  from, ended,   \* the client's cursor; no more pages
  told,          \* the count it was given
  history        \* of the scroll, for the properties

scrollVars == <<kind, limit, time, entry, bond, feedCache, owed, from, ended, told, history>>

Requests == {"friendRequests", "sentRequests", "friends"}
Posts == {"posts", "hashtag"}
Pages == {"adminUsers", "adminSearch"}

Entry(k) ==
  CASE k \in Requests -> [tag : {"incoming", "outgoing", "friends"}]
    [] k = "mutualFriends" -> [tag : {"mutual", "other"}]
    [] k = "notifications" -> [tag : {"unread"}]
    [] k = "posts" -> [tag : {"public", "friends"}, verdict : {"ok", "pending"}]
    [] OTHER -> [tag : {"public"}]

Stored == DOMAIN entry
Tagged(t) == {i \in Stored : entry[i].tag = t}

----------------------------------------------------------------------------
NewerFirst(i, j) == time[i] > time[j] \/ (time[i] = time[j] /\ i > j)
Later(i, j) == i > j
Earlier(i, j) == i < j
\* An order by time alone leaves entries of one ms as the index has them.
ByTime(i, j) == time[i] > time[j] \/ (time[i] = time[j] /\ i < j)
ByPlace(i, j) == time[i] < time[j] \/ (time[i] = time[j] /\ i < j)

First(S, before(_, _), n) ==
  [p \in 1 .. IF Cardinality(S) < n THEN Cardinality(S) ELSE n |->
     CHOOSE i \in S : Cardinality({j \in S : before(j, i)}) = p - 1]
LastOf(page) == IF page = <<>> THEN Nothing ELSE page[Len(page)]
Answer(page, cursor, more) == [page |-> page, cursor |-> cursor, more |-> more]
\* A full page is taken for a sign of more.
Scrolled(page) == Answer(page, LastOf(page), Len(page) = limit)

----------------------------------------------------------------------------
(* user-service.                                                           *)

\* slip: the entries of the cursor's ms are not asked for again
AfterCursorStrict(i) == from = Nothing \/ time[i] < time[from]
\* Of the cursor's ms every entry comes again: its id is compared with a date,
\* and a ULID of this century sorts before any ISO date of it.
AfterCursor(i) == from = Nothing \/ time[i] < time[from] \/ time[i] = time[from]

GetUserFriendRequestList ==
  Scrolled(First({i \in Tagged("incoming") : AfterCursor(i)}, NewerFirst, limit))
GetUserSendFriendRequestList ==
  Scrolled(First({i \in Tagged("outgoing") : AfterCursor(i)}, NewerFirst, limit))
GetUserFriendList ==
  Scrolled(First({i \in Tagged("friends") : AfterCursor(i)}, NewerFirst, limit))
GetUserFriendRequestCount == Cardinality(Tagged("incoming"))
GetUserFriendCount == Cardinality(Tagged("friends"))

\* Prisma starts at the cursor's user and then skips one, whoever it is.
FindMutualFriends ==
  LET mutual == {i \in Tagged("mutual") : from = Nothing \/ i >= from}
      found  == First(mutual, Earlier, limit + 1)
      upTo(n) == IF Len(found) < n THEN Len(found) ELSE n
  IN  Scrolled(IF from = Nothing THEN SubSeq(found, 1, upTo(limit))
                              ELSE SubSeq(found, 2, upTo(limit + 1)))
CountMutualFriends == Cardinality(Tagged("mutual"))

RelationshipStatus ==
  CASE bond = Nothing -> "strangers"
    [] bond = "accepted" -> "friends"
    [] bond = "sent" -> "friendreqSend"
    [] bond = "received" -> "friendReqWaitingApproval"
    [] OTHER -> "sameUser"

\* A list by page number: a query without an order comes as the rows lie.
Page(S, skip) ==
  LET all == First(S, ByPlace, Cardinality(S))
  IN  SubSeq(all, skip + 1, IF Len(all) < skip + limit THEN Len(all) ELSE skip + limit)
GetUserList(skip) == [users |-> Page(Stored, skip), totalEntries |-> Cardinality(Stored)]
PaginatedSearchQuery(skip) ==
  [users |-> Page(Stored, skip), totalEntries |-> Cardinality(Stored)]
\* Numbered pages; a list of nothing has one.
TotalPages(entries) == IF entries = 0 THEN 1 ELSE (entries + limit - 1) \div limit
Paginated(res, page) == Answer(res.users, page + 1, page < TotalPages(res.totalEntries))
PaginatedSearch(page) == Paginated(PaginatedSearchQuery((page - 1) * limit), page)
\* What the search finds is read again, by id, as the rows lie.
GetUserListByIds(ids) ==
  First({ids[p] : p \in DOMAIN ids} \cap Stored, ByPlace, Len(ids))
AdminGetUserList ==
  LET page == IF from = Nothing THEN 1 ELSE from
      found == PaginatedSearch(page)
  IN  IF kind = "adminSearch"
      THEN [found EXCEPT !.page = GetUserListByIds(@)]
      ELSE Paginated(GetUserList((page - 1) * limit), page)

----------------------------------------------------------------------------
(* notification-service.                                                   *)

RetriveRecentUserNotifications ==
  LET noti == First({i \in Stored : from = Nothing \/ i < from}, Later, limit)
      hasmore == Len(noti) = limit
  IN  Answer(noti, IF hasmore THEN LastOf(noti) ELSE Nothing, hasmore)

----------------------------------------------------------------------------
(* feed-service.                                                           *)

GetUserTimeline(after, n) ==
  LET post == First({i \in Stored : after = Nothing \/ NewerFirst(after, i)}, NewerFirst, n)
      hasMore == Len(post) = n
  IN  Answer(post, IF hasMore THEN LastOf(post) ELSE Nothing, hasMore)
\* The cursor's whole ms is left out.
GetUserFeed ==
  First({i \in feedCache : from = Nothing \/ time[i] < time[from]}, NewerFirst, limit)
Timeline ==
  LET cacheReads == GetUserFeed
      cached     == Len(cacheReads)
      lastCacheRead == LastOf(cacheReads)
      dbReads    == GetUserTimeline(IF cached = 0 THEN from ELSE lastCacheRead, limit - cached)
  IN  IF cached = limit
      THEN Answer(cacheReads, lastCacheRead, TRUE)
      ELSE [dbReads EXCEPT !.page = cacheReads \o @]

----------------------------------------------------------------------------
(* elasticsearch-proxy.                                                    *)

After(S) == {i \in S : from = Nothing \/ i < from}
\* Who may see what: everything is one's own, the rest must have been judged.
Filter ==
  LET relStatus == RelationshipStatus
  IN  [visibility |-> IF relStatus \in {"sameUser", "friends"}
                      THEN {"public", "friends"} ELSE {"public"},
       moderationStatus |-> IF relStatus = "sameUser" THEN {"ok", "pending", "notAppropriate"}
                            ELSE {"ok"}]
GetUserPosts(filter) ==
  Scrolled(First(After({i \in Stored : /\ entry[i].tag \in filter.visibility
                                       /\ entry[i].verdict \in filter.moderationStatus}),
                 Later, limit))
GetPublicPostByHashtag == Scrolled(First(After(Tagged("public")), Later, limit))
GetPostComments == Scrolled(First(After(Stored), Later, limit))
InfiniteScrollSearchQuery(sortAfter) ==
  First({i \in Stored : sortAfter = Nothing \/ time[i] < sortAfter}, ByTime, limit)
\* The client's cursor is a time alone.
InfiniteScollSearch ==
  LET found == InfiniteScrollSearchQuery(IF from = Nothing THEN Nothing ELSE time[from])
  IN  Scrolled(found)

----------------------------------------------------------------------------
(* The scroll.                                                             *)

\* What the list is of, at this moment.
Wanted ==
  CASE kind = "friendRequests" -> Tagged("incoming")
    [] kind = "sentRequests"   -> Tagged("outgoing")
    [] kind = "friends"        -> Tagged("friends")
    [] kind = "mutualFriends"  -> Tagged("mutual")
    [] kind = "hashtag"        -> Tagged("public")
    [] kind = "posts" ->
         {i \in Stored : \/ bond = "self"
                         \/ (/\ entry[i].verdict = "ok"
                             /\ (bond = "accepted" \/ entry[i].tag = "public"))}
    [] OTHER -> Stored

\* The entry that is created, if any, while the client scrolls.
Newest == CHOOSE i \in Id : \A j \in Id : i >= j

ScrollInit ==
  /\ kind \in Kind
  /\ limit \in Limit
  /\ time \in [Id -> Time]
  /\ entry \in [Id \ {Newest} -> Entry(kind)]
  /\ bond \in IF kind = "posts"
              THEN {Nothing, "accepted", "sent", "received", "self"} ELSE {Nothing}
  /\ feedCache \in IF kind = "feed"
                   THEN {{}} \cup {{First(Stored, NewerFirst, CacheSize)[p] : p \in 1 .. n} :
                                   n \in {IF Cardinality(Stored) < CacheSize
                                          THEN Cardinality(Stored) ELSE CacheSize}}
                   ELSE {{}}
  /\ owed = {}
  /\ from = Nothing /\ ended = FALSE /\ told = Nothing
  /\ history = [pages |-> 0, changes |-> 0, shown |-> [i \in Id |-> 0], stayed |-> {},
                stops |-> {}, gaps |-> {}, drops |-> 0]

Gaps == {i \in Stored \ feedCache : \E j \in feedCache : NewerFirst(i, j)}

\* A page arrives; the first one says which entries the client should see.
Turn(answer) ==
  /\ ~ended /\ history.pages < MaxPages
  /\ from' = answer.cursor
  /\ ended' = ~answer.more
  /\ history' =
       [history EXCEPT
          !.pages  = @ + 1,
          !.shown  = [i \in Id |-> @[i] + Cardinality({p \in DOMAIN answer.page :
                                                         answer.page[p] = i})],
          !.stayed = IF history.pages = 0 THEN Wanted ELSE @,
          !.stops  = @ \cup {LastOf(answer.page)},
          !.gaps   = @ \cup Gaps,
          !.drops  = IF from # Nothing /\ kind = "mutualFriends" /\ from \notin Wanted
                     THEN @ + 1 ELSE @]
  /\ UNCHANGED <<kind, limit, time, entry, bond, feedCache, told>>

GetFriendRequestList ==
  kind = "friendRequests" /\ Turn(GetUserFriendRequestList) /\ UNCHANGED owed
GetSentRequestList ==
  kind = "sentRequests" /\ Turn(GetUserSendFriendRequestList) /\ UNCHANGED owed
GetFriendList == kind = "friends" /\ Turn(GetUserFriendList) /\ UNCHANGED owed
GetMutualFriendsList ==
  kind = "mutualFriends" /\ Turn(FindMutualFriends) /\ UNCHANGED owed
GetUsers == kind \in Pages /\ Turn(AdminGetUserList) /\ UNCHANGED owed
GetRecentNotifications ==
  kind = "notifications" /\ Turn(RetriveRecentUserNotifications) /\ UNCHANGED owed
\* A first page that the cache did not fill has the cache filled, some time later.
GetFeedPage ==
  /\ kind = "feed" /\ Turn(Timeline)
  /\ owed' = IF from = Nothing /\ Len(GetUserFeed) < limit
             THEN owed \cup {<<"fill", Nothing>>} ELSE owed
\* The reader's relationship with the author is looked up for every page.
GetUserPostList == kind = "posts" /\ Turn(GetUserPosts(Filter)) /\ UNCHANGED owed
QueryPostByHashtag == kind = "hashtag" /\ Turn(GetPublicPostByHashtag) /\ UNCHANGED owed
GetPostCommentList == kind = "comments" /\ Turn(GetPostComments) /\ UNCHANGED owed
SearchUser == kind = "userSearch" /\ Turn(InfiniteScollSearch) /\ UNCHANGED owed

Counted(n) ==
  /\ history.pages = 0 /\ told = Nothing
  /\ told' = n
  /\ UNCHANGED <<kind, limit, time, entry, bond, feedCache, owed, from, ended, history>>
GetFriendsRequestCount == kind = "friendRequests" /\ Counted(GetUserFriendRequestCount)
GetFriendsCount == kind = "friends" /\ Counted(GetUserFriendCount)
GetMutualFriendsCount == kind = "mutualFriends" /\ Counted(CountMutualFriends)

\* What the client has shown, and all that is older, is read.
MarkAsRead ==
  /\ kind = "notifications"
  /\ \E fromId \in {i \in Id : history.shown[i] > 0} :
       entry' = [i \in Stored |-> IF i <= fromId THEN [tag |-> "read"] ELSE entry[i]]
  /\ entry' # entry
  /\ UNCHANGED <<kind, limit, time, bond, feedCache, owed, from, ended, told, history>>

----------------------------------------------------------------------------
(* Meanwhile.                                                              *)

Change ==
  /\ ~ended /\ history.changes < MaxChanges
  /\ UNCHANGED <<kind, limit, from, ended, told>>
  /\ history' = [history EXCEPT !.changes = @ + 1, !.stayed = @ \cap Wanted']

Appears(i, e) == entry' = [j \in Stored \cup {i} |-> IF j = i THEN e ELSE entry[j]]
\* Something is created: a request, a comment, a user.
Created ==
  /\ kind # "feed"
  /\ Newest \notin Stored /\ \E e \in Entry(kind) : Appears(Newest, e)
  /\ UNCHANGED <<time, bond, feedCache, owed>>
  /\ Change
\* A friend's post passed moderation: nobody waits for the feed's write, and the
\* cache's is sent after it.  Posts pass in any order.
PostPasses ==
  /\ kind = "feed"
  /\ \E i \in Id \ (Stored \cup feedCache) : owed' = owed \cup {<<"append", i>>, <<"upset", i>>}
  /\ UNCHANGED <<time, entry, bond, feedCache>>
  /\ Change

Removed ==
  /\ kind \notin Pages \cup {"userSearch"}
  /\ \E i \in Stored \ {Newest} : entry' = [j \in Stored \ {i} |-> entry[j]]
  /\ UNCHANGED <<time, bond, feedCache, owed>>
  /\ Change

Becomes(i) ==
  CASE kind \in Requests -> IF entry[i].tag = "friends" THEN {} ELSE {[tag |-> "friends"]}
    [] kind = "mutualFriends" -> Entry(kind) \ {entry[i]}
    [] kind = "posts" ->
         IF entry[i].verdict # "pending" THEN {}
         ELSE {[entry[i] EXCEPT !.verdict = v] : v \in {"ok", "notAppropriate"}}
    [] OTHER -> {}
\* A request is accepted, a user is befriended or lost, a post is judged.
Changed ==
  /\ \E i \in Stored : \E e \in Becomes(i) : entry' = [entry EXCEPT ![i] = e]
  /\ UNCHANGED <<time, bond, feedCache, owed>>
  /\ Change
\* A row that is updated moves, in a table and in an index alike.
Moved ==
  /\ kind \in Pages
  /\ \E i \in Stored, last \in {time[j] : j \in Id} :
       /\ \A j \in Id : time[j] <= last
       /\ time' = [time EXCEPT ![i] = last + 1]
  /\ UNCHANGED <<entry, bond, feedCache, owed>>
  /\ Change
Befriended ==
  /\ kind = "posts" /\ bond \in {Nothing, "sent", "received", "accepted"}
  /\ bond' \in (CASE bond = Nothing -> {"sent", "received"}
                  [] bond = "accepted" -> {Nothing}
                  [] OTHER -> {"accepted", Nothing})
  /\ UNCHANGED <<time, entry, feedCache, owed>>
  /\ Change

\* Writes of feed-service, in whatever order they get done.
Written(w) ==
  /\ owed' = owed \ {w}
  /\ UNCHANGED <<kind, limit, time, bond, from, ended, told>>
  /\ history' = [history EXCEPT !.stayed = @ \cap Wanted']
BulkUpsertTimelinePost ==
  \E w \in owed : w[1] = "append" /\ Appears(w[2], [tag |-> "public"])
                  /\ UNCHANGED feedCache /\ Written(w)
UpsetPostToMultipleUserFeed ==
  \E w \in owed : w[1] = "upset" /\ feedCache' = feedCache \cup {w[2]}
                  /\ UNCHANGED entry /\ Written(w)
AddPostToUserFeed ==
  \E w \in owed :
    /\ w[1] = "fill"
    /\ LET recentPost == GetUserTimeline(Nothing, CacheSize).page
       IN  feedCache' = feedCache \cup {recentPost[p] : p \in DOMAIN recentPost}
    /\ UNCHANGED entry /\ Written(w)

Reads ==
  \/ GetFriendRequestList \/ GetSentRequestList \/ GetFriendList \/ GetMutualFriendsList
  \/ GetUsers \/ GetRecentNotifications \/ GetFeedPage \/ GetUserPostList
  \/ QueryPostByHashtag \/ GetPostCommentList \/ SearchUser
  \/ GetFriendsRequestCount \/ GetFriendsCount \/ GetMutualFriendsCount
Writes ==
  \/ MarkAsRead \/ Created \/ PostPasses \/ Removed \/ Changed \/ Moved \/ Befriended
  \/ BulkUpsertTimelinePost \/ UpsetPostToMultipleUserFeed \/ AddPostToUserFeed

ScrollNext == Reads \/ Writes
ScrollSpec == ScrollInit /\ [][ScrollNext]_scrollVars

----------------------------------------------------------------------------
Lost == IF ended THEN {i \in history.stayed : history.shown[i] = 0} ELSE {}
Twice == {i \in Id : history.shown[i] > 1}
Stops == history.stops \ {Nothing}
OfACursorsMs == {i \in Id : \E s \in Stops : time[i] = time[s]}
Crowded == kind \in Requests /\ \E s \in Stops :
                                  Cardinality({i \in Id : time[i] = time[s]}) >= limit

\* Whoever scrolls to the end has seen every entry that was listed all the
\* while, once, whatever came and went in between (the cursors of
\* FriendshipRepository, NotificationRepository, FeedRepository, PostRepository
\* and CommentRepository).  What the code does not keep is excepted: requests and
\* friends of the cursor's ms come again (and a ms with a page of them is never
\* left); of mutual friends one is skipped when the cursor's user is no longer
\* one; the feed's cache and the search for users leave out what shares its ms
\* with the end of a page, and the cache what is missing in it while an older
\* post is there; numbered pages are right only while nothing changes.  The
\* count given before agrees with the list, and no notification is marked as
\* read that is newer than all the client was shown.
ScrollShowsAll ==
  /\ kind \in Requests => Lost = {} /\ Twice \subseteq OfACursorsMs
  /\ kind \in {"notifications", "posts", "hashtag", "comments"} => Lost = {} /\ Twice = {}
  /\ kind = "mutualFriends" => Cardinality(Lost) <= history.drops /\ Twice = {}
  /\ kind = "feed" => Lost \subseteq OfACursorsMs \cup history.gaps /\ Twice = {}
  /\ kind = "userSearch" => Lost \subseteq OfACursorsMs /\ Twice = {}
  /\ kind \in Pages /\ history.changes = 0 => Lost = {} /\ Twice = {}
  /\ Crowded \/ history.pages <= Cardinality(Id) + 1
  /\ ended /\ told # Nothing /\ history.changes = 0 =>
       told = Cardinality({i \in Id : history.shown[i] > 0})
  /\ kind = "notifications" =>
       \A i \in Tagged("read") : \E j \in Id : j >= i /\ history.shown[j] > 0
=============================================================================
