------------------------- MODULE LikePipelineProof -------------------------
(***************************************************************************)
(* Proofs about LikePipeline, for any users, comments and bounds:           *)
(*   - while nothing fails, the COMMENT_LIKED and COMMENT_UNLIKED events    *)
(*     about a user and a comment tell whether the like is there;           *)
(*   - while nothing fails, a like nobody took back is stored once the      *)
(*     workers have caught up, and flagged and announced if it is by the    *)
(*     post's author;                                                       *)
(*   - while nothing fails, the last click of a user who waits decides;     *)
(*   - until a restart, the count of a comment with the events on their way *)
(*     to it never exceeds its likes, and while nothing fails is their      *)
(*     number.                                                              *)
(* They share what is said first: the types, that every set whose size      *)
(* matters is finite, and what a worker holds at which of its stages.       *)
(***************************************************************************)
EXTENDS LikePipeline, FiniteSetTheorems, TLAPS

StageName == {"idle", "write", "publish"}

\* The variables have their types, and every set whose size matters is finite.
TypeOK ==
  /\ comments \subseteq Comment
  /\ likes \subseteq Key
  /\ likeCount \in [Comment -> Int]
  /\ sent   \in [Topic -> SUBSET Message]
  /\ batch  \in [Worker -> SUBSET Message]
  /\ stage  \in [Worker -> StageName]
  /\ outbox \in [Worker -> SUBSET Key]
  /\ acked  \in [Worker -> SUBSET Message]
  /\ passed \in [Worker -> SUBSET Message]
  /\ crashes \in Nat
  /\ failures \in Nat
FinitelyMany ==
  /\ IsFiniteSet(likes)
  /\ \A t \in Topic : IsFiniteSet(sent[t])
  /\ \A w \in Worker : IsFiniteSet(outbox[w])

\* What a worker holds was sent to it, is not already done with, and has
\* events to publish only when it is publishing.
Holds(w) ==
  /\ stage[w] = "idle" => batch[w] = {}
  /\ stage[w] # "publish" => outbox[w] = {}
  /\ batch[w]  \subseteq sent[Source[w]]
  /\ acked[w]  \subseteq sent[Source[w]]
  /\ passed[w] \subseteq sent[Source[w]]
  /\ batch[w] \cap (acked[w] \cup passed[w]) = {}
  /\ passed[w] # {} /\ w \notin {"flag", "unflag"} => ~Faultless
HoldsInv == \A w \in Worker : Holds(w)

BasicsInv == TypeOK /\ FinitelyMany /\ HoldsInv

LEMMA SourcesAreTopics ==
  \A w \in Worker : Source[w] \in Topic
BY DEF Worker, Source, Topic

\* Keys of finitely many messages are finitely many.
LEMMA KeysAreFinite ==
  ASSUME NEW S, IsFiniteSet(S)
  PROVE IsFiniteSet(KeysOf(S))
<1> DEFINE f == [m \in S |-> m.key]
<1>1. f \in Surjection(S, KeysOf(S))
  BY DEF Surjection, KeysOf
<1> QED BY <1>1, FS_Surjection

LEMMA KeysAreKeys ==
  ASSUME NEW S \in SUBSET Message
  PROVE KeysOf(S) \in SUBSET Key
BY DEF KeysOf, Message

LEMMA InitBasics ==
  ASSUME Init
  PROVE BasicsInv
<1>1. TypeOK
  BY DEF Init, TypeOK, StageName
<1>2. FinitelyMany
  BY FS_EmptySet DEF Init, FinitelyMany
<1>3. HoldsInv
  BY SourcesAreTopics DEF Init, HoldsInv, Holds
<1> QED BY <1>1, <1>2, <1>3 DEF BasicsInv

\* A worker of which nothing changes keeps its promises, whatever is sent.
LEMMA HoldsFrame ==
  ASSUME BasicsInv, NEW w \in Worker,
         batch'[w] = batch[w], stage'[w] = stage[w], outbox'[w] = outbox[w],
         acked'[w] = acked[w], passed'[w] = passed[w],
         \A t \in Topic : sent[t] \subseteq sent'[t],
         Faultless' => Faultless
  PROVE Holds(w)'
<1>1. Holds(w) /\ Source[w] \in Topic
  BY SourcesAreTopics DEF BasicsInv, HoldsInv
<1>2. sent[Source[w]] \subseteq sent'[Source[w]]
  BY <1>1
<1>3. Source' = Source
  BY DEF Source
<1> QED BY <1>1, <1>2 DEF Holds

\* The number of failures only grows.
LEMMA FaultsGrow ==
  ASSUME TypeOK, Fault
  PROVE ~Faultless' /\ crashes' \in Nat /\ failures' \in Nat
BY DEF TypeOK, Fault, Faultless

LEMMA RequestBasics ==
  ASSUME BasicsInv, NEW t \in {"likeRequest", "unlikeRequest"}, NEW k \in Key,
         Request(t, k)
  PROVE BasicsInv'
<1> DEFINE all == sent["likeRequest"] \cup sent["unlikeRequest"]
           m == [key |-> k, n |-> Cardinality(Requests(k)) + 1]
<1>0. t \in Topic /\ {"likeRequest", "unlikeRequest"} \subseteq Topic
  BY DEF Topic
<1>1. IsFiniteSet(all)
  BY <1>0, FS_Union DEF BasicsInv, FinitelyMany
<1>2. IsFiniteSet(Requests(k))
  BY <1>1, FS_Subset DEF Requests, About
<1>3. Cardinality(Requests(k)) \in Nat
  BY <1>2, FS_CardinalityType
<1>4. m \in Message
  BY <1>3 DEF Message
<1>5. sent' = [sent EXCEPT ![t] = @ \cup {m}]
  BY DEF Request
<1> HIDE DEF m, all
<1>6. \A u \in Topic : sent'[u] = IF u = t THEN sent[u] \cup {m} ELSE sent[u]
  BY <1>5, <1>0 DEF BasicsInv, TypeOK
<1>7. sent' \in [Topic -> SUBSET Message]
  BY <1>4, <1>5, <1>0 DEF BasicsInv, TypeOK
<1>8. UNCHANGED <<store, work, acked, passed, faults>>
  BY DEF Request
<1>9. TypeOK'
  BY <1>7, <1>8 DEF BasicsInv, TypeOK, store, work, faults
<1>10. FinitelyMany'
  <2>1. ASSUME NEW u \in Topic PROVE IsFiniteSet(sent'[u])
    <3>1. IsFiniteSet(sent[u]) /\ IsFiniteSet(sent[u] \cup {m})
      BY FS_AddElement DEF BasicsInv, FinitelyMany
    <3> QED BY <3>1, <1>6
  <2>2. likes' = likes /\ outbox' = outbox
    BY <1>8 DEF store, work
  <2> QED BY <2>1, <2>2 DEF BasicsInv, FinitelyMany
<1>11. HoldsInv'
  <2>1. Faultless' => Faultless
    BY <1>8 DEF faults, Faultless
  <2> QED BY <2>1, <1>6, <1>8, HoldsFrame DEF HoldsInv, work
<1> QED BY <1>9, <1>10, <1>11 DEF BasicsInv

LEMMA DeleteCommentBasics ==
  ASSUME BasicsInv, NEW c, DeleteComment(c)
  PROVE BasicsInv'
<1>1. UNCHANGED <<likes, likeCount, sent, batch, stage, outbox, acked, passed, crashes, failures>>
  BY DEF DeleteComment, work, offsets, faults
<1>2. TypeOK'
  BY <1>1 DEF BasicsInv, TypeOK, DeleteComment
<1>3. FinitelyMany'
  BY <1>1 DEF BasicsInv, FinitelyMany
<1>4. HoldsInv'
  BY <1>1, HoldsFrame DEF HoldsInv, Faultless
<1> QED BY <1>2, <1>3, <1>4 DEF BasicsInv

LEMMA TakeBasics ==
  ASSUME BasicsInv, NEW w \in Worker, Take(w)
  PROVE BasicsInv'
<1>1. PICK taken \in SUBSET Waiting(w) : batch' = [batch EXCEPT ![w] = taken]
  BY DEF Take
<1>2. UNCHANGED <<store, announced, sent, outbox, acked, passed, crashes, failures>>
  BY DEF Take, offsets, faults
<1>3. stage[w] = "idle" /\ stage' = [stage EXCEPT ![w] = "write"]
  BY DEF Take
<1>4. Source[w] \in Topic
  BY SourcesAreTopics
<1>5. taken \subseteq sent[Source[w]] /\ taken \cap (acked[w] \cup passed[w]) = {}
  BY <1>1 DEF Waiting
<1>6. taken \in SUBSET Message
  BY <1>4, <1>5 DEF BasicsInv, TypeOK
<1>7. batch' \in [Worker -> SUBSET Message] /\ stage' \in [Worker -> StageName]
  BY <1>6, <1>1, <1>3 DEF BasicsInv, TypeOK, StageName
<1>8. /\ batch'[w] = taken /\ stage'[w] = "write"
      /\ \A u \in Worker \ {w} : batch'[u] = batch[u] /\ stage'[u] = stage[u]
  BY <1>1, <1>3 DEF BasicsInv, TypeOK
<1>9. TypeOK'
  BY <1>2, <1>7 DEF BasicsInv, TypeOK, store
<1>10. FinitelyMany'
  BY <1>2 DEF BasicsInv, FinitelyMany, store
<1>11. \A u \in Worker \ {w} : Holds(u)'
  BY <1>2, <1>8, HoldsFrame DEF Faultless
<1>12. Holds(w)'
  BY <1>2, <1>3, <1>5, <1>8 DEF BasicsInv, HoldsInv, Holds, Faultless
<1> QED BY <1>9, <1>10, <1>11, <1>12 DEF BasicsInv, HoldsInv

\* A worker goes on to publish.
LEMMA PublishingBasics ==
  ASSUME BasicsInv, NEW w \in Worker, NEW keys \in SUBSET Key, IsFiniteSet(keys),
         stage[w] = "write", Publishing(w, keys),
         comments' \subseteq Comment, likes' \subseteq Key, IsFiniteSet(likes'),
         likeCount' \in [Comment -> Int]
  PROVE BasicsInv'
<1>1. UNCHANGED <<sent, batch, acked, passed, crashes, failures>>
  BY DEF Publishing, offsets, faults
<1>2. /\ stage' = [stage EXCEPT ![w] = "publish"]
      /\ outbox' = [outbox EXCEPT ![w] = keys]
  BY DEF Publishing
<1>3. stage' \in [Worker -> StageName] /\ outbox' \in [Worker -> SUBSET Key]
  BY <1>2 DEF BasicsInv, TypeOK, StageName
<1>4. /\ stage'[w] = "publish" /\ outbox'[w] = keys
      /\ \A u \in Worker \ {w} : stage'[u] = stage[u] /\ outbox'[u] = outbox[u]
  BY <1>2 DEF BasicsInv, TypeOK
<1>5. TypeOK'
  BY <1>1, <1>3 DEF BasicsInv, TypeOK
<1>6. FinitelyMany'
  <2>1. ASSUME NEW u \in Worker PROVE IsFiniteSet(outbox'[u])
    BY <1>4 DEF BasicsInv, FinitelyMany
  <2> QED BY <2>1, <1>1 DEF BasicsInv, FinitelyMany
<1>7. \A u \in Worker \ {w} : Holds(u)'
  BY <1>1, <1>4, HoldsFrame DEF Faultless
<1>8. Holds(w)'
  BY <1>1, <1>4 DEF BasicsInv, HoldsInv, Holds, Faultless
<1> QED BY <1>5, <1>6, <1>7, <1>8 DEF BasicsInv, HoldsInv

\* A worker drops its batch: after a failure, or, with an event per call, as
\* its way of being done.
LEMMA DropBasics ==
  ASSUME BasicsInv, NEW w \in Worker, Drop(w), outbox[w] = {},
         w \in {"flag", "unflag"} \/ ~Faultless', Faultless' => Faultless,
         comments' \subseteq Comment, likes' \subseteq Key, IsFiniteSet(likes'),
         likeCount' \in [Comment -> Int], crashes' \in Nat, failures' \in Nat
  PROVE BasicsInv'
<1>1. UNCHANGED <<sent, outbox, acked>>
  BY DEF Drop
<1>2. /\ batch' = [batch EXCEPT ![w] = {}]
      /\ stage' = [stage EXCEPT ![w] = "idle"]
      /\ passed' = [passed EXCEPT ![w] = @ \cup batch[w]]
  BY DEF Drop
<1>3. /\ batch' \in [Worker -> SUBSET Message]
      /\ stage' \in [Worker -> StageName]
      /\ passed' \in [Worker -> SUBSET Message]
  <2>1. batch' \in [Worker -> SUBSET Message]
    BY <1>2 DEF BasicsInv, TypeOK
  <2>2. stage' \in [Worker -> StageName]
    BY <1>2 DEF BasicsInv, TypeOK, StageName
  <2>3. passed[w] \cup batch[w] \in SUBSET Message
    BY DEF BasicsInv, TypeOK
  <2>4. passed' \in [Worker -> SUBSET Message]
    BY <1>2, <2>3 DEF BasicsInv, TypeOK
  <2> QED BY <2>1, <2>2, <2>4
<1>4. /\ batch'[w] = {} /\ stage'[w] = "idle" /\ passed'[w] = passed[w] \cup batch[w]
      /\ \A u \in Worker \ {w} : /\ batch'[u] = batch[u] /\ stage'[u] = stage[u]
                                 /\ passed'[u] = passed[u]
  BY <1>2 DEF BasicsInv, TypeOK
<1>5. TypeOK'
  BY <1>1, <1>3 DEF BasicsInv, TypeOK
<1>6. FinitelyMany'
  BY <1>1 DEF BasicsInv, FinitelyMany
<1>7. \A u \in Worker \ {w} : Holds(u)'
  BY <1>1, <1>4, HoldsFrame
<1>8. Holds(w)'
  BY <1>1, <1>4 DEF BasicsInv, HoldsInv, Holds
<1> QED BY <1>5, <1>6, <1>7, <1>8 DEF BasicsInv, HoldsInv

BatchesAreFine(w) ==
  /\ KeysOf(batch[w]) \in SUBSET Key
  /\ IsFiniteSet(KeysOf(batch[w]))
  /\ IsFiniteSet(batch[w])

LEMMA BatchesFine ==
  ASSUME BasicsInv, NEW w \in Worker
  PROVE BatchesAreFine(w)
<1>1. batch[w] \subseteq sent[Source[w]] /\ IsFiniteSet(sent[Source[w]])
  BY SourcesAreTopics DEF BasicsInv, HoldsInv, Holds, FinitelyMany
<1>2. IsFiniteSet(batch[w])
  BY <1>1, FS_Subset
<1>3. batch[w] \in SUBSET Message
  BY DEF BasicsInv, TypeOK
<1> QED BY <1>2, <1>3, KeysAreFinite, KeysAreKeys DEF BatchesAreFine

LEMMA WhatIsFound ==
  ASSUME BasicsInv, NEW w \in Worker
  PROVE /\ NewLikes(KeysOf(batch[w])) \in SUBSET Key
        /\ IsFiniteSet(NewLikes(KeysOf(batch[w])))
        /\ Found(KeysOf(batch[w])) \in SUBSET Key
        /\ IsFiniteSet(Found(KeysOf(batch[w])))
<1>1. BatchesAreFine(w)
  BY BatchesFine
<1>2. /\ NewLikes(KeysOf(batch[w])) \in SUBSET KeysOf(batch[w])
      /\ Found(KeysOf(batch[w])) \in SUBSET KeysOf(batch[w])
  BY DEF NewLikes, Found
<1>3. IsFiniteSet(KeysOf(batch[w])) /\ KeysOf(batch[w]) \in SUBSET Key
  BY <1>1 DEF BatchesAreFine
<1> QED BY <1>2, <1>3, FS_Subset

\* What the write of the unlike worker makes of the counts.
LEMMA LoweredIsInt ==
  ASSUME BasicsInv, NEW keys, IsFiniteSet(keys)
  PROVE Lowered(keys) \in [Comment -> Int]
<1>1. ASSUME NEW c \in Comment PROVE Cardinality(OnComment(keys, c)) \in Nat
  <2>1. OnComment(keys, c) \in SUBSET keys
    BY DEF OnComment
  <2> QED BY <2>1, FS_Subset, FS_CardinalityType
<1> QED BY <1>1 DEF Lowered, BasicsInv, TypeOK

\* What the write of the count worker makes of them.
LEMMA RaisedIsInt ==
  ASSUME BasicsInv, NEW events, IsFiniteSet(events)
  PROVE Raised(events) \in [Comment -> Int]
<1>1. ASSUME NEW c \in Comment
      PROVE Cardinality({m \in events : m.key[2] = c}) \in Nat
  <2>1. {m \in events : m.key[2] = c} \in SUBSET events
    OBVIOUS
  <2> QED BY <2>1, FS_Subset, FS_CardinalityType
<1> QED BY <1>1 DEF Raised, BasicsInv, TypeOK

LEMMA InsertLikesBasics ==
  ASSUME BasicsInv, InsertLikes
  PROVE BasicsInv'
<1> DEFINE inserted == NewLikes(KeysOf(batch["like"]))
<1>1. /\ stage["like"] = "write"
      /\ likes' = likes \cup inserted
      /\ Publishing("like", inserted)
      /\ UNCHANGED <<comments, likeCount, flagged>>
  BY DEF InsertLikes
<1>2. inserted \in SUBSET Key /\ IsFiniteSet(inserted) /\ "like" \in Worker
  BY WhatIsFound DEF Worker
<1>3. IsFiniteSet(likes \cup inserted)
  BY <1>2, FS_Union DEF BasicsInv, FinitelyMany
<1> HIDE DEF inserted
<1> QED BY <1>1, <1>2, <1>3, PublishingBasics DEF BasicsInv, TypeOK

LEMMA DeleteLikesBasics ==
  ASSUME BasicsInv, DeleteLikes
  PROVE BasicsInv'
<1> DEFINE found == Found(KeysOf(batch["unlike"]))
<1>1. /\ stage["unlike"] = "write"
      /\ likes' = likes \ found
      /\ likeCount' = Lowered(found)
      /\ Publishing("unlike", found)
      /\ UNCHANGED <<comments, flagged>>
  BY DEF DeleteLikes
<1>2. found \in SUBSET Key /\ IsFiniteSet(found) /\ "unlike" \in Worker
  BY WhatIsFound DEF Worker
<1>3. IsFiniteSet(likes \ found)
  BY <1>2, FS_Difference DEF BasicsInv, FinitelyMany
<1>4. Lowered(found) \in [Comment -> Int]
  BY <1>2, LoweredIsInt
<1> HIDE DEF found
<1> QED BY <1>1, <1>2, <1>3, <1>4, PublishingBasics DEF BasicsInv, TypeOK

LEMMA AddToCountsBasics ==
  ASSUME BasicsInv, AddToCounts
  PROVE BasicsInv'
<1>1. /\ stage["count"] = "write"
      /\ likeCount' = Raised(batch["count"])
      /\ Publishing("count", {})
      /\ UNCHANGED <<comments, likes, flagged>>
  BY DEF AddToCounts
<1>2. "count" \in Worker /\ IsFiniteSet({}) /\ {} \in SUBSET Key
  BY FS_EmptySet DEF Worker
<1>3. Raised(batch["count"]) \in [Comment -> Int]
  BY <1>2, BatchesFine, RaisedIsInt DEF BatchesAreFine
<1> QED BY <1>1, <1>2, <1>3, PublishingBasics DEF BasicsInv, TypeOK, FinitelyMany

LEMMA ConcernedKeys ==
  ASSUME BasicsInv, NEW w \in Worker
  PROVE Concerned(w) \in SUBSET Key /\ IsFiniteSet(Concerned(w))
<1>1. Concerned(w) \in SUBSET KeysOf(batch[w])
  BY DEF Concerned
<1> QED BY <1>1, BatchesFine, FS_Subset DEF BatchesAreFine

LEMMA SetFlagBasics ==
  ASSUME BasicsInv, SetFlag
  PROVE BasicsInv'
<1>1. /\ stage["flag"] = "write"
      /\ Publishing("flag", Concerned("flag"))
      /\ UNCHANGED <<comments, likes, likeCount>>
  BY DEF SetFlag
<1>2. "flag" \in Worker
  BY DEF Worker
<1> QED BY <1>1, <1>2, ConcernedKeys, PublishingBasics DEF BasicsInv, TypeOK, FinitelyMany

LEMMA ClearFlagBasics ==
  ASSUME BasicsInv, ClearFlag
  PROVE BasicsInv'
<1>1. /\ stage["unflag"] = "write"
      /\ Publishing("unflag", {})
      /\ UNCHANGED <<comments, likes, likeCount>>
  BY DEF ClearFlag
<1>2. "unflag" \in Worker /\ IsFiniteSet({}) /\ {} \in SUBSET Key
  BY FS_EmptySet DEF Worker
<1> QED BY <1>1, <1>2, PublishingBasics DEF BasicsInv, TypeOK, FinitelyMany

\* Only a worker that publishes has events left to publish.
LEMMA WritersOwe ==
  ASSUME BasicsInv, NEW w \in Worker, stage[w] = "write"
  PROVE outbox[w] = {}
BY DEF BasicsInv, HoldsInv, Holds

LEMMA InsertFailsBasics ==
  ASSUME BasicsInv, InsertFails
  PROVE BasicsInv'
<1>1. PICK inserted \in SUBSET KeysOf(batch["like"]) : likes' = likes \cup inserted
  BY DEF InsertFails
<1>2. /\ stage["like"] = "write" /\ Fault /\ Drop("like")
      /\ UNCHANGED <<comments, likeCount, flagged>>
  BY DEF InsertFails
<1>3. "like" \in Worker
  BY DEF Worker
<1>4. inserted \in SUBSET Key /\ IsFiniteSet(inserted)
  BY <1>1, <1>3, BatchesFine, FS_Subset DEF BatchesAreFine
<1>5. IsFiniteSet(likes')
  BY <1>1, <1>4, FS_Union DEF BasicsInv, FinitelyMany
<1>6. outbox["like"] = {}
  BY <1>2, <1>3, WritersOwe
<1>7. ~Faultless' /\ crashes' \in Nat /\ failures' \in Nat
  BY <1>2, FaultsGrow DEF BasicsInv
<1>8. /\ likes' \subseteq Key /\ comments' \subseteq Comment
      /\ likeCount' \in [Comment -> Int]
  BY <1>1, <1>2, <1>4 DEF BasicsInv, TypeOK
<1> QED BY <1>2, <1>3, <1>5, <1>6, <1>7, <1>8, DropBasics

LEMMA DeleteFailsBasics ==
  ASSUME BasicsInv, DeleteFails
  PROVE BasicsInv'
<1>1. PICK found \in {{}, Found(KeysOf(batch["unlike"]))} :
        likes' = likes \ found /\ likeCount' = Lowered(found)
  BY DEF DeleteFails
<1>2. /\ stage["unlike"] = "write" /\ Fault /\ Drop("unlike")
      /\ UNCHANGED <<comments, flagged>>
  BY DEF DeleteFails
<1>3. "unlike" \in Worker
  BY DEF Worker
<1>4. IsFiniteSet(found)
  BY <1>1, <1>3, WhatIsFound, FS_EmptySet
<1>5. IsFiniteSet(likes')
  BY <1>1, <1>4, FS_Difference DEF BasicsInv, FinitelyMany
<1>6. outbox["unlike"] = {}
  BY <1>2, <1>3, WritersOwe
<1>7. ~Faultless' /\ crashes' \in Nat /\ failures' \in Nat
  BY <1>2, FaultsGrow DEF BasicsInv
<1>8. /\ likes' \subseteq Key /\ comments' \subseteq Comment
      /\ likeCount' \in [Comment -> Int]
  BY <1>1, <1>2, <1>4, LoweredIsInt DEF BasicsInv, TypeOK
<1> QED BY <1>2, <1>3, <1>5, <1>6, <1>7, <1>8, DropBasics

LEMMA AddToCountsFailsBasics ==
  ASSUME BasicsInv, AddToCountsFails
  PROVE BasicsInv'
<1>1. PICK done \in SUBSET Comment :
        likeCount' = Raised({m \in batch["count"] : m.key[2] \in done})
  BY DEF AddToCountsFails
<1> DEFINE some == {m \in batch["count"] : m.key[2] \in done}
<1>2. /\ stage["count"] = "write" /\ Fault /\ Drop("count")
      /\ UNCHANGED <<comments, likes, flagged>>
  BY DEF AddToCountsFails
<1>3. "count" \in Worker
  BY DEF Worker
<1>4. IsFiniteSet(some)
  <2>1. some \in SUBSET batch["count"]
    OBVIOUS
  <2> QED BY <2>1, <1>3, BatchesFine, FS_Subset DEF BatchesAreFine
<1>5. likeCount' = Raised(some)
  BY <1>1
<1> HIDE DEF some
<1>6. outbox["count"] = {}
  BY <1>2, <1>3, WritersOwe
<1>7. ~Faultless' /\ crashes' \in Nat /\ failures' \in Nat
  BY <1>2, FaultsGrow DEF BasicsInv
<1>8. /\ likes' \subseteq Key /\ comments' \subseteq Comment /\ IsFiniteSet(likes')
      /\ likeCount' \in [Comment -> Int]
  BY <1>2, <1>4, <1>5, RaisedIsInt DEF BasicsInv, TypeOK, FinitelyMany
<1> QED BY <1>2, <1>3, <1>6, <1>7, <1>8, DropBasics

LEMMA FlagFailsBasics ==
  ASSUME BasicsInv, NEW w \in {"flag", "unflag"}, FlagFails(w)
  PROVE BasicsInv'
<1>1. stage[w] = "write" /\ Fault /\ Drop(w) /\ UNCHANGED store
  BY DEF FlagFails
<1>2. w \in Worker
  BY DEF Worker
<1>3. outbox[w] = {}
  BY <1>1, <1>2, WritersOwe
<1>4. ~Faultless' /\ crashes' \in Nat /\ failures' \in Nat
  BY <1>1, FaultsGrow DEF BasicsInv
<1>5. /\ likes' \subseteq Key /\ comments' \subseteq Comment /\ IsFiniteSet(likes')
      /\ likeCount' \in [Comment -> Int]
  BY <1>1 DEF BasicsInv, TypeOK, FinitelyMany, store
<1> QED BY <1>1, <1>2, <1>3, <1>4, <1>5, DropBasics

LEMMA ReturnBasics ==
  ASSUME BasicsInv, NEW w \in Worker, Return(w)
  PROVE BasicsInv'
<1>1. /\ w \in {"flag", "unflag"} /\ outbox[w] = {} /\ Drop(w)
      /\ UNCHANGED <<store, crashes, failures>>
  BY DEF Return, Finished, faults
<1>2. /\ likes' \subseteq Key /\ comments' \subseteq Comment /\ IsFiniteSet(likes')
      /\ likeCount' \in [Comment -> Int]
      /\ crashes' \in Nat /\ failures' \in Nat
  BY <1>1 DEF BasicsInv, TypeOK, FinitelyMany, store
<1>3. Faultless' => Faultless
  BY <1>1 DEF Faultless
<1> QED BY <1>1, <1>2, <1>3, DropBasics

\* A worker is done with one of the events it has to publish.
LEMMA OutboxBasics ==
  ASSUME BasicsInv, NEW w \in Worker, NEW k \in outbox[w],
         outbox' = [outbox EXCEPT ![w] = @ \ {k}],
         UNCHANGED <<store, batch, stage, acked, passed>>,
         crashes' \in Nat, failures' \in Nat, Faultless' => Faultless,
         sent' \in [Topic -> SUBSET Message],
         \A t \in Topic : IsFiniteSet(sent'[t]) /\ sent[t] \subseteq sent'[t]
  PROVE BasicsInv'
<1>1. outbox' \in [Worker -> SUBSET Key]
  BY DEF BasicsInv, TypeOK
<1>2. /\ outbox'[w] = outbox[w] \ {k}
      /\ \A u \in Worker \ {w} : outbox'[u] = outbox[u]
  BY DEF BasicsInv, TypeOK
<1>3. TypeOK'
  BY <1>1 DEF BasicsInv, TypeOK, store
<1>4. FinitelyMany'
  <2>1. ASSUME NEW u \in Worker PROVE IsFiniteSet(outbox'[u])
    <3>1. outbox'[u] \in SUBSET outbox[u] /\ IsFiniteSet(outbox[u])
      BY <1>2 DEF BasicsInv, FinitelyMany
    <3> QED BY <3>1, FS_Subset
  <2> QED BY <2>1 DEF BasicsInv, FinitelyMany, store
<1>5. \A u \in Worker \ {w} : Holds(u)'
  BY <1>2, HoldsFrame
<1>6. Holds(w)'
  <2>1. Holds(w) /\ Source[w] \in Topic
    BY SourcesAreTopics DEF BasicsInv, HoldsInv
  <2>2. sent[Source[w]] \subseteq sent'[Source[w]]
    BY <2>1
  <2> QED BY <1>2, <2>1, <2>2 DEF Holds
<1> QED BY <1>3, <1>4, <1>5, <1>6 DEF BasicsInv, HoldsInv

LEMMA AboutIsFinite ==
  ASSUME BasicsInv, NEW t \in Topic, NEW k
  PROVE IsFiniteSet(About(sent[t], k)) /\ Cardinality(About(sent[t], k)) \in Nat
<1>1. IsFiniteSet(sent[t]) /\ About(sent[t], k) \in SUBSET sent[t]
  BY DEF BasicsInv, FinitelyMany, About
<1> QED BY <1>1, FS_Subset, FS_CardinalityType

\* What is published to a topic.
Fresh(t, k) == [key |-> k, n |-> Cardinality(About(sent[t], k)) + 1]

LEMMA AnnounceFacts ==
  ASSUME BasicsInv, NEW w \in Worker, NEW t \in Topic, NEW k \in Key, Announce(w, t, k)
  PROVE /\ k \in outbox[w]
        /\ Fresh(t, k) \in Message
        /\ outbox' = [outbox EXCEPT ![w] = @ \ {k}]
        /\ sent' \in [Topic -> SUBSET Message]
        /\ sent'[t] = sent[t] \cup {Fresh(t, k)}
        /\ \A u \in Topic \ {t} : sent'[u] = sent[u]
        /\ UNCHANGED <<store, announced, batch, stage, offsets, faults>>
<1>1. Cardinality(About(sent[t], k)) \in Nat
  BY AboutIsFinite
<1>2. Fresh(t, k) \in Message
  BY <1>1 DEF Fresh, Message
<1>3. sent' = [sent EXCEPT ![t] = @ \cup {Fresh(t, k)}]
  BY DEF Announce, Fresh
<1>4. sent[t] \cup {Fresh(t, k)} \in SUBSET Message
  BY <1>2 DEF BasicsInv, TypeOK
<1>5. sent' \in [Topic -> SUBSET Message]
  BY <1>3, <1>4 DEF BasicsInv, TypeOK
<1>6. /\ sent'[t] = sent[t] \cup {Fresh(t, k)}
      /\ \A u \in Topic \ {t} : sent'[u] = sent[u]
  BY <1>3 DEF BasicsInv, TypeOK
<1> QED BY <1>2, <1>5, <1>6 DEF Announce

LEMMA AnnounceBasics ==
  ASSUME BasicsInv, NEW w \in Worker, NEW t \in Topic, NEW k \in Key, Announce(w, t, k)
  PROVE BasicsInv'
<1>1. /\ k \in outbox[w]
      /\ outbox' = [outbox EXCEPT ![w] = @ \ {k}]
      /\ sent' \in [Topic -> SUBSET Message]
      /\ UNCHANGED <<store, announced, batch, stage, offsets, faults>>
  BY AnnounceFacts
<1>2. \A u \in Topic : IsFiniteSet(sent'[u]) /\ sent[u] \subseteq sent'[u]
  <2>1. IsFiniteSet(sent[t] \cup {Fresh(t, k)})
    BY FS_AddElement DEF BasicsInv, FinitelyMany
  <2>2. /\ sent'[t] = sent[t] \cup {Fresh(t, k)}
        /\ \A u \in Topic \ {t} : sent'[u] = sent[u]
    BY AnnounceFacts
  <2> QED BY <2>1, <2>2 DEF BasicsInv, FinitelyMany
<1>3. /\ crashes' \in Nat /\ failures' \in Nat /\ (Faultless' => Faultless)
      /\ UNCHANGED <<acked, passed>>
  BY <1>1 DEF BasicsInv, TypeOK, Faultless, faults, offsets
<1> QED BY <1>1, <1>2, <1>3, OutboxBasics

LEMMA AnnounceToPostAuthorBasics ==
  ASSUME BasicsInv, NEW k \in Key, AnnounceToPostAuthor(k)
  PROVE BasicsInv'
<1>1. /\ k \in outbox["flag"]
      /\ outbox' = [outbox EXCEPT !["flag"] = @ \ {k}]
      /\ UNCHANGED <<store, sent, batch, stage, acked, passed, crashes, failures>>
  BY DEF AnnounceToPostAuthor, offsets, faults
<1>2. /\ crashes' \in Nat /\ failures' \in Nat /\ (Faultless' => Faultless)
      /\ sent' \in [Topic -> SUBSET Message]
      /\ \A t \in Topic : IsFiniteSet(sent'[t]) /\ sent[t] \subseteq sent'[t]
  BY <1>1 DEF BasicsInv, TypeOK, FinitelyMany, Faultless
<1>3. "flag" \in Worker
  BY DEF Worker
<1> QED BY <1>1, <1>2, <1>3, OutboxBasics

LEMMA NoAckBasics ==
  ASSUME BasicsInv, NEW w \in Worker, NEW k \in Key, NoAck(w, k)
  PROVE BasicsInv'
<1>1. /\ k \in outbox[w] /\ Fault
      /\ outbox' = [outbox EXCEPT ![w] = @ \ {k}]
      /\ UNCHANGED <<store, sent, batch, stage, acked, passed>>
  BY DEF NoAck, offsets
<1>2. ~Faultless' /\ crashes' \in Nat /\ failures' \in Nat
  BY <1>1, FaultsGrow DEF BasicsInv
<1>3. /\ sent' \in [Topic -> SUBSET Message]
      /\ \A t \in Topic : IsFiniteSet(sent'[t]) /\ sent[t] \subseteq sent'[t]
  BY <1>1 DEF BasicsInv, TypeOK, FinitelyMany
<1> QED BY <1>1, <1>2, <1>3, OutboxBasics

LEMMA AcknowledgeBasics ==
  ASSUME BasicsInv, NEW w \in Worker, Acknowledge(w)
  PROVE BasicsInv'
<1>1. /\ batch' = [batch EXCEPT ![w] = {}]
      /\ stage' = [stage EXCEPT ![w] = "idle"]
      /\ acked' = [acked EXCEPT ![w] = @ \cup batch[w]]
      /\ outbox[w] = {} /\ stage[w] = "publish"
      /\ UNCHANGED <<store, announced, sent, outbox, passed, hasty, crashes, failures>>
  BY DEF Acknowledge, Finished, faults
<1>2. /\ batch' \in [Worker -> SUBSET Message]
      /\ stage' \in [Worker -> StageName]
  BY <1>1 DEF BasicsInv, TypeOK, StageName
<1>3. acked' \in [Worker -> SUBSET Message]
  <2>1. acked[w] \cup batch[w] \in SUBSET Message
    BY DEF BasicsInv, TypeOK
  <2> QED BY <1>1, <2>1 DEF BasicsInv, TypeOK
<1>4. /\ batch'[w] = {} /\ stage'[w] = "idle" /\ acked'[w] = acked[w] \cup batch[w]
      /\ \A u \in Worker \ {w} : /\ batch'[u] = batch[u] /\ stage'[u] = stage[u]
                                 /\ acked'[u] = acked[u]
  BY <1>1 DEF BasicsInv, TypeOK
<1>5. TypeOK'
  BY <1>1, <1>2, <1>3 DEF BasicsInv, TypeOK, store
<1>6. FinitelyMany'
  BY <1>1 DEF BasicsInv, FinitelyMany, store
<1>7. \A u \in Worker \ {w} : Holds(u)'
  BY <1>1, <1>4, HoldsFrame DEF Faultless
<1>8. Holds(w)'
  BY <1>1, <1>4 DEF BasicsInv, HoldsInv, Holds, Faultless
<1> QED BY <1>5, <1>6, <1>7, <1>8 DEF BasicsInv, HoldsInv

LEMMA CrashBasics ==
  ASSUME BasicsInv, Crash
  PROVE BasicsInv' /\ ~Faultless' /\ crashes' # 0
<1>1. PICK again : acked' = [w \in Worker |-> acked[w] \cup (passed[w] \ again[w])]
  BY DEF Crash
<1>2. /\ passed' = [w \in Worker |-> {}]
      /\ batch'  = [w \in Worker |-> {}]
      /\ stage'  = [w \in Worker |-> "idle"]
      /\ outbox' = [w \in Worker |-> {}]
      /\ crashes' = crashes + 1
      /\ UNCHANGED <<store, sent, failures>>
  BY DEF Crash
<1>3. acked' \in [Worker -> SUBSET Message]
  BY <1>1 DEF BasicsInv, TypeOK
<1>4. /\ passed' \in [Worker -> SUBSET Message] /\ batch' \in [Worker -> SUBSET Message]
      /\ stage' \in [Worker -> StageName] /\ outbox' \in [Worker -> SUBSET Key]
  BY <1>2 DEF StageName
<1>5. TypeOK'
  BY <1>2, <1>3, <1>4 DEF BasicsInv, TypeOK, store
<1>6. FinitelyMany'
  BY <1>2, FS_EmptySet DEF BasicsInv, FinitelyMany, store
<1>7. HoldsInv'
  <2>1. ASSUME NEW w \in Worker PROVE Holds(w)'
    <3>1. acked'[w] = acked[w] \cup (passed[w] \ again[w])
      BY <1>1
    <3>2. /\ batch'[w] = {} /\ outbox'[w] = {} /\ passed'[w] = {} /\ sent' = sent
      BY <1>2
    <3> QED BY <3>1, <3>2 DEF BasicsInv, HoldsInv, Holds
  <2> QED BY <2>1 DEF HoldsInv
<1>8. ~Faultless' /\ crashes' # 0
  BY <1>2 DEF BasicsInv, TypeOK, Faultless
<1> QED BY <1>5, <1>6, <1>7, <1>8 DEF BasicsInv

\* The steps that concern neither the likes nor their events.
Aside ==
  \/ \E t \in {"likeRequest", "unlikeRequest"}, k \in Key : Request(t, k)
  \/ \E c \in Comment : DeleteComment(c)
  \/ \E w \in Worker : Take(w) \/ Acknowledge(w) \/ Return(w)
  \/ AddToCounts \/ SetFlag \/ ClearFlag
  \/ \E k \in Key : AnnounceToPostAuthor(k)

LEMMA Steps ==
  ASSUME Next
  PROVE \/ Aside
        \/ InsertLikes
        \/ DeleteLikes
        \/ \E k \in Key : AnnounceLiked(k)
        \/ \E k \in Key : AnnounceUnliked(k)
        \/ Failure
<1>1. CASE Click
  BY <1>1 DEF Click, Aside
<1>2. CASE \E c \in Comment : DeleteComment(c)
  BY <1>2 DEF Aside
<1>3. CASE \E w \in Worker : WorkerStep(w)
  <2>1. PICK w \in Worker : WorkerStep(w)
    BY <1>3
  <2> QED BY <2>1 DEF WorkerStep, Aside
<1> QED BY <1>1, <1>2, <1>3 DEF Next

LEMMA AsideBasics ==
  ASSUME BasicsInv, Aside
  PROVE BasicsInv'
<1>1. CASE \E t \in {"likeRequest", "unlikeRequest"}, k \in Key : Request(t, k)
  BY <1>1, RequestBasics
<1>2. CASE \E c \in Comment : DeleteComment(c)
  BY <1>2, DeleteCommentBasics
<1>3. CASE \E w \in Worker : Take(w) \/ Acknowledge(w) \/ Return(w)
  BY <1>3, TakeBasics, AcknowledgeBasics, ReturnBasics
<1>4. CASE AddToCounts \/ SetFlag \/ ClearFlag
  BY <1>4, AddToCountsBasics, SetFlagBasics, ClearFlagBasics
<1>5. CASE \E k \in Key : AnnounceToPostAuthor(k)
  BY <1>5, AnnounceToPostAuthorBasics
<1> QED BY <1>1, <1>2, <1>3, <1>4, <1>5 DEF Aside

LEMMA FailureBasics ==
  ASSUME BasicsInv, Failure
  PROVE BasicsInv' /\ ~Faultless'
<1>1. CASE InsertFails
  BY <1>1, InsertFailsBasics, FaultsGrow DEF InsertFails, BasicsInv
<1>2. CASE DeleteFails
  BY <1>2, DeleteFailsBasics, FaultsGrow DEF DeleteFails, BasicsInv
<1>3. CASE AddToCountsFails
  BY <1>3, AddToCountsFailsBasics, FaultsGrow DEF AddToCountsFails, BasicsInv
<1>4. CASE \E w \in {"flag", "unflag"} : FlagFails(w)
  BY <1>4, FlagFailsBasics, FaultsGrow DEF FlagFails, BasicsInv
<1>5. CASE \E w \in Worker, k \in Key : NoAck(w, k)
  BY <1>5, NoAckBasics, FaultsGrow DEF NoAck, BasicsInv
<1>6. CASE Crash
  BY <1>6, CrashBasics
<1> QED BY <1>1, <1>2, <1>3, <1>4, <1>5, <1>6 DEF Failure

LEMMA NextBasics ==
  ASSUME BasicsInv, [Next]_vars
  PROVE BasicsInv'
<1>1. CASE UNCHANGED vars
  BY <1>1 DEF vars, BasicsInv, TypeOK, FinitelyMany, HoldsInv, Holds, Faultless
<1>2. CASE Next
  <2>1. CASE Aside
    BY <2>1, AsideBasics
  <2>2. CASE InsertLikes
    BY <2>2, InsertLikesBasics
  <2>3. CASE DeleteLikes
    BY <2>3, DeleteLikesBasics
  <2>4. CASE \E k \in Key : AnnounceLiked(k) \/ AnnounceUnliked(k)
    <3>1. {"like", "unlike"} \subseteq Worker /\ {"liked", "unliked"} \subseteq Topic
      BY DEF Worker, Topic
    <3> QED BY <2>4, <3>1, AnnounceBasics DEF AnnounceLiked, AnnounceUnliked
  <2>5. CASE Failure
    BY <2>5, FailureBasics
  <2> QED BY <1>2, Steps, <2>1, <2>2, <2>3, <2>4, <2>5
<1> QED BY <1>1, <1>2

\* The types, the finiteness and what a worker holds at which stage are an
\* invariant of its own, for the handlers of all five workers and every failure.
THEOREM Basics == Spec => []BasicsInv
<1> QED BY InitBasics, NextBasics, PTL DEF Spec

----------------------------------------------------------------------------
EventTopic == {"liked", "unliked"}

\* The events about a key are numbered without a gap: the next is a new one.
NumberedEvents ==
  \A t \in EventTopic : \A m \in sent[t] : m.n <= Cardinality(About(sent[t], m.key))

Here(S, k) == Cardinality(S \cap {k})
Balanced(k) ==
  Cardinality(About(sent["liked"], k)) + Here(outbox["like"], k)
    - Cardinality(About(sent["unliked"], k)) - Here(outbox["unlike"], k)
    = Here(likes, k)

LEMMA MirrorsAll ==
  EventsMirrorLikes <=> (Faultless => \A k \in Key : Balanced(k))
BY DEF EventsMirrorLikes, Balanced, Here

MirrorInv == NumberedEvents /\ (Faultless => \A k \in Key : Balanced(k))

LEMMA HereOrNot ==
  ASSUME NEW S, NEW k
  PROVE Here(S, k) = IF k \in S THEN 1 ELSE 0
<1>1. CASE k \in S
  <2>1. S \cap {k} = {k}
    BY <1>1
  <2> QED BY <1>1, <2>1, FS_Singleton DEF Here
<1>2. CASE k \notin S
  <2>1. S \cap {k} = {}
    BY <1>2
  <2> QED BY <1>2, <2>1, FS_EmptySet DEF Here
<1> QED BY <1>1, <1>2

\* One more event about k, and none about others.
LEMMA OneMore ==
  ASSUME BasicsInv, NEW t \in EventTopic, NEW w \in Worker, NEW k \in Key,
         NumberedEvents, Announce(w, t, k)
  PROVE /\ Fresh(t, k) \notin sent[t]
        /\ Cardinality(About(sent'[t], k)) = Cardinality(About(sent[t], k)) + 1
        /\ \A j \in Key \ {k} : About(sent'[t], j) = About(sent[t], j)
<1>0. t \in Topic
  BY DEF EventTopic, Topic
<1>1. IsFiniteSet(About(sent[t], k)) /\ Cardinality(About(sent[t], k)) \in Nat
  BY <1>0, AboutIsFinite
<1>2. Fresh(t, k).n = Cardinality(About(sent[t], k)) + 1 /\ Fresh(t, k).key = k
  BY DEF Fresh
<1>3. sent'[t] = sent[t] \cup {Fresh(t, k)}
  BY <1>0, AnnounceFacts
<1>4. Fresh(t, k) \notin sent[t]
  <2>1. SUFFICES ASSUME Fresh(t, k) \in sent[t] PROVE FALSE
    OBVIOUS
  <2>2. Fresh(t, k).n <= Cardinality(About(sent[t], Fresh(t, k).key))
    BY <2>1 DEF NumberedEvents
  <2> QED BY <1>1, <1>2, <2>2
<1>5. Fresh(t, k) \notin About(sent[t], k)
  BY <1>4 DEF About
<1>6. About(sent'[t], k) = About(sent[t], k) \cup {Fresh(t, k)}
  BY <1>2, <1>3 DEF About
<1>7. Cardinality(About(sent'[t], k)) = Cardinality(About(sent[t], k)) + 1
  BY <1>1, <1>5, <1>6, FS_AddElement
<1>8. \A j \in Key \ {k} : About(sent'[t], j) = About(sent[t], j)
  BY <1>2, <1>3 DEF About
<1> QED BY <1>4, <1>7, <1>8

LEMMA AnnounceKeepsNumbers ==
  ASSUME BasicsInv, NEW t \in EventTopic, NEW w \in Worker, NEW k \in Key,
         NumberedEvents, Announce(w, t, k)
  PROVE NumberedEvents'
<1>0. t \in Topic /\ EventTopic \subseteq Topic
  BY DEF EventTopic, Topic
<1>1. /\ sent'[t] = sent[t] \cup {Fresh(t, k)}
      /\ \A u \in Topic \ {t} : sent'[u] = sent[u]
  BY <1>0, AnnounceFacts
<1>2. ASSUME NEW m \in sent'[t] PROVE m.n <= Cardinality(About(sent'[t], m.key))
  <2>1. Cardinality(About(sent[t], k)) \in Nat
    BY <1>0, AboutIsFinite
  <2>2. CASE m \in sent[t]
    <3>1. m.n \in Nat /\ m.key \in Key
      BY <1>0, <2>2 DEF BasicsInv, TypeOK, Message
    <3>2. m.n <= Cardinality(About(sent[t], m.key))
      BY <2>2 DEF NumberedEvents
    <3> QED BY <2>1, <3>1, <3>2, OneMore
  <2>3. CASE m = Fresh(t, k)
    <3>1. m.n = Cardinality(About(sent[t], k)) + 1 /\ m.key = k
      BY <2>3 DEF Fresh
    <3> QED BY <2>1, <3>1, OneMore
  <2> QED BY <1>1, <2>2, <2>3
<1>3. ASSUME NEW u \in EventTopic, u # t, NEW m \in sent'[u]
      PROVE m.n <= Cardinality(About(sent'[u], m.key))
  BY <1>0, <1>1, <1>3 DEF NumberedEvents
<1> QED BY <1>2, <1>3 DEF NumberedEvents

LEMMA AsideLeavesEvents ==
  ASSUME BasicsInv, Aside
  PROVE /\ UNCHANGED <<likes, crashes, failures>>
        /\ \A t \in EventTopic : sent'[t] = sent[t]
        /\ \A w \in {"like", "unlike"} : outbox'[w] = outbox[w]
<1> USE DEF BasicsInv, TypeOK, Worker, EventTopic, Topic
<1>1. ASSUME NEW t \in {"likeRequest", "unlikeRequest"}, NEW k \in Key, Request(t, k)
      PROVE /\ UNCHANGED <<likes, crashes, failures, outbox>>
            /\ \A u \in EventTopic : sent'[u] = sent[u]
  BY <1>1 DEF Request, store, work, faults
<1>2. ASSUME NEW c \in Comment, DeleteComment(c)
      PROVE UNCHANGED <<likes, crashes, failures, outbox, sent>>
  BY <1>2 DEF DeleteComment, work, faults
<1>3. ASSUME NEW w \in Worker, Take(w) \/ Acknowledge(w) \/ Return(w)
      PROVE UNCHANGED <<likes, crashes, failures, outbox, sent>>
  BY <1>3 DEF Take, Acknowledge, Return, Drop, store, faults
<1>4. ASSUME NEW w \in {"count", "flag", "unflag"}, NEW keys, Publishing(w, keys)
      PROVE /\ UNCHANGED <<crashes, failures, sent>>
            /\ \A u \in {"like", "unlike"} : outbox'[u] = outbox[u]
  BY <1>4 DEF Publishing, faults
<1>5. ASSUME NEW k \in Key, AnnounceToPostAuthor(k)
      PROVE /\ UNCHANGED <<likes, crashes, failures, sent>>
            /\ \A u \in {"like", "unlike"} : outbox'[u] = outbox[u]
  BY <1>5 DEF AnnounceToPostAuthor, store, faults
<1>6. CASE AddToCounts \/ SetFlag \/ ClearFlag
  <2>1. UNCHANGED likes
    BY <1>6 DEF AddToCounts, SetFlag, ClearFlag
  <2>2. \E w \in {"count", "flag", "unflag"} : \E keys : Publishing(w, keys)
    BY <1>6 DEF AddToCounts, SetFlag, ClearFlag
  <2> QED BY <1>4, <2>1, <2>2
<1> QED BY <1>1, <1>2, <1>3, <1>5, <1>6 DEF Aside

\* A write of one of the two workers, and what it lets it publish.
LEMMA PublishingFacts ==
  ASSUME BasicsInv, NEW w \in Worker, NEW keys, Publishing(w, keys)
  PROVE /\ outbox'[w] = keys /\ stage'[w] = "publish"
        /\ \A u \in Worker \ {w} : outbox'[u] = outbox[u] /\ stage'[u] = stage[u]
        /\ UNCHANGED <<announced, sent, batch, acked, passed, hasty, crashes, failures>>
BY DEF Publishing, BasicsInv, TypeOK, offsets, faults

LEMMA CountsAreNumbers ==
  ASSUME BasicsInv, NEW k
  PROVE /\ Cardinality(About(sent["liked"], k)) \in Nat
        /\ Cardinality(About(sent["unliked"], k)) \in Nat
<1>1. "liked" \in Topic /\ "unliked" \in Topic
  BY DEF Topic
<1> QED BY <1>1, AboutIsFinite

LEMMA NextMirror ==
  ASSUME BasicsInv, MirrorInv, [Next]_vars
  PROVE MirrorInv'
<1>0. /\ {"liked", "unliked"} \subseteq Topic /\ EventTopic = {"liked", "unliked"}
      /\ {"like", "unlike"} \subseteq Worker
  BY DEF Topic, Worker, EventTopic
<1>1. ASSUME UNCHANGED <<likes, crashes, failures>>,
             \A t \in EventTopic : sent'[t] = sent[t],
             \A w \in {"like", "unlike"} : outbox'[w] = outbox[w]
      PROVE MirrorInv'
  BY <1>0, <1>1 DEF MirrorInv, NumberedEvents, Balanced, Here, Faultless
<1>2. CASE UNCHANGED vars
  BY <1>1, <1>2 DEF vars
<1>3. CASE Aside
  BY <1>1, <1>3, AsideLeavesEvents
<1>4. CASE InsertLikes
  <2> DEFINE inserted == NewLikes(KeysOf(batch["like"]))
  <2>1. /\ likes' = likes \cup inserted /\ inserted \cap likes = {}
        /\ stage["like"] = "write"
        /\ Publishing("like", inserted)
    BY <1>4 DEF InsertLikes, NewLikes
  <2> HIDE DEF inserted
  <2>2. /\ outbox'["like"] = inserted /\ outbox["like"] = {}
        /\ outbox'["unlike"] = outbox["unlike"]
        /\ UNCHANGED <<sent, crashes, failures>>
    BY <1>0, <2>1, PublishingFacts, WritersOwe
  <2>3. ASSUME NEW k \in Key, Balanced(k)
        PROVE Balanced(k)'
    BY <2>1, <2>2, <2>3, HereOrNot, CountsAreNumbers DEF Balanced
  <2> QED BY <2>2, <2>3 DEF MirrorInv, NumberedEvents, Faultless
<1>5. CASE DeleteLikes
  <2> DEFINE found == Found(KeysOf(batch["unlike"]))
  <2>1. /\ likes' = likes \ found /\ found \subseteq likes
        /\ stage["unlike"] = "write"
        /\ Publishing("unlike", found)
    BY <1>5 DEF DeleteLikes, Found
  <2> HIDE DEF found
  <2>2. /\ outbox'["unlike"] = found /\ outbox["unlike"] = {}
        /\ outbox'["like"] = outbox["like"]
        /\ UNCHANGED <<sent, crashes, failures>>
    BY <1>0, <2>1, PublishingFacts, WritersOwe
  <2>3. ASSUME NEW k \in Key, Balanced(k)
        PROVE Balanced(k)'
    BY <2>1, <2>2, <2>3, HereOrNot, CountsAreNumbers DEF Balanced
  <2> QED BY <2>2, <2>3 DEF MirrorInv, NumberedEvents, Faultless
<1>6. ASSUME NEW j \in Key, AnnounceLiked(j)
      PROVE MirrorInv'
  <2>1. Announce("like", "liked", j)
    BY <1>6 DEF AnnounceLiked
  <2>2. NumberedEvents'
    BY <1>0, <2>1, AnnounceKeepsNumbers DEF MirrorInv
  <2>3. /\ j \in outbox["like"] /\ outbox'["like"] = outbox["like"] \ {j}
        /\ outbox'["unlike"] = outbox["unlike"]
        /\ sent'["unliked"] = sent["unliked"]
        /\ UNCHANGED <<likes, crashes, failures>>
    BY <1>0, <2>1, AnnounceFacts DEF BasicsInv, TypeOK, store, faults
  <2>4. /\ Cardinality(About(sent'["liked"], j)) = Cardinality(About(sent["liked"], j)) + 1
        /\ \A k \in Key \ {j} : About(sent'["liked"], k) = About(sent["liked"], k)
    BY <1>0, <2>1, OneMore DEF MirrorInv
  <2>5. ASSUME NEW k \in Key, Balanced(k)
        PROVE Balanced(k)'
    BY <2>3, <2>4, <2>5, HereOrNot, CountsAreNumbers DEF Balanced
  <2> QED BY <2>2, <2>3, <2>5 DEF MirrorInv, Faultless
<1>7. ASSUME NEW j \in Key, AnnounceUnliked(j)
      PROVE MirrorInv'
  <2>1. Announce("unlike", "unliked", j)
    BY <1>7 DEF AnnounceUnliked
  <2>2. NumberedEvents'
    BY <1>0, <2>1, AnnounceKeepsNumbers DEF MirrorInv
  <2>3. /\ j \in outbox["unlike"] /\ outbox'["unlike"] = outbox["unlike"] \ {j}
        /\ outbox'["like"] = outbox["like"]
        /\ sent'["liked"] = sent["liked"]
        /\ UNCHANGED <<likes, crashes, failures>>
    BY <1>0, <2>1, AnnounceFacts DEF BasicsInv, TypeOK, store, faults
  <2>4. /\ Cardinality(About(sent'["unliked"], j)) = Cardinality(About(sent["unliked"], j)) + 1
        /\ \A k \in Key \ {j} : About(sent'["unliked"], k) = About(sent["unliked"], k)
    BY <1>0, <2>1, OneMore DEF MirrorInv
  <2>5. ASSUME NEW k \in Key, Balanced(k)
        PROVE Balanced(k)'
    BY <2>3, <2>4, <2>5, HereOrNot, CountsAreNumbers DEF Balanced
  <2> QED BY <2>2, <2>3, <2>5 DEF MirrorInv, Faultless
<1>8. CASE Failure
  <2>1. ~Faultless'
    BY <1>8, FailureBasics
  <2>2. /\ \A t \in EventTopic : sent'[t] = sent[t]
    <3>1. sent' = sent
      BY <1>8 DEF Failure, InsertFails, DeleteFails, AddToCountsFails, FlagFails, NoAck,
                  Crash, Drop
    <3> QED BY <3>1
  <2> QED BY <2>1, <2>2 DEF MirrorInv, NumberedEvents
<1> QED BY <1>2, <1>3, <1>4, <1>5, <1>6, <1>7, <1>8, Steps

LEMMA InitMirror ==
  ASSUME Init
  PROVE MirrorInv
<1>1. \A t \in Topic : sent[t] = {}
  BY DEF Init
<1>2. /\ {"liked", "unliked"} \subseteq Topic /\ EventTopic = {"liked", "unliked"}
      /\ {"like", "unlike"} \subseteq Worker
  BY DEF Topic, Worker, EventTopic
<1>3. ASSUME NEW k \in Key PROVE Balanced(k)
  <2>1. About(sent["liked"], k) = {} /\ About(sent["unliked"], k) = {}
    BY <1>1, <1>2 DEF About
  <2>2. outbox["like"] = {} /\ outbox["unlike"] = {} /\ likes = {}
    BY <1>2 DEF Init
  <2> QED BY <2>1, <2>2, HereOrNot, FS_EmptySet DEF Balanced
<1> QED BY <1>1, <1>2, <1>3 DEF MirrorInv, NumberedEvents

\* While nothing fails, the events of a user and a comment, published or about to
\* be, tell whether the like is there: each row insertMany really inserted and each
\* one deleteMany really found is announced once.
THEOREM EventsTellOfLikes == Spec => []EventsMirrorLikes
<1>1. MirrorInv => EventsMirrorLikes
  BY MirrorsAll DEF MirrorInv
<1> QED BY <1>1, InitBasics, NextBasics, InitMirror, NextMirror, PTL DEF Spec

----------------------------------------------------------------------------
\* A worker's write has taken the message into account.
Written(w, m) == m \in acked[w] \/ (m \in batch[w] /\ stage[w] = "publish")

LikesInv ==
  Faultless => \A m \in sent["likeRequest"] :
    NeverUnliked(m.key) /\ Written("like", m) => m.key \in likes

\* Nothing is unliked that nobody asked to unlike.
UnlikedInv ==
  /\ \A m \in sent["unliked"] : ~NeverUnliked(m.key)
  /\ \A k \in outbox["unlike"] : ~NeverUnliked(k)

\* A like of the post's author that the flag worker has seen.
OfPostAuthor(k) ==
  NeverUnliked(k) /\ k[1] = PostAuthor /\ k[2] \in comments \ OwnComment
Seen(m) == Written("flag", m) \/ m \in passed["flag"]
Rewarded(k) == k[2] \in flagged /\ (k \in outbox["flag"] \/ k[2] \in announced)
FlagInv ==
  Faultless => \A m \in sent["liked"] :
    Seen(m) /\ OfPostAuthor(m.key) => Rewarded(m.key)

ArrivesInv == LikesInv /\ UnlikedInv /\ FlagInv

LEMMA WorkersAre ==
  /\ {"like", "unlike", "count", "flag", "unflag"} = Worker
  /\ {"likeRequest", "unlikeRequest", "liked", "unliked"} = Topic
  /\ Source["like"] = "likeRequest" /\ Source["unlike"] = "unlikeRequest"
  /\ Source["count"] = "liked" /\ Source["flag"] = "liked"
  /\ Source["unflag"] = "unliked"
BY DEF Worker, Topic, Source

\* Of a worker a step does not concern, nothing changes.
Idle(w) ==
  /\ batch'[w] = batch[w] /\ stage'[w] = stage[w] /\ outbox'[w] = outbox[w]
  /\ acked'[w] = acked[w] /\ passed'[w] = passed[w]

\* What was written stays written, and no more is.
SameWritten(w) == \A m : Written(w, m)' <=> Written(w, m)
SameSeen(w) ==
  \A m : (Written(w, m)' \/ m \in passed'[w]) <=> (Written(w, m) \/ m \in passed[w])

LEMMA TakeFacts ==
  ASSUME BasicsInv, NEW w \in Worker, Take(w)
  PROVE /\ \A u \in Worker \ {w} : Idle(u)
        /\ UNCHANGED <<store, announced, sent, outbox, acked, passed, hasty, crashes, failures>>
        /\ stage[w] = "idle" /\ stage'[w] = "write" /\ batch[w] = {}
        /\ SameWritten(w)
<1>1. PICK taken : batch' = [batch EXCEPT ![w] = taken]
  BY DEF Take
<1>2. /\ stage[w] = "idle" /\ stage' = [stage EXCEPT ![w] = "write"]
      /\ UNCHANGED <<store, announced, sent, outbox, acked, passed, hasty, crashes, failures>>
  BY DEF Take, offsets, faults
<1>3. /\ stage'[w] = "write"
      /\ \A u \in Worker \ {w} : batch'[u] = batch[u] /\ stage'[u] = stage[u]
  BY <1>1, <1>2 DEF BasicsInv, TypeOK
<1>4. batch[w] = {}
  BY <1>2 DEF BasicsInv, HoldsInv, Holds
<1> QED BY <1>2, <1>3, <1>4 DEF Idle, SameWritten, Written

LEMMA AcknowledgeFacts ==
  ASSUME BasicsInv, NEW w \in Worker, Acknowledge(w)
  PROVE /\ \A u \in Worker \ {w} : Idle(u)
        /\ UNCHANGED <<store, announced, sent, outbox, passed, hasty, crashes, failures>>
        /\ stage[w] = "publish" /\ stage'[w] = "idle" /\ batch'[w] = {}
        /\ acked'[w] = acked[w] \cup batch[w]
        /\ SameWritten(w)
<1>1. /\ batch' = [batch EXCEPT ![w] = {}]
      /\ stage' = [stage EXCEPT ![w] = "idle"]
      /\ acked' = [acked EXCEPT ![w] = @ \cup batch[w]]
      /\ stage[w] = "publish"
      /\ UNCHANGED <<store, announced, sent, outbox, passed, hasty, crashes, failures>>
  BY DEF Acknowledge, Finished, faults
<1>2. /\ batch'[w] = {} /\ stage'[w] = "idle" /\ acked'[w] = acked[w] \cup batch[w]
      /\ \A u \in Worker \ {w} : /\ batch'[u] = batch[u] /\ stage'[u] = stage[u]
                                 /\ acked'[u] = acked[u]
  BY <1>1 DEF BasicsInv, TypeOK
<1> QED BY <1>1, <1>2 DEF Idle, SameWritten, Written

LEMMA DropFacts ==
  ASSUME BasicsInv, NEW w \in Worker, Drop(w)
  PROVE /\ \A u \in Worker \ {w} : Idle(u)
        /\ UNCHANGED <<announced, sent, outbox, acked, hasty>>
        /\ batch'[w] = {} /\ stage'[w] = "idle" /\ passed'[w] = passed[w] \cup batch[w]
<1>1. /\ batch' = [batch EXCEPT ![w] = {}]
      /\ stage' = [stage EXCEPT ![w] = "idle"]
      /\ passed' = [passed EXCEPT ![w] = @ \cup batch[w]]
      /\ UNCHANGED <<announced, sent, outbox, acked, hasty>>
  BY DEF Drop
<1>2. /\ batch'[w] = {} /\ stage'[w] = "idle" /\ passed'[w] = passed[w] \cup batch[w]
      /\ \A u \in Worker \ {w} : /\ batch'[u] = batch[u] /\ stage'[u] = stage[u]
                                 /\ passed'[u] = passed[u]
  BY <1>1 DEF BasicsInv, TypeOK
<1> QED BY <1>1, <1>2 DEF Idle

LEMMA ReturnFacts ==
  ASSUME BasicsInv, NEW w \in Worker, Return(w)
  PROVE /\ \A u \in Worker \ {w} : Idle(u)
        /\ UNCHANGED <<store, announced, sent, outbox, acked, hasty, crashes, failures>>
        /\ w \in {"flag", "unflag"}
        /\ SameSeen(w)
<1>1. /\ w \in {"flag", "unflag"} /\ Drop(w) /\ stage[w] = "publish"
      /\ UNCHANGED <<store, crashes, failures>>
  BY DEF Return, Finished, faults
<1>2. SameSeen(w)
  BY <1>1, DropFacts DEF SameSeen, Written
<1> QED BY <1>1, <1>2, DropFacts

LEMMA RequestFacts ==
  ASSUME BasicsInv, NEW t \in {"likeRequest", "unlikeRequest"}, NEW k \in Key, Request(t, k)
  PROVE LET m == [key |-> k, n |-> Cardinality(Requests(k)) + 1]
        IN  /\ sent'[t] = sent[t] \cup {m}
            /\ \A u \in Topic \ {t} : sent'[u] = sent[u]
            /\ UNCHANGED <<store, announced, batch, stage, outbox, acked, passed, crashes, failures>>
<1> DEFINE m == [key |-> k, n |-> Cardinality(Requests(k)) + 1]
<1>1. sent' = [sent EXCEPT ![t] = @ \cup {m}]
  BY DEF Request
<1>2. t \in Topic
  BY DEF Topic
<1>3. UNCHANGED <<store, announced, batch, stage, outbox, acked, passed, crashes, failures>>
  BY DEF Request, work, faults
<1> HIDE DEF m
<1>4. sent'[t] = sent[t] \cup {m} /\ \A u \in Topic \ {t} : sent'[u] = sent[u]
  BY <1>1, <1>2 DEF BasicsInv, TypeOK
<1> QED BY <1>3, <1>4 DEF m

\* Once asked for, an unlike stays asked for.
LEMMA UnlikesStay ==
  ASSUME BasicsInv, [Next]_vars, NEW k
  PROVE NeverUnliked(k)' => NeverUnliked(k)
<1>1. SUFFICES sent["unlikeRequest"] \subseteq sent'["unlikeRequest"]
  BY DEF NeverUnliked, About
<1>2. ASSUME NEW w \in Worker, NEW t \in Topic, NEW j \in Key, Announce(w, t, j)
      PROVE sent["unlikeRequest"] \subseteq sent'["unlikeRequest"]
  BY <1>2, AnnounceFacts, WorkersAre
<1>3. ASSUME NEW t \in {"likeRequest", "unlikeRequest"}, NEW j \in Key, Request(t, j)
      PROVE sent["unlikeRequest"] \subseteq sent'["unlikeRequest"]
  BY <1>3, RequestFacts, WorkersAre
<1>4. CASE UNCHANGED vars
  BY <1>4 DEF vars
<1>5. CASE \E j \in Key : AnnounceLiked(j) \/ AnnounceUnliked(j)
  BY <1>2, <1>5, WorkersAre DEF AnnounceLiked, AnnounceUnliked
<1>6. CASE InsertLikes \/ DeleteLikes
  BY <1>6 DEF InsertLikes, DeleteLikes, Publishing
<1>7. CASE Failure
  BY <1>7 DEF Failure, InsertFails, DeleteFails, AddToCountsFails, FlagFails, NoAck,
              Crash, Drop
<1>8. CASE Aside
  <2>1. CASE \E w \in Worker : Take(w) \/ Acknowledge(w) \/ Return(w)
    BY <2>1 DEF Take, Acknowledge, Return, Drop
  <2>2. CASE AddToCounts \/ SetFlag \/ ClearFlag
    BY <2>2 DEF AddToCounts, SetFlag, ClearFlag, Publishing
  <2>3. CASE \E c \in Comment : DeleteComment(c)
    BY <2>3 DEF DeleteComment
  <2>4. CASE \E j \in Key : AnnounceToPostAuthor(j)
    BY <2>4 DEF AnnounceToPostAuthor
  <2> QED BY <1>3, <1>8, <2>1, <2>2, <2>3, <2>4 DEF Aside
<1> QED BY <1>4, <1>5, <1>6, <1>7, <1>8, Steps

LEMMA WrittenWasSent ==
  ASSUME BasicsInv, NEW w \in Worker, NEW m, Written(w, m) \/ m \in passed[w]
  PROVE m \in sent[Source[w]]
BY DEF BasicsInv, HoldsInv, Holds, Written

\* No unlike is forgotten, no key is unliked that was not.
UnlikesKept == \A k : NeverUnliked(k)' => NeverUnliked(k)

LEMMA LikesKept ==
  ASSUME BasicsInv, ArrivesInv, UnlikesKept, Faultless' => Faultless,
         \A m : Written("like", m)' => Written("like", m), likes \subseteq likes'
  PROVE LikesInv'
<1>1. SUFFICES ASSUME Faultless', NEW m \in sent'["likeRequest"],
                      NeverUnliked(m.key)', Written("like", m)'
               PROVE m.key \in likes'
  BY DEF LikesInv
<1>2. Written("like", m) /\ NeverUnliked(m.key)
  BY <1>1 DEF UnlikesKept
<1>3. m \in sent["likeRequest"]
  BY <1>2, WrittenWasSent, WorkersAre
<1> QED BY <1>1, <1>2, <1>3 DEF ArrivesInv, LikesInv

LEMMA UnlikedKept ==
  ASSUME ArrivesInv, UnlikesKept, sent'["unliked"] \subseteq sent["unliked"],
         outbox'["unlike"] \subseteq outbox["unlike"]
  PROVE UnlikedInv'
BY DEF ArrivesInv, UnlikedInv, UnlikesKept

\* The flag worker has seen no more, and nothing it did is undone.
LEMMA FlagKept ==
  ASSUME BasicsInv, ArrivesInv, UnlikesKept, Faultless' => Faultless,
         \A m : Seen(m)' => Seen(m), comments' \subseteq comments,
         \A c \in comments' : c \in flagged => c \in flagged',
         announced \subseteq announced', outbox["flag"] \subseteq outbox'["flag"]
  PROVE FlagInv'
<1>1. SUFFICES ASSUME Faultless', NEW m \in sent'["liked"], Seen(m)', OfPostAuthor(m.key)'
               PROVE Rewarded(m.key)'
  BY DEF FlagInv
<1>2. Seen(m) /\ OfPostAuthor(m.key) /\ m.key[2] \in comments'
  BY <1>1 DEF UnlikesKept, OfPostAuthor
<1>3. m \in sent["liked"]
  BY <1>2, WrittenWasSent, WorkersAre DEF Seen
<1>4. Rewarded(m.key)
  BY <1>1, <1>2, <1>3 DEF ArrivesInv, FlagInv
<1> QED BY <1>2, <1>4 DEF Rewarded

\* All three hold after a step that leaves the three workers and the store be.
LEMMA ArrivesKept ==
  ASSUME BasicsInv, ArrivesInv, UnlikesKept,
         UNCHANGED <<likes, announced, outbox, crashes, failures>>,
         comments' \subseteq comments,
         \A c \in comments' : c \in flagged => c \in flagged',
         sent'["unliked"] = sent["unliked"],
         \A m : Written("like", m)' => Written("like", m),
         \A m : Seen(m)' => Seen(m)
  PROVE ArrivesInv'
<1>1. Faultless' => Faultless
  BY DEF Faultless
<1> QED BY <1>1, LikesKept, UnlikedKept, FlagKept DEF ArrivesInv

LEMMA IdleWritten ==
  ASSUME Idle("like")
  PROVE \A m : Written("like", m)' <=> Written("like", m)
BY DEF Idle, Written

LEMMA IdleSeen ==
  ASSUME Idle("flag")
  PROVE \A m : Seen(m)' <=> Seen(m)
BY DEF Idle, Written, Seen

LEMMA AsideArrives ==
  ASSUME BasicsInv, ArrivesInv, UnlikesKept, Aside
  PROVE ArrivesInv'
<1>0. /\ {"like", "unlike", "count", "flag", "unflag"} = Worker
      /\ {"likeRequest", "unlikeRequest", "liked", "unliked"} = Topic
  BY WorkersAre
<1>1. ASSUME NEW t \in {"likeRequest", "unlikeRequest"}, NEW k \in Key, Request(t, k)
      PROVE ArrivesInv'
  <2>1. UNCHANGED <<store, announced, batch, stage, outbox, acked, passed, crashes, failures>>
    BY <1>1, RequestFacts
  <2>2. sent'["unliked"] = sent["unliked"]
    BY <1>0, <1>1, RequestFacts
  <2>3. Idle("like") /\ Idle("flag")
    BY <2>1 DEF Idle
  <2> QED BY <2>1, <2>2, <2>3, IdleWritten, IdleSeen, ArrivesKept DEF store
<1>2. ASSUME NEW c \in Comment, DeleteComment(c)
      PROVE ArrivesInv'
  <2>1. /\ UNCHANGED <<likes, announced, sent, batch, stage, outbox, acked, passed,
                       crashes, failures>>
        /\ comments' = comments \ {c} /\ flagged' = flagged \ {c}
    BY <1>2 DEF DeleteComment, work, offsets, faults
  <2>2. Idle("like") /\ Idle("flag")
    BY <2>1 DEF Idle
  <2> QED BY <2>1, <2>2, IdleWritten, IdleSeen, ArrivesKept
<1>3. ASSUME NEW w \in Worker, Take(w) \/ Acknowledge(w)
      PROVE ArrivesInv'
  <2>1. /\ UNCHANGED <<store, announced, sent, outbox, passed, crashes, failures>>
        /\ \A u \in Worker \ {w} : Idle(u)
        /\ SameWritten(w)
    BY <1>3, TakeFacts, AcknowledgeFacts
  <2>2. \A u \in Worker : SameWritten(u)
    BY <2>1 DEF Idle, SameWritten, Written
  <2>3. /\ \A m : Written("like", m)' <=> Written("like", m)
        /\ \A m : Seen(m)' <=> Seen(m)
    BY <1>0, <2>1, <2>2 DEF SameWritten, Seen
  <2> QED BY <2>1, <2>3, ArrivesKept DEF store
<1>4. ASSUME NEW w \in Worker, Return(w)
      PROVE ArrivesInv'
  <2>1. /\ UNCHANGED <<store, announced, sent, outbox, crashes, failures>>
        /\ \A u \in Worker \ {w} : Idle(u)
        /\ w \in {"flag", "unflag"} /\ SameSeen(w)
    BY <1>4, ReturnFacts
  <2>2. Idle("like")
    BY <1>0, <2>1
  <2>3. \A m : Seen(m)' <=> Seen(m)
    <3>1. CASE w = "flag"
      BY <2>1, <3>1 DEF SameSeen, Seen
    <3>2. CASE w = "unflag"
      BY <1>0, <2>1, <3>2, IdleSeen
    <3> QED BY <2>1, <3>1, <3>2
  <2> QED BY <2>1, <2>2, <2>3, IdleWritten, ArrivesKept DEF store
<1>5. CASE AddToCounts
  <2>1. Publishing("count", {}) /\ UNCHANGED <<comments, likes, flagged>>
    BY <1>5 DEF AddToCounts
  <2>2. /\ Idle("like") /\ Idle("flag") /\ Idle("unlike")
        /\ UNCHANGED <<announced, sent, crashes, failures>>
    BY <1>0, <2>1, PublishingFacts DEF Idle
  <2>3. Faultless' => Faultless
    BY <2>2 DEF Faultless
  <2>4. /\ \A m : Written("like", m)' <=> Written("like", m)
        /\ \A m : Seen(m)' <=> Seen(m)
    BY <2>2, IdleWritten, IdleSeen
  <2>5. outbox'["unlike"] = outbox["unlike"] /\ outbox'["flag"] = outbox["flag"]
    BY <2>2 DEF Idle
  <2> QED BY <2>1, <2>2, <2>3, <2>4, <2>5, LikesKept, UnlikedKept, FlagKept DEF ArrivesInv
<1>6. CASE SetFlag
  <2>1. /\ Publishing("flag", Concerned("flag")) /\ UNCHANGED <<comments, likes>>
        /\ flagged' = flagged \cup {k[2] : k \in Concerned("flag")}
        /\ stage["flag"] = "write"
    BY <1>6 DEF SetFlag
  <2>2. /\ Idle("like") /\ Idle("unlike")
        /\ outbox'["flag"] = Concerned("flag") /\ outbox["flag"] = {}
        /\ stage'["flag"] = "publish"
        /\ UNCHANGED <<announced, sent, batch, acked, passed, crashes, failures>>
    BY <1>0, <2>1, PublishingFacts, WritersOwe DEF Idle
  <2>3. Faultless' => Faultless
    BY <2>2 DEF Faultless
  <2>4. LikesInv' /\ UnlikedInv'
    BY <2>1, <2>2, <2>3, IdleWritten, LikesKept, UnlikedKept DEF Idle
  <2>5. FlagInv'
    <3>1. SUFFICES ASSUME Faultless', NEW m \in sent'["liked"], Seen(m)',
                          OfPostAuthor(m.key)'
                   PROVE Rewarded(m.key)'
      BY DEF FlagInv
    <3>2. OfPostAuthor(m.key) /\ m \in sent["liked"]
      BY <2>1, <2>2, <3>1 DEF OfPostAuthor, UnlikesKept
    <3>3. CASE Seen(m)
      BY <2>1, <2>2, <2>3, <3>1, <3>2, <3>3 DEF ArrivesInv, FlagInv, Rewarded
    <3>4. CASE ~Seen(m)
      <4>1. m \in batch["flag"]
        BY <2>2, <3>1, <3>4 DEF Seen, Written
      <4>2. m.key \in Concerned("flag")
        BY <4>1, <3>2 DEF Concerned, KeysOf, OfPostAuthor
      <4> QED BY <2>1, <2>2, <4>2 DEF Rewarded
    <3> QED BY <3>3, <3>4
  <2> QED BY <2>4, <2>5 DEF ArrivesInv
<1>7. CASE ClearFlag
  <2>1. /\ Publishing("unflag", {}) /\ UNCHANGED <<comments, likes>>
        /\ flagged' = flagged \ {k[2] : k \in Concerned("unflag")}
    BY <1>7 DEF ClearFlag
  <2>2. /\ Idle("like") /\ Idle("flag") /\ Idle("unlike")
        /\ UNCHANGED <<announced, sent, crashes, failures>>
    BY <1>0, <2>1, PublishingFacts DEF Idle
  <2>3. Faultless' => Faultless
    BY <2>2 DEF Faultless
  <2>4. LikesInv' /\ UnlikedInv'
    BY <2>1, <2>2, <2>3, IdleWritten, LikesKept, UnlikedKept DEF Idle
  <2>5. FlagInv'
    <3>1. SUFFICES ASSUME Faultless', NEW m \in sent'["liked"], Seen(m)',
                          OfPostAuthor(m.key)'
                   PROVE Rewarded(m.key)'
      BY DEF FlagInv
    <3>2. OfPostAuthor(m.key) /\ m \in sent["liked"] /\ Seen(m)
      BY <2>1, <2>2, <3>1, IdleSeen DEF OfPostAuthor, UnlikesKept
    <3>3. Rewarded(m.key)
      BY <2>3, <3>1, <3>2 DEF ArrivesInv, FlagInv
    <3>4. m.key \in Key
      BY <1>0, <3>2 DEF BasicsInv, TypeOK, Message
    <3>5. ASSUME NEW k \in Concerned("unflag") PROVE k[2] # m.key[2]
      <4>1. SUFFICES ASSUME k[2] = m.key[2] PROVE FALSE
        OBVIOUS
      <4>2. k \in Key
        BY <1>0, <3>5, ConcernedKeys
      <4>3. k = m.key
        BY <4>1, <4>2, <3>2, <3>4, <3>5 DEF Key, OfPostAuthor, Concerned
      <4>4. PICK e \in batch["unflag"] : e.key = k
        BY <3>5 DEF Concerned, KeysOf
      <4>5. e \in sent["unliked"]
        BY <1>0, <4>4, WorkersAre DEF BasicsInv, HoldsInv, Holds
      <4>6. ~NeverUnliked(k)
        BY <4>4, <4>5 DEF ArrivesInv, UnlikedInv
      <4> QED BY <4>3, <4>6, <3>2 DEF OfPostAuthor
    <3>6. m.key[2] \in flagged'
      BY <2>1, <3>3, <3>5 DEF Rewarded
    <3> QED BY <2>2, <3>3, <3>6 DEF Rewarded, Idle
  <2> QED BY <2>4, <2>5 DEF ArrivesInv
<1>8. ASSUME NEW j \in Key, AnnounceToPostAuthor(j)
      PROVE ArrivesInv'
  <2>1. /\ outbox' = [outbox EXCEPT !["flag"] = @ \ {j}]
        /\ announced' = announced \cup {j[2]}
        /\ UNCHANGED <<store, sent, batch, stage, acked, passed, crashes, failures>>
    BY <1>8 DEF AnnounceToPostAuthor, offsets, faults
  <2>2. /\ outbox'["flag"] = outbox["flag"] \ {j}
        /\ outbox'["unlike"] = outbox["unlike"]
    BY <1>0, <2>1 DEF BasicsInv, TypeOK
  <2>3. /\ \A m : Written("like", m)' <=> Written("like", m)
        /\ \A m : Seen(m)' <=> Seen(m)
    BY <2>1 DEF Written, Seen
  <2>4. Faultless' => Faultless
    BY <2>1 DEF Faultless
  <2>5. LikesInv' /\ UnlikedInv'
    BY <2>1, <2>2, <2>3, <2>4, LikesKept, UnlikedKept DEF store
  <2>6. FlagInv'
    <3>1. SUFFICES ASSUME Faultless', NEW m \in sent'["liked"], Seen(m)',
                          OfPostAuthor(m.key)'
                   PROVE Rewarded(m.key)'
      BY DEF FlagInv
    <3>2. OfPostAuthor(m.key) /\ m \in sent["liked"] /\ Seen(m)
      BY <2>1, <2>3, <3>1 DEF OfPostAuthor, UnlikesKept, store
    <3>3. Rewarded(m.key)
      BY <2>4, <3>1, <3>2 DEF ArrivesInv, FlagInv
    <3> QED BY <2>1, <2>2, <3>3 DEF Rewarded, store
  <2> QED BY <2>5, <2>6 DEF ArrivesInv
<1> QED BY <1>1, <1>2, <1>3, <1>4, <1>5, <1>6, <1>7, <1>8 DEF Aside

LEMMA FailureArrives ==
  ASSUME BasicsInv, ArrivesInv, UnlikesKept, Failure
  PROVE ArrivesInv'
<1>1. ~Faultless'
  BY FailureBasics
<1>2. sent' = sent
  BY DEF Failure, InsertFails, DeleteFails, AddToCountsFails, FlagFails, NoAck, Crash, Drop
<1>3. outbox'["unlike"] \subseteq outbox["unlike"]
  <2>1. CASE InsertFails \/ DeleteFails \/ AddToCountsFails
                \/ \E w \in {"flag", "unflag"} : FlagFails(w)
    BY <2>1 DEF InsertFails, DeleteFails, AddToCountsFails, FlagFails, Drop
  <2>2. ASSUME NEW w \in Worker, NEW k \in Key, NoAck(w, k)
        PROVE outbox'["unlike"] \subseteq outbox["unlike"]
    BY <2>2, WorkersAre DEF NoAck, BasicsInv, TypeOK
  <2>3. CASE Crash
    BY <2>3, WorkersAre DEF Crash
  <2> QED BY <2>1, <2>2, <2>3 DEF Failure
<1>4. UnlikedInv'
  BY <1>2, <1>3, UnlikedKept
<1> QED BY <1>1, <1>4 DEF ArrivesInv, LikesInv, FlagInv

LEMMA NextArrives ==
  ASSUME BasicsInv, ArrivesInv, [Next]_vars
  PROVE ArrivesInv'
<1>0. /\ {"like", "unlike", "count", "flag", "unflag"} = Worker
      /\ {"likeRequest", "unlikeRequest", "liked", "unliked"} = Topic
  BY WorkersAre
<1>1. UnlikesKept
  BY UnlikesStay DEF UnlikesKept
<1>2. CASE UNCHANGED vars
  <2>1. Idle("like") /\ Idle("flag")
    BY <1>2 DEF vars, Idle
  <2> QED BY <1>1, <1>2, <2>1, IdleWritten, IdleSeen, ArrivesKept DEF vars
<1>3. CASE Aside
  BY <1>1, <1>3, AsideArrives
<1>4. CASE InsertLikes
  <2> DEFINE inserted == NewLikes(KeysOf(batch["like"]))
  <2>1. /\ likes' = likes \cup inserted
        /\ Publishing("like", inserted)
        /\ UNCHANGED <<comments, likeCount, flagged>>
    BY <1>4 DEF InsertLikes
  <2>2. /\ Idle("flag") /\ Idle("unlike")
        /\ UNCHANGED <<announced, sent, batch, acked, passed, crashes, failures>>
    BY <1>0, <2>1, PublishingFacts DEF Idle
  <2>3. Faultless' => Faultless
    BY <2>2 DEF Faultless
  <2>4. UnlikedInv' /\ FlagInv'
    BY <1>1, <2>1, <2>2, <2>3, IdleSeen, UnlikedKept, FlagKept DEF Idle
  <2>5. LikesInv'
    <3>1. SUFFICES ASSUME Faultless', NEW m \in sent'["likeRequest"],
                          NeverUnliked(m.key)', Written("like", m)'
                   PROVE m.key \in likes'
      BY DEF LikesInv
    <3>2. CASE m \in acked["like"]
      BY <1>1, <2>1, <2>2, <2>3, <3>1, <3>2
         DEF ArrivesInv, LikesInv, Written, UnlikesKept
    <3>3. CASE m \in batch["like"]
      BY <2>1, <3>3 DEF KeysOf, NewLikes
    <3> QED BY <2>2, <3>1, <3>2, <3>3 DEF Written
  <2> QED BY <2>4, <2>5 DEF ArrivesInv
<1>5. CASE DeleteLikes
  <2> DEFINE found == Found(KeysOf(batch["unlike"]))
  <2>1. /\ likes' = likes \ found
        /\ Publishing("unlike", found)
        /\ UNCHANGED <<comments, flagged>>
    BY <1>5 DEF DeleteLikes
  <2>2. ASSUME NEW k \in found PROVE ~NeverUnliked(k)
    <3>1. PICK e \in batch["unlike"] : e.key = k
      BY DEF Found, KeysOf
    <3>2. e \in sent["unlikeRequest"]
      BY <1>0, <3>1, WorkersAre DEF BasicsInv, HoldsInv, Holds
    <3> QED BY <3>1, <3>2 DEF NeverUnliked, About
  <2> HIDE DEF found
  <2>3. /\ Idle("flag") /\ Idle("like") /\ outbox'["unlike"] = found
        /\ UNCHANGED <<announced, sent, batch, acked, passed, crashes, failures>>
    BY <1>0, <2>1, PublishingFacts DEF Idle
  <2>4. Faultless' => Faultless
    BY <2>3 DEF Faultless
  <2>5. FlagInv'
    BY <1>1, <2>1, <2>3, <2>4, IdleSeen, FlagKept DEF Idle
  <2>6. UnlikedInv'
    BY <1>1, <2>2, <2>3 DEF ArrivesInv, UnlikedInv, UnlikesKept
  <2>7. LikesInv'
    <3>1. SUFFICES ASSUME Faultless', NEW m \in sent'["likeRequest"],
                          NeverUnliked(m.key)', Written("like", m)'
                   PROVE m.key \in likes'
      BY DEF LikesInv
    <3>2. NeverUnliked(m.key) /\ Written("like", m)
      BY <1>1, <2>3, <3>1, IdleWritten DEF UnlikesKept
    <3>3. m.key \in likes
      BY <2>3, <2>4, <3>1, <3>2 DEF ArrivesInv, LikesInv
    <3> QED BY <2>1, <2>2, <3>2, <3>3
  <2> QED BY <2>5, <2>6, <2>7 DEF ArrivesInv
<1>6. ASSUME NEW j \in Key, AnnounceLiked(j)
      PROVE ArrivesInv'
  <2>1. Announce("like", "liked", j)
    BY <1>6 DEF AnnounceLiked
  <2>2. /\ outbox'["flag"] = outbox["flag"] /\ outbox'["unlike"] = outbox["unlike"]
        /\ sent'["unliked"] = sent["unliked"]
        /\ UNCHANGED <<store, announced, batch, stage, acked, passed, crashes, failures>>
    BY <1>0, <2>1, AnnounceFacts DEF BasicsInv, TypeOK, offsets, faults
  <2>3. /\ \A m : Written("like", m)' <=> Written("like", m)
        /\ \A m : Seen(m)' <=> Seen(m)
    BY <2>2 DEF Written, Seen
  <2>4. Faultless' => Faultless
    BY <2>2 DEF Faultless
  <2> QED BY <1>1, <2>2, <2>3, <2>4, LikesKept, UnlikedKept, FlagKept DEF ArrivesInv, store
<1>7. ASSUME NEW j \in Key, AnnounceUnliked(j)
      PROVE ArrivesInv'
  <2>1. Announce("unlike", "unliked", j)
    BY <1>7 DEF AnnounceUnliked
  <2>2. /\ outbox'["flag"] = outbox["flag"] /\ outbox'["unlike"] = outbox["unlike"] \ {j}
        /\ j \in outbox["unlike"]
        /\ sent'["unliked"] = sent["unliked"] \cup {Fresh("unliked", j)}
        /\ UNCHANGED <<store, announced, batch, stage, acked, passed, crashes, failures>>
    BY <1>0, <2>1, AnnounceFacts DEF BasicsInv, TypeOK, offsets, faults
  <2>3. /\ \A m : Written("like", m)' <=> Written("like", m)
        /\ \A m : Seen(m)' <=> Seen(m)
    BY <2>2 DEF Written, Seen
  <2>4. Faultless' => Faultless
    BY <2>2 DEF Faultless
  <2>5. LikesInv' /\ FlagInv'
    BY <1>1, <2>2, <2>3, <2>4, LikesKept, FlagKept DEF store
  <2>6. Fresh("unliked", j).key = j
    BY DEF Fresh
  <2>7. UnlikedInv'
    BY <1>1, <2>2, <2>6 DEF ArrivesInv, UnlikedInv, UnlikesKept
  <2> QED BY <2>5, <2>7 DEF ArrivesInv
<1>8. CASE Failure
  BY <1>1, <1>8, FailureArrives
<1> QED BY <1>2, <1>3, <1>4, <1>5, <1>6, <1>7, <1>8, Steps

LEMMA InitArrives ==
  ASSUME Init
  PROVE ArrivesInv
<1>1. \A t \in Topic : sent[t] = {}
  BY DEF Init
<1>2. \A w \in Worker : outbox[w] = {}
  BY DEF Init
<1> QED BY <1>1, <1>2, WorkersAre DEF ArrivesInv, LikesInv, UnlikedInv, FlagInv

\* When the workers have caught up, their invariants leave nothing to do.
LEMMA QuietWorkers ==
  ASSUME BasicsInv, Quiet, NEW w \in Worker
  PROVE /\ outbox[w] = {}
        /\ \A m \in sent[Source[w]] : m \in acked[w] \/ m \in passed[w]
        /\ w \notin {"flag", "unflag"} /\ Faultless => passed[w] = {}
BY DEF BasicsInv, HoldsInv, Holds, Quiet, Waiting

LEMMA Arrived ==
  ASSUME BasicsInv, MirrorInv, ArrivesInv
  PROVE LikeArrives
<1>1. SUFFICES ASSUME Quiet, Faultless, NEW k \in KeysOf(sent["likeRequest"]),
                      NeverUnliked(k)
               PROVE /\ k \in likes
                     /\ k[1] = PostAuthor /\ k[2] \in comments \ OwnComment =>
                          k[2] \in flagged \cap announced
  BY DEF LikeArrives
<1>2. PICK m \in sent["likeRequest"] : m.key = k
  BY DEF KeysOf
<1>3. k \in Key
  BY <1>2, WorkersAre DEF BasicsInv, TypeOK, Message
<1>4. Written("like", m)
  BY <1>1, <1>2, QuietWorkers, WorkersAre DEF Written
<1>5. k \in likes
  BY <1>1, <1>2, <1>4 DEF ArrivesInv, LikesInv
<1>6. ASSUME k[1] = PostAuthor, k[2] \in comments \ OwnComment
      PROVE k[2] \in flagged \cap announced
  <2>1. outbox["like"] = {} /\ outbox["unlike"] = {} /\ outbox["flag"] = {}
    BY <1>1, QuietWorkers, WorkersAre
  <2>2. Balanced(k)
    BY <1>1, <1>3 DEF MirrorInv
  <2>3. Cardinality(About(sent["liked"], k)) # 0
    BY <1>5, <2>1, <2>2, HereOrNot, CountsAreNumbers DEF Balanced
  <2>4. About(sent["liked"], k) # {}
    BY <2>3, FS_EmptySet
  <2>5. PICK e \in sent["liked"] : e.key = k
    BY <2>4 DEF About
  <2>6. Seen(e)
    BY <1>1, <2>5, QuietWorkers, WorkersAre DEF Seen, Written
  <2>7. Rewarded(k)
    BY <1>1, <1>6, <2>5, <2>6 DEF ArrivesInv, FlagInv, OfPostAuthor
  <2> QED BY <2>1, <2>7 DEF Rewarded
<1> QED BY <1>5, <1>6

\* Once the workers have caught up and nothing failed, a like that nobody asked to
\* take back is stored, and one by the post's author is flagged and was announced.
THEOREM LikesArrive == Spec => []LikeArrives
BY InitBasics, NextBasics, InitMirror, NextMirror, InitArrives, NextArrives, Arrived,
   PTL DEF Spec

----------------------------------------------------------------------------
\* The clicks of a user on a comment are numbered without a gap.
ClicksInv ==
  /\ sent["likeRequest"] \cap sent["unlikeRequest"] = {}
  /\ \A k \in Key : \A m \in Requests(k) : m.n <= Cardinality(Requests(k))
  /\ \A k \in Key : Requests(k) # {} =>
       \E m \in Requests(k) : m.n = Cardinality(Requests(k))

\* All clicks but the last are acknowledged, and once the last was written,
\* the like is there if that click was one.
WasWritten(m) == Written("like", m) \/ Written("unlike", m)
Decided(k) ==
  \A m \in Requests(k) :
    /\ m.n < Cardinality(Requests(k)) => Handled(m)
    /\ m.n = Cardinality(Requests(k)) /\ WasWritten(m) =>
         (k \in likes <=> m \in sent["likeRequest"])
LastInv == Faultless => \A k \in Key \ hasty : Decided(k)

LEMMA RequestsAreFinite ==
  ASSUME BasicsInv, NEW k
  PROVE /\ IsFiniteSet(Requests(k)) /\ Cardinality(Requests(k)) \in Nat
        /\ \A m \in Requests(k) : m \in Message /\ m.key = k /\ m.n \in Nat
        /\ \A m, x \in Requests(k) : m.n = x.n => m = x
<1> DEFINE all == sent["likeRequest"] \cup sent["unlikeRequest"]
<1>1. IsFiniteSet(all) /\ all \in SUBSET Message
  BY WorkersAre, FS_Union DEF BasicsInv, TypeOK, FinitelyMany
<1>2. Requests(k) \in SUBSET all
  BY DEF Requests, About
<1>3. IsFiniteSet(Requests(k)) /\ Cardinality(Requests(k)) \in Nat
  BY <1>1, <1>2, FS_Subset, FS_CardinalityType
<1>4. \A m \in Requests(k) : m \in Message /\ m.key = k
  BY <1>1 DEF Requests, About
<1>5. \A m \in Message : m = [key |-> m.key, n |-> m.n] /\ m.n \in Nat
  BY DEF Message
<1> QED BY <1>3, <1>4, <1>5

LEMMA WrittenIsRequest ==
  ASSUME BasicsInv, NEW m
  PROVE /\ Written("like", m) => m \in sent["likeRequest"]
        /\ Written("unlike", m) => m \in sent["unlikeRequest"]
BY WrittenWasSent, WorkersAre

----------------------------------------------------------------------------
\* A click is one more request about its key, and a new one.
LEMMA OneMoreClick ==
  ASSUME BasicsInv, ClicksInv, NEW t \in {"likeRequest", "unlikeRequest"},
         NEW k \in Key, Request(t, k)
  PROVE \E m :
    /\ m.n = Cardinality(Requests(k)) + 1 /\ m.key = k
    /\ m \notin sent["likeRequest"] /\ m \notin sent["unlikeRequest"]
    /\ sent'[t] = sent[t] \cup {m}
    /\ \A u \in Topic \ {t} : sent'[u] = sent[u]
    /\ Requests(k)' = Requests(k) \cup {m}
    /\ Cardinality(Requests(k)') = Cardinality(Requests(k)) + 1
    /\ \A j \in Key \ {k} : Requests(j)' = Requests(j)
<1> DEFINE m == [key |-> k, n |-> Cardinality(Requests(k)) + 1]
<1>1. m.n = Cardinality(Requests(k)) + 1 /\ m.key = k
  OBVIOUS
<1>2. /\ sent'[t] = sent[t] \cup {m}
      /\ \A u \in Topic \ {t} : sent'[u] = sent[u]
  BY RequestFacts
<1> HIDE DEF m
<1>3. m \notin Requests(k)
  <2>1. SUFFICES ASSUME m \in Requests(k) PROVE FALSE
    OBVIOUS
  <2>2. m.n <= Cardinality(Requests(k)) /\ Cardinality(Requests(k)) \in Nat
    BY <2>1, RequestsAreFinite DEF ClicksInv
  <2> QED BY <1>1, <2>2
<1>4. m \notin sent["likeRequest"] /\ m \notin sent["unlikeRequest"]
  BY <1>1, <1>3 DEF Requests, About
<1>5. sent'["likeRequest"] \cup sent'["unlikeRequest"] =
        (sent["likeRequest"] \cup sent["unlikeRequest"]) \cup {m}
  BY <1>2, WorkersAre
<1>6. /\ Requests(k)' = Requests(k) \cup {m}
      /\ \A j \in Key \ {k} : Requests(j)' = Requests(j)
  BY <1>1, <1>5 DEF Requests, About
<1>7. Cardinality(Requests(k)') = Cardinality(Requests(k)) + 1
  BY <1>3, <1>6, RequestsAreFinite, FS_AddElement
<1> QED BY <1>1, <1>2, <1>4, <1>6, <1>7

LEMMA RequestClicks ==
  ASSUME BasicsInv, ClicksInv, NEW t \in {"likeRequest", "unlikeRequest"},
         NEW k \in Key, Request(t, k)
  PROVE ClicksInv'
<1>1. PICK m :
        /\ m.n = Cardinality(Requests(k)) + 1 /\ m.key = k
        /\ m \notin sent["likeRequest"] /\ m \notin sent["unlikeRequest"]
        /\ sent'[t] = sent[t] \cup {m}
        /\ \A u \in Topic \ {t} : sent'[u] = sent[u]
        /\ Requests(k)' = Requests(k) \cup {m}
        /\ Cardinality(Requests(k)') = Cardinality(Requests(k)) + 1
        /\ \A j \in Key \ {k} : Requests(j)' = Requests(j)
  BY OneMoreClick
<1>2. sent'["likeRequest"] \cap sent'["unlikeRequest"] = {}
  BY <1>1, WorkersAre DEF ClicksInv
<1>3. Cardinality(Requests(k)) \in Nat
  BY RequestsAreFinite
<1>4. \A x \in Requests(k)' : x.n <= Cardinality(Requests(k)')
  <2>1. ASSUME NEW x \in Requests(k)
        PROVE x.n <= Cardinality(Requests(k)')
    <3>1. x.n <= Cardinality(Requests(k)) /\ x.n \in Nat
      BY RequestsAreFinite DEF ClicksInv
    <3> QED BY <1>1, <1>3, <3>1
  <2>2. m.n <= Cardinality(Requests(k)')
    BY <1>1, <1>3
  <2>3. \A x \in Requests(k)' : x = m \/ x \in Requests(k)
    BY <1>1
  <2> QED BY <2>1, <2>2, <2>3
<1>5. \E x \in Requests(k)' : x.n = Cardinality(Requests(k)')
  BY <1>1
<1>6. ASSUME NEW j \in Key \ {k}
      PROVE /\ \A x \in Requests(j)' : x.n <= Cardinality(Requests(j)')
            /\ Requests(j)' # {} => \E x \in Requests(j)' : x.n = Cardinality(Requests(j)')
  <2>1. Requests(j)' = Requests(j)
    BY <1>1
  <2>2. /\ \A x \in Requests(j) : x.n <= Cardinality(Requests(j))
        /\ Requests(j) # {} => \E x \in Requests(j) : x.n = Cardinality(Requests(j))
    BY DEF ClicksInv
  <2> HIDE DEF Requests
  <2> QED BY <2>1, <2>2
<1> QED BY <1>2, <1>4, <1>5, <1>6 DEF ClicksInv

LEMMA RequestLast ==
  ASSUME BasicsInv, ClicksInv, LastInv, NEW t \in {"likeRequest", "unlikeRequest"},
         NEW k \in Key, Request(t, k)
  PROVE LastInv'
<1>1. PICK m :
        /\ m.n = Cardinality(Requests(k)) + 1 /\ m.key = k
        /\ m \notin sent["likeRequest"] /\ m \notin sent["unlikeRequest"]
        /\ sent'[t] = sent[t] \cup {m}
        /\ \A u \in Topic \ {t} : sent'[u] = sent[u]
        /\ Requests(k)' = Requests(k) \cup {m}
        /\ Cardinality(Requests(k)') = Cardinality(Requests(k)) + 1
        /\ \A j \in Key \ {k} : Requests(j)' = Requests(j)
  BY OneMoreClick
<1>2. UNCHANGED <<likes, batch, stage, acked, crashes, failures>>
  BY RequestFacts DEF store
<1>3. hasty' = IF \A x \in Requests(k) : Handled(x) THEN hasty ELSE hasty \cup {k}
  BY DEF Request
<1>4. \A x : (WasWritten(x)' <=> WasWritten(x)) /\ (Handled(x)' <=> Handled(x))
  BY <1>2 DEF WasWritten, Written, Handled
<1>5. Faultless' => Faultless
  BY <1>2 DEF Faultless
<1>6. ASSUME Faultless', k \notin hasty'
      PROVE Decided(k)'
  <2>1. \A x \in Requests(k) : Handled(x)
    BY <1>3, <1>6
  <2>2. ~WasWritten(m)
    BY <1>1, WrittenIsRequest DEF WasWritten
  <2>3. Cardinality(Requests(k)) \in Nat
    BY RequestsAreFinite
  <2>4. \A x \in Requests(k) : x.n <= Cardinality(Requests(k)) /\ x.n \in Nat
    BY RequestsAreFinite DEF ClicksInv
  <2>5. ASSUME NEW x \in Requests(k)'
        PROVE /\ x.n < Cardinality(Requests(k)') => Handled(x)'
              /\ x.n = Cardinality(Requests(k)') => ~WasWritten(x)'
    <3>1. CASE x = m
      BY <1>1, <1>4, <2>2, <2>3, <3>1
    <3>2. CASE x \in Requests(k)
      BY <1>1, <1>4, <2>1, <2>3, <2>4, <3>2
    <3> QED BY <1>1, <2>5, <3>1, <3>2
  <2> QED BY <2>5 DEF Decided
<1>7. ASSUME Faultless', NEW j \in Key \ {k}, j \notin hasty'
      PROVE Decided(j)'
  <2>1. Requests(j)' = Requests(j)
    BY <1>1
  <2>2. Decided(j)
    BY <1>3, <1>5, <1>7 DEF LastInv
  <2>3. \A x \in Requests(j) : x \in sent'["likeRequest"] <=> x \in sent["likeRequest"]
    <3>1. \A x \in Requests(j) : x.key = j
      BY DEF Requests, About
    <3> QED BY <1>1, <3>1, WorkersAre
  <2> HIDE DEF Requests
  <2> QED BY <1>2, <1>4, <2>1, <2>2, <2>3 DEF Decided
<1> QED BY <1>6, <1>7 DEF LastInv

SameRequests ==
  sent'["likeRequest"] = sent["likeRequest"] /\ sent'["unlikeRequest"] = sent["unlikeRequest"]

LEMMA ClicksKept ==
  ASSUME ClicksInv, SameRequests
  PROVE ClicksInv'
<1>1. \A k : Requests(k)' = Requests(k)
  BY DEF SameRequests, Requests, About
<1>2. ASSUME NEW k \in Key
      PROVE /\ \A x \in Requests(k)' : x.n <= Cardinality(Requests(k)')
            /\ Requests(k)' # {} => \E x \in Requests(k)' : x.n = Cardinality(Requests(k)')
  <2>1. Requests(k)' = Requests(k)
    BY <1>1
  <2>2. /\ \A x \in Requests(k) : x.n <= Cardinality(Requests(k))
        /\ Requests(k) # {} => \E x \in Requests(k) : x.n = Cardinality(Requests(k))
    BY DEF ClicksInv
  <2> HIDE DEF Requests
  <2> QED BY <2>1, <2>2
<1> QED BY <1>2 DEF ClicksInv, SameRequests

\* What the two workers did with the likes is as before.
LEMMA LastKept ==
  ASSUME LastInv, SameRequests, Faultless' => Faultless, UNCHANGED <<likes, hasty>>,
         \A m : WasWritten(m)' => WasWritten(m), \A m : Handled(m) => Handled(m)'
  PROVE LastInv'
<1>1. SUFFICES ASSUME Faultless', NEW k \in Key \ hasty PROVE Decided(k)'
  BY DEF LastInv
<1>2. Requests(k)' = Requests(k)
  BY DEF SameRequests, Requests, About
<1>3. Decided(k)
  BY <1>1 DEF LastInv
<1> HIDE DEF Requests
<1> QED BY <1>2, <1>3 DEF Decided, SameRequests

LEMMA SameWorkers ==
  ASSUME Idle("like"), Idle("unlike")
  PROVE /\ \A m : WasWritten(m)' <=> WasWritten(m)
        /\ \A m : Handled(m)' <=> Handled(m)
BY DEF Idle, WasWritten, Written, Handled

\* Steps other than clicks and the writes of the two workers.
LEMMA AsideLast ==
  ASSUME BasicsInv, ClicksInv, LastInv, Aside
  PROVE ClicksInv' /\ LastInv'
<1>0. /\ {"like", "unlike", "count", "flag", "unflag"} = Worker
      /\ {"likeRequest", "unlikeRequest", "liked", "unliked"} = Topic
  BY WorkersAre
<1>1. CASE \E t \in {"likeRequest", "unlikeRequest"}, k \in Key : Request(t, k)
  BY <1>1, RequestClicks, RequestLast
<1>2. ASSUME Idle("like"), Idle("unlike"), sent' = sent,
             UNCHANGED <<likes, hasty, crashes, failures>>
      PROVE ClicksInv' /\ LastInv'
  <2>1. SameRequests /\ (Faultless' => Faultless)
    BY <1>2 DEF SameRequests, Faultless
  <2> QED BY <1>2, <2>1, SameWorkers, ClicksKept, LastKept
<1>3. ASSUME NEW c \in Comment, DeleteComment(c)
      PROVE ClicksInv' /\ LastInv'
  <2>1. UNCHANGED <<likes, sent, batch, stage, outbox, acked, passed, hasty, crashes, failures>>
    BY <1>3 DEF DeleteComment, work, offsets, faults
  <2> QED BY <1>2, <2>1 DEF Idle
<1>4. ASSUME NEW w \in Worker, Take(w) \/ Acknowledge(w)
      PROVE ClicksInv' /\ LastInv'
  <2>1. /\ UNCHANGED <<store, sent, hasty, crashes, failures>>
        /\ \A u \in Worker \ {w} : Idle(u)
        /\ SameWritten(w)
        /\ acked[w] \subseteq acked'[w]
    BY <1>4, TakeFacts, AcknowledgeFacts
  <2>2. \A u \in Worker : SameWritten(u) /\ acked[u] \subseteq acked'[u]
    BY <2>1 DEF Idle, SameWritten, Written
  <2>3. SameRequests /\ (Faultless' => Faultless) /\ UNCHANGED <<likes, hasty>>
    BY <2>1 DEF SameRequests, Faultless, store
  <2>4. /\ \A m : WasWritten(m)' => WasWritten(m)
        /\ \A m : Handled(m) => Handled(m)'
    BY <1>0, <2>2 DEF SameWritten, WasWritten, Handled
  <2> QED BY <2>3, <2>4, ClicksKept, LastKept
<1>5. ASSUME NEW w \in Worker, Return(w)
      PROVE ClicksInv' /\ LastInv'
  <2>1. /\ \A u \in Worker \ {w} : Idle(u)
        /\ UNCHANGED <<store, sent, hasty, crashes, failures>>
        /\ w \in {"flag", "unflag"}
    BY <1>5, ReturnFacts
  <2> QED BY <1>0, <1>2, <2>1 DEF store
<1>6. CASE AddToCounts \/ SetFlag \/ ClearFlag
  <2>1. UNCHANGED likes
    BY <1>6 DEF AddToCounts, SetFlag, ClearFlag
  <2>2. PICK w \in {"count", "flag", "unflag"} : \E keys : Publishing(w, keys)
    BY <1>6 DEF AddToCounts, SetFlag, ClearFlag
  <2> QED BY <1>0, <1>2, <2>1, <2>2, PublishingFacts DEF Idle
<1>7. ASSUME NEW k \in Key, AnnounceToPostAuthor(k)
      PROVE ClicksInv' /\ LastInv'
  <2>1. /\ outbox' = [outbox EXCEPT !["flag"] = @ \ {k}]
        /\ UNCHANGED <<store, sent, batch, stage, acked, passed, hasty, crashes, failures>>
    BY <1>7 DEF AnnounceToPostAuthor, offsets, faults
  <2>2. outbox'["like"] = outbox["like"] /\ outbox'["unlike"] = outbox["unlike"]
    BY <1>0, <2>1 DEF BasicsInv, TypeOK
  <2> QED BY <1>2, <2>1, <2>2 DEF Idle, store
<1> QED BY <1>1, <1>3, <1>4, <1>5, <1>6, <1>7 DEF Aside

\* A message a worker is at that is not its user's last click on the comment
\* would have been acknowledged already: it cannot be.
LEMMA OnlyTheLastIsPending ==
  ASSUME BasicsInv, ClicksInv, NEW k \in Key, Decided(k), NEW w \in {"like", "unlike"},
         NEW e \in batch[w], e.key = k
  PROVE e \in Requests(k) /\ e.n = Cardinality(Requests(k))
<1>0. "like" \in Worker /\ "unlike" \in Worker
  BY WorkersAre
<1>1. e \in sent[Source[w]]
  BY <1>0 DEF BasicsInv, HoldsInv, Holds
<1>2. e \in Requests(k)
  BY <1>1, WorkersAre DEF Requests, About
<1>3. e.n <= Cardinality(Requests(k)) /\ e.n \in Nat /\ Cardinality(Requests(k)) \in Nat
  BY <1>2, RequestsAreFinite DEF ClicksInv
<1>4. ~Handled(e)
  <2>1. /\ acked["like"] \subseteq sent["likeRequest"]
        /\ acked["unlike"] \subseteq sent["unlikeRequest"]
    BY <1>0, WorkersAre DEF BasicsInv, HoldsInv, Holds
  <2>2. e \notin acked[w]
    BY <1>0 DEF BasicsInv, HoldsInv, Holds
  <2> QED BY <1>1, <2>1, <2>2, WorkersAre DEF ClicksInv, Handled
<1>5. ~(e.n < Cardinality(Requests(k)))
  BY <1>2, <1>4 DEF Decided
<1> QED BY <1>2, <1>3, <1>5

LEMMA InsertLast ==
  ASSUME BasicsInv, ClicksInv, LastInv, InsertLikes
  PROVE ClicksInv' /\ LastInv'
<1> DEFINE keys == KeysOf(batch["like"])
<1>0. "like" \in Worker /\ "unlike" \in Worker
  BY WorkersAre
<1>1. /\ likes' = likes \cup keys /\ Publishing("like", NewLikes(keys))
      /\ stage["like"] = "write"
  BY DEF InsertLikes, NewLikes
<1>2. /\ Idle("unlike") /\ stage'["like"] = "publish"
      /\ UNCHANGED <<sent, batch, acked, hasty, crashes, failures>>
  BY <1>0, <1>1, PublishingFacts DEF Idle
<1>3. SameRequests /\ (Faultless' => Faultless)
  BY <1>2 DEF SameRequests, Faultless
<1>4. ASSUME Faultless', NEW k \in Key \ hasty' PROVE Decided(k)'
  <2>1. Decided(k)
    BY <1>2, <1>3, <1>4 DEF LastInv
  <2>2. Requests(k)' = Requests(k)
    BY <1>2 DEF Requests, About
  <2>3. \A m : Handled(m)' <=> Handled(m)
    BY <1>2 DEF Handled
  <2>4. ASSUME NEW m \in Requests(k), m.n = Cardinality(Requests(k)), WasWritten(m)'
        PROVE k \in likes' <=> m \in sent["likeRequest"]
    <3>0. m.key = k
      BY RequestsAreFinite
    <3>1. CASE m \in batch["like"]
      <4>1. k \in keys
        BY <3>0, <3>1 DEF KeysOf
      <4>2. m \in sent["likeRequest"]
        BY <1>0, <3>1, WorkersAre DEF BasicsInv, HoldsInv, Holds
      <4> QED BY <1>1, <4>1, <4>2
    <3>2. CASE m \notin batch["like"]
      <4>1. WasWritten(m)
        BY <1>2, <2>4, <3>2 DEF WasWritten, Written, Idle
      <4>2. k \in likes <=> m \in sent["likeRequest"]
        BY <2>1, <2>4, <4>1 DEF Decided
      <4>3. k \notin keys
        <5>1. SUFFICES ASSUME k \in keys PROVE FALSE
          OBVIOUS
        <5>2. PICK e \in batch["like"] : e.key = k
          BY <5>1 DEF KeysOf
        <5>3. e \in Requests(k) /\ e.n = Cardinality(Requests(k))
          BY <2>1, <5>2, OnlyTheLastIsPending
        <5>4. e = m
          BY <2>4, <5>3, RequestsAreFinite
        <5> QED BY <3>2, <5>4
      <4> QED BY <1>1, <4>2, <4>3
    <3> QED BY <3>1, <3>2
  <2> HIDE DEF Requests
  <2> QED BY <1>2, <2>1, <2>2, <2>3, <2>4 DEF Decided
<1> QED BY <1>3, <1>4, ClicksKept DEF LastInv

LEMMA DeleteLast ==
  ASSUME BasicsInv, ClicksInv, LastInv, DeleteLikes
  PROVE ClicksInv' /\ LastInv'
<1> DEFINE keys == KeysOf(batch["unlike"])
<1>0. "like" \in Worker /\ "unlike" \in Worker
  BY WorkersAre
<1>1. /\ likes' = likes \ keys /\ Publishing("unlike", Found(keys))
      /\ stage["unlike"] = "write"
  BY DEF DeleteLikes, Found
<1>2. /\ Idle("like") /\ stage'["unlike"] = "publish"
      /\ UNCHANGED <<sent, batch, acked, hasty, crashes, failures>>
  BY <1>0, <1>1, PublishingFacts DEF Idle
<1>3. SameRequests /\ (Faultless' => Faultless)
  BY <1>2 DEF SameRequests, Faultless
<1>4. ASSUME Faultless', NEW k \in Key \ hasty' PROVE Decided(k)'
  <2>1. Decided(k)
    BY <1>2, <1>3, <1>4 DEF LastInv
  <2>2. Requests(k)' = Requests(k)
    BY <1>2 DEF Requests, About
  <2>3. \A m : Handled(m)' <=> Handled(m)
    BY <1>2 DEF Handled
  <2>4. ASSUME NEW m \in Requests(k), m.n = Cardinality(Requests(k)), WasWritten(m)'
        PROVE k \in likes' <=> m \in sent["likeRequest"]
    <3>0. m.key = k
      BY RequestsAreFinite
    <3>1. CASE m \in batch["unlike"]
      <4>1. k \in keys
        BY <3>0, <3>1 DEF KeysOf
      <4>2. m \in sent["unlikeRequest"]
        BY <1>0, <3>1, WorkersAre DEF BasicsInv, HoldsInv, Holds
      <4> QED BY <1>1, <4>1, <4>2 DEF ClicksInv
    <3>2. CASE m \notin batch["unlike"]
      <4>1. WasWritten(m)
        BY <1>2, <2>4, <3>2 DEF WasWritten, Written, Idle
      <4>2. k \in likes <=> m \in sent["likeRequest"]
        BY <2>1, <2>4, <4>1 DEF Decided
      <4>3. k \notin keys
        <5>1. SUFFICES ASSUME k \in keys PROVE FALSE
          OBVIOUS
        <5>2. PICK e \in batch["unlike"] : e.key = k
          BY <5>1 DEF KeysOf
        <5>3. e \in Requests(k) /\ e.n = Cardinality(Requests(k))
          BY <2>1, <5>2, OnlyTheLastIsPending
        <5>4. e = m
          BY <2>4, <5>3, RequestsAreFinite
        <5> QED BY <3>2, <5>4
      <4> QED BY <1>1, <4>2, <4>3
    <3> QED BY <3>1, <3>2
  <2> HIDE DEF Requests
  <2> QED BY <1>2, <2>1, <2>2, <2>3, <2>4 DEF Decided
<1> QED BY <1>3, <1>4, ClicksKept DEF LastInv

LEMMA NextLast ==
  ASSUME BasicsInv, ClicksInv, LastInv, [Next]_vars
  PROVE ClicksInv' /\ LastInv'
<1>0. /\ {"like", "unlike", "count", "flag", "unflag"} = Worker
      /\ {"likeRequest", "unlikeRequest", "liked", "unliked"} = Topic
  BY WorkersAre
<1>1. CASE UNCHANGED vars
  <2>1. SameRequests /\ (Faultless' => Faultless) /\ UNCHANGED <<likes, hasty>>
    BY <1>1 DEF vars, SameRequests, Faultless
  <2>2. Idle("like") /\ Idle("unlike")
    BY <1>1 DEF vars, Idle
  <2> QED BY <2>1, <2>2, SameWorkers, ClicksKept, LastKept
<1>2. CASE Aside
  BY <1>2, AsideLast
<1>3. CASE InsertLikes
  BY <1>3, InsertLast
<1>4. CASE DeleteLikes
  BY <1>4, DeleteLast
<1>5. ASSUME NEW j \in Key, AnnounceLiked(j) \/ AnnounceUnliked(j)
      PROVE ClicksInv' /\ LastInv'
  <2>1. PICK w \in Worker, t \in {"liked", "unliked"} : Announce(w, t, j)
    BY <1>0, <1>5 DEF AnnounceLiked, AnnounceUnliked
  <2>2. /\ \A u \in Topic \ {t} : sent'[u] = sent[u]
        /\ UNCHANGED <<store, announced, batch, stage, offsets, faults>>
    BY <1>0, <2>1, AnnounceFacts
  <2>3. SameRequests /\ (Faultless' => Faultless) /\ UNCHANGED <<likes, hasty>>
    BY <1>0, <2>2 DEF SameRequests, Faultless, store, offsets, faults
  <2>4. /\ \A m : WasWritten(m)' => WasWritten(m)
        /\ \A m : Handled(m) => Handled(m)'
    BY <2>2 DEF WasWritten, Written, Handled, offsets
  <2> QED BY <2>3, <2>4, ClicksKept, LastKept
<1>6. CASE Failure
  <2>1. ~Faultless'
    BY <1>6, FailureBasics
  <2>2. sent' = sent
    BY <1>6 DEF Failure, InsertFails, DeleteFails, AddToCountsFails, FlagFails, NoAck,
                Crash, Drop
  <2>3. SameRequests
    BY <2>2 DEF SameRequests
  <2> QED BY <2>1, <2>3, ClicksKept DEF LastInv
<1> QED BY <1>1, <1>2, <1>3, <1>4, <1>5, <1>6, Steps

LEMMA InitLast ==
  ASSUME Init
  PROVE ClicksInv /\ LastInv
<1>1. sent["likeRequest"] = {} /\ sent["unlikeRequest"] = {}
  BY WorkersAre DEF Init
<1>2. \A k : Requests(k) = {}
  BY <1>1 DEF Requests, About
<1> QED BY <1>1, <1>2 DEF ClicksInv, LastInv, Decided

LEMMA LastDecides ==
  ASSUME BasicsInv, ClicksInv, LastInv
  PROVE LastClickDecides
<1>1. SUFFICES ASSUME Faultless, NEW k \in Key \ hasty, Requests(k) # {},
                      \A m \in Requests(k) : Handled(m)
               PROVE k \in likes <=>
                 \E m \in About(sent["likeRequest"], k) : m.n = Cardinality(Requests(k))
  BY DEF LastClickDecides
<1>2. PICK m \in Requests(k) : m.n = Cardinality(Requests(k))
  BY <1>1 DEF ClicksInv
<1>3. WasWritten(m)
  BY <1>1 DEF Handled, WasWritten, Written
<1>4. k \in likes <=> m \in sent["likeRequest"]
  BY <1>1, <1>2, <1>3 DEF LastInv, Decided
<1>5. \A x \in About(sent["likeRequest"], k) : x \in Requests(k)
  BY DEF About, Requests
<1>6. \A x \in About(sent["likeRequest"], k) : x.n = Cardinality(Requests(k)) => x = m
  BY <1>2, <1>5, RequestsAreFinite
<1>7. m \in sent["likeRequest"] => m \in About(sent["likeRequest"], k)
  BY RequestsAreFinite DEF About
<1> QED BY <1>2, <1>4, <1>6, <1>7 DEF About

\* While nothing fails, the last click of a user who waited before each decides
\* whether the like is there, in whatever order the two workers come to it.
THEOREM TheLastClickDecides == Spec => []LastClickDecides
BY InitBasics, NextBasics, InitLast, NextLast, LastDecides, PTL DEF Spec

----------------------------------------------------------------------------
LEMMA DisjointSum ==
  ASSUME NEW S, NEW T, IsFiniteSet(S), IsFiniteSet(T), S \cap T = {}
  PROVE Cardinality(S \cup T) = Cardinality(S) + Cardinality(T)
<1>1. Cardinality(S \cup T) = Cardinality(S) + Cardinality(T) - Cardinality(S \cap T)
  BY FS_Union
<1>2. Cardinality(S \cap T) = 0
  BY FS_EmptySet
<1>3. Cardinality(S) \in Nat /\ Cardinality(T) \in Nat
  BY FS_CardinalityType
<1> QED BY <1>1, <1>2, <1>3

EventsOn(events, c) == {m \in events : m.key[2] = c}

LEMMA KeysOn ==
  ASSUME NEW S, NEW T, IsFiniteSet(S), IsFiniteSet(T), NEW c
  PROVE /\ Cardinality(OnComment(S, c)) \in Nat
        /\ S \cap T = {} => Cardinality(OnComment(S \cup T, c)) =
             Cardinality(OnComment(S, c)) + Cardinality(OnComment(T, c))
        /\ S \subseteq T => Cardinality(OnComment(S, c)) <= Cardinality(OnComment(T, c))
<1>1. OnComment(S, c) \in SUBSET S /\ OnComment(T, c) \in SUBSET T
  BY DEF OnComment
<1>2. /\ IsFiniteSet(OnComment(S, c)) /\ IsFiniteSet(OnComment(T, c))
      /\ Cardinality(OnComment(S, c)) \in Nat
  BY <1>1, FS_Subset, FS_CardinalityType
<1>3. ASSUME S \cap T = {}
      PROVE Cardinality(OnComment(S \cup T, c)) =
              Cardinality(OnComment(S, c)) + Cardinality(OnComment(T, c))
  <2>1. OnComment(S \cup T, c) = OnComment(S, c) \cup OnComment(T, c)
    BY DEF OnComment
  <2>2. OnComment(S, c) \cap OnComment(T, c) = {}
    BY <1>1, <1>3
  <2> QED BY <1>2, <2>1, <2>2, DisjointSum
<1>4. ASSUME S \subseteq T
      PROVE Cardinality(OnComment(S, c)) <= Cardinality(OnComment(T, c))
  <2>1. OnComment(S, c) \in SUBSET OnComment(T, c)
    BY <1>4 DEF OnComment
  <2> QED BY <1>2, <2>1, FS_Subset
<1> QED BY <1>2, <1>3, <1>4

LEMMA EventsOnSum ==
  ASSUME NEW S, NEW T, IsFiniteSet(S), IsFiniteSet(T), NEW c
  PROVE /\ Cardinality(EventsOn(S, c)) \in Nat
        /\ S \cap T = {} => Cardinality(EventsOn(S \cup T, c)) =
             Cardinality(EventsOn(S, c)) + Cardinality(EventsOn(T, c))
        /\ S \subseteq T => Cardinality(EventsOn(S, c)) <= Cardinality(EventsOn(T, c))
<1>1. EventsOn(S, c) \in SUBSET S /\ EventsOn(T, c) \in SUBSET T
  BY DEF EventsOn
<1>2. /\ IsFiniteSet(EventsOn(S, c)) /\ IsFiniteSet(EventsOn(T, c))
      /\ Cardinality(EventsOn(S, c)) \in Nat
  BY <1>1, FS_Subset, FS_CardinalityType
<1>3. ASSUME S \cap T = {}
      PROVE Cardinality(EventsOn(S \cup T, c)) =
              Cardinality(EventsOn(S, c)) + Cardinality(EventsOn(T, c))
  <2>1. EventsOn(S \cup T, c) = EventsOn(S, c) \cup EventsOn(T, c)
    BY DEF EventsOn
  <2>2. EventsOn(S, c) \cap EventsOn(T, c) = {}
    BY <1>1, <1>3
  <2> QED BY <1>2, <2>1, <2>2, DisjointSum
<1>4. ASSUME S \subseteq T
      PROVE Cardinality(EventsOn(S, c)) <= Cardinality(EventsOn(T, c))
  <2>1. EventsOn(S, c) \in SUBSET EventsOn(T, c)
    BY <1>4 DEF EventsOn
  <2> QED BY <1>2, <2>1, FS_Subset
<1> QED BY <1>2, <1>3, <1>4

LEMMA SetOfOne ==
  ASSUME NEW x, NEW c
  PROVE /\ IsFiniteSet({x})
        /\ Cardinality(OnComment({x}, c)) = IF x[2] = c THEN 1 ELSE 0
        /\ Cardinality(EventsOn({x}, c)) = IF x.key[2] = c THEN 1 ELSE 0
<1>1. OnComment({x}, c) = IF x[2] = c THEN {x} ELSE {}
  BY DEF OnComment
<1>2. EventsOn({x}, c) = IF x.key[2] = c THEN {x} ELSE {}
  BY DEF EventsOn
<1> QED BY <1>1, <1>2, FS_Singleton, FS_EmptySet

----------------------------------------------------------------------------
\* The events still to be added, those still to be published, the rows.
Coming(c) == Cardinality(EventsOn(Uncounted, c))
Owed(c)   == Cardinality(OnComment(outbox["like"], c))
Rows(c)   == Cardinality(OnComment(likes, c))
NeverHigh(c) ==
  /\ likeCount[c] + (Coming(c) + Owed(c)) <= Rows(c)
  /\ Faultless => likeCount[c] + (Coming(c) + Owed(c)) = Rows(c)

LEMMA CountsAgreeIs ==
  CountsAgree <=> (crashes = 0 => \A c \in comments : NeverHigh(c))
BY DEF CountsAgree, NeverHigh, OnTheWay, Coming, Owed, Rows, EventsOn

LEMMA CountsAreFinite ==
  ASSUME BasicsInv
  PROVE /\ IsFiniteSet(Uncounted) /\ IsFiniteSet(outbox["like"]) /\ IsFiniteSet(likes)
        /\ IsFiniteSet(batch["count"])
<1>1. IsFiniteSet(sent["liked"]) /\ Uncounted \in SUBSET sent["liked"]
  BY WorkersAre DEF BasicsInv, FinitelyMany, Uncounted
<1> QED BY <1>1, FS_Subset, BatchesFine, WorkersAre
        DEF BasicsInv, FinitelyMany, BatchesAreFine

LEMMA TheNumbers ==
  ASSUME BasicsInv, NEW c \in Comment
  PROVE /\ Coming(c) \in Nat /\ Owed(c) \in Nat /\ Rows(c) \in Nat
        /\ likeCount[c] \in Int
BY CountsAreFinite, KeysOn, EventsOnSum DEF Coming, Owed, Rows, BasicsInv, TypeOK

LEMMA CountsKept ==
  ASSUME CountsAgree, Uncounted' = Uncounted, outbox'["like"] = outbox["like"],
         UNCHANGED <<likes, likeCount, crashes>>, comments' \subseteq comments,
         Faultless' => Faultless
  PROVE CountsAgree'
<1>1. ASSUME NEW c \in comments, NeverHigh(c) PROVE NeverHigh(c)'
  <2>1. Coming(c)' = Coming(c) /\ Owed(c)' = Owed(c) /\ Rows(c)' = Rows(c)
    BY DEF Coming, Owed, Rows
  <2> HIDE DEF Coming, Owed, Rows
  <2> QED BY <1>1, <2>1 DEF NeverHigh
<1> QED BY <1>1, CountsAgreeIs DEF CountsAgree, NeverHigh, OnTheWay, Coming, Owed, Rows, EventsOn

LEMMA SameUncounted ==
  ASSUME Idle("count"), sent'["liked"] = sent["liked"]
  PROVE Uncounted' = Uncounted
BY DEF Idle, Uncounted

LEMMA AsideCounts ==
  ASSUME BasicsInv, CountsAgree, Aside, ~AddToCounts
  PROVE CountsAgree'
<1>0. /\ {"like", "unlike", "count", "flag", "unflag"} = Worker
      /\ {"likeRequest", "unlikeRequest", "liked", "unliked"} = Topic
  BY WorkersAre
<1>1. /\ UNCHANGED <<likes, crashes, failures>>
      /\ sent'["liked"] = sent["liked"]
      /\ outbox'["like"] = outbox["like"]
  BY AsideLeavesEvents DEF EventTopic
<1>2. Faultless' => Faultless
  BY <1>1 DEF Faultless
<1>3. ASSUME Idle("count"), UNCHANGED likeCount, comments' \subseteq comments
      PROVE CountsAgree'
  BY <1>1, <1>2, <1>3, SameUncounted, CountsKept
<1>4. ASSUME NEW t \in {"likeRequest", "unlikeRequest"}, NEW k \in Key, Request(t, k)
      PROVE CountsAgree'
  BY <1>3, <1>4, RequestFacts DEF Idle, store
<1>5. ASSUME NEW c \in Comment, DeleteComment(c)
      PROVE CountsAgree'
  BY <1>3, <1>5 DEF DeleteComment, Idle, work, offsets
<1>6. ASSUME NEW w \in Worker, Take(w) \/ Acknowledge(w)
      PROVE CountsAgree'
  <2>1. /\ UNCHANGED <<store, sent>>
        /\ \A u \in Worker \ {w} : Idle(u)
    BY <1>6, TakeFacts, AcknowledgeFacts
  <2>2. CASE w # "count"
    BY <1>0, <1>3, <2>1, <2>2 DEF store
  <2>3. CASE w = "count"
    <3>1. CASE Take(w)
      <4>1. /\ stage["count"] = "idle" /\ stage'["count"] = "write"
            /\ UNCHANGED <<sent, acked, passed>>
        BY <2>3, <3>1, TakeFacts
      <4> QED BY <1>1, <1>2, <2>1, <4>1, CountsKept DEF store, Uncounted
    <3>2. CASE Acknowledge(w)
      <4>1. /\ stage["count"] = "publish" /\ stage'["count"] = "idle"
            /\ acked'["count"] = acked["count"] \cup batch["count"]
            /\ UNCHANGED <<sent, passed>>
        BY <2>3, <3>2, AcknowledgeFacts
      <4>2. Uncounted' = Uncounted
        BY <4>1 DEF Uncounted
      <4> QED BY <1>1, <1>2, <2>1, <4>2, CountsKept DEF store
    <3> QED BY <1>6, <3>1, <3>2
  <2> QED BY <2>2, <2>3
<1>7. ASSUME NEW w \in Worker, Return(w)
      PROVE CountsAgree'
  BY <1>0, <1>3, <1>7, ReturnFacts DEF store
<1>8. CASE SetFlag \/ ClearFlag
  <2>1. UNCHANGED <<likeCount, comments>>
    BY <1>8 DEF SetFlag, ClearFlag
  <2>2. PICK w \in {"flag", "unflag"} : \E keys : Publishing(w, keys)
    BY <1>8 DEF SetFlag, ClearFlag
  <2> QED BY <1>0, <1>3, <2>1, <2>2, PublishingFacts DEF Idle
<1>9. ASSUME NEW k \in Key, AnnounceToPostAuthor(k)
      PROVE CountsAgree'
  <2>1. /\ outbox' = [outbox EXCEPT !["flag"] = @ \ {k}]
        /\ UNCHANGED <<store, sent, batch, stage, acked, passed>>
    BY <1>9 DEF AnnounceToPostAuthor, offsets
  <2>2. outbox'["count"] = outbox["count"]
    BY <1>0, <2>1 DEF BasicsInv, TypeOK
  <2> QED BY <1>3, <2>1, <2>2 DEF Idle, store
<1> QED BY <1>4, <1>5, <1>6, <1>7, <1>8, <1>9 DEF Aside

\* The events of the batch are counted: as many less are on their way.
LEMMA BatchCounted ==
  ASSUME BasicsInv, stage["count"] = "write", Uncounted' = Uncounted \ batch["count"],
         NEW c
  PROVE /\ Coming(c) = Coming(c)' + Cardinality(EventsOn(batch["count"], c))
        /\ Coming(c)' \in Nat
<1>0. "count" \in Worker /\ Source["count"] = "liked"
  BY WorkersAre
<1>1. batch["count"] \subseteq Uncounted
  BY <1>0 DEF BasicsInv, HoldsInv, Holds, Uncounted
<1> DEFINE rest == Uncounted \ batch["count"]
<1>2. /\ Uncounted = rest \cup batch["count"] /\ rest \cap batch["count"] = {}
      /\ rest \in SUBSET Uncounted
  BY <1>1
<1>3. IsFiniteSet(rest) /\ IsFiniteSet(batch["count"])
  BY <1>2, CountsAreFinite, FS_Subset
<1>4. Uncounted' = rest
  OBVIOUS
<1> HIDE DEF rest
<1>5. Cardinality(EventsOn(rest \cup batch["count"], c)) =
        Cardinality(EventsOn(rest, c)) + Cardinality(EventsOn(batch["count"], c))
  BY <1>2, <1>3, EventsOnSum
<1>6. Coming(c)' = Cardinality(EventsOn(rest, c))
  BY <1>4 DEF Coming, EventsOn
<1>7. Cardinality(EventsOn(rest, c)) \in Nat
  BY <1>3, EventsOnSum
<1> QED BY <1>2, <1>5, <1>6, <1>7 DEF Coming

LEMMA AddCounts ==
  ASSUME BasicsInv, CountsAgree, AddToCounts
  PROVE CountsAgree'
<1>0. "count" \in Worker /\ "like" \in Worker
  BY WorkersAre
<1>1. /\ likeCount' = Raised(batch["count"]) /\ Publishing("count", {})
      /\ stage["count"] = "write"
      /\ UNCHANGED <<comments, likes, flagged>>
  BY DEF AddToCounts
<1>2. /\ stage'["count"] = "publish" /\ outbox'["like"] = outbox["like"]
      /\ UNCHANGED <<sent, batch, acked, passed, crashes, failures>>
  BY <1>0, <1>1, PublishingFacts
<1>3. Uncounted' = Uncounted \ batch["count"]
  BY <1>1, <1>2 DEF Uncounted
<1>4. ASSUME NEW c \in comments, NeverHigh(c) PROVE NeverHigh(c)'
  <2>0. c \in Comment
    BY DEF BasicsInv, TypeOK
  <2>1. likeCount'[c] = likeCount[c] + Cardinality(EventsOn(batch["count"], c))
    BY <1>1, <2>0 DEF Raised, EventsOn
  <2>2. /\ Coming(c) = Coming(c)' + Cardinality(EventsOn(batch["count"], c))
        /\ Coming(c)' \in Nat
    BY <1>1, <1>3, BatchCounted
  <2>3. Owed(c)' = Owed(c) /\ Rows(c)' = Rows(c)
    BY <1>1, <1>2 DEF Owed, Rows
  <2>4. Cardinality(EventsOn(batch["count"], c)) \in Nat
    BY CountsAreFinite, EventsOnSum
  <2>6. Faultless' <=> Faultless
    BY <1>2 DEF Faultless
  <2>7. Owed(c) \in Nat /\ Rows(c) \in Nat /\ likeCount[c] \in Int
    BY <2>0, TheNumbers
  <2> HIDE DEF Coming, Owed, Rows
  <2> QED BY <1>4, <2>1, <2>2, <2>3, <2>4, <2>6, <2>7 DEF NeverHigh
<1>5. (crashes = 0 => \A c \in comments : NeverHigh(c))'
  BY <1>1, <1>2, <1>4, CountsAgreeIs
<1> QED BY <1>5 DEF CountsAgree, NeverHigh, OnTheWay, Coming, Owed, Rows, EventsOn

\* A step that counts, inserts or deletes keeps the sum for every comment.
LEMMA CountsFrom ==
  ASSUME crashes' = crashes, comments' \subseteq comments, CountsAgree,
         \A c \in comments : NeverHigh(c) => NeverHigh(c)'
  PROVE CountsAgree'
<1>1. crashes = 0 => \A c \in comments : NeverHigh(c)
  BY CountsAgreeIs
<1>2. crashes' = 0 => \A c \in comments' : NeverHigh(c)'
  BY <1>1
<1> QED BY <1>2 DEF CountsAgree, NeverHigh, OnTheWay, Coming, Owed, Rows, EventsOn

\* Nothing changes of what the count worker has to add.
LEMMA SameComing ==
  ASSUME Uncounted' = Uncounted, NEW c
  PROVE Coming(c)' = Coming(c)
BY DEF Coming, EventsOn

LEMMA InsertCounts ==
  ASSUME BasicsInv, CountsAgree, InsertLikes
  PROVE CountsAgree'
<1> DEFINE inserted == NewLikes(KeysOf(batch["like"]))
<1>0. "count" \in Worker /\ "like" \in Worker
  BY WorkersAre
<1>1. /\ likes' = likes \cup inserted /\ likes \cap inserted = {}
      /\ Publishing("like", inserted) /\ stage["like"] = "write"
      /\ UNCHANGED <<comments, likeCount, flagged>>
  BY DEF InsertLikes, NewLikes
<1>2. IsFiniteSet(inserted)
  BY <1>0, WhatIsFound
<1> HIDE DEF inserted
<1>3. /\ outbox'["like"] = inserted /\ outbox["like"] = {}
      /\ Idle("count")
      /\ UNCHANGED <<sent, crashes, failures>>
  BY <1>0, <1>1, PublishingFacts, WritersOwe DEF Idle
<1>4. ASSUME NEW c \in comments, NeverHigh(c) PROVE NeverHigh(c)'
  <2>1. c \in Comment
    BY DEF BasicsInv, TypeOK
  <2>2. Coming(c)' = Coming(c)
    BY <1>3, SameUncounted, SameComing
  <2>3. Owed(c) = 0
    <3>1. OnComment({}, c) = {}
      BY DEF OnComment
    <3> QED BY <1>3, <3>1, FS_EmptySet DEF Owed
  <2>4. Owed(c)' = Cardinality(OnComment(inserted, c)) /\ Owed(c)' \in Nat
    <3>1. Cardinality(OnComment(inserted, c)) \in Nat
      BY <1>2, KeysOn
    <3>2. Owed(c)' = Cardinality(OnComment(inserted, c))
      BY <1>3 DEF Owed, OnComment
    <3> QED BY <3>1, <3>2
  <2>5. Rows(c)' = Rows(c) + Cardinality(OnComment(inserted, c))
    <3>1. Rows(c)' = Cardinality(OnComment(likes \cup inserted, c))
      BY <1>1 DEF Rows, OnComment
    <3> QED BY <1>1, <1>2, <3>1, CountsAreFinite, KeysOn DEF Rows
  <2>6. /\ Coming(c) \in Nat /\ Rows(c) \in Nat /\ likeCount[c] \in Int
        /\ likeCount'[c] = likeCount[c] /\ (Faultless' <=> Faultless)
    BY <1>1, <1>3, <2>1, TheNumbers DEF Faultless
  <2> HIDE DEF Coming, Owed, Rows
  <2> QED BY <1>4, <2>2, <2>3, <2>4, <2>5, <2>6 DEF NeverHigh
<1> QED BY <1>1, <1>3, <1>4, CountsFrom

\* Unliking takes as many from the count as rows vanish.
LEMMA LoweredRows ==
  ASSUME BasicsInv, NEW found, found \subseteq likes, likes' = likes \ found,
         likeCount' = Lowered(found), NEW c \in comments
  PROVE \E n \in Nat : likeCount'[c] = likeCount[c] - n /\ Rows(c)' = Rows(c) - n
<1> DEFINE rest == likes \ found
<1>1. IsFiniteSet(found) /\ IsFiniteSet(rest)
  <2>1. found \in SUBSET likes /\ rest \in SUBSET likes
    OBVIOUS
  <2> QED BY <2>1, CountsAreFinite, FS_Subset
<1>2. likes = rest \cup found /\ rest \cap found = {} /\ likes' = rest
  OBVIOUS
<1> HIDE DEF rest
<1>3. /\ Cardinality(OnComment(rest \cup found, c)) =
           Cardinality(OnComment(rest, c)) + Cardinality(OnComment(found, c))
      /\ Cardinality(OnComment(found, c)) \in Nat
      /\ Cardinality(OnComment(rest, c)) \in Nat
  BY <1>1, <1>2, KeysOn
<1>4. Rows(c)' = Cardinality(OnComment(rest, c))
  BY <1>2 DEF Rows, OnComment
<1>5. Rows(c) = Cardinality(OnComment(rest, c)) + Cardinality(OnComment(found, c))
  BY <1>2, <1>3 DEF Rows
<1>6. likeCount'[c] = likeCount[c] - Cardinality(OnComment(found, c))
  BY DEF Lowered, BasicsInv, TypeOK
<1> QED BY <1>3, <1>4, <1>5, <1>6

LEMMA DeleteCounts ==
  ASSUME BasicsInv, CountsAgree, NEW found, found \subseteq likes,
         likes' = likes \ found, likeCount' = Lowered(found),
         Idle("count"), sent' = sent, outbox'["like"] = outbox["like"],
         crashes' = crashes, comments' = comments, Faultless' => Faultless
  PROVE CountsAgree'
<1>1. ASSUME NEW c \in comments, NeverHigh(c) PROVE NeverHigh(c)'
  <2>1. c \in Comment
    BY DEF BasicsInv, TypeOK
  <2>2. Coming(c)' = Coming(c)
    BY SameUncounted, SameComing
  <2>3. Owed(c)' = Owed(c)
    BY DEF Owed
  <2>4. PICK n \in Nat : likeCount'[c] = likeCount[c] - n /\ Rows(c)' = Rows(c) - n
    BY LoweredRows
  <2>5. Coming(c) \in Nat /\ Owed(c) \in Nat /\ Rows(c) \in Nat /\ likeCount[c] \in Int
    BY <2>1, TheNumbers
  <2> HIDE DEF Coming, Owed, Rows
  <2> QED BY <1>1, <2>2, <2>3, <2>4, <2>5 DEF NeverHigh
<1> QED BY <1>1, CountsFrom

\* An event moves from the like worker's outbox to what the count worker has
\* to add.
LEMMA AnnounceCounts ==
  ASSUME BasicsInv, NumberedEvents, CountsAgree, NEW j \in Key, AnnounceLiked(j)
  PROVE CountsAgree'
<1>0. /\ {"like", "unlike", "count", "flag", "unflag"} = Worker
      /\ {"likeRequest", "unlikeRequest", "liked", "unliked"} = Topic
      /\ EventTopic = {"liked", "unliked"}
  BY WorkersAre DEF EventTopic
<1> DEFINE e == Fresh("liked", j)
<1>1. Announce("like", "liked", j)
  BY DEF AnnounceLiked
<1>2. /\ j \in outbox["like"] /\ outbox'["like"] = outbox["like"] \ {j}
      /\ sent'["liked"] = sent["liked"] \cup {e}
      /\ UNCHANGED <<store, batch, stage, acked, passed, crashes, failures>>
  BY <1>0, <1>1, AnnounceFacts DEF BasicsInv, TypeOK, offsets, faults
<1>3. e \notin sent["liked"]
  BY <1>0, <1>1, OneMore
<1>4. e.key = j
  BY DEF Fresh
<1> HIDE DEF e
<1>5. Uncounted' = Uncounted \cup {e} /\ Uncounted \cap {e} = {}
  <2>1. /\ acked["count"] \subseteq sent["liked"] /\ passed["count"] \subseteq sent["liked"]
        /\ batch["count"] \subseteq sent["liked"]
    BY <1>0, WorkersAre DEF BasicsInv, HoldsInv, Holds
  <2> QED BY <1>2, <1>3, <2>1 DEF Uncounted
<1>6. ASSUME NEW c \in comments, NeverHigh(c) PROVE NeverHigh(c)'
  <2>1. c \in Comment
    BY DEF BasicsInv, TypeOK
  <2>2. Coming(c)' = Coming(c) + IF j[2] = c THEN 1 ELSE 0
    <3>1. Coming(c)' = Cardinality(EventsOn(Uncounted \cup {e}, c))
      BY <1>5 DEF Coming, EventsOn
    <3>2. Cardinality(EventsOn(Uncounted \cup {e}, c)) =
            Cardinality(EventsOn(Uncounted, c)) + Cardinality(EventsOn({e}, c))
      <4>1. IsFiniteSet({e}) /\ IsFiniteSet(Uncounted)
        BY CountsAreFinite, FS_Singleton
      <4> HIDE DEF Uncounted
      <4> QED BY <1>5, <4>1, EventsOnSum
    <3> QED BY <1>4, <3>1, <3>2, SetOfOne DEF Coming
  <2>3. Owed(c) = Owed(c)' + IF j[2] = c THEN 1 ELSE 0
    <3> DEFINE rest == outbox["like"] \ {j}
    <3>1. outbox["like"] = rest \cup {j} /\ rest \cap {j} = {}
          /\ rest \in SUBSET outbox["like"]
      BY <1>2
    <3>2. Owed(c)' = Cardinality(OnComment(rest, c))
      BY <1>2 DEF Owed, OnComment
    <3> HIDE DEF rest
    <3>3. IsFiniteSet(rest)
      BY <3>1, CountsAreFinite, FS_Subset
    <3>4. Cardinality(OnComment(rest \cup {j}, c)) =
            Cardinality(OnComment(rest, c)) + Cardinality(OnComment({j}, c))
      <4>1. IsFiniteSet({j})
        BY FS_Singleton
      <4> QED BY <3>1, <3>3, <4>1, KeysOn
    <3> QED BY <3>1, <3>2, <3>4, SetOfOne DEF Owed
  <2>4. Owed(c)' \in Nat
    <3>1. outbox'["like"] \in SUBSET outbox["like"]
      BY <1>2
    <3>2. IsFiniteSet(outbox'["like"])
      BY <3>1, CountsAreFinite, FS_Subset
    <3>3. Cardinality(OnComment(outbox'["like"], c)) \in Nat
      BY <3>2, KeysOn
    <3> QED BY <3>3 DEF Owed, OnComment
  <2>5. /\ Coming(c) \in Nat /\ Rows(c) \in Nat /\ likeCount[c] \in Int
        /\ likeCount'[c] = likeCount[c] /\ Rows(c)' = Rows(c)
        /\ (Faultless' <=> Faultless)
    BY <1>2, <2>1, TheNumbers DEF Faultless, store, Rows
  <2> HIDE DEF Coming, Owed, Rows
  <2> QED BY <1>6, <2>2, <2>3, <2>4, <2>5 DEF NeverHigh
<1> QED BY <1>2, <1>6, CountsFrom DEF store

\* Failures leave the count too low, if anything.
LEMMA FailureCounts ==
  ASSUME BasicsInv, CountsAgree, Failure
  PROVE CountsAgree'
<1>0. {"like", "unlike", "count", "flag", "unflag"} = Worker
  BY WorkersAre
<1>1. ~Faultless' /\ BasicsInv'
  BY FailureBasics
<1>2. ASSUME Fault PROVE crashes' = crashes
  BY <1>2 DEF Fault
<1>3. CASE InsertFails
  <2>1. PICK inserted \in SUBSET KeysOf(batch["like"]) : likes' = likes \cup inserted
    BY <1>3 DEF InsertFails
  <2>2. /\ Fault /\ Drop("like") /\ UNCHANGED <<comments, likeCount, flagged>>
    BY <1>3 DEF InsertFails
  <2>3. Idle("count") /\ UNCHANGED <<sent, outbox>>
    BY <1>0, <2>2, DropFacts
  <2>4. IsFiniteSet(likes')
    <3>1. IsFiniteSet(inserted)
      BY <1>0, BatchesFine, FS_Subset DEF BatchesAreFine
    <3> QED BY <2>1, <3>1, CountsAreFinite, FS_Union
  <2>5. ASSUME NEW c \in comments, NeverHigh(c) PROVE NeverHigh(c)'
    <3>1. c \in Comment
      BY DEF BasicsInv, TypeOK
    <3>2. Coming(c)' = Coming(c) /\ Owed(c)' = Owed(c)
      BY <2>3, SameUncounted, SameComing DEF Owed
    <3>3. Rows(c) <= Cardinality(OnComment(likes', c))
          /\ Cardinality(OnComment(likes', c)) \in Nat
      BY <2>1, <2>4, CountsAreFinite, KeysOn DEF Rows
    <3>4. Rows(c)' = Cardinality(OnComment(likes', c))
      BY DEF Rows, OnComment
    <3>5. Coming(c) \in Nat /\ Owed(c) \in Nat /\ Rows(c) \in Nat /\ likeCount[c] \in Int
      BY <3>1, TheNumbers
    <3> HIDE DEF Coming, Owed, Rows
    <3> QED BY <1>1, <2>2, <2>5, <3>2, <3>3, <3>4, <3>5 DEF NeverHigh
  <2> QED BY <1>2, <2>2, <2>5, CountsFrom
<1>4. CASE DeleteFails
  <2>1. PICK found \in {{}, Found(KeysOf(batch["unlike"]))} :
          likes' = likes \ found /\ likeCount' = Lowered(found)
    BY <1>4 DEF DeleteFails
  <2>2. /\ Fault /\ Drop("unlike") /\ UNCHANGED <<comments, flagged>>
    BY <1>4 DEF DeleteFails
  <2>3. Idle("count") /\ UNCHANGED <<sent, outbox>>
    BY <1>0, <2>2, DropFacts
  <2>4. found \subseteq likes
    BY <2>1 DEF Found
  <2> QED BY <1>1, <1>2, <2>1, <2>2, <2>3, <2>4, DeleteCounts
<1>5. CASE AddToCountsFails
  <2>1. PICK done \in SUBSET Comment :
          likeCount' = Raised({m \in batch["count"] : m.key[2] \in done})
    BY <1>5 DEF AddToCountsFails
  <2> DEFINE some == {m \in batch["count"] : m.key[2] \in done}
  <2>2. /\ Fault /\ Drop("count") /\ stage["count"] = "write"
        /\ UNCHANGED <<comments, likes, flagged>>
    BY <1>5 DEF AddToCountsFails
  <2>3. /\ UNCHANGED <<sent, outbox, acked>>
        /\ stage'["count"] = "idle" /\ passed'["count"] = passed["count"] \cup batch["count"]
    BY <1>0, <2>2, DropFacts
  <2>4. Uncounted' = Uncounted \ batch["count"]
    BY <2>2, <2>3 DEF Uncounted
  <2>5. some \in SUBSET batch["count"] /\ likeCount' = Raised(some)
    BY <2>1
  <2> HIDE DEF some
  <2>6. IsFiniteSet(some)
    BY <2>5, CountsAreFinite, FS_Subset
  <2>7. ASSUME NEW c \in comments, NeverHigh(c) PROVE NeverHigh(c)'
    <3>1. c \in Comment
      BY DEF BasicsInv, TypeOK
    <3>2. likeCount'[c] = likeCount[c] + Cardinality(EventsOn(some, c))
      BY <2>5, <3>1 DEF Raised, EventsOn
    <3>3. /\ Cardinality(EventsOn(some, c)) <= Cardinality(EventsOn(batch["count"], c))
          /\ Cardinality(EventsOn(some, c)) \in Nat
          /\ Cardinality(EventsOn(batch["count"], c)) \in Nat
      BY <2>5, <2>6, CountsAreFinite, EventsOnSum
    <3>4. /\ Coming(c) = Coming(c)' + Cardinality(EventsOn(batch["count"], c))
          /\ Coming(c)' \in Nat
      BY <2>2, <2>4, BatchCounted
    <3>5. Owed(c)' = Owed(c) /\ Rows(c)' = Rows(c)
      BY <2>2, <2>3 DEF Owed, Rows
    <3>6. Owed(c) \in Nat /\ Rows(c) \in Nat /\ likeCount[c] \in Int
      BY <3>1, TheNumbers
    <3> HIDE DEF Coming, Owed, Rows
    <3> QED BY <1>1, <2>7, <3>2, <3>3, <3>4, <3>5, <3>6 DEF NeverHigh
  <2> QED BY <1>2, <2>2, <2>7, CountsFrom
<1>6. ASSUME NEW w \in {"flag", "unflag"}, FlagFails(w)
      PROVE CountsAgree'
  <2>1. Fault /\ Drop(w) /\ UNCHANGED store
    BY <1>6 DEF FlagFails
  <2>2. Idle("count") /\ UNCHANGED <<sent, outbox>>
    BY <1>0, <2>1, DropFacts
  <2> QED BY <1>1, <1>2, <2>1, <2>2, SameUncounted, CountsKept DEF store
<1>7. ASSUME NEW w \in Worker, NEW k \in Key, NoAck(w, k)
      PROVE CountsAgree'
  <2>1. /\ k \in outbox[w] /\ Fault
        /\ outbox' = [outbox EXCEPT ![w] = @ \ {k}]
        /\ UNCHANGED <<store, sent, batch, stage, acked, passed>>
    BY <1>7 DEF NoAck, offsets
  <2>2. outbox'["like"] \in SUBSET outbox["like"]
    BY <1>0, <2>1 DEF BasicsInv, TypeOK
  <2>3. IsFiniteSet(outbox'["like"])
    BY <2>2, CountsAreFinite, FS_Subset
  <2>4. Uncounted' = Uncounted
    BY <2>1 DEF Uncounted
  <2>5. ASSUME NEW c \in comments, NeverHigh(c) PROVE NeverHigh(c)'
    <3>1. c \in Comment
      BY DEF BasicsInv, TypeOK
    <3>2. /\ Cardinality(OnComment(outbox'["like"], c)) <= Owed(c)
          /\ Cardinality(OnComment(outbox'["like"], c)) \in Nat
      BY <2>2, <2>3, CountsAreFinite, KeysOn DEF Owed
    <3>3. Owed(c)' = Cardinality(OnComment(outbox'["like"], c))
      BY DEF Owed, OnComment
    <3>4. /\ Coming(c)' = Coming(c) /\ Rows(c)' = Rows(c) /\ likeCount'[c] = likeCount[c]
      BY <2>1, <2>4, SameComing DEF Rows, store
    <3>5. Coming(c) \in Nat /\ Owed(c) \in Nat /\ Rows(c) \in Nat /\ likeCount[c] \in Int
      BY <3>1, TheNumbers
    <3> HIDE DEF Coming, Owed, Rows
    <3> QED BY <1>1, <2>5, <3>2, <3>3, <3>4, <3>5 DEF NeverHigh
  <2> QED BY <1>2, <2>1, <2>5, CountsFrom DEF store
<1>8. CASE Crash
  BY <1>8, CrashBasics DEF CountsAgree
<1> QED BY <1>3, <1>4, <1>5, <1>6, <1>7, <1>8 DEF Failure

LEMMA NextCounts ==
  ASSUME BasicsInv, MirrorInv, CountsAgree, [Next]_vars
  PROVE CountsAgree'
<1>0. /\ {"like", "unlike", "count", "flag", "unflag"} = Worker
      /\ {"likeRequest", "unlikeRequest", "liked", "unliked"} = Topic
  BY WorkersAre
<1>1. CASE UNCHANGED vars
  <2>1. Idle("count") /\ (Faultless' => Faultless)
    BY <1>1 DEF vars, Idle, Faultless
  <2> QED BY <1>1, <2>1, SameUncounted, CountsKept DEF vars
<1>2. CASE Aside
  BY <1>2, AsideCounts, AddCounts
<1>3. CASE InsertLikes
  BY <1>3, InsertCounts
<1>4. CASE DeleteLikes
  <2> DEFINE found == Found(KeysOf(batch["unlike"]))
  <2>1. /\ likes' = likes \ found /\ found \subseteq likes
        /\ likeCount' = Lowered(found)
        /\ Publishing("unlike", found)
        /\ UNCHANGED <<comments, flagged>>
    BY <1>4 DEF DeleteLikes, Found
  <2> HIDE DEF found
  <2>2. /\ Idle("count") /\ outbox'["like"] = outbox["like"]
        /\ UNCHANGED <<sent, crashes, failures>>
    BY <1>0, <2>1, PublishingFacts DEF Idle
  <2>3. Faultless' => Faultless
    BY <2>2 DEF Faultless
  <2> QED BY <2>1, <2>2, <2>3, DeleteCounts
<1>5. ASSUME NEW j \in Key, AnnounceLiked(j)
      PROVE CountsAgree'
  BY <1>5, AnnounceCounts DEF MirrorInv
<1>6. ASSUME NEW j \in Key, AnnounceUnliked(j)
      PROVE CountsAgree'
  <2>1. Announce("unlike", "unliked", j)
    BY <1>6 DEF AnnounceUnliked
  <2>2. /\ sent'["liked"] = sent["liked"]
        /\ outbox'["like"] = outbox["like"] /\ outbox'["count"] = outbox["count"]
        /\ UNCHANGED <<store, batch, stage, acked, passed, crashes, failures>>
    BY <1>0, <2>1, AnnounceFacts DEF BasicsInv, TypeOK, offsets, faults
  <2>3. Idle("count") /\ (Faultless' => Faultless)
    BY <2>2 DEF Idle, Faultless
  <2> QED BY <2>2, <2>3, SameUncounted, CountsKept DEF store
<1>7. CASE Failure
  BY <1>7, FailureCounts
<1> QED BY <1>1, <1>2, <1>3, <1>4, <1>5, <1>6, <1>7, Steps

LEMMA InitCounts ==
  ASSUME Init
  PROVE CountsAgree
<1>1. likes = {} /\ outbox["like"] = {} /\ sent["liked"] = {} /\ comments = Comment
  BY WorkersAre DEF Init
<1>2. Uncounted = {}
  BY <1>1 DEF Uncounted
<1>3. ASSUME NEW c \in comments
      PROVE likeCount[c] = 0 /\ Coming(c) = 0 /\ Owed(c) = 0 /\ Rows(c) = 0
  <2>1. EventsOn({}, c) = {} /\ OnComment({}, c) = {}
    BY DEF EventsOn, OnComment
  <2>2. likeCount[c] = 0
    BY <1>1 DEF Init
  <2> QED BY <1>1, <1>2, <2>1, <2>2, FS_EmptySet DEF Coming, Owed, Rows
<1>4. \A c \in comments : NeverHigh(c)
  <2> HIDE DEF Coming, Owed, Rows
  <2> QED BY <1>3 DEF NeverHigh
<1> QED BY <1>4, CountsAgreeIs

\* Before any restart, the like count with the events on their way to it never
\* exceeds the rows of the comment, and while nothing fails it equals them.
THEOREM TheCountsAgree == Spec => []CountsAgree
BY InitBasics, NextBasics, InitMirror, NextMirror, InitCounts, NextCounts, PTL DEF Spec
============================================================================
