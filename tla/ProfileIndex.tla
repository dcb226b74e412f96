---------------------------- MODULE ProfileIndex ----------------------------
(***************************************************************************)
(* The profiles elasticsearch-proxy keeps of the users of Accounts.         *)
(*                                                                          *)
(* One consumer handles USER_PROFILE_EVENTS_TOPIC, message after message;   *)
(* messages have no key, so two of them come in any order.  A document has  *)
(* one updatedAt for all its fields, and an event that is not newer is      *)
(* skipped.  The updates of cover and block are not awaited: their reading  *)
(* and their writing come between those of later events, and when one of    *)
(* them fails nobody catches it: the process ends.                          *)
(***************************************************************************)
EXTENDS Accounts

VARIABLES
  docs,     \* the documents, by user
  handled,  \* events handled at least once
  running,  \* updates nobody waits for
  up,       \* elasticsearch-proxy runs
  latest    \* history: the newest event applied, by user

pvars == <<docs, handled, running, up, latest>>
userService == <<users, admins, mail, tokens, requests, clock, scene, acts>>

PInit ==
  /\ Init
  /\ docs = [e \in scene.registered |-> [shown |-> users[e].shown, updatedAt |-> 0]]
  /\ handled = {} /\ running = {} /\ up = TRUE
  /\ latest = [e \in Email |-> 0]

UpdatedAt(e) == docs[e].updatedAt
Store(e, shown, ts) ==
  docs' = [x \in DOMAIN docs \cup {e} |->
             IF x = e THEN [shown |-> shown, updatedAt |-> ts] ELSE docs[x]]
\* A document starts with the time its user was created.
CreateCommand(ev) == Store(ev.who, ev.carries, ev.created)
UpdateCommand(ev) ==
  Store(ev.who, [f \in Field |-> IF f \in DOMAIN ev.carries
                                  THEN ev.carries[f] ELSE docs[ev.who].shown[f]], ev.ts)

\* slip: an old event is applied too
IsNewerAlways(ev) == TRUE
IsNewer(ev) == ev.ts > UpdatedAt(ev.who)

\* History: an event that comes after a newer one, or that is dropped or written
\* over a document that could not be read, leaves its user amiss; one that is
\* handled again does not.
Late(ev) == ev.ts <= latest[ev.who]
Applied(ev) == latest' = [latest EXCEPT ![ev.who] = IF ev.ts > @ THEN ev.ts ELSE @]
Note(who, missed) == amiss' = IF missed THEN amiss \cup {who} ELSE amiss

\* updatedAtQuery answers null to any error of elasticsearch, as if there were no
\* document: then whatever there is gives way to a new one.
UpsertProfile(ev) ==
  /\ ev.kind \in {"created", "googleCreated", "updated"}
  /\ \/ /\ IF ev.who \notin DOMAIN docs THEN CreateCommand(ev)
           ELSE IF IsNewer(ev) THEN UpdateCommand(ev) ELSE UNCHANGED docs
        /\ Note(ev.who, ev \notin handled /\ Late(ev)) /\ UNCHANGED faults
     \/ Fault /\ CreateCommand(ev) /\ Note(ev.who, TRUE)
  /\ Applied(ev) /\ UNCHANGED running
\* A user without a document: the handler throws, the event is logged and gone.
UpdateUserAvatarKey(ev) ==
  /\ ev.kind = "avatar"
  /\ IF ev.who \in DOMAIN docs /\ IsNewer(ev) THEN UpdateCommand(ev) ELSE UNCHANGED docs
  /\ Applied(ev) /\ UNCHANGED <<running, faults>>
  /\ Note(ev.who, ev.who \notin DOMAIN docs \/ (ev \notin handled /\ Late(ev)))
NotAwaited(ev) ==
  /\ ev.kind \in {"cover", "block"}
  /\ running' = running \cup {[step |-> "read", ev |-> ev, first |-> ev \notin handled]}
  /\ UNCHANGED <<docs, latest, amiss, faults>>

EachMessage ==
  /\ up
  /\ \E ev \in topic :
       /\ \/ UpsertProfile(ev) \/ UpdateUserAvatarKey(ev) \/ NotAwaited(ev)
          \/ Fault /\ Note(ev.who, TRUE) /\ UNCHANGED <<docs, running, latest>>
       /\ topic' = topic \ {ev} /\ handled' = handled \cup {ev}
  /\ UNCHANGED <<userService, up>>

\* updateUserCoverPhotoKey and updateBlockStatus read the time of the document,
\* and the process ends when there is none;
ReadUpdatedAt(w) ==
  /\ w.step = "read"
  /\ IF w.ev.who \notin DOMAIN docs THEN up' = FALSE /\ UNCHANGED <<running, amiss>>
     ELSE /\ running' = (running \ {w}) \cup
               (IF IsNewer(w.ev) THEN {[w EXCEPT !.step = "write"]} ELSE {})
          /\ Note(w.ev.who, w.first /\ Late(w.ev)) /\ UNCHANGED up
  /\ UNCHANGED <<docs, latest>>
\* and write, whatever has been written since.
WriteField(w) ==
  /\ w.step = "write"
  /\ UpdateCommand(w.ev) /\ running' = running \ {w}
  /\ Applied(w.ev) /\ UNCHANGED up
  /\ Note(w.ev.who, w.ev.ts < latest[w.ev.who] \/ (w.first /\ Late(w.ev)))
Background ==
  /\ up
  /\ \E w \in running : ReadUpdatedAt(w) \/ WriteField(w)
  /\ UNCHANGED <<userService, topic, faults, handled>>

Stops ==
  /\ up /\ Fault /\ up' = FALSE
  /\ UNCHANGED <<userService, topic, amiss, docs, handled, running, latest>>
\* Messages whose offset was not committed come again; what was running is gone.
Restarts ==
  /\ ~up /\ up' = TRUE /\ running' = {}
  /\ \E again \in SUBSET handled :
       /\ topic' = topic \cup again
       /\ amiss' = amiss \cup {w.ev.who : w \in {v \in running : v.ev \notin again}}
  /\ handled' = handled \ {w.ev : w \in running}
  /\ UNCHANGED <<userService, faults, docs, latest>>

PNext == (Next /\ UNCHANGED pvars) \/ EachMessage \/ Background \/ Stops \/ Restarts
PSpec == PInit /\ [][PNext]_<<avars, pvars>>

--------------------------------------------------------------------------
(* Queries and properties. *)

\* What others are shown of a user who has a document.
GetUserById(e) == docs[e].shown
UserProfile(e) == [f \in {"name", "avatar", "cover"} |-> GetUserById(e)[f]]

\* Nothing about the user is still to be announced or handled.
Settled(e) ==
  /\ \A r \in requests : ~(r.who = e /\ r.step = "publish")
  /\ \A ev \in topic : ev.who # e
  /\ \A w \in running : w.ev.who # e

\* Once all is handled, others are shown of a user what he is shown of himself,
\* and the index knows whether he is blocked, however requests raced and
\* messages were handled again: the index is off only after an event was lost,
\* was handled after a newer one, announced a row that had changed since, or was
\* indexed anew because the time of the document could not be read
\* (UserProfileEventsConsumer, UserServices).
IndexSettles ==
  \A e \in DOMAIN users \ amiss : Settled(e) =>
    /\ e \in DOMAIN docs
    /\ UserProfile(e) = CurrentUserProfile(e)
    /\ GetUserById(e).blocked = users[e].shown.blocked

\* An account made by a sign-up is one whose own code reached its address, and
\* each account is made and announced once, whatever sign-ups, verifications
\* and Google logins of an address race (VerifyUser, UserGoogleAuth).
AccountsAreProven ==
  \A e \in DOMAIN users :
    /\ users[e].origin \in {s.n : s \in signUps} =>
         \E l \in mailbox : l.kind = "code" /\ l.to = e /\ l.n = users[e].origin
    /\ \A a \in {r \in requests : r.step = "publish"} \cup topic \cup handled :
         a.who = e /\ a.kind \in {"created", "googleCreated"} => a.n = users[e].origin
============================================================================
