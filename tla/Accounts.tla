------------------------------ MODULE Accounts ------------------------------
(***************************************************************************)
(* Accounts in user-service, with the letters of email-service.             *)
(*                                                                          *)
(* A row is made by the verification of a sign-up (its code went out in a   *)
(* letter) or by the first Google login of an address, whichever is first:  *)
(* the address is unique.  Handlers read the row, wait for a hash or for    *)
(* the database, and act on what they read; admins block rows meanwhile.    *)
(* Every change of a profile is committed first and announced afterwards.   *)
(*                                                                          *)
(* Whatever a request chooses (a password, a name, a picture, a code) is    *)
(* the number of that request.  Tokens never expire here: a token that has  *)
(* expired is one that is not used any more.  The time of the last login    *)
(* is left out.                                                             *)
(***************************************************************************)
EXTENDS Integers, FiniteSets

CONSTANTS
  Email, Admin,  \* addresses of users and of admins
  Scene          \* who is registered, what is asked, how often, and how many faults

ASSUME AccountsAssumption ==
  \A s \in Scene :
    /\ s.registered \subseteq Email /\ s.acts \in Nat /\ s.faults \in Nat
    /\ \A t \in s.tokens : t.type = "user" => t.who \in s.registered /\ t.asked = 0

VARIABLES
  users,          \* rows of User, by address
  admins,         \* addresses with a row of Admin
  signUps,        \* sign-up tokens handed out
  letters,        \* events for email-service
  mailbox,        \* letters that arrived
  refreshTokens, accessTokens,  \* tokens clients hold
  requests,       \* handlers that have read or committed, and are not done
  topic,          \* USER_PROFILE_EVENTS_TOPIC: events to be handled
  clock,          \* the time createEvent stamps
  scene, acts, faults,
  amiss           \* history: users an event of whom was lost, overtaken or out of date

tokens == <<refreshTokens, accessTokens>>
mail == <<signUps, letters, mailbox>>
avars == <<users, admins, mail, tokens, requests, topic, clock, scene, acts, faults, amiss>>

Field == {"name", "avatar", "cover", "blocked"}
NoPassword == 0
NewRow(n, password) ==
  [origin |-> n, password |-> password, created |-> clock, blocks |-> 0,
   shown |-> [name |-> n, avatar |-> 0, cover |-> 0, blocked |-> FALSE]]

Init ==
  /\ scene \in Scene
  /\ users = [e \in scene.registered |->
               [origin |-> 0, password |-> 0, created |-> 0, blocks |-> 0,
                shown |-> [name |-> 0, avatar |-> 0, cover |-> 0, blocked |-> FALSE]]]
  /\ admins = {} /\ signUps = {} /\ letters = {} /\ mailbox = {}
  /\ refreshTokens = scene.tokens /\ accessTokens = scene.tokens
  /\ requests = {} /\ topic = {} /\ clock = 1 /\ acts = 0 /\ faults = 0 /\ amiss = {}

Asked(what) == what \in scene.asked /\ acts < scene.acts /\ acts' = acts + 1
Fault == faults < scene.faults /\ faults' = faults + 1

\* isAuthenticated and authorizedRoles: a request with an access token of that
\* type.  What users do they do as the one the token names; admins need no name.
AuthorizedUser(who) == \E t \in accessTokens : t.type = "user" /\ t.who = who
AuthorizedAdmin == \E t \in accessTokens : t.type = "admin"
Token(type, who, asked) == [type |-> type, who |-> who, asked |-> asked]
Nobody == "nobody"

--------------------------------------------------------------------------
(* Rows. *)

EmailExists(e) == e \in DOMAIN users
RetrieveUserByEmail(e) == users[e]
RetrieveUserById(e) == users[e]
Put(e, row) == users' = [x \in DOMAIN users \cup {e} |-> IF x = e THEN row ELSE users[x]]

Create(e, n) == ~EmailExists(e) /\ Put(e, NewRow(n, n))
GoogleAuthCreate(e, n) == ~EmailExists(e) /\ Put(e, NewRow(n, NoPassword))
ChangePasswordOf(e, n) == Put(e, [users[e] EXCEPT !.password = n])
UpdateNameAndBio(e, n) == [users[e] EXCEPT !.shown.name = n]
UpdateAvatar(e, n) == [users[e] EXCEPT !.shown.avatar = n]
UpdateCoverPhoto(e, n) == [users[e] EXCEPT !.shown.cover = n]
UpdateBlockStatus(e, b) ==
  [users[e] EXCEPT !.shown.blocked = b, !.blocks = IF b THEN @ + 1 ELSE @]

--------------------------------------------------------------------------
(* Events.  What a request carries was read when it committed; the time is  *)
(* stamped when the answer of the database is there.                        *)

ToPublish(kind, e, carries) ==
  [step |-> "publish", kind |-> kind, who |-> e, n |-> acts', carries |-> carries]
Only(field, row) == [f \in {field} |-> row.shown[f]]

\* The request announces what has changed since, and nobody is about to say so.
OutOfDate(r) ==
  \E f \in DOMAIN r.carries :
    /\ r.carries[f] # users[r.who].shown[f]
    /\ \A q \in requests \ {r} :
         ~(q.step = "publish" /\ q.who = r.who /\ f \in DOMAIN q.carries
           /\ q.carries[f] = users[r.who].shown[f])
\* Two events may get the same millisecond.
Event(r, ts) ==
  [kind |-> r.kind, who |-> r.who, n |-> r.n, carries |-> r.carries, ts |-> ts,
   created |-> IF r.kind = "googleCreated" THEN ts ELSE users[r.who].created]
\* A Google login goes on once its account is announced.
GoesOn(r, ack) ==
  IF r.kind = "googleCreated" /\ ack
  THEN {[step |-> "login", who |-> r.who, n |-> r.n, asked |-> 0]} ELSE {}
Send(r) ==
  \E ts \in {clock, clock + 1}, ack, kept \in BOOLEAN :
    /\ clock' = ts
    /\ IF ack THEN kept /\ UNCHANGED faults ELSE Fault
    /\ topic' = IF kept THEN topic \cup {Event(r, ts)} ELSE topic
    /\ amiss' = IF ~kept \/ OutOfDate(r) THEN amiss \cup {r.who} ELSE amiss
    /\ requests' = (requests \ {r}) \cup GoesOn(r, ack)
Publish ==
  /\ \E r \in requests : r.step = "publish" /\ Send(r)
  /\ UNCHANGED <<users, admins, mail, tokens, scene, acts>>

--------------------------------------------------------------------------
(* Sign-up, verification and passwords. *)

Letter(kind, to) == [kind |-> kind, to |-> to, n |-> acts']
SignupUser(e) ==
  /\ ~EmailExists(e)
  /\ \/ /\ letters' = letters \cup {Letter("code", e)}
        /\ signUps' = signUps \cup {[n |-> acts', email |-> e]}
        /\ UNCHANGED faults
     \/ Fault /\ UNCHANGED <<letters, signUps>>
Signup ==
  /\ Asked("signUp")
  /\ \E e \in Email : SignupUser(e)
  /\ UNCHANGED <<users, admins, mailbox, tokens, requests, topic, clock, scene, amiss>>

\* slip: the code is not compared
AnyCode(s, code) == code.kind = "code"
CodeMatches(s, code) == code.kind = "code" /\ code.n = s.n
VerifyUser(s, code) ==
  /\ CodeMatches(s, code) /\ Create(s.email, s.n)
  /\ requests' = requests \cup
       {[ToPublish("created", s.email, NewRow(s.n, s.n).shown) EXCEPT !.n = s.n]}
Verify ==
  /\ Asked("verify")
  /\ \E s \in signUps, code \in mailbox : VerifyUser(s, code)
  /\ UNCHANGED <<admins, mail, tokens, topic, clock, scene, faults, amiss>>

ForgotPassword(e) ==
  /\ EmailExists(e)
  /\ \/ letters' = letters \cup {Letter("reset", e)} /\ UNCHANGED faults
     \/ Fault /\ UNCHANGED letters
AskForReset ==
  /\ Asked("reset")
  /\ \E e \in Email : ForgotPassword(e)
  /\ UNCHANGED <<users, admins, signUps, mailbox, tokens, requests, topic, clock, scene, amiss>>

RecoverPassword(l) == l.kind = "reset" /\ ChangePasswordOf(l.to, acts')
ResetPassword ==
  /\ Asked("reset")
  /\ \E l \in mailbox : RecoverPassword(l)
  /\ UNCHANGED <<admins, mail, tokens, requests, topic, clock, scene, faults, amiss>>

\* The old password is compared, the new one hashed, and the row written whatever it is by then.
OldPasswordMatches(e, old) ==
  LET password == RetrieveUserById(e).password IN password # NoPassword /\ password = old
AskForChange ==
  /\ Asked("change")
  /\ \E e \in DOMAIN users, old \in 1..acts :
       /\ AuthorizedUser(e) /\ OldPasswordMatches(e, old)
       /\ requests' = requests \cup {[step |-> "change", who |-> e, n |-> acts']}
  /\ UNCHANGED <<users, admins, mail, tokens, topic, clock, scene, faults, amiss>>
ChangePassword ==
  /\ \E r \in requests :
       r.step = "change" /\ ChangePasswordOf(r.who, r.n) /\ requests' = requests \ {r}
  /\ UNCHANGED <<admins, mail, tokens, topic, clock, scene, acts, faults, amiss>>

--------------------------------------------------------------------------
(* Logins and tokens. *)

Reading(step, e) ==
  [step |-> step, who |-> e, n |-> acts', asked |-> users[e].blocks]

\* UserEmailLogin: the row is read, the password compared.
MayLogin(e, password) ==
  LET row == RetrieveUserByEmail(e)
  IN ~row.shown.blocked /\ row.password # NoPassword /\ row.password = password
Login ==
  /\ Asked("login")
  /\ \E e \in DOMAIN users, password \in 1..acts :
       /\ MayLogin(e, password)
       /\ requests' = requests \cup {Reading("login", e)}
  /\ UNCHANGED <<users, admins, mail, tokens, topic, clock, scene, faults, amiss>>

\* UserGoogleAuth: an address without a row gets one, then the row is looked at.
GoogleRead(e) ==
  IF EmailExists(e)
  THEN ~RetrieveUserByEmail(e).shown.blocked /\ requests' = requests \cup {Reading("login", e)}
  ELSE requests' = requests \cup {[step |-> "google", who |-> e, n |-> acts']}
GoogleAuth ==
  /\ Asked("google")
  /\ \E e \in Email : GoogleRead(e)
  /\ UNCHANGED <<users, admins, mail, tokens, topic, clock, scene, faults, amiss>>
UserGoogleAuth ==
  /\ \E r \in requests :
       /\ r.step = "google" /\ GoogleAuthCreate(r.who, r.n)
       /\ requests' = (requests \ {r}) \cup
            {[step |-> "publish", kind |-> "googleCreated", who |-> r.who, n |-> r.n,
              carries |-> NewRow(r.n, NoPassword).shown]}
  /\ UNCHANGED <<admins, mail, tokens, topic, clock, scene, acts, faults, amiss>>

\* Tokens are signed after the last wait of the handler.
IssueTokens ==
  /\ \E r \in requests :
       /\ r.step \in {"login", "refresh"}
       /\ accessTokens' = accessTokens \cup {Token("user", r.who, r.asked)}
       /\ refreshTokens' = IF r.step = "login"
            THEN refreshTokens \cup {Token("user", r.who, 0)} ELSE refreshTokens
       /\ requests' = requests \ {r}
  /\ UNCHANGED <<users, admins, mail, topic, clock, scene, acts, faults, amiss>>

\* A refused user loses the cookie with the refresh token.
ClearCookie(t) == refreshTokens' = refreshTokens \ {t}
\* slip: the block is not looked at
MayRefreshBlocked(e) == EmailExists(e)
MayRefresh(e) == EmailExists(e) /\ ~users[e].shown.blocked
RefreshUser(t) ==
  IF MayRefresh(t.who)
  THEN requests' = requests \cup {Reading("refresh", t.who)} /\ UNCHANGED tokens
  ELSE ClearCookie(t) /\ UNCHANGED <<accessTokens, requests>>
\* RefreshAdminToken looks at neither the type of the token nor at a row: what it
\* gives for a user's names no admin.
RefreshAdmin(t) ==
  /\ LET admin == IF t.type = "admin" THEN t.who ELSE Nobody
     IN  accessTokens' = accessTokens \cup {Token("admin", admin, 0)}
  /\ UNCHANGED <<refreshTokens, requests>>
\* The admins' route takes any refresh token; that of users fails with an admin's,
\* and the common one goes by the type.
Refresh ==
  /\ Asked("refresh")
  /\ \E t \in refreshTokens : RefreshAdmin(t) \/ (t.type = "user" /\ RefreshUser(t))
  /\ UNCHANGED <<users, admins, mail, topic, clock, scene, faults, amiss>>

\* The cookie is cleared, nothing is kept of tokens in the service.
Logout ==
  /\ Asked("logout")
  /\ \E t \in refreshTokens : ClearCookie(t)
  /\ UNCHANGED <<users, admins, mail, accessTokens, requests, topic, clock, scene, faults, amiss>>

\* Two sign-ups of one admin end with one row: the address is unique.
CreateAdminRow(a) == a \notin admins /\ admins' = admins \cup {a}
CreateAdmin(a) == CreateAdminRow(a)
AdminSignup ==
  /\ Asked("admin")
  /\ \E a \in Admin : CreateAdmin(a)
  /\ UNCHANGED <<users, mail, tokens, requests, topic, clock, scene, faults, amiss>>
RetrieveAdminByEmail(a) == a \in admins
AdminEmailLogin(a) ==
  /\ RetrieveAdminByEmail(a)
  /\ accessTokens' = accessTokens \cup {Token("admin", a, 0)}
  /\ refreshTokens' = refreshTokens \cup {Token("admin", a, 0)}
AdminLogin ==
  /\ Asked("admin")
  /\ \E a \in Admin : AdminEmailLogin(a)
  /\ UNCHANGED <<users, admins, mail, requests, topic, clock, scene, faults, amiss>>

--------------------------------------------------------------------------
(* Changes of a row that are announced. *)

Changes(kind, e, row, carries) ==
  /\ Put(e, row)
  /\ requests' = requests \cup {ToPublish(kind, e, carries)}
  /\ UNCHANGED <<admins, mail, tokens, topic, clock, scene, faults, amiss>>

\* The whole row is announced, the block as it was read included.
UpdateUserProfile(e, n) ==
  LET row == UpdateNameAndBio(e, n) IN Changes("updated", e, row, row.shown)
UpdateProfile ==
  /\ Asked("profile")
  /\ \E e \in DOMAIN users : AuthorizedUser(e) /\ UpdateUserProfile(e, acts')

UpdateUserAvatar(e, n) ==
  LET row == UpdateAvatar(e, n) IN Changes("avatar", e, row, Only("avatar", row))
UpdateAvatarPhoto ==
  /\ Asked("picture")
  /\ \E e \in DOMAIN users : AuthorizedUser(e) /\ UpdateUserAvatar(e, acts')

UpdateUserCoverPhoto(e, n) ==
  LET row == UpdateCoverPhoto(e, n) IN Changes("cover", e, row, Only("cover", row))
UpdateCover ==
  /\ Asked("picture")
  /\ \E e \in DOMAIN users : AuthorizedUser(e) /\ UpdateUserCoverPhoto(e, acts')

AdminUpdateUserBlockStatus(e, b) ==
  LET row == UpdateBlockStatus(e, b) IN Changes("block", e, row, Only("blocked", row))
BlockUser ==
  /\ Asked("block")
  /\ \E e \in DOMAIN users, b \in BOOLEAN :
       AuthorizedAdmin /\ AdminUpdateUserBlockStatus(e, b)

--------------------------------------------------------------------------
(* email-service: a letter that cannot be sent is logged and forgotten. *)

SendVerificationMail(l) == l.kind = "code" /\ mailbox' = mailbox \cup {l}
SendRecoveryMail(l) == l.kind = "reset" /\ mailbox' = mailbox \cup {l}
SendMail(l) ==
  \/ (SendVerificationMail(l) \/ SendRecoveryMail(l)) /\ UNCHANGED faults
  \/ Fault /\ UNCHANGED mailbox
Deliver ==
  /\ \E l \in letters : SendMail(l) /\ letters' = letters \ {l}
  /\ UNCHANGED <<users, admins, signUps, tokens, requests, topic, clock, scene, acts, amiss>>

\* What users are shown of themselves.
CurrentUserProfile(e) ==
  [f \in {"name", "avatar", "cover"} |-> RetrieveUserById(e).shown[f]]

Next ==
  \/ Signup \/ Verify \/ AskForReset \/ ResetPassword \/ AskForChange \/ ChangePassword
  \/ Login \/ GoogleAuth \/ UserGoogleAuth \/ IssueTokens \/ Refresh \/ Logout
  \/ AdminSignup \/ AdminLogin
  \/ UpdateProfile \/ UpdateAvatarPhoto \/ UpdateCover \/ BlockUser
  \/ Publish \/ Deliver

--------------------------------------------------------------------------
(* Properties. *)

\* A blocked user acts as himself only with tokens asked for before the block: no
\* login and no refresh that began later gives one of type user (UserEmailLogin,
\* UserGoogleAuth, RefreshUserAccessToken).  It says nothing of type admin, which
\* the admins' route gives for any refresh token, blocked or not (RefreshAdmin).
BlockedStaysOut ==
  \A t \in accessTokens :
    t.type = "user" /\ users[t.who].shown.blocked => t.asked < users[t.who].blocks
============================================================================
