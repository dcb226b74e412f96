-------------------------- MODULE UserServiceProof --------------------------
(***************************************************************************)
(* Proofs about what user-service keeps, for any users, calls, partitions,  *)
(* addresses, scenes and bounds.  Of accounts with their index (Accounts,   *)
(* ProfileIndex):                                                           *)
(*   - nobody gets a token by a login or a refresh that was asked for while *)
(*     he was blocked, though the handler signs it after its last wait;     *)
(*   - an account a sign-up made is one whose code reached its address, and *)
(*     an account is announced as made by what made it only;                *)
(*   - once nothing of a user is left to be announced or handled, the index *)
(*     shows his row, unless an event of his was lost, overtaken or out of  *)
(*     date.                                                                *)
(* Of friendships with their notifications (Friendship,                     *)
(* FriendNotifications):                                                    *)
(*   - the events tell what the table holds, however calls race;            *)
(*   - events read again never make a second notification of a request, nor *)
(*     one that was accepted fall back;                                     *)
(*   - if nobody hurries, the notifications come to mirror the table.       *)
(***************************************************************************)
EXTENDS ProfileIndex, FriendNotifications, FiniteSetTheorems, TLAPS


HasFields(r) ==
  /\ r = [origin |-> r.origin, password |-> r.password, created |-> r.created,
          blocks |-> r.blocks, shown |-> r.shown]
  /\ r.shown = [name |-> r.shown.name, avatar |-> r.shown.avatar,
                cover |-> r.shown.cover, blocked |-> r.shown.blocked]
CountsBlocks(r) ==
  /\ r.blocks \in Nat /\ r.shown.blocked \in BOOLEAN
  /\ r.shown.blocked => r.blocks > 0
IsRow(r) == HasFields(r) /\ CountsBlocks(r)

\* Rows are rows, and whoever acts on an address has seen its row.
RowsInv ==
  /\ \A e \in DOMAIN users : IsRow(users[e])
  /\ \A l \in letters \cup mailbox : l.kind = "reset" => l.to \in DOMAIN users
  /\ \A r \in requests : r.step # "google" => r.who \in DOMAIN users

\* Asked for before the last block, if there is one now.
Early(x) ==
  /\ x.asked \in Nat /\ x.who \in DOMAIN users
  /\ x.asked <= users[x.who].blocks
  /\ users[x.who].shown.blocked => x.asked < users[x.who].blocks

AllEarly ==
  /\ \A t \in accessTokens : t.type = "user" => Early(t)
  /\ \A r \in requests : r.step \in {"login", "refresh"} => Early(r)

IInv == RowsInv /\ AllEarly

\* Rows stay, and who becomes blocked is counted as blocked once more.
Advance ==
  \A e \in DOMAIN users :
    /\ e \in DOMAIN users' /\ users'[e].blocks \in Nat
    /\ users'[e].blocks >= users[e].blocks
    /\ users'[e].shown.blocked => \/ users'[e].blocks > users[e].blocks
                                  \/ users[e].shown.blocked

LEMMA PInitIInv == PInit => IInv
<1> SUFFICES ASSUME PInit PROVE IInv
  OBVIOUS
<1>1. RowsInv
  BY DEF PInit, Init, RowsInv, IsRow, HasFields, CountsBlocks
<1>2. AllEarly
  BY AccountsAssumption DEF PInit, Init, AllEarly, Early
<1> QED BY <1>1, <1>2 DEF IInv

LEMMA EarlyStaysEarly ==
  ASSUME RowsInv, Advance, NEW x, Early(x)
  PROVE  Early(x)'
BY DEF RowsInv, IsRow, CountsBlocks, Advance, Early

LEMMA PutAdvances ==
  ASSUME RowsInv, NEW e, NEW row, Put(e, row), IsRow(row),
         e \in DOMAIN users => /\ row.blocks >= users[e].blocks
                               /\ row.shown.blocked => \/ row.blocks > users[e].blocks
                                                       \/ users[e].shown.blocked
  PROVE  /\ Advance /\ \A x \in DOMAIN users' : IsRow(users'[x])
         /\ DOMAIN users' = DOMAIN users \cup {e}
<1>1. DOMAIN users' = DOMAIN users \cup {e}
  BY DEF Put
<1>2. users'[e] = row /\ \A x \in DOMAIN users \ {e} : users'[x] = users[x]
  BY DEF Put
<1>3. \A x \in DOMAIN users' : IsRow(users'[x])
  BY <1>1, <1>2 DEF RowsInv
<1>4. Advance
  BY <1>1, <1>2 DEF Advance, RowsInv, IsRow, CountsBlocks
<1> QED BY <1>1, <1>3, <1>4

LEMMA NoRowChanged ==
  ASSUME RowsInv, UNCHANGED users
  PROVE  /\ Advance /\ \A x \in DOMAIN users' : IsRow(users'[x])
         /\ DOMAIN users' = DOMAIN users
BY DEF RowsInv, Advance, IsRow, CountsBlocks

\* What a step has to show for the invariant.
LEMMA StepIInv ==
  ASSUME IInv, Advance,
         \A e \in DOMAIN users' : IsRow(users'[e]),
         \A l \in letters' \cup mailbox' : 
           l \in letters \cup mailbox \/ (l.kind = "reset" => l.to \in DOMAIN users'),
         \A r \in requests' :
           r \in requests \/ /\ r.step # "google" => r.who \in DOMAIN users'
                             /\ r.step \in {"login", "refresh"} => Early(r)',
         \A t \in accessTokens' : t \in accessTokens \/ (t.type = "user" => Early(t)')
  PROVE  IInv'
<1>1. \A x : Early(x) => Early(x)'
  BY EarlyStaysEarly DEF IInv
<1>2. AllEarly'
  BY <1>1 DEF IInv, AllEarly
<1>3. RowsInv'
  BY DEF IInv, RowsInv, Advance
<1> QED BY <1>2, <1>3 DEF IInv

----------------------------------------------------------------------------
(* What is written of a row. *)

Keeps(row, e) ==
  /\ IsRow(row)
  /\ row.blocks = users[e].blocks /\ row.shown.blocked = users[e].shown.blocked

LEMMA UpdatesKeep ==
  ASSUME RowsInv, NEW e \in DOMAIN users, NEW n
  PROVE  /\ Keeps([users[e] EXCEPT !.password = n], e)
         /\ Keeps(UpdateNameAndBio(e, n), e)
         /\ Keeps(UpdateAvatar(e, n), e)
         /\ Keeps(UpdateCoverPhoto(e, n), e)
BY DEF RowsInv, IsRow, HasFields, CountsBlocks, Keeps, UpdateNameAndBio, UpdateAvatar, UpdateCoverPhoto

LEMMA BlockCounts ==
  ASSUME RowsInv, NEW e \in DOMAIN users, NEW b \in BOOLEAN
  PROVE  /\ IsRow(UpdateBlockStatus(e, b))
         /\ UpdateBlockStatus(e, b).blocks >= users[e].blocks
         /\ b => UpdateBlockStatus(e, b).blocks > users[e].blocks
         /\ UpdateBlockStatus(e, b).shown.blocked = b
<1> DEFINE r == users[e]
           row == [origin |-> r.origin, password |-> r.password, created |-> r.created,
                   blocks |-> IF b THEN r.blocks + 1 ELSE r.blocks,
                   shown |-> [name |-> r.shown.name, avatar |-> r.shown.avatar,
                              cover |-> r.shown.cover, blocked |-> b]]
<1>1. HasFields(r) /\ r.blocks \in Nat
  BY DEF RowsInv, IsRow, CountsBlocks
<1>2. UpdateBlockStatus(e, b) = row
  <2>1. [r.shown EXCEPT !.blocked = b] = row.shown
    BY <1>1 DEF HasFields
  <2>2. UpdateBlockStatus(e, b) = [origin |-> r.origin, password |-> r.password,
          created |-> r.created, blocks |-> IF b THEN r.blocks + 1 ELSE r.blocks,
          shown |-> [r.shown EXCEPT !.blocked = b]]
    <3> DEFINE shown == [r.shown EXCEPT !.blocked = b]
               blocks == IF b THEN r.blocks + 1 ELSE r.blocks
    <3>1. r = [origin |-> r.origin, password |-> r.password, created |-> r.created,
               blocks |-> r.blocks, shown |-> r.shown]
      BY <1>1 DEF HasFields
    <3>2. UpdateBlockStatus(e, b) = [[r EXCEPT !.shown = shown] EXCEPT !.blocks = blocks]
      BY <3>1 DEF UpdateBlockStatus
    <3> HIDE DEF shown, blocks
    <3>3. [r EXCEPT !.shown = shown] =
            [origin |-> r.origin, password |-> r.password, created |-> r.created,
             blocks |-> r.blocks, shown |-> shown]
      BY <3>1
    <3>4. UpdateBlockStatus(e, b) =
            [origin |-> r.origin, password |-> r.password, created |-> r.created,
             blocks |-> blocks, shown |-> shown]
      BY <3>2, <3>3
    <3> QED BY <3>4 DEF shown, blocks
  <2> QED BY <2>1, <2>2
<1>3. IsRow(row)
  BY <1>1 DEF IsRow, HasFields, CountsBlocks
<1> QED BY <1>1, <1>2, <1>3

LEMMA KeepingAdvances ==
  ASSUME RowsInv, NEW e \in DOMAIN users, NEW row, Keeps(row, e), Put(e, row)
  PROVE  /\ Advance /\ \A x \in DOMAIN users' : IsRow(users'[x])
         /\ DOMAIN users' = DOMAIN users
<1>1. row.blocks >= users[e].blocks
  BY DEF RowsInv, IsRow, CountsBlocks, Keeps
<1> QED BY <1>1, PutAdvances DEF Keeps

LEMMA CreatingAdvances ==
  ASSUME RowsInv, NEW e, ~EmailExists(e), NEW n, NEW password, Put(e, NewRow(n, password))
  PROVE  /\ Advance /\ \A x \in DOMAIN users' : IsRow(users'[x])
         /\ e \in DOMAIN users'
<1>1. IsRow(NewRow(n, password))
  BY DEF IsRow, HasFields, CountsBlocks, NewRow
<1> QED BY <1>1, PutAdvances DEF EmailExists

----------------------------------------------------------------------------
(* The steps. *)

LEMMA ReadingIsEarly ==
  ASSUME RowsInv, NEW step, NEW e \in DOMAIN users, ~users[e].shown.blocked, UNCHANGED users,
         NEW r, r = Reading(step, e)
  PROVE  r.who = e /\ Early(r)'
<1>1. r.who = e /\ r.asked = users[e].blocks
  BY DEF Reading
<1> QED BY <1>1 DEF RowsInv, IsRow, CountsBlocks, Early

LEMMA NextIInv == IInv /\ Next => IInv'
<1> SUFFICES ASSUME IInv, Next PROVE IInv'
  OBVIOUS
<1> RowsInv /\ AllEarly
  BY DEF IInv
<1>1. CASE Signup \/ Deliver
  BY <1>1, NoRowChanged, StepIInv
  DEF Signup, SignupUser, Letter, Deliver, SendMail, SendVerificationMail, SendRecoveryMail, mail, tokens
<1>2. CASE Verify
  <2>1. PICK s \in signUps, code \in mailbox : VerifyUser(s, code)
    BY <1>2 DEF Verify
  <2>2. /\ Advance /\ \A x \in DOMAIN users' : IsRow(users'[x])
        /\ s.email \in DOMAIN users'
    BY <2>1, CreatingAdvances DEF VerifyUser, Create
  <2>3. \A r \in requests' : r \in requests \/ (r.step = "publish" /\ r.who = s.email)
    BY <2>1 DEF VerifyUser, ToPublish
  <2> QED BY <1>2, <2>2, <2>3, StepIInv DEF Verify, mail, tokens
<1>3. CASE AskForReset
  BY <1>3, NoRowChanged, StepIInv DEF AskForReset, ForgotPassword, EmailExists, Letter, tokens
<1>4. CASE ResetPassword
  <2>1. PICK l \in mailbox : RecoverPassword(l)
    BY <1>4 DEF ResetPassword
  <2>2. l.to \in DOMAIN users
    BY <2>1 DEF RowsInv, RecoverPassword
  <2>3. Advance /\ \A x \in DOMAIN users' : IsRow(users'[x])
    BY <2>1, <2>2, UpdatesKeep, KeepingAdvances DEF RecoverPassword, ChangePasswordOf
  <2> QED BY <1>4, <2>3, StepIInv DEF ResetPassword, mail, tokens
<1>5. CASE AskForChange
  <2>1. \A r \in requests' : r \in requests \/ (r.step = "change" /\ r.who \in DOMAIN users)
    BY <1>5 DEF AskForChange
  <2> QED BY <1>5, <2>1, NoRowChanged, StepIInv DEF AskForChange, mail, tokens
<1>6. CASE ChangePassword
  <2>1. PICK r \in requests :
          r.step = "change" /\ ChangePasswordOf(r.who, r.n) /\ requests' = requests \ {r}
    BY <1>6 DEF ChangePassword
  <2>2. Advance /\ \A x \in DOMAIN users' : IsRow(users'[x])
    BY <2>1, UpdatesKeep, KeepingAdvances DEF ChangePasswordOf, RowsInv
  <2> QED BY <1>6, <2>1, <2>2, StepIInv DEF ChangePassword, mail, tokens
<1>7. CASE Login
  <2>1. PICK e \in DOMAIN users : /\ ~users[e].shown.blocked
                                  /\ requests' = requests \cup {Reading("login", e)}
    BY <1>7 DEF Login, MayLogin, RetrieveUserByEmail
  <2>2. \A r \in requests' : r \in requests \/ (r.who = e /\ Early(r)')
    BY <1>7, <2>1, ReadingIsEarly DEF Login
  <2> QED BY <1>7, <2>2, NoRowChanged, StepIInv DEF Login, mail, tokens
<1>8. CASE GoogleAuth
  <2>1. PICK e \in Email : GoogleRead(e)
    BY <1>8 DEF GoogleAuth
  <2>2. ASSUME NEW r \in requests', r \notin requests
        PROVE  r.step = "google" \/ (r.who \in DOMAIN users /\ Early(r)')
    BY <1>8, <2>1, <2>2, ReadingIsEarly DEF GoogleAuth, GoogleRead, EmailExists, RetrieveUserByEmail
  <2> QED BY <1>8, <2>2, NoRowChanged, StepIInv DEF GoogleAuth, mail, tokens
<1>9. CASE UserGoogleAuth
  <2>1. PICK r \in requests :
          /\ r.step = "google" /\ GoogleAuthCreate(r.who, r.n)
          /\ \A q \in requests' : q \in requests \/ (q.step = "publish" /\ q.who = r.who)
    BY <1>9 DEF UserGoogleAuth
  <2>2. /\ Advance /\ \A x \in DOMAIN users' : IsRow(users'[x])
        /\ r.who \in DOMAIN users'
    BY <2>1, CreatingAdvances DEF GoogleAuthCreate
  <2> QED BY <1>9, <2>1, <2>2, StepIInv DEF UserGoogleAuth, mail, tokens
<1>10. CASE IssueTokens
  <2>1. PICK r \in requests :
          /\ r.step \in {"login", "refresh"}
          /\ accessTokens' = accessTokens \cup {Token("user", r.who, r.asked)}
          /\ requests' = requests \ {r}
    BY <1>10 DEF IssueTokens
  <2>2. Early(Token("user", r.who, r.asked))'
    BY <1>10, <2>1 DEF AllEarly, Early, Token, IssueTokens
  <2> QED BY <1>10, <2>1, <2>2, NoRowChanged, StepIInv DEF IssueTokens, mail
<1>11. CASE Refresh
  <2>1. PICK t \in refreshTokens :
          RefreshAdmin(t) \/ (t.type = "user" /\ RefreshUser(t))
    BY <1>11 DEF Refresh
  <2>2. ASSUME NEW r \in requests', r \notin requests
        PROVE  r.who \in DOMAIN users /\ Early(r)'
    BY <1>11, <2>1, <2>2, ReadingIsEarly DEF Refresh, RefreshAdmin, RefreshUser, MayRefresh, EmailExists, ClearCookie
  <2>3. \A x \in accessTokens' : x \in accessTokens \/ x.type = "admin"
    BY <2>1 DEF RefreshAdmin, RefreshUser, Token, ClearCookie, tokens
  <2> QED BY <1>11, <2>2, <2>3, NoRowChanged, StepIInv DEF Refresh, mail
<1>12. CASE Logout \/ AdminSignup
  BY <1>12, NoRowChanged, StepIInv DEF Logout, AdminSignup, mail, tokens
<1>13. CASE AdminLogin
  <2>1. \A x \in accessTokens' : x \in accessTokens \/ x.type = "admin"
    BY <1>13 DEF AdminLogin, AdminEmailLogin, Token
  <2> QED BY <1>13, <2>1, NoRowChanged, StepIInv DEF AdminLogin, mail
<1>14. ASSUME NEW kind, NEW e \in DOMAIN users, NEW row, NEW carries, Changes(kind, e, row, carries),
              Advance, \A x \in DOMAIN users' : IsRow(users'[x])
       PROVE  IInv'
  <2>1. \A r \in requests' : r \in requests \/ (r.step = "publish" /\ r.who = e)
    BY <1>14 DEF Changes, ToPublish
  <2> QED BY <1>14, <2>1, StepIInv DEF Changes, Advance, mail, tokens
<1>15. CASE UpdateProfile \/ UpdateAvatarPhoto \/ UpdateCover
  <2>1. PICK e \in DOMAIN users :
          UpdateUserProfile(e, acts') \/ UpdateUserAvatar(e, acts') \/ UpdateUserCoverPhoto(e, acts')
    BY <1>15 DEF UpdateProfile, UpdateAvatarPhoto, UpdateCover
  <2>2. PICK kind, row, carries : Keeps(row, e) /\ Changes(kind, e, row, carries)
    BY <2>1, UpdatesKeep DEF UpdateUserProfile, UpdateUserAvatar, UpdateUserCoverPhoto
  <2>3. Advance /\ \A x \in DOMAIN users' : IsRow(users'[x])
    BY <2>2, KeepingAdvances DEF Changes
  <2> QED BY <1>14, <2>2, <2>3
<1>16. CASE BlockUser
  <2>1. PICK e \in DOMAIN users, b \in BOOLEAN : AdminUpdateUserBlockStatus(e, b)
    BY <1>16 DEF BlockUser
  <2> DEFINE row == UpdateBlockStatus(e, b)
  <2>2. Changes("block", e, row, Only("blocked", row))
    BY <2>1 DEF AdminUpdateUserBlockStatus
  <2>3. IsRow(row) /\ row.blocks >= users[e].blocks /\ (row.shown.blocked => row.blocks > users[e].blocks)
    BY BlockCounts
  <2> HIDE DEF row
  <2>4. Advance /\ \A x \in DOMAIN users' : IsRow(users'[x])
    BY <2>2, <2>3, PutAdvances DEF Changes
  <2> QED BY <1>14, <2>2, <2>4
<1>17. CASE Publish
  <2>1. PICK r \in requests : r.step = "publish" /\ Send(r)
    BY <1>17 DEF Publish
  <2>2. ASSUME NEW q \in requests', q \notin requests
        PROVE  q.who \in DOMAIN users /\ Early(q)'
    <3>1. q.who = r.who /\ q.asked = 0
      BY <2>1, <2>2 DEF Send, GoesOn
    <3>2. r.who \in DOMAIN users
      BY <2>1 DEF RowsInv
    <3> QED BY <1>17, <3>1, <3>2 DEF Publish, Early, RowsInv, IsRow, CountsBlocks
  <2> QED BY <1>17, <2>2, NoRowChanged, StepIInv DEF Publish, mail, tokens
<1> QED
  BY <1>1, <1>2, <1>3, <1>4, <1>5, <1>6, <1>7, <1>8, <1>9, <1>10, <1>11, <1>12, <1>13,
     <1>15, <1>16, <1>17 DEF Next

\* The index only reads what user-service publishes.
LEMMA PNextIInv == IInv /\ [PNext]_<<avars, pvars>> => IInv'
<1> SUFFICES ASSUME IInv, [PNext]_<<avars, pvars>> PROVE IInv'
  OBVIOUS
<1>1. CASE Next
  BY <1>1, NextIInv
<1>2. CASE ~Next
  <2>1. UNCHANGED <<users, mail, accessTokens, requests>>
    BY <1>2 DEF PNext, EachMessage, Background, Stops, Restarts, userService, avars, tokens
  <2> QED BY <2>1 DEF IInv, RowsInv, AllEarly, Early, mail
<1> QED BY <1>1, <1>2

\* No login, Google login or refresh that began after a block gives a token of
\* type user (UserEmailLogin, UserGoogleAuth, RefreshUserAccessToken), whatever
\* they wait for, whichever route is asked and whatever is blocked and unblocked
\* meanwhile.
THEOREM BlockedUsersStayOut == PSpec => []BlockedStaysOut
<1>1. IInv => BlockedStaysOut
  BY DEF IInv, AllEarly, Early, BlockedStaysOut
<1> QED
  BY <1>1, PInitIInv, PNextIInv, PTL DEF PSpec

----------------------------------------------------------------------------
(* Accounts. *)

Publishing == {r \in requests : r.step = "publish"}
Announcements == Publishing \cup topic \cup handled
Creation == {"created", "googleCreated"}

\* Acts are numbered, and what an act leads to bears its number.
NumbersInv ==
  /\ acts \in Nat
  /\ \A s \in signUps : s.n \in 1..acts /\ s.email \in Email
  /\ \A l \in letters \cup mailbox : l.kind = "code" => l.n \in 1..acts
  /\ \A r \in requests : r.step = "google" => r.n \in 1..acts /\ r.who \in Email
  /\ \A a \in Announcements : a.n \in 0..acts
  /\ \A e \in DOMAIN users : e \in Email /\ users[e].origin \in 0..acts
\* A code was sent to the address of its sign-up; it is only behind an account
\* if it arrived there.
CodesInv ==
  /\ \A l \in letters \cup mailbox, s \in signUps :
       l.kind = "code" /\ l.n = s.n => l.to = s.email
  /\ \A r \in requests, s \in signUps : r.step = "google" => r.n # s.n
  /\ \A e \in DOMAIN users, s \in signUps :
       users[e].origin = s.n => \E l \in mailbox : l.kind = "code" /\ l.to = e /\ l.n = s.n
CreatedInv ==
  \A a \in Announcements :
    /\ a.who \in DOMAIN users
    /\ a.kind \in Creation => a.n = users[a.who].origin
ProvenInv == NumbersInv /\ CodesInv /\ CreatedInv

RowsStay ==
  \A e \in DOMAIN users :
    /\ e \in DOMAIN users' /\ users'[e].origin = users[e].origin
    /\ users'[e].created = users[e].created

LEMMA PInitProven == PInit => ProvenInv
<1> SUFFICES ASSUME PInit PROVE ProvenInv
  OBVIOUS
<1>1. /\ requests = {} /\ topic = {} /\ handled = {} /\ signUps = {} /\ letters = {} /\ mailbox = {}
      /\ acts = 0 /\ \A e \in DOMAIN users : e \in Email /\ users[e].origin = 0
  BY AccountsAssumption DEF PInit, Init
<1> QED
  BY <1>1 DEF ProvenInv, NumbersInv, CodesInv, CreatedInv, Announcements, Publishing

\* What a step other than a sign-up has to show for these invariants.
NoNewCodes ==
  /\ signUps' = signUps /\ mailbox \subseteq mailbox'
  /\ \A l \in letters' \cup mailbox' : l.kind = "code" => l \in letters \cup mailbox
Numbered ==
  /\ acts' = acts \/ acts' = acts + 1
  /\ \A r \in requests' : r.step = "google" =>
       \/ r \in requests
       \/ r.n = acts + 1 /\ acts' = acts + 1 /\ r.who \in Email
Announced(a) ==
  /\ a.n \in 0..acts' /\ a.who \in DOMAIN users'
  /\ a.kind \in Creation => a.n = users'[a.who].origin
Made(e) ==
  /\ e \in Email /\ users'[e].origin \in 0..acts'
  /\ \A s \in signUps : users'[e].origin = s.n =>
       \E l \in mailbox : l.kind = "code" /\ l.to = e /\ l.n = s.n

LEMMA StepProven ==
  ASSUME ProvenInv, RowsStay, NoNewCodes, Numbered,
         \A a \in Announcements' : a \in Announcements \/ Announced(a),
         \A e \in DOMAIN users' : e \in DOMAIN users \/ Made(e)
  PROVE  ProvenInv'
<1>1. acts \in Nat /\ acts' \in Nat /\ acts <= acts'
  BY DEF ProvenInv, NumbersInv, Numbered
<1>2. NumbersInv'
  <2>1. \A s \in signUps' : s.n \in 1..acts' /\ s.email \in Email
    BY <1>1 DEF ProvenInv, NumbersInv, NoNewCodes, Numbered, Announced
  <2>2. \A l \in letters' \cup mailbox' : l.kind = "code" => l.n \in 1..acts'
    BY <1>1 DEF ProvenInv, NumbersInv, NoNewCodes, Numbered, Announced
  <2>3. \A r \in requests' : r.step = "google" => r.n \in 1..acts' /\ r.who \in Email
    BY <1>1 DEF ProvenInv, NumbersInv, NoNewCodes, Numbered, Announced
  <2>4. \A a \in Announcements' : a.n \in 0..acts'
    BY <1>1 DEF ProvenInv, NumbersInv, NoNewCodes, Numbered, Announced
  <2>5. \A e \in DOMAIN users' : e \in Email /\ users'[e].origin \in 0..acts'
    BY <1>1 DEF ProvenInv, NumbersInv, RowsStay, Made
  <2> QED BY <1>1, <2>1, <2>2, <2>3, <2>4, <2>5 DEF NumbersInv
<1>3. CodesInv'
  <2>1. \A l \in letters' \cup mailbox', s \in signUps' :
          l.kind = "code" /\ l.n = s.n => l.to = s.email
    BY DEF ProvenInv, CodesInv, NoNewCodes
  <2>2. \A r \in requests', s \in signUps' : r.step = "google" => r.n # s.n
    BY <1>1 DEF ProvenInv, CodesInv, NumbersInv, NoNewCodes, Numbered
  <2>3. ASSUME NEW e \in DOMAIN users', NEW s \in signUps', users'[e].origin = s.n
        PROVE  \E l \in mailbox' : l.kind = "code" /\ l.to = e /\ l.n = s.n
    BY <2>3 DEF ProvenInv, CodesInv, RowsStay, NoNewCodes, Made
  <2> QED BY <2>1, <2>2, <2>3 DEF CodesInv
<1>4. CreatedInv'
  <2> SUFFICES ASSUME NEW a \in Announcements'
               PROVE  /\ a.who \in DOMAIN users'
                      /\ a.kind \in Creation => a.n = users'[a.who].origin
    BY DEF CreatedInv
  <2> QED BY DEF ProvenInv, CreatedInv, RowsStay, Announced
<1> QED BY <1>2, <1>3, <1>4 DEF ProvenInv

LEMMA SignupProven == ProvenInv /\ Signup /\ UNCHANGED pvars => ProvenInv'
<1> SUFFICES ASSUME ProvenInv, Signup, UNCHANGED pvars PROVE ProvenInv'
  OBVIOUS
<1>1. PICK e \in Email : SignupUser(e)
  BY DEF Signup
<1>2. acts \in Nat /\ acts' = acts + 1
  BY DEF Signup, Asked, ProvenInv, NumbersInv
<1>3. UNCHANGED <<users, mailbox, requests, topic, handled>>
  BY DEF Signup, pvars
<1>4. Announcements' = Announcements
  BY <1>3 DEF Announcements, Publishing
<1> DEFINE l0 == [kind |-> "code", to |-> e, n |-> acts']
           s0 == [n |-> acts', email |-> e]
<1>5. /\ \A l \in letters' : l \in letters \/ (l = l0 /\ s0 \in signUps')
      /\ \A s \in signUps' : s \in signUps \/ s = s0
      /\ \A s \in signUps : s \in signUps'
  BY <1>1 DEF SignupUser, Letter
<1>6. l0.n = acts + 1 /\ l0.to = e /\ s0.n = acts + 1 /\ s0.email = e
  BY <1>2
<1> HIDE DEF l0, s0
<1>7. NumbersInv'
  BY <1>2, <1>3, <1>4, <1>5, <1>6 DEF ProvenInv, NumbersInv
<1>8. CodesInv'
  BY <1>2, <1>3, <1>5, <1>6 DEF ProvenInv, NumbersInv, CodesInv
<1>9. CreatedInv'
  BY <1>3, <1>4 DEF ProvenInv, CreatedInv
<1> QED BY <1>7, <1>8, <1>9 DEF ProvenInv

\* What a write touches of a row.
Touches(row, e, fields) ==
  /\ row.origin = users[e].origin /\ row.created = users[e].created
  /\ \A f \in Field \ fields : row.shown[f] = users[e].shown[f]

LEMMA UpdatesTouch ==
  ASSUME RowsInv, NEW e \in DOMAIN users, NEW n
  PROVE  /\ Touches([users[e] EXCEPT !.password = n], e, {})
         /\ Touches(UpdateNameAndBio(e, n), e, {"name"})
         /\ Touches(UpdateAvatar(e, n), e, {"avatar"})
         /\ Touches(UpdateCoverPhoto(e, n), e, {"cover"})
<1>1. HasFields(users[e])
  BY DEF RowsInv, IsRow
<1>2. Touches([users[e] EXCEPT !.password = n], e, {})
  BY <1>1 DEF HasFields, Touches
<1>3. Touches(UpdateNameAndBio(e, n), e, {"name"})
  BY <1>1 DEF HasFields, Touches, UpdateNameAndBio, Field
<1>4. Touches(UpdateAvatar(e, n), e, {"avatar"})
  BY <1>1 DEF HasFields, Touches, UpdateAvatar, Field
<1>5. Touches(UpdateCoverPhoto(e, n), e, {"cover"})
  BY <1>1 DEF HasFields, Touches, UpdateCoverPhoto, Field
<1> QED BY <1>2, <1>3, <1>4, <1>5

LEMMA BlockTouches ==
  ASSUME RowsInv, NEW e \in DOMAIN users, NEW b
  PROVE  Touches(UpdateBlockStatus(e, b), e, {"blocked"})
<1> DEFINE shown == [users[e].shown EXCEPT !.blocked = b]
           blocks == IF b THEN users[e].blocks + 1 ELSE users[e].blocks
<1>1. HasFields(users[e])
  BY DEF RowsInv, IsRow
<1>2. \A f \in Field \ {"blocked"} : shown[f] = users[e].shown[f]
  BY <1>1 DEF HasFields, Field
<1>3. UpdateBlockStatus(e, b) = [[users[e] EXCEPT !.shown = shown] EXCEPT !.blocks = blocks]
  BY <1>1 DEF UpdateBlockStatus, HasFields
<1> HIDE DEF shown, blocks
<1>4. Touches([[users[e] EXCEPT !.shown = shown] EXCEPT !.blocks = blocks], e, {"blocked"})
  BY <1>1, <1>2 DEF Touches, HasFields
<1> QED BY <1>3, <1>4

\* A new announcement of an account, as far as its row is concerned.
Announces(r) ==
  /\ Publishing' = Publishing \cup {r}
  /\ r.step = "publish" /\ r.who \in DOMAIN users'
  /\ \A e \in DOMAIN users' : e \in DOMAIN users \/ users'[e].created = clock
  /\ \A e \in DOMAIN users', f \in Field :
       \/ e \in DOMAIN users /\ users'[e].shown[f] = users[e].shown[f]
       \/ e = r.who /\ f \in DOMAIN r.carries /\ r.carries[f] = users'[e].shown[f]
Shape(a) ==
  IF a.kind \in {"created", "googleCreated", "updated"} THEN DOMAIN a.carries = Field
  ELSE /\ a.kind \in {"avatar", "cover", "block"}
       /\ \E f \in Field : DOMAIN a.carries = {f}
Same(a, b) == a.kind = b.kind /\ a.who = b.who /\ a.n = b.n
IsFresh(r) ==
  /\ Shape(r) /\ \A a \in Announcements : ~Same(r, a)

\* A step that neither announces nor shows anything new.
Quiet ==
  /\ Publishing' = Publishing /\ RowsStay
  /\ \A e \in DOMAIN users' : /\ e \in DOMAIN users
                              /\ \A f \in Field : users'[e].shown[f] = users[e].shown[f]

LEMMA ShownFields ==
  ASSUME RowsInv, NEW e \in DOMAIN users, NEW n
  PROVE  /\ DOMAIN UpdateNameAndBio(e, n).shown = Field
         /\ DOMAIN UpdateAvatar(e, n).shown = Field
<1>1. HasFields(users[e])
  BY DEF RowsInv, IsRow
<1>2. DOMAIN UpdateNameAndBio(e, n).shown = Field
  BY <1>1 DEF HasFields, UpdateNameAndBio, Field
<1>3. DOMAIN UpdateAvatar(e, n).shown = Field
  BY <1>1 DEF HasFields, UpdateAvatar, Field
<1> QED BY <1>2, <1>3

LEMMA OneRowChanges ==
  ASSUME NEW e \in DOMAIN users, NEW row, NEW fields, Touches(row, e, fields), Put(e, row)
  PROVE  /\ RowsStay /\ DOMAIN users' = DOMAIN users /\ users'[e] = row
         /\ \A x \in DOMAIN users', f \in Field :
              users'[x].shown[f] = users[x].shown[f] \/ (x = e /\ f \in fields)
<1>1. DOMAIN users' = DOMAIN users /\ users'[e] = row /\ \A x \in DOMAIN users \ {e} : users'[x] = users[x]
  BY DEF Put
<1>2. RowsStay
  BY <1>1 DEF Touches, RowsStay
<1>3. \A x \in DOMAIN users', f \in Field :
              users'[x].shown[f] = users[x].shown[f] \/ (x = e /\ f \in fields)
  BY <1>1 DEF Touches
<1> QED BY <1>1, <1>2, <1>3

LEMMA OneRowIsMade ==
  ASSUME NEW e, ~EmailExists(e), NEW n, NEW password, Put(e, NewRow(n, password))
  PROVE  /\ RowsStay /\ DOMAIN users' = DOMAIN users \cup {e}
         /\ users'[e] = NewRow(n, password) /\ \A x \in DOMAIN users : users'[x] = users[x]
<1>1. /\ DOMAIN users' = DOMAIN users \cup {e} /\ users'[e] = NewRow(n, password)
      /\ \A x \in DOMAIN users \ {e} : users'[x] = users[x]
  BY DEF Put
<1> QED BY <1>1 DEF RowsStay, EmailExists

\* A change of a row, with what it announces.
LEMMA ChangeAnnounces ==
  ASSUME ProvenInv, NEW kind, NEW e \in DOMAIN users, NEW row, NEW fields, NEW carries,
         acts' = acts + 1, Touches(row, e, fields), Changes(kind, e, row, carries),
         IF kind = "updated" THEN DOMAIN carries = Field
         ELSE kind \in {"avatar", "cover", "block"} /\ \E f \in Field : DOMAIN carries = {f},
         \A f \in fields : f \in DOMAIN carries /\ carries[f] = row.shown[f],
         UNCHANGED pvars
  PROVE  /\ ProvenInv' /\ RowsStay
         /\ \E r : Announces(r) /\ IsFresh(r)
<1> DEFINE r == [step |-> "publish", kind |-> kind, who |-> e, n |-> acts', carries |-> carries]
<1>1. /\ Put(e, row) /\ requests' = requests \cup {r}
      /\ UNCHANGED <<mail, topic, handled>>
  BY DEF Changes, ToPublish, pvars
<1>2. r.step = "publish" /\ r.kind = kind /\ r.who = e /\ r.n = acts + 1 /\ r.carries = carries
  OBVIOUS
<1> HIDE DEF r
<1>3. /\ RowsStay /\ DOMAIN users' = DOMAIN users /\ users'[e] = row
      /\ \A x \in DOMAIN users', f \in Field :
            users'[x].shown[f] = users[x].shown[f] \/ (x = e /\ f \in fields)
  BY <1>1, OneRowChanges
<1>4. Publishing' = Publishing \cup {r}
  BY <1>1, <1>2 DEF Publishing
<1>5. Announcements' = Announcements \cup {r}
  BY <1>1, <1>4 DEF Announcements
<1>6. acts \in Nat /\ acts' \in Nat /\ \A a \in Announcements : a.n # r.n
  BY <1>2 DEF ProvenInv, NumbersInv
<1>7. kind \notin Creation
  BY DEF Creation
<1>8. ProvenInv'
  <2>1. \A a \in Announcements' : a \in Announcements \/ Announced(a)
    BY <1>2, <1>3, <1>5, <1>6, <1>7 DEF Announced
  <2>2. NoNewCodes
    BY <1>1 DEF mail, NoNewCodes
  <2>3. Numbered
    BY <1>1, <1>2 DEF Numbered
  <2> QED BY <1>3, <2>1, <2>2, <2>3, StepProven
<1>9. Announces(r)
  BY <1>2, <1>3, <1>4 DEF Announces
<1>10. IsFresh(r)
  <2>1. Shape(r)
    BY <1>2 DEF Shape
  <2> QED BY <2>1, <1>6 DEF IsFresh, Same
<1> QED BY <1>3, <1>8, <1>9, <1>10

\* A verification makes the account its code was sent for.
LEMMA VerifyAnnounces ==
  ASSUME ProvenInv, Verify, UNCHANGED pvars
  PROVE  ProvenInv' /\ RowsStay /\ \E r : Announces(r) /\ IsFresh(r)
<1>1. PICK s \in signUps, code \in mailbox : VerifyUser(s, code)
  BY DEF Verify
<1> DEFINE e == s.email
           row == NewRow(s.n, s.n)
           r == [step |-> "publish", kind |-> "created", who |-> e, n |-> s.n, carries |-> row.shown]
<1>2. /\ ~EmailExists(e) /\ Put(e, row)
      /\ requests' = requests \cup {r}
      /\ code.kind = "code" /\ code.n = s.n
  BY <1>1 DEF VerifyUser, Create, CodeMatches, ToPublish
<1>3. UNCHANGED <<mail, topic, handled>> /\ acts' = acts + 1
  BY DEF Verify, Asked, pvars
<1>4. /\ RowsStay /\ DOMAIN users' = DOMAIN users \cup {e}
      /\ users'[e] = row /\ \A x \in DOMAIN users : users'[x] = users[x]
  BY <1>2, OneRowIsMade
<1>5. row.origin = s.n /\ row.created = clock /\ DOMAIN row.shown = Field
  BY DEF NewRow, Field
<1>6. r.step = "publish" /\ r.kind = "created" /\ r.who = e /\ r.n = s.n /\ r.carries = row.shown
  OBVIOUS
<1> HIDE DEF row, r
<1>7. Publishing' = Publishing \cup {r}
  BY <1>2, <1>6 DEF Publishing
<1>8. Announcements' = Announcements \cup {r}
  BY <1>3, <1>7 DEF Announcements
<1>9. acts \in Nat /\ s.n \in 1..acts /\ e \in Email
  BY DEF ProvenInv, NumbersInv
<1>10. \A x \in signUps : x.n = s.n => code.to = e
  BY <1>2 DEF ProvenInv, CodesInv
<1>11. ProvenInv'
  <2>1. \A a \in Announcements' : a \in Announcements \/ Announced(a)
    BY <1>3, <1>4, <1>5, <1>6, <1>8, <1>9 DEF Announced
  <2>2. NoNewCodes
    BY <1>3 DEF mail, NoNewCodes
  <2>3. Numbered
    BY <1>2, <1>3, <1>6 DEF Numbered
  <2>4. \A x \in DOMAIN users' : x \in DOMAIN users \/ Made(x)
    BY <1>2, <1>3, <1>4, <1>5, <1>9, <1>10 DEF Made
  <2> QED BY <1>4, <2>1, <2>2, <2>3, <2>4, StepProven
<1>12. Announces(r)
  <2> SUFFICES ASSUME NEW x \in DOMAIN users', NEW f \in Field
               PROVE  \/ x \in DOMAIN users /\ users'[x].shown[f] = users[x].shown[f]
                      \/ x = r.who /\ f \in DOMAIN r.carries /\ r.carries[f] = users'[x].shown[f]
    BY <1>4, <1>5, <1>6, <1>7 DEF Announces
  <2> QED BY <1>4, <1>5, <1>6
<1>13. IsFresh(r)
  <2>1. Shape(r)
    BY <1>5, <1>6 DEF Shape
  <2>2. ASSUME NEW a \in Announcements, Same(r, a) PROVE FALSE
    BY <1>2, <1>6, <2>2 DEF Same, EmailExists, ProvenInv, CreatedInv
  <2> QED BY <2>1, <2>2 DEF IsFresh
<1> QED BY <1>4, <1>11, <1>12, <1>13

\* A Google login makes an account no code was sent for.
LEMMA GoogleAnnounces ==
  ASSUME ProvenInv, UserGoogleAuth, UNCHANGED pvars
  PROVE  ProvenInv' /\ RowsStay /\ \E r : Announces(r) /\ IsFresh(r)
<1>1. PICK g \in requests :
        /\ g.step = "google" /\ GoogleAuthCreate(g.who, g.n)
        /\ requests' = (requests \ {g}) \cup
             {[step |-> "publish", kind |-> "googleCreated", who |-> g.who, n |-> g.n,
               carries |-> NewRow(g.n, NoPassword).shown]}
  BY DEF UserGoogleAuth
<1> DEFINE row == NewRow(g.n, NoPassword)
           r == [step |-> "publish", kind |-> "googleCreated", who |-> g.who, n |-> g.n,
                 carries |-> row.shown]
<1>2. /\ ~EmailExists(g.who) /\ Put(g.who, row)
      /\ requests' = (requests \ {g}) \cup {r}
  BY <1>1 DEF GoogleAuthCreate
<1>3. UNCHANGED <<mail, topic, handled, acts>>
  BY DEF UserGoogleAuth, pvars
<1>4. /\ RowsStay /\ DOMAIN users' = DOMAIN users \cup {g.who}
      /\ users'[g.who] = row /\ \A x \in DOMAIN users : users'[x] = users[x]
  BY <1>2, OneRowIsMade
<1>5. row.origin = g.n /\ row.created = clock /\ DOMAIN row.shown = Field
  BY DEF NewRow, Field
<1>6. /\ r.step = "publish" /\ r.kind = "googleCreated" /\ r.who = g.who /\ r.n = g.n
      /\ r.carries = row.shown
  OBVIOUS
<1> HIDE DEF row, r
<1>7. Publishing' = Publishing \cup {r}
  BY <1>1, <1>2, <1>6 DEF Publishing
<1>8. Announcements' = Announcements \cup {r}
  BY <1>3, <1>7 DEF Announcements
<1>9. acts \in Nat /\ g.n \in 1..acts /\ g.who \in Email
  BY <1>1 DEF ProvenInv, NumbersInv
<1>10. \A x \in signUps : x.n # g.n
  BY <1>1 DEF ProvenInv, CodesInv
<1>11. ProvenInv'
  <2>1. \A a \in Announcements' : a \in Announcements \/ Announced(a)
    BY <1>3, <1>4, <1>5, <1>6, <1>8, <1>9 DEF Announced
  <2>2. NoNewCodes
    BY <1>3 DEF mail, NoNewCodes
  <2>3. Numbered
    BY <1>2, <1>3, <1>6 DEF Numbered
  <2>4. \A x \in DOMAIN users' : x \in DOMAIN users \/ Made(x)
    BY <1>2, <1>3, <1>4, <1>5, <1>9, <1>10 DEF Made
  <2> QED BY <1>4, <2>1, <2>2, <2>3, <2>4, StepProven
<1>12. Announces(r)
  <2> SUFFICES ASSUME NEW x \in DOMAIN users', NEW f \in Field
               PROVE  \/ x \in DOMAIN users /\ users'[x].shown[f] = users[x].shown[f]
                      \/ x = r.who /\ f \in DOMAIN r.carries /\ r.carries[f] = users'[x].shown[f]
    BY <1>4, <1>5, <1>6, <1>7 DEF Announces
  <2> QED BY <1>4, <1>5, <1>6
<1>13. IsFresh(r)
  <2>1. Shape(r)
    BY <1>5, <1>6 DEF Shape
  <2>2. ASSUME NEW a \in Announcements, Same(r, a) PROVE FALSE
    BY <1>2, <1>6, <2>2 DEF Same, EmailExists, ProvenInv, CreatedInv
  <2> QED BY <2>1, <2>2 DEF IsFresh
<1> QED BY <1>4, <1>11, <1>12, <1>13

\* Steps that change no row, or a password only.
OnlyPasswords ==
  /\ DOMAIN users' = DOMAIN users
  /\ \A e \in DOMAIN users : Touches(users'[e], e, {})

LEMMA NoRowTouched ==
  ASSUME UNCHANGED users PROVE OnlyPasswords
BY DEF OnlyPasswords, Touches

LEMMA PasswordTouches ==
  ASSUME RowsInv, NEW e \in DOMAIN users, NEW n, ChangePasswordOf(e, n)
  PROVE  OnlyPasswords
<1> DEFINE row == [users[e] EXCEPT !.password = n]
<1>1. DOMAIN users' = DOMAIN users /\ users'[e] = row /\ \A x \in DOMAIN users \ {e} : users'[x] = users[x]
  BY DEF ChangePasswordOf, Put
<1>2. Touches(row, e, {})
  BY UpdatesTouch
<1> QED BY <1>1, <1>2 DEF OnlyPasswords, Touches

LEMMA QuietStep ==
  ASSUME ProvenInv, OnlyPasswords, NoNewCodes, Numbered,
         \A r : r.step = "publish" => (r \in requests' <=> r \in requests),
         UNCHANGED <<topic, pvars>>
  PROVE  ProvenInv' /\ RowsStay /\ Quiet
<1>1. Publishing' = Publishing
  BY DEF Publishing
<1>2. Announcements' = Announcements
  BY <1>1 DEF Announcements, pvars
<1>3. RowsStay /\ Quiet
  BY <1>1 DEF OnlyPasswords, Touches, Quiet, RowsStay
<1>4. ProvenInv'
  BY <1>2, <1>3, StepProven DEF OnlyPasswords
<1> QED BY <1>3, <1>4

LEMMA QuietSteps ==
  ASSUME RowsInv, ProvenInv, UNCHANGED pvars,
         \/ AskForReset \/ ResetPassword \/ AskForChange \/ ChangePassword \/ Login \/ GoogleAuth
         \/ IssueTokens \/ Refresh \/ Logout \/ AdminSignup \/ AdminLogin \/ Deliver
  PROVE  ProvenInv' /\ RowsStay /\ Quiet /\ UNCHANGED <<topic, clock, amiss>>
<1>1. UNCHANGED <<topic, clock, amiss, signUps>>
  BY DEF AskForReset, ResetPassword, AskForChange, ChangePassword, Login, GoogleAuth,
         IssueTokens, Refresh, Logout, AdminSignup, AdminLogin, Deliver, mail
<1>2. acts' = acts \/ acts' = acts + 1
  BY DEF AskForReset, ResetPassword, AskForChange, ChangePassword, Login, GoogleAuth,
         IssueTokens, Refresh, Logout, AdminSignup, AdminLogin, Deliver, Asked
<1>3. CASE \/ IssueTokens \/ Login \/ AskForChange \/ Refresh \/ Logout \/ AdminSignup \/ AdminLogin
  <2>1. UNCHANGED <<users, mail>>
    BY <1>3 DEF IssueTokens, Login, AskForChange, Refresh, Logout, AdminSignup, AdminLogin
  <2>2. /\ \A r \in requests' : r \in requests \/ r.step \in {"login", "refresh", "change"}
        /\ \A r \in requests : r \in requests' \/ r.step \in {"login", "refresh"}
    <3>1. CASE Login \/ AskForChange \/ Logout \/ AdminSignup \/ AdminLogin
      BY <3>1 DEF Login, AskForChange, Logout, AdminSignup, AdminLogin, Reading
    <3>2. CASE IssueTokens
      BY <3>2 DEF IssueTokens
    <3>3. CASE Refresh
      BY <3>3 DEF Refresh, RefreshAdmin, RefreshUser, Reading
    <3> QED BY <1>3, <3>1, <3>2, <3>3
  <2>3. NoNewCodes /\ Numbered
    BY <1>2, <2>1, <2>2 DEF NoNewCodes, Numbered, mail
  <2>4. \A r : r.step = "publish" => (r \in requests' <=> r \in requests)
    BY <2>2
  <2> QED BY <1>1, <2>1, <2>3, <2>4, NoRowTouched, QuietStep
<1>4. CASE GoogleAuth
  <2>1. UNCHANGED <<users, mail>> /\ acts' = acts + 1
    BY <1>4 DEF GoogleAuth, Asked
  <2>2. PICK e \in Email : GoogleRead(e)
    BY <1>4 DEF GoogleAuth
  <2>3. PICK r :
          /\ requests' = requests \cup {r}
          /\ r.step = "login" \/ (r.step = "google" /\ r.who \in Email /\ r.n = acts + 1)
    <3>1. CASE EmailExists(e)
      <4> DEFINE g == Reading("login", e)
      <4>1. requests' = requests \cup {g}
        BY <2>2, <3>1 DEF GoogleRead
      <4>2. g.step = "login"
        BY DEF Reading
      <4> HIDE DEF g
      <4> QED BY <4>1, <4>2
    <3>2. CASE ~EmailExists(e)
      <4> DEFINE g == [step |-> "google", who |-> e, n |-> acts']
      <4>1. requests' = requests \cup {g}
        BY <2>2, <3>2 DEF GoogleRead
      <4>2. g.step = "google" /\ g.who \in Email /\ g.n = acts + 1
        BY <2>1
      <4> QED BY <4>1, <4>2
    <3> QED BY <3>1, <3>2
  <2>4. NoNewCodes /\ Numbered
    BY <1>2, <2>1, <2>3 DEF NoNewCodes, Numbered, mail
  <2>5. \A q : q.step = "publish" => (q \in requests' <=> q \in requests)
    BY <2>3
  <2> QED BY <1>1, <2>1, <2>4, <2>5, NoRowTouched, QuietStep
<1>5. CASE AskForReset \/ Deliver
  <2>1. UNCHANGED <<users, requests>>
    BY <1>5 DEF AskForReset, Deliver
  <2>2. CASE AskForReset
    <3>1. PICK e \in Email : ForgotPassword(e)
      BY <2>2 DEF AskForReset
    <3>2. mailbox' = mailbox /\ \A l \in letters' : l \in letters \/ l.kind = "reset"
      BY <2>2, <3>1 DEF AskForReset, ForgotPassword, Letter
    <3>3. NoNewCodes /\ Numbered
      BY <1>1, <1>2, <2>1, <3>2 DEF NoNewCodes, Numbered
    <3> QED BY <1>1, <2>1, <3>3, NoRowTouched, QuietStep
  <2>3. CASE Deliver
    <3>1. PICK l \in letters : SendMail(l) /\ letters' = letters \ {l}
      BY <2>3 DEF Deliver
    <3>2. /\ mailbox \subseteq mailbox'
          /\ \A x \in letters' \cup mailbox' : x \in letters \cup mailbox
      BY <3>1 DEF SendMail, SendVerificationMail, SendRecoveryMail
    <3>3. NoNewCodes /\ Numbered
      BY <1>1, <1>2, <2>1, <3>2 DEF NoNewCodes, Numbered
    <3> QED BY <1>1, <2>1, <3>3, NoRowTouched, QuietStep
  <2> QED BY <1>5, <2>2, <2>3
<1>6. CASE ResetPassword \/ ChangePassword
  <2>1. UNCHANGED mail
    BY <1>6 DEF ResetPassword, ChangePassword
  <2>2. PICK n : \E e \in DOMAIN users : ChangePasswordOf(e, n)
    BY <1>6 DEF ResetPassword, ChangePassword, RecoverPassword, RowsInv
  <2>3. /\ \A r \in requests' : r \in requests
        /\ \A r \in requests : r \in requests' \/ r.step = "change"
    BY <1>6 DEF ResetPassword, ChangePassword
  <2>4. NoNewCodes /\ Numbered
    BY <1>2, <2>1, <2>3 DEF NoNewCodes, Numbered, mail
  <2>5. \A q : q.step = "publish" => (q \in requests' <=> q \in requests)
    BY <2>3
  <2> QED BY <1>1, <2>2, <2>4, <2>5, PasswordTouches, QuietStep
<1> QED BY <1>3, <1>4, <1>5, <1>6

\* The four requests that change a profile.
LEMMA ProfileChanges ==
  ASSUME RowsInv, ProvenInv, UNCHANGED pvars,
         UpdateProfile \/ UpdateAvatarPhoto \/ UpdateCover \/ BlockUser
  PROVE  /\ ProvenInv' /\ RowsStay /\ UNCHANGED <<topic, clock, amiss>>
         /\ \E r : Announces(r) /\ IsFresh(r)
<1>1. acts' = acts + 1
  BY DEF UpdateProfile, UpdateAvatarPhoto, UpdateCover, BlockUser, Asked
<1>2. CASE UpdateProfile
  <2>1. PICK e \in DOMAIN users : UpdateUserProfile(e, acts')
    BY <1>2 DEF UpdateProfile
  <2> DEFINE row == UpdateNameAndBio(e, acts')
  <2>2. Changes("updated", e, row, row.shown)
    BY <2>1 DEF UpdateUserProfile
  <2>3. Touches(row, e, {"name"}) /\ DOMAIN row.shown = Field /\ "name" \in Field
    BY UpdatesTouch, ShownFields DEF Field
  <2> HIDE DEF row
  <2>4. UNCHANGED <<topic, clock, amiss>>
    BY <2>2 DEF Changes
  <2> QED BY <1>1, <2>2, <2>3, <2>4, ChangeAnnounces
<1>3. CASE UpdateAvatarPhoto
  <2>1. PICK e \in DOMAIN users : UpdateUserAvatar(e, acts')
    BY <1>3 DEF UpdateAvatarPhoto
  <2> DEFINE row == UpdateAvatar(e, acts')
             carries == Only("avatar", row)
  <2>2. Changes("avatar", e, row, carries)
    BY <2>1 DEF UpdateUserAvatar
  <2>3. /\ Touches(row, e, {"avatar"}) /\ DOMAIN carries = {"avatar"} /\ "avatar" \in Field
        /\ carries["avatar"] = row.shown["avatar"]
    BY UpdatesTouch DEF Field, Only
  <2> HIDE DEF row, carries
  <2>4. UNCHANGED <<topic, clock, amiss>>
    BY <2>2 DEF Changes
  <2> QED BY <1>1, <2>2, <2>3, <2>4, ChangeAnnounces
<1>4. CASE UpdateCover
  <2>1. PICK e \in DOMAIN users : UpdateUserCoverPhoto(e, acts')
    BY <1>4 DEF UpdateCover
  <2> DEFINE row == UpdateCoverPhoto(e, acts')
             carries == Only("cover", row)
  <2>2. Changes("cover", e, row, carries)
    BY <2>1 DEF UpdateUserCoverPhoto
  <2>3. /\ Touches(row, e, {"cover"}) /\ DOMAIN carries = {"cover"} /\ "cover" \in Field
        /\ carries["cover"] = row.shown["cover"]
    BY UpdatesTouch DEF Field, Only
  <2> HIDE DEF row, carries
  <2>4. UNCHANGED <<topic, clock, amiss>>
    BY <2>2 DEF Changes
  <2> QED BY <1>1, <2>2, <2>3, <2>4, ChangeAnnounces
<1>5. CASE BlockUser
  <2>1. PICK e \in DOMAIN users, b \in BOOLEAN : AdminUpdateUserBlockStatus(e, b)
    BY <1>5 DEF BlockUser
  <2> DEFINE row == UpdateBlockStatus(e, b)
             carries == Only("blocked", row)
  <2>2. Changes("block", e, row, carries)
    BY <2>1 DEF AdminUpdateUserBlockStatus
  <2>3. /\ Touches(row, e, {"blocked"}) /\ DOMAIN carries = {"blocked"} /\ "blocked" \in Field
        /\ carries["blocked"] = row.shown["blocked"]
    BY BlockTouches DEF Field, Only
  <2> HIDE DEF row, carries
  <2>4. UNCHANGED <<topic, clock, amiss>>
    BY <2>2 DEF Changes
  <2> QED BY <1>1, <2>2, <2>3, <2>4, ChangeAnnounces
<1> QED BY <1>2, <1>3, <1>4, <1>5

\* What is published is an event of its own.
SendsOne(r, ev, kept) ==
  /\ r \in Publishing /\ Publishing' = Publishing \ {r}
  /\ ev.kind = r.kind /\ ev.who = r.who /\ ev.n = r.n /\ ev.carries = r.carries
  /\ ev.ts = clock' /\ (clock' = clock \/ clock' = clock + 1)
  /\ ev.created = ev.ts \/ ev.created = users[r.who].created
  /\ topic' = IF kept THEN topic \cup {ev} ELSE topic
  /\ amiss' = IF ~kept \/ OutOfDate(r) THEN amiss \cup {r.who} ELSE amiss

LEMMA PublishSends ==
  ASSUME Publish
  PROVE  \E r, ev : \E kept \in BOOLEAN : SendsOne(r, ev, kept)
<1>1. PICK r \in requests : r.step = "publish" /\ Send(r)
  BY DEF Publish
<1>2. PICK ts \in {clock, clock + 1}, ack \in BOOLEAN, kept \in BOOLEAN :
        /\ clock' = ts
        /\ topic' = IF kept THEN topic \cup {Event(r, ts)} ELSE topic
        /\ amiss' = IF ~kept \/ OutOfDate(r) THEN amiss \cup {r.who} ELSE amiss
        /\ requests' = (requests \ {r}) \cup GoesOn(r, ack)
  BY <1>1 DEF Send
<1>3. \A q \in GoesOn(r, ack) : q.step = "login"
  BY DEF GoesOn
<1>4. Publishing' = Publishing \ {r}
  BY <1>1, <1>2, <1>3 DEF Publishing
<1> DEFINE ev == Event(r, ts)
<1>5. /\ ev.kind = r.kind /\ ev.who = r.who /\ ev.n = r.n /\ ev.carries = r.carries
      /\ ev.ts = ts /\ (ev.created = ev.ts \/ ev.created = users[r.who].created)
  BY DEF Event
<1>6. topic' = IF kept THEN topic \cup {ev} ELSE topic
  BY <1>2
<1> HIDE DEF ev
<1>7. r \in Publishing
  BY <1>1 DEF Publishing
<1> QED BY <1>2, <1>4, <1>5, <1>6, <1>7 DEF SendsOne

LEMMA PublishProven ==
  ASSUME ProvenInv, Publish, UNCHANGED pvars
  PROVE  ProvenInv' /\ RowsStay
<1>1. PICK r, ev : \E kept \in BOOLEAN : SendsOne(r, ev, kept)
  BY PublishSends
<1>2. UNCHANGED <<users, mail, acts, handled>>
  BY DEF Publish, pvars
<1>3. RowsStay
  BY <1>2 DEF RowsStay
<1>4. r \in Announcements /\ ev.kind = r.kind /\ ev.who = r.who /\ ev.n = r.n
  BY <1>1 DEF SendsOne, Announcements
<1>5. \A a \in Announcements' : a \in Announcements \/ a = ev
  BY <1>1, <1>2 DEF SendsOne, Announcements
<1>6. Announced(ev)
  BY <1>2, <1>4 DEF Announced, ProvenInv, NumbersInv, CreatedInv
<1>7. NoNewCodes /\ Numbered
  <2>1. \A q \in requests' : q.step = "google" => q \in requests
    BY DEF Publish, Send, GoesOn
  <2> QED BY <1>2, <2>1 DEF NoNewCodes, Numbered, mail
<1> QED BY <1>2, <1>3, <1>5, <1>6, <1>7, StepProven

\* Each step of user-service announces something new, publishes, or is quiet.
LEMMA NextShows ==
  ASSUME RowsInv, ProvenInv, Next, UNCHANGED pvars
  PROVE  /\ ProvenInv' /\ RowsStay
         /\ \/ Publish
            \/ UNCHANGED <<topic, clock, amiss>> /\ (Quiet \/ \E r : Announces(r) /\ IsFresh(r))
<1>1. CASE Signup
  <2>1. UNCHANGED <<users, requests, topic, clock, amiss>>
    BY <1>1 DEF Signup
  <2>2. Quiet /\ RowsStay
    BY <2>1 DEF Quiet, RowsStay, Publishing
  <2> QED BY <1>1, <2>1, <2>2, SignupProven
<1>2. CASE Verify
  BY <1>2, VerifyAnnounces DEF Verify
<1>3. CASE UserGoogleAuth
  BY <1>3, GoogleAnnounces DEF UserGoogleAuth
<1>4. CASE Publish
  BY <1>4, PublishProven
<1>5. CASE UpdateProfile \/ UpdateAvatarPhoto \/ UpdateCover \/ BlockUser
  BY <1>5, ProfileChanges
<1>6. CASE \/ AskForReset \/ ResetPassword \/ AskForChange \/ ChangePassword \/ Login \/ GoogleAuth
           \/ IssueTokens \/ Refresh \/ Logout \/ AdminSignup \/ AdminLogin \/ Deliver
  BY <1>6, QuietSteps
<1> QED BY <1>1, <1>2, <1>3, <1>4, <1>5, <1>6 DEF Next

\* The index handles what was announced, and makes nothing up.
LEMMA IndexHandles ==
  ASSUME EachMessage \/ Background \/ Stops \/ Restarts
  PROVE  /\ UNCHANGED userService
         /\ topic' \cup handled' \subseteq topic \cup handled
BY DEF EachMessage, Background, Stops, Restarts

LEMMA PNextProven == IInv /\ ProvenInv /\ [PNext]_<<avars, pvars>> => ProvenInv'
<1> SUFFICES ASSUME IInv, ProvenInv, [PNext]_<<avars, pvars>> PROVE ProvenInv'
  OBVIOUS
<1>1. CASE Next /\ UNCHANGED pvars
  BY <1>1, NextShows DEF IInv
<1>2. CASE EachMessage \/ Background \/ Stops \/ Restarts \/ UNCHANGED <<avars, pvars>>
  <2>1. UNCHANGED userService /\ topic' \cup handled' \subseteq topic \cup handled
    BY <1>2, IndexHandles DEF userService, avars, pvars
  <2>2. UNCHANGED <<users, signUps, letters, mailbox, requests, acts>>
    BY <2>1 DEF userService, mail
  <2>3. \A a \in Announcements' : a \in Announcements
    BY <2>1, <2>2 DEF Announcements, Publishing
  <2>4. RowsStay /\ NoNewCodes /\ Numbered
    BY <2>2 DEF RowsStay, NoNewCodes, Numbered
  <2> QED BY <2>2, <2>3, <2>4, StepProven
<1> QED BY <1>1, <1>2 DEF PNext

\* An account that a sign-up made is one whose code reached its address, and an
\* account is announced once as made, by what made it, whichever sign-ups,
\* verifications and Google logins of the address race (VerifyUser,
\* UserGoogleAuth).
THEOREM AccountsAreMadeOnce == PSpec => []AccountsAreProven
<1>1. ProvenInv => AccountsAreProven
  BY DEF ProvenInv, CodesInv, CreatedInv, Announcements, Publishing, Creation, AccountsAreProven
<1> QED
  BY <1>1, PInitIInv, PNextIInv, PInitProven, PNextProven, PTL DEF PSpec

----------------------------------------------------------------------------
(* The index: times and events. *)

Events == topic \cup handled
\* Time goes on, and no event is made before its account or after now.
Times ==
  /\ clock \in Nat
  /\ \A e \in DOMAIN users : users[e].created \in Nat /\ users[e].created <= clock
  /\ \A ev \in Events :
       ev.ts \in Nat /\ ev.created \in Nat /\ ev.ts <= clock /\ ev.created <= ev.ts
  /\ latest \in [Email -> Nat]
  /\ \A e \in DOMAIN docs : docs[e].updatedAt \in Nat
Shapes == \A a \in Announcements : Shape(a)
\* No change is announced twice.
Fresh ==
  /\ \A r \in Publishing, ev \in Events : ~Same(r, ev)
  /\ \A r, q \in Publishing : Same(r, q) => r = q
\* An event that is being handled without being waited for is so once.
Running ==
  /\ \A w \in running :
       /\ w = [step |-> w.step, ev |-> w.ev, first |-> w.first]
       /\ w.step \in {"read", "write"} /\ w.first \in BOOLEAN
       /\ w.ev \in handled /\ w.ev \notin topic /\ w.ev.kind \in {"cover", "block"}
       /\ w.step = "write" => w.ev.who \in DOMAIN docs
  /\ \A w, x \in running : w.ev = x.ev => w = x
BasicsInv == Times /\ Shapes /\ Fresh /\ Running

LEMMA PInitBasics == PInit => BasicsInv
<1> SUFFICES ASSUME PInit PROVE BasicsInv
  OBVIOUS
<1>1. /\ requests = {} /\ topic = {} /\ handled = {} /\ running = {} /\ clock = 1
      /\ \A e \in DOMAIN users : users[e].created = 0
      /\ \A e \in DOMAIN docs : docs[e].updatedAt = 0
      /\ latest = [e \in Email |-> 0]
  BY DEF PInit, Init
<1>2. Times
  BY <1>1 DEF Times, Events
<1> QED
  BY <1>1, <1>2 DEF BasicsInv, Shapes, Fresh, Running, Announcements, Publishing, Events

LEMMA NextBasics ==
  ASSUME RowsInv, ProvenInv, BasicsInv, Next, UNCHANGED pvars
  PROVE  BasicsInv'
<1> USE DEF BasicsInv
<1>1. /\ RowsStay
      /\ \/ Publish
         \/ UNCHANGED <<topic, clock, amiss>> /\ (Quiet \/ \E r : Announces(r) /\ IsFresh(r))
  BY NextShows
<1>2. UNCHANGED <<docs, handled, running, latest>>
  BY DEF pvars
<1>3. CASE UNCHANGED <<topic, clock>> /\ Quiet
  <2>1. /\ Publishing' = Publishing /\ Events' = Events /\ Announcements' = Announcements
        /\ DOMAIN users' \subseteq DOMAIN users
    BY <1>2, <1>3 DEF Quiet, Events, Announcements
  <2>2. Times'
    BY <1>1, <1>2, <1>3, <2>1 DEF Times, RowsStay
  <2>3. Shapes' /\ Fresh' /\ Running'
    BY <1>2, <1>3, <2>1 DEF Shapes, Fresh, Running
  <2> QED BY <2>2, <2>3
<1>4. CASE UNCHANGED <<topic, clock>> /\ \E r : Announces(r) /\ IsFresh(r)
  <2>1. PICK r : Announces(r) /\ IsFresh(r)
    BY <1>4
  <2>2. /\ Publishing' = Publishing \cup {r} /\ Events' = Events
        /\ Announcements' = Announcements \cup {r}
        /\ \A e \in DOMAIN users' : e \in DOMAIN users \/ users'[e].created = clock
    BY <1>2, <1>4, <2>1 DEF Announces, Events, Announcements
  <2>3. Times'
    BY <1>1, <1>2, <1>4, <2>2 DEF Times, RowsStay
  <2>4. Shapes'
    BY <2>1, <2>2 DEF Shapes, IsFresh
  <2>5. \A a \in Publishing \cup Events : ~Same(r, a) /\ ~Same(a, r)
    BY <2>1 DEF IsFresh, Announcements, Same, Events
  <2>6. Fresh'
    BY <2>2, <2>5 DEF Fresh
  <2>7. Running'
    BY <1>2, <1>4 DEF Running
  <2> QED BY <2>3, <2>4, <2>6, <2>7
<1>5. CASE Publish
  <2>1. PICK r, ev : \E kept \in BOOLEAN : SendsOne(r, ev, kept)
    BY <1>5, PublishSends
  <2>2. /\ r \in Publishing /\ Publishing' = Publishing \ {r} /\ users' = users
        /\ Events' \subseteq Events \cup {ev} /\ topic' \subseteq topic \cup {ev}
        /\ Announcements' \subseteq Announcements \cup {ev}
        /\ ev.kind = r.kind /\ ev.who = r.who /\ ev.n = r.n /\ ev.carries = r.carries
    BY <1>2, <1>5, <2>1 DEF SendsOne, Publish, Events, Announcements
  <2>3. /\ ev.ts = clock' /\ (clock' = clock \/ clock' = clock + 1)
        /\ ev.created = ev.ts \/ ev.created = users[r.who].created
        /\ r.who \in DOMAIN users
    BY <2>1, <2>2 DEF SendsOne, ProvenInv, CreatedInv, Announcements
  <2>4. Times'
    <3>1. clock \in Nat /\ clock' \in Nat /\ clock <= clock'
      BY <2>3 DEF Times
    <3>2. ev.ts \in Nat /\ ev.created \in Nat /\ ev.ts <= clock' /\ ev.created <= ev.ts
      BY <2>3, <3>1 DEF Times
    <3>3. \A x \in Events' :
       x.ts \in Nat /\ x.created \in Nat /\ x.ts <= clock' /\ x.created <= x.ts
      BY <2>2, <3>1, <3>2 DEF Times
    <3>4. \A e \in DOMAIN users' : users'[e].created \in Nat /\ users'[e].created <= clock'
      BY <2>2, <3>1 DEF Times
    <3> QED BY <1>2, <3>1, <3>3, <3>4 DEF Times
  <2>5. Shapes'
    BY <2>2 DEF Shapes, Shape, Announcements
  <2>6. \A q : Same(q, ev) <=> Same(q, r)
    BY <2>2 DEF Same
  <2>7. Fresh'
    BY <2>2, <2>6 DEF Fresh
  <2>8. \A w \in running : w.ev # ev
    BY <2>2, <2>6 DEF Running, Fresh, Events, Same
  <2>9. Running'
    BY <1>2, <2>2, <2>8 DEF Running
  <2> QED BY <2>4, <2>5, <2>7, <2>9
<1> QED BY <1>1, <1>3, <1>4, <1>5

OthersKept(e) ==
  /\ DOMAIN docs' = DOMAIN docs \cup {e}
  /\ \A x \in DOMAIN docs \ {e} : docs'[x] = docs[x]

LEMMA StoreWrites ==
  ASSUME NEW e, NEW shown, NEW ts, Store(e, shown, ts)
  PROVE  OthersKept(e) /\ docs'[e].shown = shown /\ docs'[e].updatedAt = ts
<1>1. /\ DOMAIN docs' = DOMAIN docs \cup {e} /\ docs'[e] = [shown |-> shown, updatedAt |-> ts]
      /\ \A x \in DOMAIN docs \ {e} : docs'[x] = docs[x]
  BY DEF Store
<1> QED BY <1>1 DEF OthersKept

LEMMA CreateWrites ==
  ASSUME NEW ev, CreateCommand(ev)
  PROVE  /\ OthersKept(ev.who) /\ docs'[ev.who].updatedAt = ev.created
         /\ docs'[ev.who].shown = ev.carries
BY StoreWrites DEF CreateCommand

LEMMA UpdateWrites ==
  ASSUME NEW ev, UpdateCommand(ev)
  PROVE  /\ OthersKept(ev.who) /\ docs'[ev.who].updatedAt = ev.ts
         /\ \A f \in Field :
              /\ f \in DOMAIN ev.carries => docs'[ev.who].shown[f] = ev.carries[f]
              /\ f \notin DOMAIN ev.carries => docs'[ev.who].shown[f] = docs[ev.who].shown[f]
<1> DEFINE shown == [f \in Field |-> IF f \in DOMAIN ev.carries
                                     THEN ev.carries[f] ELSE docs[ev.who].shown[f]]
<1>1. \A f \in Field :
              /\ f \in DOMAIN ev.carries => shown[f] = ev.carries[f]
              /\ f \notin DOMAIN ev.carries => shown[f] = docs[ev.who].shown[f]
  OBVIOUS
<1>2. Store(ev.who, shown, ev.ts)
  BY DEF UpdateCommand
<1> HIDE DEF shown
<1>3. OthersKept(ev.who) /\ docs'[ev.who].shown = shown /\ docs'[ev.who].updatedAt = ev.ts
  BY <1>2, StoreWrites
<1> QED BY <1>1, <1>3

\* What the index does with an event, as far as times go.
LEMMA WritesKeepTimes ==
  ASSUME ProvenInv, Times, NEW ev \in Events,
         UNCHANGED <<users, clock>>, Events' \subseteq Events,
         CreateCommand(ev) \/ UpdateCommand(ev) \/ UNCHANGED docs,
         Applied(ev) \/ UNCHANGED latest
  PROVE  Times'
<1>1. ev.ts \in Nat /\ ev.created \in Nat /\ ev.who \in Email
  BY DEF Times, ProvenInv, CreatedInv, NumbersInv, Announcements, Events
<1>2. ASSUME NEW e \in DOMAIN docs' PROVE docs'[e].updatedAt \in Nat
  <2>1. ASSUME CreateCommand(ev) PROVE docs'[e].updatedAt \in Nat
    <3>1. OthersKept(ev.who) /\ docs'[ev.who].updatedAt = ev.created
      BY <2>1, CreateWrites
    <3>2. e = ev.who \/ (e \in DOMAIN docs /\ docs'[e] = docs[e])
      BY <3>1 DEF OthersKept
    <3> QED BY <1>1, <3>1, <3>2 DEF Times
  <2>2. ASSUME UpdateCommand(ev) PROVE docs'[e].updatedAt \in Nat
    <3>1. OthersKept(ev.who) /\ docs'[ev.who].updatedAt = ev.ts
      BY <2>2, UpdateWrites
    <3>2. e = ev.who \/ (e \in DOMAIN docs /\ docs'[e] = docs[e])
      BY <3>1 DEF OthersKept
    <3> QED BY <1>1, <3>1, <3>2 DEF Times
  <2> QED BY <2>1, <2>2 DEF Times
<1>3. latest' \in [Email -> Nat]
  BY <1>1 DEF Times, Applied
<1> QED BY <1>2, <1>3 DEF Times

LEMMA IndexBasics ==
  ASSUME ProvenInv, BasicsInv, EachMessage \/ Background \/ Stops \/ Restarts
  PROVE  BasicsInv'
<1> USE DEF BasicsInv
<1>1. UNCHANGED userService /\ Events' \subseteq Events
  BY IndexHandles DEF Events
<1>2. UNCHANGED <<users, clock, requests>>
  BY <1>1 DEF userService
<1>3. Publishing' = Publishing /\ Announcements' \subseteq Announcements
  BY <1>1, <1>2 DEF Publishing, Announcements, Events
<1>4. Shapes' /\ Fresh'
  BY <1>1, <1>3 DEF Shapes, Fresh
<1>5. CASE EachMessage
  <2>1. PICK ev \in topic :
          /\ \/ UpsertProfile(ev) \/ UpdateUserAvatarKey(ev) \/ NotAwaited(ev)
             \/ UNCHANGED <<docs, running, latest>>
          /\ topic' = topic \ {ev} /\ handled' = handled \cup {ev}
    BY <1>5 DEF EachMessage
  <2>2. /\ CreateCommand(ev) \/ UpdateCommand(ev) \/ UNCHANGED docs
        /\ Applied(ev) \/ UNCHANGED latest
    BY <2>1 DEF UpsertProfile, UpdateUserAvatarKey, NotAwaited
  <2>3. Times'
    BY <1>1, <1>2, <2>2, WritesKeepTimes DEF Events
  <2>4. DOMAIN docs \subseteq DOMAIN docs'
    BY <2>2, CreateWrites, UpdateWrites DEF OthersKept
  <2>5. CASE UNCHANGED running
    BY <1>4, <2>1, <2>3, <2>4, <2>5 DEF Running
  <2>6. CASE NotAwaited(ev)
    <3> DEFINE w == [step |-> "read", ev |-> ev, first |-> ev \notin handled]
    <3>1. running' = running \cup {w} /\ ev.kind \in {"cover", "block"}
      BY <2>6 DEF NotAwaited
    <3>2. /\ w = [step |-> w.step, ev |-> w.ev, first |-> w.first]
          /\ w.step = "read" /\ w.ev = ev /\ w.first \in BOOLEAN
      OBVIOUS
    <3> HIDE DEF w
    <3>3. \A x \in running : x.ev # ev
      BY DEF Running
    <3>4. Running'
      BY <2>1, <2>4, <3>1, <3>2, <3>3 DEF Running
    <3> QED BY <1>4, <2>3, <3>4
  <2>7. UNCHANGED running \/ NotAwaited(ev)
    BY <2>1 DEF UpsertProfile, UpdateUserAvatarKey
  <2> QED BY <1>4, <2>3, <2>5, <2>6, <2>7
<1>6. CASE Background
  <2>1. PICK w \in running : ReadUpdatedAt(w) \/ WriteField(w)
    BY <1>6 DEF Background
  <2>2. UNCHANGED <<topic, handled>> /\ w.ev \in Events
    BY <1>6 DEF Background, Running, Events
  <2>3. Times'
    BY <1>1, <1>2, <2>1, <2>2, WritesKeepTimes DEF ReadUpdatedAt, WriteField
  <2>4. CASE ReadUpdatedAt(w)
    <3>1. UNCHANGED docs
      BY <2>4 DEF ReadUpdatedAt
    <3>2. ASSUME running' \subseteq running PROVE Running'
      BY <2>2, <3>1, <3>2 DEF Running
    <3>3. ASSUME w.ev.who \in DOMAIN docs /\ running' = (running \ {w}) \cup {[w EXCEPT !.step = "write"]}
          PROVE  Running'
      <4> DEFINE v == [w EXCEPT !.step = "write"]
      <4>1. v = [step |-> "write", ev |-> w.ev, first |-> w.first]
        BY DEF Running
      <4>2. /\ v = [step |-> v.step, ev |-> v.ev, first |-> v.first]
            /\ v.step = "write" /\ v.ev = w.ev /\ v.first = w.first
        BY <4>1
      <4>3. running' = (running \ {w}) \cup {v}
        BY <3>3
      <4> HIDE DEF v
      <4> QED BY <2>2, <3>1, <3>3, <4>2, <4>3 DEF Running
    <3>4. \/ running' \subseteq running
          \/ w.ev.who \in DOMAIN docs /\ running' = (running \ {w}) \cup {[w EXCEPT !.step = "write"]}
      BY <2>4 DEF ReadUpdatedAt
    <3>5. Running'
      BY <3>2, <3>3, <3>4
    <3> QED BY <1>4, <2>3, <3>5
  <2>5. CASE WriteField(w)
    <3>1. running' = running \ {w} /\ DOMAIN docs \subseteq DOMAIN docs'
      BY <2>5, UpdateWrites DEF WriteField, OthersKept
    <3> QED BY <1>4, <2>2, <2>3, <3>1 DEF Running
  <2> QED BY <2>1, <2>4, <2>5
<1>7. CASE Stops \/ Restarts
  <2>1. Times'
    BY <1>1, <1>2, <1>7 DEF Times, Stops, Restarts
  <2>2. Running'
    BY <1>7 DEF Running, Stops, Restarts
  <2> QED BY <1>4, <2>1, <2>2
<1> QED BY <1>5, <1>6, <1>7

----------------------------------------------------------------------------
(* What the index knows of a user. *)

\* An event is to be applied, or has been: before its document's time, or as
\* the one the document was made of.
IsPending(ev) == \/ ev \in topic /\ ev \notin handled
                 \/ \E w \in running : w.first /\ w.ev = ev
IsDone(ev) == ev \in handled /\ \A w \in running : w.ev # ev
Old(ev) ==
  ev.who \in DOMAIN docs /\ ev.ts <= docs[ev.who].updatedAt /\ ev.ts <= latest[ev.who]
Outdone(ev) ==
  /\ ev.who \in DOMAIN docs /\ ev.ts <= latest[ev.who]
  /\ \/ ev.ts <= docs[ev.who].updatedAt
     \/ /\ DOMAIN ev.carries = Field
        /\ \A f \in Field : docs[ev.who].shown[f] = ev.carries[f]
DoneOf(e) ==
  /\ e \in DOMAIN docs => docs[e].updatedAt <= latest[e]
  /\ \A ev : ev.who = e /\ IsDone(ev) => Outdone(ev)
  /\ \A w \in running : w.ev.who = e /\ ~w.first => w.step = "read" /\ Old(w.ev)

\* A field of a row is about to be announced, or the newest event that carries
\* it is yet to be applied, or it is what the document shows and nothing that
\* is yet to be applied is newer.
Says(a, e, f) == a.who = e /\ f \in DOMAIN a.carries /\ a.carries[f] = users[e].shown[f]
Saying(e, f) == \E r \in Publishing : Says(r, e, f)
Said(e, f) ==
  \E ev \in Events :
    /\ IsPending(ev) /\ Says(ev, e, f)
    /\ \A x \in Events : x.who = e /\ f \in DOMAIN x.carries => x.ts <= ev.ts
Heard(e, f) ==
  /\ e \in DOMAIN docs /\ docs[e].shown[f] = users[e].shown[f]
  /\ \A x \in Events : x.who = e /\ IsPending(x) /\ f \in DOMAIN x.carries => x.ts <= latest[e]
FieldsOf(e) == \A f \in Field : Saying(e, f) \/ Said(e, f) \/ Heard(e, f)

IndexInv ==
  /\ \A e \in Email \ amiss : DoneOf(e)
  /\ \A e \in DOMAIN users \ amiss : FieldsOf(e)

LEMMA PendingIsEvent ==
  ASSUME BasicsInv, NEW x, IsPending(x)
  PROVE  x \in Events
BY DEF BasicsInv, Running, IsPending, Events

\* A step that tells the index nothing new of a user.
NoNews(e) ==
  /\ e \in DOMAIN docs' <=> e \in DOMAIN docs
  /\ e \in DOMAIN docs =>
       /\ docs[e].updatedAt <= docs'[e].updatedAt /\ docs'[e].updatedAt <= latest[e]
       /\ \A f \in Field : docs'[e].shown[f] = docs[e].shown[f]
  /\ latest'[e] = latest[e]
  /\ \A x \in Events' : x.who = e => x \in Events
  /\ \A x \in Events : x.who = e /\ IsPending(x) => x \in Events' /\ IsPending(x)'
  /\ \A x \in Events' : x.who = e /\ IsPending(x)' => IsPending(x) \/ x.ts <= latest[e]
  /\ \A x : x.who = e /\ IsDone(x)' => IsDone(x) \/ Old(x)
  /\ \A w \in running' : w.ev.who = e /\ ~w.first => w.step = "read" /\ Old(w.ev)

LEMMA NoNewsKeeps ==
  ASSUME ProvenInv, BasicsInv, NEW e \in Email, NoNews(e), DoneOf(e),
         BasicsInv', UNCHANGED <<users, Publishing>>
  PROVE  DoneOf(e)' /\ (FieldsOf(e) => FieldsOf(e)')
<1>1. latest[e] \in Nat /\ latest'[e] = latest[e]
  BY DEF BasicsInv, Times, NoNews
<1>2. e \in DOMAIN docs => docs[e].updatedAt \in Nat /\ docs'[e].updatedAt \in Nat
  BY DEF BasicsInv, Times, NoNews
<1>3. \A x \in Events : x.ts \in Nat
  BY DEF BasicsInv, Times
<1>4. \A x \in Events : x.who = e /\ Old(x) => Old(x)' /\ Outdone(x)'
  BY <1>1, <1>2, <1>3 DEF NoNews, Old, Outdone
<1>5. \A x \in Events : x.who = e /\ Outdone(x) => Outdone(x)'
  BY <1>1, <1>2, <1>3 DEF NoNews, Outdone
<1>6. \A x : IsDone(x)' => x \in Events'
  BY DEF IsDone, Events
<1>7. \A w \in running' : w.ev \in Events'
  BY DEF BasicsInv, Running, Events
<1>8. DoneOf(e)'
  <2>1. e \in DOMAIN docs' => docs'[e].updatedAt <= latest'[e]
    BY <1>1 DEF NoNews
  <2>2. ASSUME NEW x, x.who = e, IsDone(x)' PROVE Outdone(x)'
    <3>1. x \in Events /\ (IsDone(x) \/ Old(x))
      BY <1>6, <2>2 DEF NoNews
    <3>2. IsDone(x) => Outdone(x)
      BY <2>2 DEF DoneOf
    <3> QED BY <1>4, <1>5, <2>2, <3>1, <3>2
  <2>3. ASSUME NEW w \in running', w.ev.who = e, ~w.first PROVE w.step = "read" /\ Old(w.ev)'
    <3>1. w.ev \in Events /\ w.step = "read" /\ Old(w.ev)
      BY <1>7, <2>3 DEF NoNews
    <3>2. PICK x : x = w.ev
      OBVIOUS
    <3>3. Old(x)'
      BY <1>4, <2>3, <3>1, <3>2
    <3> QED BY <3>1, <3>2, <3>3 DEF Old
  <2> QED BY <2>1, <2>2, <2>3 DEF DoneOf
<1>9. ASSUME NEW f \in Field, Saying(e, f) PROVE Saying(e, f)'
  BY <1>9 DEF Saying, Says
<1>10. ASSUME NEW f \in Field, Said(e, f) PROVE Said(e, f)'
  BY <1>10 DEF Said, Says, NoNews
<1>11. ASSUME NEW f \in Field, Heard(e, f) PROVE Heard(e, f)'
  BY <1>1, <1>11 DEF Heard, NoNews
<1> QED BY <1>8, <1>9, <1>10, <1>11 DEF FieldsOf

\* A new event of a user is applied.
AppliesNew(ev, e) ==
  /\ ev.who = e /\ ev \in Events /\ IsPending(ev) /\ latest[e] < ev.ts /\ latest'[e] = ev.ts
  /\ e \in DOMAIN docs'
  /\ \/ docs'[e].updatedAt = ev.ts
     \/ e \notin DOMAIN docs /\ docs'[e].updatedAt <= ev.ts /\ DOMAIN ev.carries = Field
  /\ \A f \in Field :
       /\ f \in DOMAIN ev.carries => docs'[e].shown[f] = ev.carries[f]
       /\ f \notin DOMAIN ev.carries => e \in DOMAIN docs /\ docs'[e].shown[f] = docs[e].shown[f]
  /\ Events' = Events
  /\ \A x : x.who = e => (IsPending(x)' <=> IsPending(x) /\ x # ev)
  /\ \A x : x.who = e /\ IsDone(x)' => IsDone(x) \/ x = ev
  /\ running' \subseteq running

LEMMA NewsIsShown ==
  ASSUME ProvenInv, BasicsInv, NEW e \in Email, NEW ev, AppliesNew(ev, e), DoneOf(e),
         BasicsInv', UNCHANGED <<users, Publishing>>
  PROVE  DoneOf(e)' /\ (FieldsOf(e) => FieldsOf(e)')
<1>1. latest[e] \in Nat /\ ev.ts \in Nat /\ latest[e] < ev.ts /\ latest'[e] = ev.ts
  BY DEF BasicsInv, Times, AppliesNew
<1>2. /\ e \in DOMAIN docs => docs[e].updatedAt \in Nat
      /\ e \in DOMAIN docs' /\ docs'[e].updatedAt \in Nat
      /\ docs'[e].updatedAt <= ev.ts
  BY <1>1 DEF BasicsInv, Times, AppliesNew
<1>3. \A x \in Events : x.ts \in Nat
  BY DEF BasicsInv, Times
<1>4. \A x \in Events : x.who = e /\ Old(x) => Old(x)'
  BY <1>1, <1>2, <1>3 DEF Old, AppliesNew
<1>5. \A x \in Events : x.who = e /\ Outdone(x) => Outdone(x)'
  BY <1>1, <1>2, <1>3 DEF Outdone, AppliesNew
<1>6. Outdone(ev)'
  BY <1>1, <1>2 DEF Outdone, AppliesNew
<1>7. \A x : IsDone(x) => x \in Events
  BY DEF IsDone, Events
<1>8. \A w \in running : w.ev \in Events
  BY DEF BasicsInv, Running, Events
<1>9. DoneOf(e)'
  <2>1. ASSUME NEW x, x.who = e, IsDone(x)' PROVE Outdone(x)'
    <3>1. IsDone(x) \/ x = ev
      BY <2>1 DEF AppliesNew
    <3>2. IsDone(x) => Outdone(x) /\ x \in Events
      BY <1>7, <2>1 DEF DoneOf
    <3> QED BY <1>5, <1>6, <2>1, <3>1, <3>2
  <2>2. ASSUME NEW w \in running', w.ev.who = e, ~w.first PROVE w.step = "read" /\ Old(w.ev)'
    <3>1. w.ev \in Events /\ w.step = "read" /\ Old(w.ev)
      BY <1>8, <2>2 DEF AppliesNew, DoneOf
    <3>2. PICK x : x = w.ev
      OBVIOUS
    <3>3. Old(x)'
      BY <1>4, <2>2, <3>1, <3>2
    <3> QED BY <3>1, <3>2, <3>3 DEF Old
  <2> QED BY <1>1, <1>2, <2>1, <2>2 DEF DoneOf
<1>10. ASSUME NEW f \in Field, Saying(e, f) PROVE Saying(e, f)'
  BY <1>10 DEF Saying, Says
<1>11. ASSUME NEW f \in Field, Said(e, f) PROVE Said(e, f)' \/ Heard(e, f)'
  <2>1. PICK x \in Events :
          /\ IsPending(x) /\ Says(x, e, f)
          /\ \A y \in Events : y.who = e /\ f \in DOMAIN y.carries => y.ts <= x.ts
    BY <1>11 DEF Said
  <2>2. CASE x = ev
    <3>1. f \in DOMAIN ev.carries /\ ev.carries[f] = users[e].shown[f]
      BY <2>1, <2>2 DEF Says
    <3>2. docs'[e].shown[f] = users'[e].shown[f]
      BY <3>1 DEF AppliesNew
    <3>3. Heard(e, f)'
      BY <1>1, <1>2, <2>1, <2>2, <3>2 DEF Heard, AppliesNew
    <3> QED BY <3>3
  <2>3. CASE x # ev
    <3>1. x.who = e /\ IsPending(x)' /\ Says(x, e, f)'
      BY <2>1, <2>3 DEF AppliesNew, Says
    <3>2. Events' = Events
      BY DEF AppliesNew
    <3>3. Said(e, f)'
      BY <2>1, <3>1, <3>2 DEF Said
    <3> QED BY <3>3
  <2> QED BY <2>2, <2>3
<1>12. ASSUME NEW f \in Field, Heard(e, f) PROVE Heard(e, f)'
  <2>1. f \notin DOMAIN ev.carries
    BY <1>1, <1>12 DEF Heard, AppliesNew
  <2>2. docs'[e].shown[f] = users'[e].shown[f]
    BY <1>12, <2>1 DEF Heard, AppliesNew
  <2>3. \A x \in Events' : x.who = e /\ IsPending(x)' /\ f \in DOMAIN x.carries => x.ts <= latest'[e]
    BY <1>1, <1>3, <1>12 DEF Heard, AppliesNew
  <2> QED BY <1>2, <2>2, <2>3 DEF Heard
<1> QED BY <1>9, <1>10, <1>11, <1>12 DEF FieldsOf

----------------------------------------------------------------------------
(* The steps of the index. *)

\* Handling an event moves it from what is pending to what is done.
Moves(ev) == ev \in topic /\ topic' = topic \ {ev} /\ handled' = handled \cup {ev}

LEMMA MovesEvents ==
  ASSUME NEW ev, Moves(ev)
  PROVE  Events' = Events
BY DEF Moves, Events

LEMMA MovedAtOnce ==
  ASSUME Running, NEW ev, Moves(ev), UNCHANGED running
  PROVE  /\ \A x : IsPending(x)' <=> IsPending(x) /\ x # ev
         /\ \A x : IsDone(x)' <=> IsDone(x) \/ x = ev
         /\ ev \in handled => ~IsPending(ev) /\ IsDone(ev)
         /\ ev \notin handled => IsPending(ev)
<1>1. \A w \in running : w.ev # ev
  BY DEF Running, Moves
<1> QED BY <1>1 DEF Moves, IsPending, IsDone

LEMMA MovedAside ==
  ASSUME Running, NEW ev, Moves(ev), NotAwaited(ev)
  PROVE  /\ \A x : IsPending(x)' <=> IsPending(x)
         /\ \A x : IsDone(x)' => IsDone(x)
         /\ ev \in handled => IsDone(ev)
         /\ \A v \in running' : v \in running \/ (v.step = "read" /\ v.ev = ev /\ v.first = (ev \notin handled))
<1> DEFINE w == [step |-> "read", ev |-> ev, first |-> ev \notin handled]
<1>1. \A v \in running : v.ev # ev
  BY DEF Running, Moves
<1>2. running' = running \cup {w} /\ w.ev = ev /\ w.step = "read" /\ w.first = (ev \notin handled)
  BY DEF NotAwaited
<1> HIDE DEF w
<1>3. \A x : IsPending(x)' <=> IsPending(x)
  <2> SUFFICES ASSUME NEW x PROVE IsPending(x)' <=> IsPending(x)
    OBVIOUS
  <2>1. CASE x = ev
    BY <1>1, <1>2, <2>1 DEF Moves, IsPending
  <2>2. CASE x # ev
    BY <1>2, <2>2 DEF Moves, IsPending
  <2> QED BY <2>1, <2>2
<1>4. \A x : IsDone(x)' => IsDone(x)
  BY <1>2 DEF Moves, IsDone
<1>5. ev \in handled => IsDone(ev)
  BY <1>1 DEF IsDone
<1> QED BY <1>2, <1>3, <1>4, <1>5

\* Of other users nothing is told.
LEMMA OthersHearNothing ==
  ASSUME ProvenInv, BasicsInv, NEW e \in Email, NEW u, e # u, DoneOf(e),
         OthersKept(u) \/ UNCHANGED docs, latest'[e] = latest[e], Events' \subseteq Events,
         \A x \in Events : x.who = e => (IsPending(x)' <=> IsPending(x)) /\ (IsDone(x)' => IsDone(x)),
         Events \subseteq Events', BasicsInv',
         \A w \in running' : w.ev.who = e /\ ~w.first => \E v \in running : v.ev = w.ev /\ ~v.first /\ v.step = w.step
  PROVE  NoNews(e)
<1>1. (e \in DOMAIN docs' <=> e \in DOMAIN docs) /\ (e \in DOMAIN docs => docs'[e] = docs[e])
  BY DEF OthersKept
<1>2. e \in DOMAIN docs => docs[e].updatedAt \in Nat
  BY DEF BasicsInv, Times
<1>3. \A x : (IsDone(x)' \/ IsDone(x)) => x \in Events
  BY DEF IsDone, Events
<1>4. \A x : x.who = e /\ IsDone(x)' => IsDone(x)
  BY <1>3
<1>5. \A w \in running' : w.ev.who = e /\ ~w.first => w.step = "read" /\ Old(w.ev)
  BY DEF DoneOf
<1> QED BY <1>1, <1>2, <1>4, <1>5 DEF NoNews, DoneOf

LEMMA EachMessageIndex ==
  ASSUME ProvenInv, BasicsInv, IndexInv, EachMessage, BasicsInv'
  PROVE  IndexInv'
<1>1. PICK ev \in topic :
        /\ \/ UpsertProfile(ev) \/ UpdateUserAvatarKey(ev) \/ NotAwaited(ev)
           \/ Note(ev.who, TRUE) /\ UNCHANGED <<docs, running, latest>>
        /\ topic' = topic \ {ev} /\ handled' = handled \cup {ev}
  BY DEF EachMessage
<1>2. UNCHANGED <<users, requests, Publishing>>
  BY DEF EachMessage, userService, Publishing
<1>3. Moves(ev) /\ Events' = Events /\ ev \in Events
  BY <1>1, MovesEvents DEF Moves, Events
<1>4. ev.who \in Email /\ ev.ts \in Nat /\ ev.created \in Nat /\ ev.created <= ev.ts
  BY <1>3 DEF ProvenInv, CreatedInv, NumbersInv, Announcements, Events, BasicsInv, Times
<1>5. amiss' = amiss \/ amiss' = amiss \cup {ev.who}
  BY <1>1 DEF UpsertProfile, UpdateUserAvatarKey, NotAwaited, Note
<1>6. latest \in [Email -> Nat] /\ (Applied(ev) \/ UNCHANGED latest)
  BY <1>1 DEF UpsertProfile, UpdateUserAvatarKey, NotAwaited, BasicsInv, Times
<1>7. \/ CreateCommand(ev) \/ UpdateCommand(ev) \/ UNCHANGED docs
  BY <1>1 DEF UpsertProfile, UpdateUserAvatarKey, NotAwaited
<1>8. OthersKept(ev.who) \/ UNCHANGED docs
  BY <1>7, CreateWrites, UpdateWrites
<1>9. UNCHANGED running \/ NotAwaited(ev)
  BY <1>1 DEF UpsertProfile, UpdateUserAvatarKey
<1>10. ASSUME NEW e \in Email \ amiss, e # ev.who PROVE NoNews(e)
  <2>1. \A x \in Events : x.who = e => (IsPending(x)' <=> IsPending(x)) /\ (IsDone(x)' => IsDone(x))
    BY <1>3, <1>9, <1>10, MovedAtOnce, MovedAside DEF BasicsInv
  <2>2. latest'[e] = latest[e]
    BY <1>4, <1>6, <1>10 DEF Applied
  <2>3. \A w \in running' : w.ev.who = e /\ ~w.first => w \in running
    BY <1>3, <1>9, <1>10, MovedAside DEF BasicsInv
  <2>4. DoneOf(e)
    BY DEF IndexInv
  <2> QED BY <1>3, <1>8, <1>10, <2>1, <2>2, <2>3, <2>4, OthersHearNothing
<1> DEFINE u == ev.who
<1>11. ASSUME u \notin amiss', u \in Email \ amiss, DoneOf(u)
       PROVE  NoNews(u) \/ AppliesNew(ev, u)
  <2> USE <1>11
  <2>1. CASE NotAwaited(ev)
    <3>1. UNCHANGED <<docs, latest>> /\ ev.kind \in {"cover", "block"}
      BY <2>1 DEF NotAwaited
    <3>2. \A w \in running' : w.ev.who = u /\ ~w.first => w.step = "read" /\ Old(w.ev)
      <4>1. ev \in handled => Old(ev)
        <5>1. ev \in handled => Outdone(ev)
          BY <1>3, <2>1, MovedAside DEF BasicsInv, DoneOf
        <5>2. DOMAIN ev.carries # Field
          <6>1. PICK f \in Field : DOMAIN ev.carries = {f}
            BY <1>3, <3>1 DEF BasicsInv, Shapes, Shape, Announcements, Events
          <6> QED BY <6>1 DEF Field
        <5> QED BY <5>1, <5>2 DEF Outdone, Old
      <4>2. \A w \in running' : w \in running \/ (w.step = "read" /\ w.ev = ev /\ w.first = (ev \notin handled))
        BY <1>3, <2>1, MovedAside DEF BasicsInv
      <4> QED BY <4>1, <4>2 DEF DoneOf
    <3>3. u \in DOMAIN docs => docs[u].updatedAt \in Nat
      BY DEF BasicsInv, Times
    <3>4. /\ \A x : IsPending(x)' <=> IsPending(x)
          /\ \A x : IsDone(x)' => IsDone(x)
      BY <1>3, <2>1, MovedAside DEF BasicsInv
    <3> QED BY <1>3, <3>1, <3>2, <3>3, <3>4 DEF NoNews, DoneOf
  <2>2. ASSUME ev \notin handled, UpsertProfile(ev) \/ UpdateUserAvatarKey(ev)
        PROVE  AppliesNew(ev, u)
    <3>1. ~Late(ev) /\ Applied(ev) /\ running' = running
      BY <2>2 DEF UpsertProfile, UpdateUserAvatarKey, Note
    <3>2. latest[u] < ev.ts /\ latest'[u] = ev.ts
      BY <1>4, <1>6, <3>1 DEF Late, Applied
    <3>3. u \in DOMAIN docs => docs[u].updatedAt \in Nat /\ docs[u].updatedAt < ev.ts /\ IsNewer(ev)
      BY <1>4, <1>6, <3>2 DEF BasicsInv, Times, DoneOf, IsNewer, UpdatedAt
    <3>4. CASE u \notin DOMAIN docs
      <4>1. CreateCommand(ev) /\ DOMAIN ev.carries = Field
        <5>1. UpsertProfile(ev)
          BY <2>2, <3>4 DEF UpdateUserAvatarKey, Note
        <5> QED BY <1>3, <3>4, <5>1 DEF UpsertProfile, BasicsInv, Shapes, Shape, Announcements, Events
      <4>2. /\ u \in DOMAIN docs' /\ docs'[u].updatedAt = ev.created /\ docs'[u].shown = ev.carries
        BY <4>1, CreateWrites DEF OthersKept
      <4> QED BY <1>3, <1>4, <2>2, <3>1, <3>2, <3>4, <4>1, <4>2, MovedAtOnce DEF AppliesNew, BasicsInv
    <3>5. CASE u \in DOMAIN docs
      <4>1. UpdateCommand(ev)
        BY <2>2, <3>3, <3>5 DEF UpsertProfile, UpdateUserAvatarKey, Note
      <4>2. /\ u \in DOMAIN docs' /\ docs'[u].updatedAt = ev.ts
            /\ \A f \in Field :
                 /\ f \in DOMAIN ev.carries => docs'[u].shown[f] = ev.carries[f]
                 /\ f \notin DOMAIN ev.carries => docs'[u].shown[f] = docs[u].shown[f]
        BY <4>1, UpdateWrites DEF OthersKept
      <4> QED BY <1>3, <1>4, <2>2, <3>1, <3>2, <3>5, <4>2, MovedAtOnce DEF AppliesNew, BasicsInv
    <3> QED BY <3>4, <3>5
  <2>3. ASSUME ev \in handled, UpsertProfile(ev) \/ UpdateUserAvatarKey(ev)
        PROVE  NoNews(u)
    <3>1. Applied(ev) /\ running' = running
      BY <2>3 DEF UpsertProfile, UpdateUserAvatarKey
    <3>2. IsDone(ev) /\ Outdone(ev)
      BY <1>3, <2>3, <3>1, MovedAtOnce DEF BasicsInv, DoneOf
    <3>3. latest' = latest
      BY <1>4, <1>6, <3>1, <3>2 DEF Applied, Outdone
    <3>4. u \in DOMAIN docs /\ ev.ts <= latest[u] /\ docs[u].updatedAt \in Nat /\ docs[u].updatedAt <= latest[u]
      BY <3>2 DEF Outdone, BasicsInv, Times, DoneOf
    <3>5. UNCHANGED docs \/ (IsNewer(ev) /\ UpdateCommand(ev))
      BY <2>3, <3>4 DEF UpsertProfile, UpdateUserAvatarKey, Note
    <3>6. /\ u \in DOMAIN docs' /\ docs[u].updatedAt <= docs'[u].updatedAt
          /\ docs'[u].updatedAt <= latest[u]
          /\ \A f \in Field : docs'[u].shown[f] = docs[u].shown[f]
      <4>1. CASE UNCHANGED docs
        BY <3>4, <4>1
      <4>2. CASE IsNewer(ev) /\ UpdateCommand(ev)
        <5>1. docs[u].updatedAt < ev.ts
          BY <1>4, <3>4, <4>2 DEF IsNewer, UpdatedAt
        <5>2. \A f \in Field : docs[u].shown[f] = ev.carries[f]
          BY <1>4, <3>2, <3>4, <5>1 DEF Outdone
        <5>3. /\ u \in DOMAIN docs' /\ docs'[u].updatedAt = ev.ts
              /\ \A f \in Field :
                   \/ f \in DOMAIN ev.carries /\ docs'[u].shown[f] = ev.carries[f]
                   \/ f \notin DOMAIN ev.carries /\ docs'[u].shown[f] = docs[u].shown[f]
          BY <4>2, UpdateWrites DEF OthersKept
        <5> QED BY <1>4, <3>4, <5>1, <5>2, <5>3
      <4> QED BY <3>5, <4>1, <4>2
    <3>7. /\ \A x : IsPending(x)' <=> IsPending(x)
          /\ \A x : IsDone(x)' => IsDone(x)
      BY <1>3, <2>3, <3>1, <3>2, MovedAtOnce DEF BasicsInv
    <3> QED BY <1>3, <3>1, <3>3, <3>4, <3>6, <3>7 DEF NoNews, DoneOf
  <2>4. ~Note(u, TRUE)
    BY DEF Note
  <2> QED BY <1>1, <2>1, <2>2, <2>3, <2>4
<1>12. ASSUME NEW e \in Email \ amiss'
       PROVE  DoneOf(e)' /\ (FieldsOf(e) => FieldsOf(e)')
  <2>1. e \notin amiss /\ DoneOf(e)
    BY <1>5, <1>12 DEF IndexInv
  <2>2. NoNews(e) \/ AppliesNew(ev, e)
    BY <1>10, <1>11, <1>12, <2>1
  <2> QED BY <1>2, <2>1, <2>2, NoNewsKeeps, NewsIsShown
<1>13. DOMAIN users' \subseteq Email /\ \A e \in DOMAIN users' \ amiss' : FieldsOf(e)
  BY <1>2, <1>5 DEF IndexInv, ProvenInv, NumbersInv
<1> QED BY <1>12, <1>13 DEF IndexInv

LEMMA BackgroundIndex ==
  ASSUME ProvenInv, BasicsInv, IndexInv, Background, BasicsInv'
  PROVE  IndexInv'
<1>1. PICK w \in running : ReadUpdatedAt(w) \/ WriteField(w)
  BY DEF Background
<1> DEFINE ev == w.ev
           u == w.ev.who
<1>2. UNCHANGED <<users, Publishing, topic, handled, Events>>
  BY DEF Background, userService, Publishing, Events
<1>3. /\ ev \in handled /\ ev \notin topic /\ w.first \in BOOLEAN /\ w.step \in {"read", "write"}
      /\ ev \in Events /\ \A x \in running : x.ev = ev => x = w
      /\ w = [step |-> w.step, ev |-> w.ev, first |-> w.first]
  BY DEF BasicsInv, Running, Events
<1>4. u \in Email /\ ev.ts \in Nat
  BY <1>3 DEF ProvenInv, CreatedInv, NumbersInv, Announcements, Events, BasicsInv, Times
<1>5. latest \in [Email -> Nat] /\ \A e \in DOMAIN docs : docs[e].updatedAt \in Nat
  BY DEF BasicsInv, Times
<1>6. amiss' = amiss \/ amiss' = amiss \cup {u}
  BY <1>1 DEF ReadUpdatedAt, WriteField, Note
<1>7. CASE ReadUpdatedAt(w)
  <2>1. UNCHANGED <<docs, latest>> /\ w.step = "read"
    BY <1>7 DEF ReadUpdatedAt
  <2>2. ASSUME NEW e \in Email \ amiss, e \notin amiss', DoneOf(e) PROVE NoNews(e)
    <3>1. CASE running' = running
      <4>1. \A x : (IsPending(x)' <=> IsPending(x)) /\ (IsDone(x)' <=> IsDone(x))
        BY <1>2, <3>1 DEF IsPending, IsDone
      <4> QED BY <1>2, <1>5, <2>1, <2>2, <3>1, <4>1 DEF NoNews, DoneOf
    <3>2. CASE IsNewer(ev) /\ running' = (running \ {w}) \cup {[w EXCEPT !.step = "write"]}
      <4> DEFINE v == [w EXCEPT !.step = "write"]
      <4>1. v.ev = w.ev /\ v.first = w.first
        BY <1>3
      <4>2. running' = (running \ {w}) \cup {v}
        BY <3>2
      <4> HIDE DEF v
      <4>3. \A x : (IsPending(x)' <=> IsPending(x)) /\ (IsDone(x)' <=> IsDone(x))
        BY <1>2, <4>1, <4>2 DEF IsPending, IsDone
      <4>4. ASSUME NEW x \in running', x.ev.who = e, ~x.first PROVE x \in running
        <5>1. ASSUME x = v PROVE FALSE
          <6>1. u = e /\ ~w.first
            BY <4>1, <4>4, <5>1
          <6>2. Old(ev)
            BY <2>2, <6>1 DEF DoneOf
          <6> QED BY <1>4, <1>5, <3>2, <6>2 DEF Old, IsNewer, UpdatedAt
        <5> QED BY <4>2, <5>1
      <4> QED BY <1>2, <1>5, <2>1, <2>2, <4>3, <4>4 DEF NoNews, DoneOf
    <3>3. CASE /\ ~IsNewer(ev) /\ running' = running \ {w} /\ u \in DOMAIN docs
               /\ Note(u, w.first /\ Late(ev))
      <4>1. ASSUME u = e, w.first PROVE FALSE
        <5>1. ~Late(ev)
          BY <2>2, <3>3, <4>1 DEF Note
        <5>2. latest[u] < ev.ts /\ ev.ts <= docs[u].updatedAt /\ docs[u].updatedAt \in Nat
          BY <1>4, <1>5, <3>3, <5>1 DEF Late, IsNewer, UpdatedAt
        <5>3. docs[u].updatedAt <= latest[u] /\ latest[u] \in Nat
          BY <1>4, <1>5, <2>2, <3>3, <4>1 DEF DoneOf
        <5> QED BY <1>4, <5>2, <5>3
      <4>2. ASSUME NEW x, x.who = e, x # ev
            PROVE  (IsPending(x)' <=> IsPending(x)) /\ (IsDone(x)' <=> IsDone(x))
        BY <1>2, <3>3, <4>2 DEF IsPending, IsDone
      <4>3. ASSUME u = e
            PROVE  (IsPending(ev)' <=> IsPending(ev)) /\ Old(ev)
        <5>1. ~w.first
          BY <4>1, <4>3
        <5>2. Old(ev)
          BY <2>2, <4>3, <5>1 DEF DoneOf
        <5>3. IsPending(ev)' <=> IsPending(ev)
          BY <1>2, <1>3, <3>3, <5>1 DEF IsPending
        <5> QED BY <5>2, <5>3
      <4>4. \A x : x.who = e => (IsPending(x)' <=> IsPending(x)) /\ (IsDone(x)' => IsDone(x) \/ Old(x))
        BY <4>2, <4>3
      <4>5. running' \subseteq running
        BY <3>3
      <4> QED BY <1>2, <1>5, <2>1, <2>2, <4>4, <4>5 DEF NoNews, DoneOf
    <3> QED BY <1>7, <3>1, <3>2, <3>3 DEF ReadUpdatedAt
  <2>3. ASSUME NEW e \in Email \ amiss'
        PROVE  DoneOf(e)' /\ (FieldsOf(e) => FieldsOf(e)')
    <3>1. e \notin amiss /\ DoneOf(e)
      BY <1>6, <2>3 DEF IndexInv
    <3> QED BY <1>2, <2>2, <2>3, <3>1, NoNewsKeeps
  <2> QED BY <1>2, <1>6, <2>3 DEF IndexInv, ProvenInv, NumbersInv
<1>8. CASE WriteField(w)
  <2>1. /\ w.step = "write" /\ UpdateCommand(ev) /\ running' = running \ {w} /\ Applied(ev)
        /\ u \in DOMAIN docs /\ Note(u, ev.ts < latest[u] \/ (w.first /\ Late(ev)))
    BY <1>8 DEF WriteField, BasicsInv, Running
  <2>2. /\ OthersKept(u) /\ docs'[u].updatedAt = ev.ts
        /\ \A f \in Field :
             /\ f \in DOMAIN ev.carries => docs'[u].shown[f] = ev.carries[f]
             /\ f \notin DOMAIN ev.carries => docs'[u].shown[f] = docs[u].shown[f]
    BY <2>1, UpdateWrites
  <2>3. \A x : x # ev => (IsPending(x)' <=> IsPending(x)) /\ (IsDone(x)' <=> IsDone(x))
    BY <1>2, <2>1 DEF IsPending, IsDone
  <2>4. ASSUME NEW e \in Email \ amiss, e # u, DoneOf(e) PROVE NoNews(e)
    <3>1. latest'[e] = latest[e]
      BY <1>4, <1>5, <2>1, <2>4 DEF Applied
    <3>2. \A x \in Events : x.who = e => (IsPending(x)' <=> IsPending(x)) /\ (IsDone(x)' => IsDone(x))
      BY <2>3, <2>4
    <3> QED BY <1>2, <2>1, <2>2, <2>4, <3>1, <3>2, OthersHearNothing
  <2>5. ASSUME u \notin amiss', u \in Email \ amiss, DoneOf(u) PROVE AppliesNew(ev, u)
    <3>1. w.first
      BY <1>3, <2>1, <2>5 DEF DoneOf
    <3>2. ~Late(ev)
      BY <2>1, <2>5, <3>1 DEF Note
    <3>3. latest[u] < ev.ts /\ latest'[u] = ev.ts
      BY <1>4, <1>5, <2>1, <3>2 DEF Late, Applied
    <3>4. IsPending(ev) /\ ~IsPending(ev)'
      BY <1>2, <1>3, <2>1, <3>1 DEF IsPending
    <3>5. u \in DOMAIN docs'
      BY <2>2 DEF OthersKept
    <3> QED BY <1>2, <1>3, <2>1, <2>2, <2>3, <3>3, <3>4, <3>5 DEF AppliesNew
  <2>6. ASSUME NEW e \in Email \ amiss'
        PROVE  DoneOf(e)' /\ (FieldsOf(e) => FieldsOf(e)')
    <3>1. e \notin amiss /\ DoneOf(e)
      BY <1>6, <2>6 DEF IndexInv
    <3>2. NoNews(e) \/ AppliesNew(ev, e)
      BY <2>4, <2>5, <2>6, <3>1
    <3> QED BY <1>2, <2>6, <3>1, <3>2, NoNewsKeeps, NewsIsShown
  <2> QED BY <1>2, <1>6, <2>6 DEF IndexInv, ProvenInv, NumbersInv
<1> QED BY <1>1, <1>7, <1>8

LEMMA RestartIndex ==
  ASSUME ProvenInv, BasicsInv, IndexInv, Stops \/ Restarts, BasicsInv'
  PROVE  IndexInv'
<1>1. UNCHANGED <<users, Publishing, docs, latest>> /\ amiss \subseteq amiss'
  BY DEF Stops, Restarts, userService, Publishing
<1>2. latest \in [Email -> Nat] /\ \A e \in DOMAIN docs : docs[e].updatedAt \in Nat
  BY DEF BasicsInv, Times
<1>3. ASSUME NEW e \in Email \ amiss, e \notin amiss', DoneOf(e) PROVE NoNews(e)
  <2>1. CASE Stops
    <3>1. UNCHANGED <<topic, handled, running>>
      BY <2>1 DEF Stops
    <3>2. \A x : (IsPending(x)' <=> IsPending(x)) /\ (IsDone(x)' <=> IsDone(x))
      BY <3>1 DEF IsPending, IsDone
    <3> QED BY <1>1, <1>2, <1>3, <3>1, <3>2 DEF NoNews, DoneOf, Events
  <2>2. CASE Restarts
    <3>1. PICK again \in SUBSET handled :
            /\ topic' = topic \cup again
            /\ amiss' = amiss \cup {w.ev.who : w \in {v \in running : v.ev \notin again}}
      BY <2>2 DEF Restarts
    <3>2. running' = {} /\ handled' = handled \ {w.ev : w \in running}
      BY <2>2 DEF Restarts
    <3>3. \A w \in running : w.ev.who = e => w.ev \in again
      BY <1>3, <3>1
    <3>4. \A w \in running : w.ev \in handled /\ w.ev \notin topic
      BY DEF BasicsInv, Running
    <3>5. Events' \subseteq Events
      BY <3>1, <3>2 DEF Events
    <3>6. ASSUME NEW x \in Events, x.who = e, IsPending(x) PROVE x \in Events' /\ IsPending(x)'
      BY <3>1, <3>2, <3>3, <3>6 DEF IsPending, Events
    <3>7. ASSUME NEW x \in Events', x.who = e, IsPending(x)' PROVE IsPending(x) \/ x.ts <= latest[e]
      <4>1. x \in topic \cup again /\ x \notin handled'
        BY <3>1, <3>2, <3>7 DEF IsPending
      <4>2. CASE x \notin handled
        BY <3>1, <4>1, <4>2 DEF IsPending
      <4>3. CASE x \in handled
        <5>1. PICK w \in running : w.ev = x
          BY <3>2, <4>1, <4>3
        <5>2. CASE w.first
          BY <5>1, <5>2 DEF IsPending
        <5>3. CASE ~w.first
          BY <1>3, <3>7, <5>1, <5>3 DEF DoneOf, Old
        <5> QED BY <5>2, <5>3
      <4> QED BY <4>2, <4>3
    <3>8. \A x : IsDone(x)' => IsDone(x)
      BY <3>2 DEF IsDone
    <3> QED BY <1>1, <1>2, <1>3, <3>2, <3>5, <3>6, <3>7, <3>8 DEF NoNews, DoneOf
  <2> QED BY <2>1, <2>2
<1>4. ASSUME NEW e \in Email \ amiss'
      PROVE  DoneOf(e)' /\ (FieldsOf(e) => FieldsOf(e)')
  <2>1. e \notin amiss /\ DoneOf(e)
    BY <1>1, <1>4 DEF IndexInv
  <2> QED BY <1>1, <1>3, <1>4, <2>1, NoNewsKeeps
<1> QED BY <1>1, <1>4 DEF IndexInv, ProvenInv, NumbersInv

LEMMA PInitIndex == PInit => IndexInv
<1> SUFFICES ASSUME PInit PROVE IndexInv
  OBVIOUS
<1>1. /\ requests = {} /\ topic = {} /\ handled = {} /\ running = {}
      /\ DOMAIN users = scene.registered /\ DOMAIN docs = scene.registered
      /\ \A e \in DOMAIN docs : docs[e].updatedAt = 0 /\ docs[e].shown = users[e].shown
      /\ \A e \in Email : latest[e] = 0
      /\ DOMAIN users \subseteq Email
  BY AccountsAssumption DEF PInit, Init
<1>2. \A e \in Email : DoneOf(e)
  BY <1>1 DEF DoneOf, IsDone
<1>3. \A e \in DOMAIN users, f \in Field : Heard(e, f)
  BY <1>1 DEF Heard, Events
<1> QED BY <1>2, <1>3 DEF IndexInv, FieldsOf

\* Steps of user-service leave the index alone.
LEMMA DoneStays ==
  ASSUME UNCHANGED pvars, NEW e, DoneOf(e)
  PROVE  DoneOf(e)'
BY DEF pvars, DoneOf, IsDone, Old, Outdone

LEMMA NextIndex ==
  ASSUME RowsInv, ProvenInv, BasicsInv, IndexInv, Next, UNCHANGED pvars, BasicsInv'
  PROVE  IndexInv'
<1>1. /\ RowsStay
      /\ \/ Publish
         \/ UNCHANGED <<topic, clock, amiss>> /\ (Quiet \/ \E r : Announces(r) /\ IsFresh(r))
  BY NextShows
<1>2. UNCHANGED <<docs, handled, running, latest>>
  BY DEF pvars
<1>3. ASSUME amiss \subseteq amiss' PROVE \A e \in Email \ amiss' : DoneOf(e)'
  BY <1>3, DoneStays DEF IndexInv
<1>4. CASE /\ UNCHANGED <<topic, amiss>> /\ Publishing \subseteq Publishing'
           /\ \A e \in DOMAIN users', f \in Field :
                \/ e \in DOMAIN users /\ users'[e].shown[f] = users[e].shown[f]
                \/ \E r \in Publishing' : 
                     r.who = e /\ f \in DOMAIN r.carries /\ r.carries[f] = users'[e].shown[f]
  <2>1. Events' = Events /\ \A x : IsPending(x)' <=> IsPending(x)
    BY <1>2, <1>4 DEF Events, IsPending
  <2>2. ASSUME NEW e \in DOMAIN users' \ amiss', NEW f \in Field
        PROVE  Saying(e, f)' \/ Said(e, f)' \/ Heard(e, f)'
    <3>1. CASE e \in DOMAIN users /\ users'[e].shown[f] = users[e].shown[f]
      <4>1. Saying(e, f) \/ Said(e, f) \/ Heard(e, f)
        BY <1>4, <3>1 DEF IndexInv, FieldsOf
      <4>2. Saying(e, f) => Saying(e, f)'
        BY <1>4, <3>1 DEF Saying, Says
      <4>3. Said(e, f) => Said(e, f)'
        BY <2>1, <3>1 DEF Said, Says
      <4>4. Heard(e, f) => Heard(e, f)'
        BY <1>2, <2>1, <3>1 DEF Heard
      <4> QED BY <4>1, <4>2, <4>3, <4>4
    <3>2. CASE \E r \in Publishing' : 
                 r.who = e /\ f \in DOMAIN r.carries /\ r.carries[f] = users'[e].shown[f]
      BY <3>2 DEF Saying, Says
    <3> QED BY <1>4, <3>1, <3>2
  <2> QED BY <1>3, <1>4, <2>2 DEF IndexInv, FieldsOf
<1>5. CASE UNCHANGED <<topic, amiss>> /\ Quiet
  BY <1>4, <1>5 DEF Quiet
<1>6. CASE UNCHANGED <<topic, amiss>> /\ \E r : Announces(r)
  <2>1. PICK r : Announces(r)
    BY <1>6
  <2>2. Publishing \subseteq Publishing' /\ r \in Publishing'
    BY <2>1 DEF Announces
  <2>3. \A e \in DOMAIN users', f \in Field :
                \/ e \in DOMAIN users /\ users'[e].shown[f] = users[e].shown[f]
                \/ r.who = e /\ f \in DOMAIN r.carries /\ r.carries[f] = users'[e].shown[f]
    BY <2>1 DEF Announces
  <2> QED BY <1>4, <1>6, <2>2, <2>3
<1>7. CASE Publish
  <2>0. PICK r, ev : \E kept \in BOOLEAN : SendsOne(r, ev, kept)
    BY <1>7, PublishSends
  <2>1. PICK kept \in BOOLEAN : SendsOne(r, ev, kept)
    BY <2>0
  <2>2. /\ r \in Publishing /\ Publishing' = Publishing \ {r} /\ users' = users
        /\ ev.kind = r.kind /\ ev.who = r.who /\ ev.n = r.n /\ ev.carries = r.carries
        /\ ev.ts = clock' /\ (clock' = clock \/ clock' = clock + 1)
        /\ topic' = IF kept THEN topic \cup {ev} ELSE topic
        /\ amiss' = IF ~kept \/ OutOfDate(r) THEN amiss \cup {r.who} ELSE amiss
    BY <1>7, <2>1 DEF SendsOne, Publish
  <2>3. clock \in Nat /\ clock' \in Nat /\ clock <= clock' /\ \A x \in Events : x.ts \in Nat /\ x.ts <= ev.ts
    BY <2>2 DEF BasicsInv, Times
  <2>4. ev \notin Events /\ \A w \in running : w.ev # ev
    <3>1. Same(r, ev)
      BY <2>2 DEF Same
    <3>2. ev \notin Events
      BY <2>2, <3>1 DEF BasicsInv, Fresh
    <3> QED BY <3>2 DEF BasicsInv, Running, Events
  <2>5. amiss \subseteq amiss'
    BY <2>2
  <2>6. \A x : x # ev => (IsPending(x)' <=> IsPending(x))
    BY <1>2, <2>2 DEF IsPending
  <2>7. Events' \subseteq Events \cup {ev} /\ Events \subseteq Events'
    BY <1>2, <2>2 DEF Events
  <2>8. kept => ev \in Events' /\ IsPending(ev)'
    BY <1>2, <2>2, <2>4 DEF Events, IsPending
  <2>9. ASSUME NEW e \in DOMAIN users \ amiss', NEW f \in Field
        PROVE  Saying(e, f)' \/ Said(e, f)' \/ Heard(e, f)'
    <3>1. Saying(e, f) \/ Said(e, f) \/ Heard(e, f)
      BY <2>5, <2>9 DEF IndexInv, FieldsOf
    <3>2. CASE r.who = e /\ f \in DOMAIN r.carries
      <4>1. kept /\ ~OutOfDate(r)
        BY <2>2, <2>9, <3>2
      <4>2. CASE r.carries[f] = users[e].shown[f]
        <5>1. Says(ev, e, f)'
          BY <2>2, <3>2, <4>2 DEF Says
        <5>2. \A x \in Events' : x.ts <= ev.ts
          BY <2>2, <2>3, <2>7
        <5>3. Said(e, f)'
          BY <2>8, <4>1, <5>1, <5>2 DEF Said
        <5> QED BY <5>3
      <4>3. CASE r.carries[f] # users[e].shown[f]
        <5>1. PICK q \in requests \ {r} :
                /\ q.step = "publish" /\ q.who = r.who /\ f \in DOMAIN q.carries
                /\ q.carries[f] = users[r.who].shown[f]
          BY <3>2, <4>1, <4>3 DEF OutOfDate
        <5>2. q \in Publishing'
          BY <2>2, <5>1 DEF Publishing
        <5>3. Saying(e, f)'
          BY <2>2, <3>2, <5>1, <5>2 DEF Saying, Says
        <5> QED BY <5>3
      <4> QED BY <4>2, <4>3
    <3>3. CASE ~(r.who = e /\ f \in DOMAIN r.carries)
      <4>1. Saying(e, f) => Saying(e, f)'
        BY <2>2, <3>3 DEF Saying, Says
      <4>2. ~(ev.who = e /\ f \in DOMAIN ev.carries)
        BY <2>2, <3>3
      <4>3. Said(e, f) => Said(e, f)'
        <5>1. SUFFICES ASSUME NEW x \in Events, IsPending(x), Says(x, e, f),
                       \A y \in Events : y.who = e /\ f \in DOMAIN y.carries => y.ts <= x.ts
              PROVE Said(e, f)'
          BY DEF Said
        <5>2. x \in Events' /\ IsPending(x)' /\ Says(x, e, f)'
          BY <2>2, <2>4, <2>6, <2>7, <5>1 DEF Says
        <5>3. \A y \in Events' : y.who = e /\ f \in DOMAIN y.carries => y.ts <= x.ts
          BY <2>7, <4>2, <5>1
        <5> QED BY <5>2, <5>3 DEF Said
      <4>4. Heard(e, f) => Heard(e, f)'
        <5>1. SUFFICES ASSUME Heard(e, f) PROVE Heard(e, f)'
          OBVIOUS
        <5>2. \A y \in Events' : y.who = e /\ IsPending(y)' /\ f \in DOMAIN y.carries => y.ts <= latest'[e]
          BY <1>2, <2>6, <2>7, <4>2, <5>1 DEF Heard
        <5> QED BY <1>2, <2>2, <5>1, <5>2 DEF Heard
      <4> QED BY <3>1, <4>1, <4>3, <4>4
    <3> QED BY <3>2, <3>3
  <2> QED BY <1>3, <2>2, <2>5, <2>9 DEF IndexInv, FieldsOf
<1> QED BY <1>1, <1>4, <1>5, <1>6, <1>7

LEMMA PNextIndex ==
  IInv /\ ProvenInv /\ BasicsInv /\ IndexInv /\ [PNext]_<<avars, pvars>> => BasicsInv' /\ IndexInv'
<1> SUFFICES ASSUME IInv, ProvenInv, BasicsInv, IndexInv, [PNext]_<<avars, pvars>>
             PROVE  BasicsInv' /\ IndexInv'
  OBVIOUS
<1>1. CASE Next /\ UNCHANGED pvars
  BY <1>1, NextBasics, NextIndex DEF IInv
<1>2. CASE EachMessage
  BY <1>2, IndexBasics, EachMessageIndex
<1>3. CASE Background
  BY <1>3, IndexBasics, BackgroundIndex
<1>4. CASE Stops \/ Restarts
  BY <1>4, IndexBasics, RestartIndex
<1>5. CASE UNCHANGED <<avars, pvars>>
  <2>1. UNCHANGED <<users, requests, topic, clock, amiss, docs, handled, running, latest>>
    BY <1>5 DEF avars, pvars
  <2>2. UNCHANGED <<Events, Publishing, Announcements>>
    BY <2>1 DEF Events, Publishing, Announcements
  <2>3. BasicsInv'
    BY <2>1, <2>2 DEF BasicsInv, Times, Shapes, Fresh, Running
  <2>4. \A x : (IsPending(x)' <=> IsPending(x)) /\ (IsDone(x)' <=> IsDone(x))
    BY <2>1 DEF IsPending, IsDone
  <2>5. \A e : DoneOf(e) => DoneOf(e)'
    BY <2>1, <2>4 DEF DoneOf, Old, Outdone
  <2>6. \A e : FieldsOf(e) => FieldsOf(e)'
    BY <2>1, <2>2, <2>4 DEF FieldsOf, Saying, Said, Heard, Says
  <2> QED BY <2>1, <2>3, <2>5, <2>6 DEF IndexInv
<1> QED BY <1>1, <1>2, <1>3, <1>4, <1>5 DEF PNext

LEMMA IndexShows ==
  BasicsInv /\ IndexInv => IndexSettles
<1> SUFFICES ASSUME BasicsInv, IndexInv, NEW e \in DOMAIN users \ amiss, Settled(e)
             PROVE  /\ e \in DOMAIN docs
                    /\ UserProfile(e) = CurrentUserProfile(e)
                    /\ GetUserById(e).blocked = users[e].shown.blocked
  BY DEF IndexSettles
<1>1. \A f \in Field : ~Saying(e, f)
  BY DEF Saying, Says, Settled, Publishing
<1>2. \A f \in Field : ~Said(e, f)
  BY DEF Said, Says, Settled, IsPending
<1>3. \A f \in Field : Heard(e, f)
  BY <1>1, <1>2 DEF IndexInv, FieldsOf
<1>4. e \in DOMAIN docs /\ \A f \in Field : docs[e].shown[f] = users[e].shown[f]
  BY <1>3 DEF Heard, Field
<1>5. UserProfile(e) = CurrentUserProfile(e)
  BY <1>4 DEF UserProfile, GetUserById, CurrentUserProfile, RetrieveUserById, Field
<1>6. GetUserById(e).blocked = users[e].shown.blocked
  BY <1>4 DEF GetUserById, Field
<1> QED BY <1>4, <1>5, <1>6

\* Once all that is to be announced and handled of a user is, the index shows
\* what his row holds, unless an event of his was lost, overtaken, out of date
\* or written over a document that could not be read (UserProfileEventsConsumer,
\* UserServices).
THEOREM TheIndexSettles == PSpec => []IndexSettles
<1> QED
  BY PInitIInv, PNextIInv, PInitProven, PNextProven, PInitBasics, PInitIndex, PNextIndex,
     IndexShows, PTL DEF PSpec

-----------------------------------------------------------------------------
(* Friendships. *)

HasRow(id) == \E row \in rows : row.id = id

IsCall(call) ==
  \/ call = NotMade
  \/ call = Done
  \/ \E op \in Op : call = [pc |-> "found", op |-> op]
  \/ \E e \in FriendshipEvent : call = [pc |-> "wrote", event |-> e]
  \/ \E m \in Message : call = [pc |-> "publish", message |-> m]

FriendTypeInv ==
  /\ rows \subseteq Row
  /\ ids \in Nat /\ created \in Nat /\ friendFaults \in Nat
  /\ calls = [c \in Call |-> calls[c]] /\ \A c \in Call : IsCall(calls[c])
  /\ friendTopic \in [Partition -> Seq(Message)]

\* The events published, and those a call in hand has still to publish.
Told == Published \cup Pending

ShapeOf(e) ==
  /\ e \in FriendshipEvent
  /\ e.type = "ACCEPTED" => e.status = "ACCEPTED"
  /\ e.type = "SENT" => e.status = "PENDING"

OneRow == \A r1, r2 \in rows : r1 = r2

\* Every row and event has the id of a row that was made.
IdsAreUsed ==
  /\ \A row \in rows : row.id \in 1 .. ids
  /\ \A e \in Told : e.id \in 1 .. ids /\ ShapeOf(e)

\* Of each id there is one SENT event, and one that ends it once its row is gone.
StoryOf(id) ==
  /\ \E e \in Told : e.id = id /\ e.type = "SENT"
  /\ \A e, f \in Told : e.id = id /\ f.id = id /\ e.type = "SENT" /\ f.type = "SENT" => e = f
  /\ \A e, f \in Told : e.id = id /\ f.id = id /\ e.type \in Ended /\ f.type \in Ended => e = f
  /\ HasRow(id) <=> ~ \E e \in Told : e.id = id /\ e.type \in Ended

AcceptedAreTold ==
  \A row \in rows : row.status = "ACCEPTED" <=> \E e \in Told : e.id = row.id /\ e.type = "ACCEPTED"

\* EventsTellTheStory with the ids, which make the SENT event of a new row the
\* only one of its id.
StoryInv ==
  /\ FriendTypeInv /\ OneRow /\ IdsAreUsed
  /\ friendFaults = 0 => (\A id \in 1 .. ids : StoryOf(id)) /\ AcceptedAreTold

LEMMA InCallIs ==
  ASSUME FriendTypeInv, NEW c \in Call
  PROVE  /\ calls[c].pc = "wrote" => InCall(c) = {calls[c].event} /\ calls[c].event \in FriendshipEvent
         /\ calls[c].pc = "publish" =>
              /\ InCall(c) = {calls[c].message.event}
              /\ calls[c].message \in Message
         /\ calls[c].pc \notin {"wrote", "publish"} => InCall(c) = {}
  BY DEF FriendTypeInv, IsCall, InCall, NotMade, Done

LEMMA FriendInitStory == FriendInit => StoryInv
<1> SUFFICES ASSUME FriendInit PROVE StoryInv
  OBVIOUS
<1>1. FriendTypeInv
  <2>1. \A p \in Partition : << >> \in Seq(Message)
    OBVIOUS
  <2> QED BY <2>1 DEF FriendInit, FriendTypeInv, IsCall
<1>2. Told = {}
  <2>1. Published = {}
    BY DEF FriendInit, Published
  <2>2. Pending = {}
    BY DEF FriendInit, Pending, InCall, NotMade
  <2> QED BY <2>1, <2>2 DEF Told
<1> QED BY <1>1, <1>2 DEF StoryInv, OneRow, IdsAreUsed, AcceptedAreTold, FriendInit

\* What one call changes: its own entry, and what it still has to tell.
Turns(c, to) == calls' = [calls EXCEPT ![c] = to]

LEMMA OneCallTurns ==
  ASSUME FriendTypeInv, NEW c \in Call, NEW to, Turns(c, to)
  PROVE  /\ calls'[c] = to /\ \A d \in Call \ {c} : calls'[d] = calls[d] /\ InCall(d)' = InCall(d)
         /\ calls' = [d \in Call |-> calls'[d]]
         /\ Pending' = InCall(c)' \cup UNION {InCall(d) : d \in Call \ {c}}
         /\ Pending = InCall(c) \cup UNION {InCall(d) : d \in Call \ {c}}
<1>1. calls'[c] = to /\ \A d \in Call \ {c} : calls'[d] = calls[d]
  BY DEF FriendTypeInv, Turns
<1>2. calls' = [d \in Call |-> calls'[d]]
  BY DEF FriendTypeInv, Turns
<1>3. \A d \in Call \ {c} : InCall(d)' = InCall(d)
  BY <1>1 DEF InCall
<1>4. Pending = InCall(c) \cup UNION {InCall(d) : d \in Call \ {c}}
  BY DEF Pending
<1>5. Pending' = InCall(c)' \cup UNION {InCall(d)' : d \in Call \ {c}}
  BY DEF Pending
<1>6. UNION {InCall(d)' : d \in Call \ {c}} = UNION {InCall(d) : d \in Call \ {c}}
  BY <1>3
<1> QED BY <1>1, <1>2, <1>3, <1>4, <1>5, <1>6

LEMMA PublishedStays ==
  UNCHANGED friendTopic => Published' = Published
  BY DEF Published

LEMMA AppendPublishes ==
  ASSUME FriendTypeInv, NEW p \in Partition, NEW m \in Message,
         friendTopic' = [friendTopic EXCEPT ![p] = Append(@, m)]
  PROVE  /\ Published' = Published \cup {m.event}
         /\ friendTopic' \in [Partition -> Seq(Message)]
<1>1. friendTopic'[p] = Append(friendTopic[p], m) /\ friendTopic[p] \in Seq(Message)
  BY DEF FriendTypeInv
<1>2. \A q \in Partition \ {p} : friendTopic'[q] = friendTopic[q]
  BY DEF FriendTypeInv
<1>3. friendTopic' \in [Partition -> Seq(Message)]
  BY <1>1 DEF FriendTypeInv
<1>4. /\ Len(friendTopic'[p]) = Len(friendTopic[p]) + 1 /\ Len(friendTopic[p]) \in Nat
      /\ friendTopic'[p][Len(friendTopic[p]) + 1] = m
      /\ \A i \in 1 .. Len(friendTopic[p]) : friendTopic'[p][i] = friendTopic[p][i]
  BY <1>1
<1> DEFINE EventsIn(q) == {friendTopic[q][i].event : i \in 1 .. Len(friendTopic[q])}
           EventsIn1(q) == {friendTopic'[q][i].event : i \in 1 .. Len(friendTopic'[q])}
<1>5. EventsIn1(p) = EventsIn(p) \cup {m.event}
  <2>1. 1 .. Len(friendTopic'[p]) = (1 .. Len(friendTopic[p])) \cup {Len(friendTopic[p]) + 1}
    BY <1>4
  <2> QED BY <2>1, <1>4
<1>6. \A q \in Partition \ {p} : EventsIn1(q) = EventsIn(q)
  BY <1>2
<1>7. Published = UNION {EventsIn(q) : q \in Partition}
  BY DEF Published
<1>8. Published' = UNION {EventsIn1(q) : q \in Partition}
  BY DEF Published
<1> HIDE DEF EventsIn, EventsIn1
<1>9. Published' = Published \cup {m.event}
  BY <1>5, <1>6, <1>7, <1>8
<1> QED BY <1>3, <1>9

\* A step that tells nothing new and leaves the rows alone keeps the story.
LEMMA SameStory ==
  ASSUME StoryInv, FriendTypeInv', UNCHANGED <<rows, ids, friendFaults>>, Told' = Told
  PROVE  StoryInv'
<1>1. OneRow' /\ IdsAreUsed'
  BY DEF StoryInv, OneRow, IdsAreUsed, ShapeOf
<1>2. \A id : StoryOf(id)' <=> StoryOf(id)
  BY DEF StoryOf, HasRow
<1>3. AcceptedAreTold' <=> AcceptedAreTold
  BY DEF AcceptedAreTold
<1> QED BY <1>1, <1>2, <1>3 DEF StoryInv

\* Nor does a fault, of which nothing is promised.
LEMMA FaultyStory ==
  ASSUME StoryInv, FriendTypeInv', UNCHANGED <<rows, ids>>, Told' \subseteq Told,
         friendFaults' = friendFaults + 1
  PROVE  StoryInv'
<1>1. OneRow' /\ IdsAreUsed'
  BY DEF StoryInv, OneRow, IdsAreUsed, ShapeOf
<1>2. friendFaults' # 0
  BY DEF StoryInv, FriendTypeInv
<1> QED BY <1>1, <1>2 DEF StoryInv

\* What was written is to be told.
LEMMA WroteTells ==
  ASSUME StoryInv, NEW c \in Call, NEW e \in FriendshipEvent, calls[c].pc = "found", Wrote(c, e)
  PROVE  /\ Told' = Told \cup {e} /\ UNCHANGED friendFaults
         /\ rows' \subseteq Row /\ ids' \in Nat => FriendTypeInv'
<1>1. FriendTypeInv
  BY DEF StoryInv
<1>2. Turns(c, [pc |-> "wrote", event |-> e])
  BY DEF Wrote, Turns
<1>3. InCall(c) = {}
  BY <1>1, InCallIs
<1>4. InCall(c)' = {e}
  BY <1>1, <1>2, OneCallTurns DEF InCall
<1>5. Pending' = Pending \cup {e}
  BY <1>1, <1>2, <1>3, <1>4, OneCallTurns
<1>6. Published' = Published
  BY PublishedStays DEF Wrote
<1>7. \A d \in Call : IsCall(calls[d])'
  BY <1>1, <1>2, OneCallTurns DEF IsCall, FriendTypeInv
<1>8. calls' = [d \in Call |-> calls'[d]]
  BY <1>1, <1>2, OneCallTurns
<1> QED BY <1>1, <1>5, <1>6, <1>7, <1>8 DEF Told, FriendTypeInv, Wrote

LEMMA CreateRowStory ==
  ASSUME StoryInv, NEW c \in Call, NEW by \in User, CreateRow(c, by)
  PROVE  StoryInv'
<1> DEFINE row == [id |-> ids + 1, requester |-> by, status |-> "PENDING"]
           e   == EventFor("SENT", row)
<1>1. rows = {} /\ rows' = {row} /\ ids' = ids + 1 /\ Wrote(c, e) /\ calls[c].pc = "found"
  BY DEF CreateRow, Free, At
<1>2. ids \in Nat /\ row \in Row /\ e \in FriendshipEvent
      /\ e.id = ids + 1 /\ e.type = "SENT" /\ e.status = "PENDING"
  BY DEF StoryInv, FriendTypeInv, Row, EventFor, FriendshipEvent
<1>3. row.id = ids + 1 /\ row.status = "PENDING"
  OBVIOUS
<1> HIDE DEF row, e
<1>4. Told' = Told \cup {e} /\ UNCHANGED friendFaults /\ FriendTypeInv'
  BY <1>1, <1>2, WroteTells
<1>5. OneRow'
  BY <1>1 DEF OneRow
<1>6. IdsAreUsed'
  BY <1>1, <1>2, <1>3, <1>4 DEF IdsAreUsed, StoryInv, ShapeOf
<1>7. \A f \in Told : f.id # ids + 1 /\ f.id \in 1 .. ids
  BY <1>2 DEF StoryInv, IdsAreUsed
<1>8. ASSUME friendFaults' = 0, NEW id \in 1 .. ids'
      PROVE  StoryOf(id)'
  <2>1. CASE id = ids + 1
    <3>1. HasRow(id)'
      BY <2>1, <1>1, <1>3 DEF HasRow
    <3>2. \A f \in Told' : f.id = id => f = e
      BY <2>1, <1>4, <1>7
    <3>3. e \in Told' /\ e.id = id /\ e.type = "SENT" /\ "SENT" \notin Ended
      BY <2>1, <1>2, <1>4 DEF Ended
    <3> QED BY <3>1, <3>2, <3>3 DEF StoryOf
  <2>2. CASE id # ids + 1
    <3>1. id \in 1 .. ids /\ StoryOf(id)
      BY <2>2, <1>1, <1>2, <1>4, <1>8 DEF StoryInv
    <3>2. HasRow(id)' <=> HasRow(id)
      BY <2>2, <1>1, <1>3 DEF HasRow
    <3>3. \A f \in Told' : f.id = id => f \in Told
      BY <2>2, <1>2, <1>4
    <3>4. Told \subseteq Told'
      BY <1>4
    <3> QED BY <3>1, <3>2, <3>3, <3>4 DEF StoryOf
  <2> QED BY <2>1, <2>2
<1>9. AcceptedAreTold'
  BY <1>1, <1>2, <1>3, <1>4, <1>7 DEF AcceptedAreTold
<1> QED BY <1>4, <1>5, <1>6, <1>8, <1>9 DEF StoryInv

LEMMA AcceptStory ==
  ASSUME StoryInv, NEW c \in Call, Accept(c)
  PROVE  StoryInv'
<1>1. PICK row \in rows :
        /\ rows' = (rows \ {row}) \cup {[row EXCEPT !.status = "ACCEPTED"]}
        /\ Wrote(c, EventFor("ACCEPTED", [row EXCEPT !.status = "ACCEPTED"]))
  BY DEF Accept
<1> DEFINE accepted == [row EXCEPT !.status = "ACCEPTED"]
           e == EventFor("ACCEPTED", accepted)
<1>2. /\ row \in Row /\ accepted \in Row /\ accepted.id = row.id /\ accepted.status = "ACCEPTED"
      /\ row.id \in 1 .. ids
  BY DEF StoryInv, FriendTypeInv, Row, IdsAreUsed
<1>3. e \in FriendshipEvent /\ e.id = row.id /\ e.type = "ACCEPTED" /\ e.status = "ACCEPTED"
  BY <1>2 DEF EventFor, Row, FriendshipEvent
<1>4. rows = {row} /\ rows' = {accepted} /\ Wrote(c, e) /\ calls[c].pc = "found" /\ UNCHANGED ids
  BY <1>1 DEF StoryInv, OneRow, Accept, At
<1> HIDE DEF accepted, e
<1>5. Told' = Told \cup {e} /\ UNCHANGED friendFaults /\ FriendTypeInv'
  BY <1>2, <1>3, <1>4, WroteTells DEF StoryInv, FriendTypeInv
<1>6. OneRow' /\ IdsAreUsed'
  BY <1>2, <1>3, <1>4, <1>5 DEF OneRow, IdsAreUsed, StoryInv, ShapeOf
<1>7. ASSUME friendFaults' = 0, NEW id \in 1 .. ids'
      PROVE  StoryOf(id)'
  <2>1. StoryOf(id)
    BY <1>4, <1>5, <1>7 DEF StoryInv
  <2>2. HasRow(id)' <=> HasRow(id)
    BY <1>2, <1>4 DEF HasRow
  <2>3. \A f \in Told' : f.type \in Ended \cup {"SENT"} => f \in Told
    BY <1>3, <1>5 DEF Ended
  <2>4. Told \subseteq Told'
    BY <1>5
  <2> QED BY <2>1, <2>2, <2>3, <2>4 DEF StoryOf
<1>8. AcceptedAreTold'
  BY <1>2, <1>3, <1>4, <1>5 DEF AcceptedAreTold
<1> QED BY <1>5, <1>6, <1>7, <1>8 DEF StoryInv

LEMMA DeleteStory ==
  ASSUME StoryInv, NEW c \in Call, Delete(c)
  PROVE  StoryInv'
<1>1. PICK row \in rows : rows' = rows \ {row} /\ Wrote(c, EventFor(Ending[calls[c].op], row))
  BY DEF Delete, Left
<1> DEFINE e == EventFor(Ending[calls[c].op], row)
<1>2. row \in Row /\ row.id \in 1 .. ids
  BY DEF StoryInv, FriendTypeInv, Row, IdsAreUsed
<1>3. Ending[calls[c].op] \in Ended
  BY DEF Delete, At, Ending, Ended
<1>4. e \in FriendshipEvent /\ e.id = row.id /\ e.type \in Ended
  BY <1>2, <1>3 DEF EventFor, Row, FriendshipEvent, Ended
<1>5. rows = {row} /\ rows' = {} /\ Wrote(c, e) /\ calls[c].pc = "found" /\ UNCHANGED ids
  BY <1>1 DEF StoryInv, OneRow, Delete, At
<1> HIDE DEF e
<1>6. Told' = Told \cup {e} /\ UNCHANGED friendFaults /\ FriendTypeInv'
  BY <1>2, <1>4, <1>5, WroteTells DEF StoryInv, FriendTypeInv
<1>7. ShapeOf(e)
  BY <1>4 DEF ShapeOf, Ended
<1>8. OneRow' /\ IdsAreUsed'
  BY <1>2, <1>4, <1>5, <1>6, <1>7 DEF OneRow, IdsAreUsed, StoryInv, ShapeOf
<1>9. ASSUME friendFaults' = 0, NEW id \in 1 .. ids'
      PROVE  StoryOf(id)'
  <2>1. StoryOf(id)
    BY <1>5, <1>6, <1>9 DEF StoryInv
  <2>2. ~HasRow(id)' /\ (HasRow(id) <=> id = row.id)
    BY <1>5 DEF HasRow
  <2>3. \A f \in Told' : f.id # row.id \/ f.type \notin Ended => f \in Told
    BY <1>4, <1>6
  <2>4. \A f \in Told' : id = row.id /\ f.id = id /\ f.type \in Ended => f = e
    BY <2>1, <2>2, <1>6 DEF StoryOf
  <2>5. Told' = Told \cup {e} /\ "SENT" \notin Ended
    BY <1>6 DEF Ended
  <2> HIDE DEF Ended
  <2>6. (\E f \in Told' : f.id = id /\ f.type = "SENT")
        /\ \A f, g \in Told' : f.id = id /\ g.id = id /\ f.type = "SENT" /\ g.type = "SENT" => f = g
    BY <2>1, <2>3, <2>5 DEF StoryOf
  <2>7. \A f, g \in Told' : f.id = id /\ g.id = id /\ f.type \in Ended /\ g.type \in Ended => f = g
    BY <2>1, <2>3, <2>4 DEF StoryOf
  <2>8. \E f \in Told' : f.id = id /\ f.type \in Ended
    BY <2>1, <2>2, <2>5, <1>4 DEF StoryOf
  <2> QED BY <2>2, <2>6, <2>7, <2>8 DEF StoryOf
<1>10. AcceptedAreTold'
  BY <1>5 DEF AcceptedAreTold
<1> QED BY <1>6, <1>8, <1>9, <1>10 DEF StoryInv

LEMMA TurnTypes ==
  ASSUME FriendTypeInv, NEW c \in Call, NEW to, Turns(c, to), IsCall(to),
         UNCHANGED rows, UNCHANGED ids, created' \in Nat, friendFaults' \in Nat,
         friendTopic' \in [Partition -> Seq(Message)]
  PROVE  FriendTypeInv'
<1>1. \A d \in Call : IsCall(calls[d])'
  BY OneCallTurns DEF IsCall, FriendTypeInv
<1> QED BY <1>1, OneCallTurns DEF FriendTypeInv

LEMMA MakeStory ==
  ASSUME StoryInv, NEW c \in Call, NEW op \in Op, Make(c, op)
  PROVE  StoryInv'
<1>1. FriendTypeInv /\ Turns(c, [pc |-> "found", op |-> op])
  BY DEF Make, StoryInv, Turns
<1>2. FriendTypeInv'
  BY <1>1, TurnTypes DEF Make, IsCall, FriendTypeInv
<1>3. InCall(c) = {}
  BY <1>1, InCallIs DEF Make
<1>4. InCall(c)' = {}
  BY <1>1, OneCallTurns DEF InCall
<1>5. Told' = Told
  BY <1>1, <1>3, <1>4, OneCallTurns, PublishedStays DEF Told, Make
<1> QED BY <1>2, <1>5, SameStory DEF Make

LEMMA WriteThrowsStory ==
  ASSUME StoryInv, NEW c \in Call, WriteThrows(c)
  PROVE  StoryInv'
<1>1. FriendTypeInv /\ Turns(c, Done)
  BY DEF WriteThrows, StoryInv, Turns
<1>2. FriendTypeInv'
  BY <1>1, TurnTypes DEF WriteThrows, IsCall, FriendTypeInv
<1>3. InCall(c) = {}
  BY <1>1, InCallIs DEF WriteThrows
<1>4. InCall(c)' = {}
  BY <1>1, OneCallTurns DEF InCall, Done
<1>5. Told' = Told
  BY <1>1, <1>3, <1>4, OneCallTurns, PublishedStays DEF Told, WriteThrows
<1> QED BY <1>2, <1>5, SameStory DEF WriteThrows

LEMMA CreateEventStory ==
  ASSUME StoryInv, NEW c \in Call, CreateEvent(c)
  PROVE  StoryInv'
<1> DEFINE m == [event |-> calls[c].event, at |-> created + 1]
<1>1. FriendTypeInv /\ Turns(c, [pc |-> "publish", message |-> m])
  BY DEF CreateEvent, StoryInv, Turns
<1>2. InCall(c) = {calls[c].event} /\ calls[c].event \in FriendshipEvent
  BY <1>1, InCallIs DEF CreateEvent
<1>3. m \in Message /\ m.event = calls[c].event
  BY <1>1, <1>2 DEF Message, FriendTypeInv
<1> HIDE DEF m
<1>4. FriendTypeInv'
  <2>1. IsCall([pc |-> "publish", message |-> m])
    BY <1>3 DEF IsCall
  <2>2. created' \in Nat /\ UNCHANGED <<rows, ids, friendTopic, friendFaults>>
    BY <1>1 DEF CreateEvent, FriendTypeInv
  <2> QED BY <1>1, <2>1, <2>2, TurnTypes DEF FriendTypeInv
<1>5. InCall(c)' = {m.event}
  BY <1>1, OneCallTurns DEF InCall
<1>6. Told' = Told
  BY <1>1, <1>2, <1>3, <1>5, OneCallTurns, PublishedStays DEF Told, CreateEvent
<1> QED BY <1>4, <1>6, SameStory DEF CreateEvent

LEMMA PublishEventStory ==
  ASSUME StoryInv, NEW c \in Call, NEW p \in Partition, PublishEvent(c, p)
  PROVE  StoryInv'
<1>1. FriendTypeInv /\ Turns(c, Done)
  BY DEF PublishEvent, StoryInv, Turns
<1>2. InCall(c) = {calls[c].message.event} /\ calls[c].message \in Message
  BY <1>1, InCallIs DEF PublishEvent
<1>3. /\ Published' = Published \cup {calls[c].message.event}
      /\ friendTopic' \in [Partition -> Seq(Message)]
  BY <1>1, <1>2, AppendPublishes DEF PublishEvent
<1>4. FriendTypeInv'
  BY <1>1, <1>3, TurnTypes DEF PublishEvent, IsCall, FriendTypeInv
<1>5. InCall(c)' = {}
  BY <1>1, OneCallTurns DEF InCall, Done
<1>6. Told' = Told
  BY <1>1, <1>2, <1>3, <1>5, OneCallTurns DEF Told
<1> QED BY <1>4, <1>6, SameStory DEF PublishEvent

LEMMA PublishFailsStory ==
  ASSUME StoryInv, NEW c \in Call, PublishFails(c)
  PROVE  StoryInv'
<1>1. FriendTypeInv /\ Turns(c, Done)
  BY DEF PublishFails, StoryInv, Turns
<1>2. FriendTypeInv'
  <2>1. IsCall(Done) /\ friendFaults' \in Nat
    BY <1>1 DEF IsCall, PublishFails, FriendTypeInv
  <2> QED BY <1>1, <2>1, TurnTypes DEF PublishFails, FriendTypeInv
<1>3. InCall(c)' = {}
  BY <1>1, OneCallTurns DEF InCall, Done
<1>4. Told' \subseteq Told
  BY <1>1, <1>3, OneCallTurns, PublishedStays DEF Told, PublishFails
<1> QED BY <1>2, <1>4, FaultyStory DEF PublishFails

LEMMA RestartStory == StoryInv /\ Restart => StoryInv'
<1> SUFFICES ASSUME StoryInv, Restart PROVE StoryInv'
  OBVIOUS
<1>1. \A c \in Call : calls'[c] \in {NotMade, Done}
  BY DEF Restart
<1>2. FriendTypeInv'
  BY <1>1 DEF Restart, StoryInv, FriendTypeInv, IsCall
<1>3. Pending' = {}
  BY <1>1 DEF Pending, InCall, NotMade, Done
<1>4. Told' \subseteq Told
  BY <1>3, PublishedStays DEF Told, Restart
<1> QED BY <1>2, <1>4, FaultyStory DEF Restart

LEMMA FriendNextStory == StoryInv /\ [FriendNext]_vars => StoryInv'
<1> SUFFICES ASSUME StoryInv, [FriendNext]_vars PROVE StoryInv'
  OBVIOUS
<1>1. ASSUME NEW c \in Call, NEW op \in Op, Make(c, op) PROVE StoryInv'
  BY <1>1, MakeStory
<1>2. ASSUME NEW c \in Call, NEW by \in User, CreateRow(c, by) PROVE StoryInv'
  BY <1>2, CreateRowStory
<1>3. ASSUME NEW c \in Call, Accept(c) PROVE StoryInv'
  BY <1>3, AcceptStory
<1>4. ASSUME NEW c \in Call, Delete(c) PROVE StoryInv'
  BY <1>4, DeleteStory
<1>5. ASSUME NEW c \in Call, WriteThrows(c) PROVE StoryInv'
  BY <1>5, WriteThrowsStory
<1>6. ASSUME NEW c \in Call, CreateEvent(c) PROVE StoryInv'
  BY <1>6, CreateEventStory
<1>7. ASSUME NEW c \in Call, NEW p \in Partition, PublishEvent(c, p) PROVE StoryInv'
  BY <1>7, PublishEventStory
<1>8. ASSUME NEW c \in Call, PublishFails(c) PROVE StoryInv'
  BY <1>8, PublishFailsStory
<1>9. CASE Restart
  BY <1>9, RestartStory
<1>10. CASE UNCHANGED vars
  <2>1. UNCHANGED <<rows, ids, calls, created, friendTopic, friendFaults>>
    BY <1>10 DEF vars
  <2>2. Told' = Told
    BY <2>1 DEF Told, Published, Pending, InCall
  <2>3. FriendTypeInv'
    BY <2>1 DEF StoryInv, FriendTypeInv, IsCall
  <2> QED BY <2>1, <2>2, <2>3, SameStory
<1> QED BY <1>1, <1>2, <1>3, <1>4, <1>5, <1>6, <1>7, <1>8, <1>9, <1>10 DEF FriendNext, Proceed

LEMMA AtMostOne ==
  ASSUME NEW S, \A x, y \in S : x = y
  PROVE  IsFiniteSet(S) /\ Cardinality(S) <= 1 /\ (S # {} => Cardinality(S) = 1)
<1>1. CASE S = {}
  BY <1>1, FS_EmptySet
<1>2. CASE S # {}
  <2>1. PICK x \in S : TRUE
    BY <1>2
  <2>2. S = {x}
    BY <2>1
  <2>3. IsFiniteSet(S)
    BY <2>2, FS_Singleton
  <2>4. Cardinality(S) = 1
    BY <2>2, FS_Singleton
  <2> QED BY <2>3, <2>4
<1> QED BY <1>1, <1>2

LEMMA StoryTells == StoryInv => EventsTellTheStory
<1> SUFFICES ASSUME StoryInv PROVE EventsTellTheStory
  OBVIOUS
<1>1. Cardinality(rows) <= 1
  BY AtMostOne DEF StoryInv, OneRow
<1>2. ASSUME friendFaults = 0, NEW id \in 1 .. ids
      PROVE  /\ Cardinality({e \in EventsOf(id) : e.type = "SENT"}) = 1
             /\ Cardinality({e \in EventsOf(id) : e.type \in Ended})
                  = IF \E row \in rows : row.id = id THEN 0 ELSE 1
  <2> DEFINE sent == {e \in EventsOf(id) : e.type = "SENT"}
             ends == {e \in EventsOf(id) : e.type \in Ended}
  <2>1. StoryOf(id)
    BY <1>2 DEF StoryInv
  <2>2. \A e : e \in sent <=> e \in Told /\ e.id = id /\ e.type = "SENT"
    BY DEF EventsOf, Told
  <2>3. \A e : e \in ends <=> e \in Told /\ e.id = id /\ e.type \in Ended
    BY DEF EventsOf, Told
  <2> HIDE DEF sent, ends
  <2>4. Cardinality(sent) = 1
    <3>1. sent # {}
      BY <2>1, <2>2 DEF StoryOf
    <3>2. \A x, y \in sent : x = y
      BY <2>1, <2>2 DEF StoryOf
    <3> QED BY <3>1, <3>2, AtMostOne
  <2>5. Cardinality(ends) = IF HasRow(id) THEN 0 ELSE 1
    <3>1. \A x, y \in ends : x = y
      BY <2>1, <2>3 DEF StoryOf
    <3>2. HasRow(id) <=> ends = {}
      BY <2>1, <2>3 DEF StoryOf
    <3> QED BY <3>1, <3>2, AtMostOne, FS_EmptySet
  <2> QED BY <2>4, <2>5 DEF sent, ends, HasRow
<1>3. ASSUME friendFaults = 0, NEW row \in rows
      PROVE  row.status = "ACCEPTED" <=> \E e \in EventsOf(row.id) : e.type = "ACCEPTED"
  BY <1>3 DEF StoryInv, AcceptedAreTold, EventsOf, Told
<1> QED BY <1>1, <1>2, <1>3 DEF EventsTellTheStory

\* Two requests of a pair never coexist, and of the calls that race to end
\* one exactly one does: the events tell consumers what the table holds
\* (FriendRequest.usecase, UserRelationship.usecase).
THEOREM TheEventsTellTheStory == FriendSpec => []EventsTellTheStory
<1> QED BY FriendInitStory, FriendNextStory, StoryTells, PTL DEF FriendSpec

(* Their notifications. *)

Once(x, y) == x.id = y.id => x = y

IsNoti(n, now) ==
  /\ n = [id |-> n.id, status |-> n.status, updatedAt |-> n.updatedAt]
  /\ n.updatedAt \in Nat /\ n.updatedAt <= now

\* One notification for a request, written when some of the events were made.
NotisInv ==
  /\ \A n \in reqNotis : IsNoti(n, created)
  /\ \A n, x \in reqNotis : Once(n, x)

\* halfway is the next message of its partition.
PositionsInv ==
  /\ position \in [Partition -> Nat] /\ committed \in [Partition -> Nat]
  /\ \A p \in Partition : committed[p] <= position[p] /\ position[p] <= Len(friendTopic[p])
  /\ \A h \in halfway :
       /\ h.partition \in Partition /\ position[h.partition] < Len(friendTopic[h.partition])
       /\ halfway = {h} /\ h.event = NextOf(h.partition).event
  /\ mishaps \in Nat /\ hurried \in BOOLEAN

\* What the collections show of the requests, and what the table has.
Shown == {[id |-> n.id, status |-> n.status] : n \in reqNotis}
Kept  == {[id |-> row.id, status |-> row.status] : row \in rows}
Mirrored == Shown = Kept /\ accNotis = {row.id : row \in {r \in rows : r.status = "ACCEPTED"}}

RowIs(id, status) == rows # {} /\ \A row \in rows : row.id = id /\ row.status = status

\* Handling an event e that says this makes the collections mirror the table.
Due(e) ==
  \/ e.type = "SENT" /\ RowIs(e.id, "PENDING") /\ reqNotis = {} /\ accNotis = {}
  \/ /\ e.type = "ACCEPTED" /\ RowIs(e.id, "ACCEPTED")
     /\ reqNotis # {} /\ (\A n \in reqNotis : n.id = e.id) /\ accNotis \subseteq {e.id}
  \/ /\ e.type \in Ended /\ rows = {}
     /\ (\A n \in reqNotis : n.id = e.id) /\ accNotis \subseteq {e.id}
     /\ e.type # "DELETED" => accNotis = {}
HalfDue(e) ==
  /\ accNotis \subseteq {e.id}
  /\ \/ e.type = "ACCEPTED" /\ RowIs(e.id, "ACCEPTED") /\ Shown = Kept
     \/ e.type = "DELETED" /\ rows = {} /\ reqNotis = {}

\* A message that is newer than what is shown, which updateFriendReqStatus asks for.
Newer(at) == \A n \in reqNotis : n.updatedAt < at

\* All is handled but one message of p.
OneBehind(p) ==
  /\ position[p] + 1 = Len(friendTopic[p])
  /\ \A q \in Partition \ {p} : position[q] = Len(friendTopic[q])

\* While nobody hurries, one thing happens at a time: a call is in hand, then
\* its event is on its way, then all rests again.
Resting == CaughtUp /\ Mirrored
InHand(c) ==
  /\ \A d \in Call \ {c} : calls[d].pc \in {"new", "done"}
  /\ Drained
  /\ \/ calls[c].pc = "found" /\ Mirrored /\ Finds(calls[c].op)
     \/ calls[c].pc = "wrote" /\ Due(calls[c].event)
     \/ calls[c].pc = "publish" /\ Due(calls[c].message.event) /\ Newer(calls[c].message.at)
OnItsWay(p) ==
  /\ Idle /\ OneBehind(p)
  /\ \/ halfway = {} /\ Due(NextOf(p).event) /\ Newer(NextOf(p).at)
     \/ /\ halfway = {[partition |-> p, event |-> NextOf(p).event]}
        /\ HalfDue(NextOf(p).event)

Unhurried ==
  ~hurried /\ friendFaults = 0 /\ mishaps = 0 =>
    Resting \/ (\E c \in Call : InHand(c)) \/ (\E p \in Partition : OnItsWay(p))

TopicGrows ==
  /\ created' \in Nat /\ created <= created'
  /\ \A p \in Partition :
       /\ Len(friendTopic[p]) <= Len(friendTopic'[p])
       /\ \A i \in 1 .. Len(friendTopic[p]) : friendTopic'[p][i] = friendTopic[p][i]

LEMMA TopicTypes ==
  ASSUME StoryInv, NEW p \in Partition
  PROVE  friendTopic[p] \in Seq(Message) /\ Len(friendTopic[p]) \in Nat
  BY DEF StoryInv, FriendTypeInv

LEMMA PublishGrows ==
  ASSUME StoryInv, NEW c \in Call, NEW p \in Partition, PublishEvent(c, p)
  PROVE  TopicGrows
<1>1. friendTopic \in [Partition -> Seq(Message)] /\ friendTopic[p] \in Seq(Message)
  BY DEF StoryInv, FriendTypeInv
<1>2. calls[c].message \in Message
  BY InCallIs DEF PublishEvent, StoryInv
<1>3. friendTopic'[p] = Append(friendTopic[p], calls[c].message)
      /\ \A q \in Partition \ {p} : friendTopic'[q] = friendTopic[q]
  BY <1>1 DEF PublishEvent
<1>4. \A q \in Partition : Len(friendTopic[q]) \in Nat
  BY TopicTypes
<1>5. Len(friendTopic[p]) <= Len(friendTopic'[p])
      /\ \A i \in 1 .. Len(friendTopic[p]) : friendTopic'[p][i] = friendTopic[p][i]
  BY <1>1, <1>2, <1>3
<1>6. created' \in Nat /\ created <= created'
  BY DEF StoryInv, FriendTypeInv, PublishEvent
<1> QED BY <1>3, <1>4, <1>5, <1>6 DEF TopicGrows

LEMMA FriendGrows == StoryInv /\ [FriendNext]_vars => TopicGrows
<1> SUFFICES ASSUME StoryInv, [FriendNext]_vars PROVE TopicGrows
  OBVIOUS
<1>1. created \in Nat /\ \A p \in Partition : Len(friendTopic[p]) \in Nat
  BY TopicTypes DEF StoryInv, FriendTypeInv
<1>2. CASE UNCHANGED <<created, friendTopic>>
  BY <1>1, <1>2 DEF TopicGrows
<1>3. ASSUME NEW c \in Call, CreateEvent(c) PROVE TopicGrows
  BY <1>1, <1>3 DEF CreateEvent, TopicGrows
<1>4. ASSUME NEW c \in Call, NEW p \in Partition, PublishEvent(c, p) PROVE TopicGrows
  BY <1>4, PublishGrows
<1>5. ASSUME NEW c \in Call, NEW by \in User, CreateRow(c, by) PROVE UNCHANGED <<created, friendTopic>>
  BY <1>5 DEF CreateRow, Wrote
<1>6. ASSUME NEW c \in Call, Accept(c) \/ Delete(c) PROVE UNCHANGED <<created, friendTopic>>
  BY <1>6 DEF Accept, Delete, Wrote
<1>7. ASSUME NEW c \in Call, WriteThrows(c) \/ PublishFails(c) PROVE UNCHANGED <<created, friendTopic>>
  BY <1>7 DEF WriteThrows, PublishFails
<1>8. ASSUME NEW c \in Call, NEW op \in Op, Make(c, op) PROVE UNCHANGED <<created, friendTopic>>
  BY <1>8 DEF Make
<1>9. Restart \/ UNCHANGED vars => UNCHANGED <<created, friendTopic>>
  BY DEF Restart, vars
<1> QED BY <1>2, <1>3, <1>4, <1>5, <1>6, <1>7, <1>8, <1>9 DEF FriendNext, Proceed

LEMMA NextIs ==
  ASSUME StoryInv, PositionsInv, NEW p \in Partition, position[p] < Len(friendTopic[p])
  PROVE  /\ NextOf(p) \in Message /\ ShapeOf(NextOf(p).event)
         /\ NextOf(p).event.id \in 1 .. ids
<1>1. friendTopic[p] \in Seq(Message) /\ position[p] + 1 \in 1 .. Len(friendTopic[p])
  BY TopicTypes DEF PositionsInv
<1>2. NextOf(p) \in Message
  BY <1>1 DEF NextOf
<1>3. NextOf(p).event \in Published
  BY <1>1 DEF Published, NextOf
<1> QED BY <1>2, <1>3 DEF StoryInv, IdsAreUsed, Told

\* A step of user-service, or of a reader, leaves what is handled alone.
LEMMA GrowthKeeps ==
  ASSUME StoryInv, StoryInv', NotisInv, PositionsInv, TopicGrows,
         UNCHANGED <<position, committed, halfway, mishaps>>, hurried' \in BOOLEAN
  PROVE  PositionsInv' /\ (UNCHANGED reqNotis => NotisInv')
<1>1. ASSUME NEW p \in Partition, position[p] < Len(friendTopic[p])
      PROVE  NextOf(p)' = NextOf(p)
  BY <1>1, TopicTypes DEF PositionsInv, TopicGrows, NextOf
<1>2. \A p \in Partition : Len(friendTopic[p]) \in Nat /\ Len(friendTopic[p]) <= Len(friendTopic'[p])
                             /\ position[p] \in Nat /\ position[p] <= Len(friendTopic[p])
  BY TopicTypes DEF TopicGrows, PositionsInv
<1>3. \A p \in Partition : position[p] <= Len(friendTopic'[p])
        /\ (position[p] < Len(friendTopic[p]) => position[p] < Len(friendTopic'[p]))
  <2> TAKE p \in Partition
  <2>1. Len(friendTopic'[p]) \in Nat
    BY DEF StoryInv, FriendTypeInv
  <2> QED BY <1>2, <2>1
<1>4. PositionsInv'
  BY <1>1, <1>3 DEF PositionsInv
<1>5. UNCHANGED reqNotis => NotisInv'
  BY DEF NotisInv, IsNoti, Once, TopicGrows, StoryInv, FriendTypeInv
<1> QED BY <1>4, <1>5

\* What RetriesAreHarmless says of status.
NeverBack ==
  \A n \in reqNotis, x \in reqNotis' :
    n.id = x.id /\ n.status = "ACCEPTED" => x.status = "ACCEPTED"

NotiVarsInv == NotisInv /\ PositionsInv

LEMMA NotiInitInv == NotiInit => StoryInv /\ NotiVarsInv
<1> SUFFICES ASSUME NotiInit PROVE StoryInv /\ NotiVarsInv
  OBVIOUS
<1>1. StoryInv
  BY FriendInitStory DEF NotiInit
<1>2. \A p \in Partition : friendTopic[p] = << >> /\ position[p] = 0 /\ committed[p] = 0
  BY DEF NotiInit, FriendInit
<1>3. \A p \in Partition : Len(friendTopic[p]) = 0
  BY <1>2
<1>4. NotisInv
  BY DEF NotiInit, NotisInv
<1>5. position \in [Partition -> Nat] /\ committed \in [Partition -> Nat]
  BY DEF NotiInit
<1>6. halfway = {} /\ mishaps \in Nat /\ hurried \in BOOLEAN
  BY DEF NotiInit
<1>7. \A p \in Partition : committed[p] <= position[p] /\ position[p] <= Len(friendTopic[p])
  BY <1>2, <1>3
<1>8. PositionsInv
  BY <1>5, <1>6, <1>7 DEF PositionsInv
<1> QED BY <1>1, <1>4, <1>8 DEF NotiVarsInv

LEMMA MovingOn ==
  ASSUME StoryInv, PositionsInv, NEW p \in Partition, position[p] < Len(friendTopic[p]), MovesOn(p),
         halfway' = {}, UNCHANGED <<friendTopic, committed, hurried>>, mishaps' \in Nat
  PROVE  PositionsInv'
<1>1. Len(friendTopic[p]) \in Nat
  BY TopicTypes
<1>2. position'[p] = position[p] + 1 /\ \A q \in Partition \ {p} : position'[q] = position[q]
  BY DEF PositionsInv, MovesOn
<1>3. position' \in [Partition -> Nat]
  BY DEF PositionsInv, MovesOn
<1>4. \A q \in Partition : committed[q] <= position'[q] /\ position'[q] <= Len(friendTopic[q])
  BY <1>1, <1>2 DEF PositionsInv
<1> QED BY <1>3, <1>4 DEF PositionsInv

LEMMA NotisStay ==
  ASSUME NotiVarsInv, UNCHANGED created, reqNotis' \subseteq reqNotis
  PROVE  NotisInv' /\ NeverBack
  BY DEF NotiVarsInv, NotisInv, IsNoti, Once, NeverBack

LEMMA SentKeeps ==
  ASSUME StoryInv, NotiVarsInv, NEW p \in Partition, HandleSent(p), UNCHANGED <<vars, hurried>>
  PROVE  NotiVarsInv' /\ NeverBack
<1>0. UNCHANGED <<created, friendTopic>>
  BY DEF vars
<1>1. PositionsInv'
  BY <1>0, MovingOn DEF HandleSent, Receives, NotiVarsInv, PositionsInv
<1> DEFINE e == NextOf(p).event
           n == [id |-> e.id, status |-> e.status, updatedAt |-> created]
<1>2. reqNotis' = IF NotYetThere(e.id) THEN reqNotis \cup {n} ELSE reqNotis
  BY DEF HandleSent
<1>3. n.id = e.id /\ n.updatedAt = created /\ n = [id |-> n.id, status |-> n.status, updatedAt |-> n.updatedAt]
  OBVIOUS
<1>4. created \in Nat
  BY DEF StoryInv, FriendTypeInv
<1> HIDE DEF n, e
<1>5. CASE NotYetThere(e.id)
  <2>1. reqNotis' = reqNotis \cup {n} /\ \A x \in reqNotis : x.id # n.id
    BY <1>2, <1>3, <1>5 DEF NotYetThere, NotisOf
  <2>2. IsNoti(n, created)
    BY <1>0, <1>3, <1>4 DEF IsNoti
  <2>3. NotisInv'
    BY <1>0, <2>1, <2>2 DEF NotiVarsInv, NotisInv, IsNoti, Once
  <2>4. NeverBack
    BY <2>1 DEF NeverBack, NotiVarsInv, NotisInv, Once
  <2> QED BY <1>1, <2>3, <2>4 DEF NotiVarsInv
<1>6. CASE ~NotYetThere(e.id)
  BY <1>0, <1>1, <1>2, <1>6, NotisStay DEF NotiVarsInv
<1> QED BY <1>5, <1>6

Rewrite(x, s, u) == [x EXCEPT !.status = s, !.updatedAt = u]

LEMMA Rewritten ==
  ASSUME NEW x, NEW s, NEW u, x = [id |-> x.id, status |-> x.status, updatedAt |-> x.updatedAt]
  PROVE  Rewrite(x, s, u) = [id |-> x.id, status |-> s, updatedAt |-> u]
<1> DEFINE y == [x EXCEPT !.status = s]
<1>1. y = [id |-> x.id, status |-> s, updatedAt |-> x.updatedAt]
  OBVIOUS
<1>2. [y EXCEPT !.updatedAt = u] = [x EXCEPT !.status = s, !.updatedAt = u]
  OBVIOUS
<1> HIDE DEF y
<1>3. [y EXCEPT !.updatedAt = u] = [id |-> x.id, status |-> s, updatedAt |-> u]
  BY <1>1
<1> QED BY <1>2, <1>3 DEF Rewrite

LEMMA AcceptedKeeps ==
  ASSUME StoryInv, NotiVarsInv, NEW p \in Partition, HandleAccepted(p), UNCHANGED <<vars, hurried>>
  PROVE  NotiVarsInv' /\ NeverBack
<1>0. UNCHANGED <<created, friendTopic>>
  BY DEF vars
<1> DEFINE m == NextOf(p)
           n == {x \in NotisOf(m.event.id) : Current(x, m)}
<1>1. halfway = {} /\ position[p] < Len(friendTopic[p]) /\ m.event.type = "ACCEPTED"
      /\ UNCHANGED <<committed, mishaps>>
  BY DEF HandleAccepted, Receives
<1>2. m.event.status = "ACCEPTED"
  BY <1>1, NextIs DEF NotiVarsInv, ShapeOf
<1>3. CASE n = {}
  <2>1. MovesOn(p) /\ UNCHANGED <<reqNotis, halfway>>
    BY <1>3 DEF HandleAccepted
  <2>2. PositionsInv'
    BY <1>0, <1>1, <2>1, MovingOn DEF NotiVarsInv, PositionsInv
  <2> QED BY <1>0, <2>1, <2>2, NotisStay DEF NotiVarsInv
<1>4. CASE n # {}
  <2>1. /\ reqNotis' = (reqNotis \ n) \cup
                   {Rewrite(x, m.event.status, created) : x \in n}
        /\ halfway' = {[partition |-> p, event |-> m.event]}
        /\ UNCHANGED position
    BY <1>4 DEF HandleAccepted, Rewrite
  <2>2. n \subseteq reqNotis
    BY DEF NotisOf
  <2>3. NextOf(p)' = NextOf(p)
    BY <1>0, <2>1 DEF NextOf
  <2>4. PositionsInv'
    <3> DEFINE half == [partition |-> p, event |-> NextOf(p).event]
    <3>0. half.partition = p /\ half.event = NextOf(p).event /\ halfway' = {half}
      BY <2>1
    <3> HIDE DEF m, n, half
    <3>1. \A h \in halfway' : h.partition = p /\ h.event = NextOf(p).event /\ halfway' = {h}
      BY <3>0
    <3> QED BY <1>0, <1>1, <2>1, <2>3, <3>1 DEF NotiVarsInv, PositionsInv
  <2>5. \A x \in n : /\ IsNoti(Rewrite(x, m.event.status, created), created)
                     /\ Rewrite(x, m.event.status, created).id = x.id
                     /\ Rewrite(x, m.event.status, created).status = "ACCEPTED"
    <3> TAKE x \in n
    <3>1. created \in Nat /\ x = [id |-> x.id, status |-> x.status, updatedAt |-> x.updatedAt]
      BY <2>2 DEF StoryInv, FriendTypeInv, NotiVarsInv, NotisInv, IsNoti
    <3> HIDE DEF n, m
    <3>2. Rewrite(x, m.event.status, created)
            = [id |-> x.id, status |-> m.event.status, updatedAt |-> created]
      BY <3>1, Rewritten
    <3> QED BY <1>0, <1>2, <3>1, <3>2 DEF IsNoti
  <2> HIDE DEF n, m
  <2>6. \A y \in reqNotis' : \/ y \in reqNotis \ n
                             \/ \E x \in n : /\ y = Rewrite(x, m.event.status, created)
                                             /\ x.id = y.id /\ y.status = "ACCEPTED" /\ IsNoti(y, created)
    BY <2>1, <2>5
  <2>7. \A y \in reqNotis' : IsNoti(y, created)
    BY <1>0, <2>6 DEF NotiVarsInv, NotisInv, IsNoti
  <2>8. ASSUME NEW y \in reqNotis', NEW z \in reqNotis', y.id = z.id
        PROVE  y = z
    <3>1. CASE y \in reqNotis \ n /\ z \in reqNotis \ n
      BY <2>8, <3>1 DEF NotiVarsInv, NotisInv, Once
    <3>2. CASE y \notin reqNotis \ n /\ z \notin reqNotis \ n
      <4>1. PICK x \in n : y = Rewrite(x, m.event.status, created) /\ x.id = y.id
        BY <2>6, <3>2
      <4>2. PICK w \in n : z = Rewrite(w, m.event.status, created) /\ w.id = z.id
        BY <2>6, <3>2
      <4>3. x = w
        BY <2>2, <2>8, <4>1, <4>2 DEF NotiVarsInv, NotisInv, Once
      <4> QED BY <4>1, <4>2, <4>3
    <3>3. CASE y \in reqNotis \ n /\ z \notin reqNotis \ n
      BY <2>2, <2>6, <2>8, <3>3 DEF NotiVarsInv, NotisInv, Once
    <3>4. CASE y \notin reqNotis \ n /\ z \in reqNotis \ n
      BY <2>2, <2>6, <2>8, <3>4 DEF NotiVarsInv, NotisInv, Once
    <3> QED BY <3>1, <3>2, <3>3, <3>4
  <2>9. NeverBack
    BY <2>2, <2>6 DEF NotiVarsInv, NotisInv, Once, NeverBack
  <2> QED BY <1>0, <2>4, <2>7, <2>8, <2>9 DEF NotiVarsInv, NotisInv, Once
<1> QED BY <1>3, <1>4

LEMMA EndedKeeps ==
  ASSUME StoryInv, NotiVarsInv, NEW p \in Partition, HandleEnded(p), UNCHANGED <<vars, hurried>>
  PROVE  NotiVarsInv' /\ NeverBack
<1>0. UNCHANGED <<created, friendTopic>>
  BY DEF vars
<1>1. halfway = {} /\ position[p] < Len(friendTopic[p]) /\ UNCHANGED <<committed, mishaps>>
      /\ reqNotis' \subseteq reqNotis
  BY DEF HandleEnded, Receives
<1>2. CASE NextOf(p).event.type = "DELETED"
  <2>1. halfway' = {[partition |-> p, event |-> NextOf(p).event]} /\ UNCHANGED position
    BY <1>2 DEF HandleEnded
  <2>2. NextOf(p)' = NextOf(p)
    BY <1>0, <2>1 DEF NextOf
  <2>3. PositionsInv'
    BY <1>0, <1>1, <2>1, <2>2 DEF NotiVarsInv, PositionsInv
  <2> QED BY <1>0, <1>1, <2>3, NotisStay DEF NotiVarsInv
<1>3. CASE NextOf(p).event.type # "DELETED"
  <2>1. MovesOn(p) /\ UNCHANGED halfway
    BY <1>3 DEF HandleEnded
  <2>2. PositionsInv'
    BY <1>0, <1>1, <2>1, MovingOn DEF NotiVarsInv, PositionsInv
  <2> QED BY <1>0, <1>1, <2>2, NotisStay DEF NotiVarsInv
<1> QED BY <1>2, <1>3

LEMMA HalvesKeep ==
  ASSUME StoryInv, NotiVarsInv, SecondWrite \/ ThrowsHalfway, UNCHANGED <<vars, hurried>>
  PROVE  NotiVarsInv' /\ NeverBack
<1>0. UNCHANGED <<created, friendTopic>>
  BY DEF vars
<1>1. /\ \E h \in halfway : MovesOn(h.partition)
      /\ halfway' = {} /\ UNCHANGED <<reqNotis, committed>> /\ mishaps' \in Nat
  <2>1. CASE SecondWrite
    BY <2>1 DEF SecondWrite, NotiVarsInv, PositionsInv
  <2>2. CASE ThrowsHalfway
    BY <2>2 DEF ThrowsHalfway, NotiVarsInv, PositionsInv
  <2> QED BY <2>1, <2>2
<1>2. PICK h \in halfway : MovesOn(h.partition)
  BY <1>1
<1>3. h.partition \in Partition /\ position[h.partition] < Len(friendTopic[h.partition])
  BY DEF NotiVarsInv, PositionsInv
<1>4. PositionsInv'
  BY <1>0, <1>1, <1>2, <1>3, MovingOn DEF NotiVarsInv
<1> QED BY <1>0, <1>1, <1>4, NotisStay DEF NotiVarsInv

LEMMA ReadKeeps ==
  ASSUME StoryInv, NotiVarsInv, NEW n \in reqNotis, MarkAsRead(n), UNCHANGED vars, hurried' \in BOOLEAN
  PROVE  NotiVarsInv' /\ NeverBack
<1>0. UNCHANGED <<created, friendTopic>>
  BY DEF vars
<1> DEFINE x == [n EXCEPT !.updatedAt = created]
<1>1. reqNotis' = (reqNotis \ {n}) \cup {x} /\ UNCHANGED <<position, committed, halfway, mishaps>>
  BY DEF MarkAsRead
<1>2. n = [id |-> n.id, status |-> n.status, updatedAt |-> n.updatedAt] /\ created \in Nat
  BY DEF NotiVarsInv, NotisInv, IsNoti, StoryInv, FriendTypeInv
<1>3. x = [id |-> n.id, status |-> n.status, updatedAt |-> created]
  BY <1>2
<1> HIDE DEF x
<1>4. x.id = n.id /\ x.status = n.status /\ IsNoti(x, created)
  BY <1>0, <1>2, <1>3 DEF IsNoti
<1>5. NotisInv'
  BY <1>0, <1>1, <1>4 DEF NotiVarsInv, NotisInv, IsNoti, Once
<1>6. NeverBack
  BY <1>1, <1>4 DEF NotiVarsInv, NotisInv, Once, NeverBack
<1>7. \A p \in Partition : NextOf(p)' = NextOf(p)
  BY <1>0, <1>1 DEF NextOf
<1>8. PositionsInv'
  BY <1>0, <1>1, <1>7 DEF NotiVarsInv, PositionsInv
<1> QED BY <1>5, <1>6, <1>8 DEF NotiVarsInv

LEMMA ConsumerRestartKeeps ==
  ASSUME StoryInv, NotiVarsInv, RestartConsumer, UNCHANGED <<vars, hurried>>
  PROVE  NotiVarsInv' /\ NeverBack
<1>0. UNCHANGED <<created, friendTopic>>
  BY DEF vars
<1>1. \A p \in Partition : Len(friendTopic[p]) \in Nat
  BY TopicTypes
<1>2. PICK back \in [Partition -> 0 .. Cardinality(Call)] :
        /\ \A p \in Partition : back[p] \in committed[p] .. position[p]
        /\ position' = back /\ committed' = back
  BY DEF RestartConsumer
<1>3. \A p \in Partition : back[p] \in Nat /\ back[p] <= Len(friendTopic[p])
  BY <1>1, <1>2 DEF NotiVarsInv, PositionsInv
<1>4. back \in [Partition -> Nat]
  BY <1>3
<1>5. halfway' = {} /\ mishaps' \in Nat /\ UNCHANGED reqNotis
  BY DEF RestartConsumer, NotiVarsInv, PositionsInv
<1>6. PositionsInv'
  BY <1>0, <1>2, <1>3, <1>4, <1>5 DEF NotiVarsInv, PositionsInv
<1> QED BY <1>0, <1>5, <1>6, NotisStay DEF NotiVarsInv

LEMMA NotiNextIsFriend == [NotiNext]_allVars => [FriendNext]_vars
  BY DEF NotiNext, FriendNext, allVars

LEMMA NotiNextKeeps ==
  StoryInv /\ NotiVarsInv /\ [NotiNext]_allVars => StoryInv' /\ NotiVarsInv' /\ NeverBack
<1> SUFFICES ASSUME StoryInv, NotiVarsInv, [NotiNext]_allVars
             PROVE  StoryInv' /\ NotiVarsInv' /\ NeverBack
  OBVIOUS
<1>1. StoryInv' /\ TopicGrows
  BY NotiNextIsFriend, FriendNextStory, FriendGrows
<1>2. hurried \in BOOLEAN
  BY DEF NotiVarsInv, PositionsInv
<1>3. ASSUME UNCHANGED notiVars, hurried' \in BOOLEAN
      PROVE  NotiVarsInv' /\ NeverBack
  <2>1. UNCHANGED <<reqNotis, position, committed, halfway, mishaps>>
    BY <1>3 DEF notiVars
  <2>2. NotisInv' /\ PositionsInv'
    BY <1>1, <1>3, <2>1, GrowthKeeps DEF NotiVarsInv
  <2>3. NeverBack
    BY <2>1 DEF NeverBack, NotiVarsInv, NotisInv, Once
  <2> QED BY <2>2, <2>3 DEF NotiVarsInv
<1>4. CASE (\E c \in Call, op \in Op : Make(c, op)) /\ UserActs /\ UNCHANGED notiVars
  BY <1>1, <1>2, <1>3, <1>4 DEF UserActs
<1>5. CASE (\E n \in reqNotis : MarkAsRead(n)) /\ UserActs /\ UNCHANGED vars
  <2>1. hurried' \in BOOLEAN
    BY <1>5 DEF UserActs
  <2> QED BY <1>1, <1>5, <2>1, ReadKeeps
<1>6. CASE ((\E c \in Call : Proceed(c)) \/ Restart) /\ UNCHANGED <<notiVars, hurried>>
  BY <1>1, <1>2, <1>3, <1>6
<1>7. CASE ConsumerStep /\ UNCHANGED <<vars, hurried>>
  BY <1>1, <1>7, SentKeeps, AcceptedKeeps, EndedKeeps, HalvesKeep DEF ConsumerStep
<1>8. CASE RestartConsumer /\ UNCHANGED <<vars, hurried>>
  BY <1>1, <1>8, ConsumerRestartKeeps
<1>9. CASE UNCHANGED allVars
  BY <1>1, <1>2, <1>3, <1>9 DEF allVars
<1> QED BY <1>4, <1>5, <1>6, <1>7, <1>8, <1>9 DEF NotiNext

\* However the events are reordered and read again, a request never has two
\* notifications, and one shown as accepted never falls back to pending
\* (FriendRequestNotification.service).
THEOREM OldEventsAreHarmless == NotiSpec => RetriesAreHarmless
<1> DEFINE Harmless ==
      /\ \A id \in 1 .. ids : Cardinality(NotisOf(id)') <= 1
      /\ NeverBack
<1>1. StoryInv /\ NotiVarsInv /\ [NotiNext]_allVars => [Harmless]_allVars
  <2> SUFFICES ASSUME StoryInv, NotiVarsInv, [NotiNext]_allVars PROVE Harmless
    OBVIOUS
  <2>1. NotisInv' /\ NeverBack
    BY NotiNextKeeps DEF NotiVarsInv
  <2>2. \A id \in 1 .. ids : Cardinality(NotisOf(id)') <= 1
    <3> TAKE id \in 1 .. ids
    <3> DEFINE S == {n \in reqNotis' : n.id = id}
    <3>1. \A x, y \in S : x = y
      BY <2>1 DEF NotisInv, Once
    <3>2. NotisOf(id)' = S
      BY DEF NotisOf
    <3> HIDE DEF S
    <3> QED BY <3>1, <3>2, AtMostOne
  <2> QED BY <2>1, <2>2
<1>2. [Harmless]_allVars => [ /\ \A id \in 1 .. ids : Cardinality(NotisOf(id)') <= 1
      /\ \A n \in reqNotis, x \in reqNotis' :
           n.id = x.id /\ n.status = "ACCEPTED" => x.status = "ACCEPTED" ]_allVars
  BY DEF NeverBack
<1> QED
  BY <1>1, <1>2, NotiInitInv, NotiNextKeeps, PTL DEF NotiSpec, RetriesAreHarmless

Orderly == ~hurried /\ friendFaults = 0 /\ mishaps = 0
OrderInv == StoryInv /\ NotiVarsInv /\ Unhurried

LEMMA CaughtUpRests ==
  ASSUME OrderInv, Orderly, CaughtUp
  PROVE  Mirrored
<1>1. ASSUME NEW c \in Call, InHand(c) PROVE Mirrored
  <2>1. calls[c].pc \in {"new", "done"}
    BY DEF CaughtUp, Idle
  <2> QED BY <1>1, <2>1 DEF InHand
<1>2. ASSUME NEW p \in Partition, OnItsWay(p) PROVE FALSE
  <2>1. position[p] = Len(friendTopic[p]) /\ position[p] \in Nat
    BY DEF CaughtUp, Drained, OrderInv, NotiVarsInv, PositionsInv
  <2> QED BY <1>2, <2>1 DEF OnItsWay, OneBehind
<1> QED BY <1>1, <1>2 DEF OrderInv, Orderly, Unhurried, Resting

LEMMA ShownIsKept ==
  ASSUME OneRow, Mirrored, NEW row \in rows
  PROVE  /\ rows = {row} /\ reqNotis # {} /\ \A n \in reqNotis : n.id = row.id
         /\ accNotis \subseteq {row.id} /\ (row.status = "PENDING" => accNotis = {})
<1>1. rows = {row}
  BY DEF OneRow
<1> DEFINE kept == [id |-> row.id, status |-> row.status]
<1>2. Shown = {kept} /\ kept.id = row.id
  BY <1>1 DEF Mirrored, Kept
<1> HIDE DEF kept
<1>3. \A n \in reqNotis : [id |-> n.id, status |-> n.status] = kept
  BY <1>2 DEF Shown
<1>4. \A n \in reqNotis : n.id = row.id
  <2> TAKE n \in reqNotis
  <2>1. [id |-> n.id, status |-> n.status].id = n.id
    OBVIOUS
  <2> QED BY <1>2, <1>3, <2>1
<1>5. reqNotis # {}
  BY <1>2 DEF Shown
<1>6. accNotis = {r.id : r \in {x \in {row} : x.status = "ACCEPTED"}}
  BY <1>1 DEF Mirrored
<1> QED BY <1>1, <1>4, <1>5, <1>6

LEMMA NothingKept ==
  ASSUME Mirrored, rows = {}
  PROVE  reqNotis = {} /\ accNotis = {}
<1>1. Shown = {} /\ accNotis = {}
  BY DEF Mirrored, Kept
<1>2. \A n \in reqNotis : [id |-> n.id, status |-> n.status] \in Shown
  BY DEF Shown
<1> QED BY <1>1, <1>2

\* What the calls do to the phase.
FriendFrame == UNCHANGED <<reqNotis, accNotis, position, committed, halfway, mishaps, hurried>>

LEMMA OthersIdle ==
  ASSUME OrderInv, Orderly, NEW c \in Call, calls[c].pc \notin {"new", "done"}
  PROVE  InHand(c)
<1>1. ~Idle
  BY DEF Idle
<1>2. PICK d \in Call : InHand(d)
  BY <1>1 DEF OrderInv, Orderly, Unhurried, Resting, CaughtUp, OnItsWay
<1>3. d = c
  BY <1>2 DEF InHand
<1> QED BY <1>2, <1>3

LEMMA WroteInHand ==
  ASSUME StoryInv, NEW c \in Call, InHand(c), NEW e, Wrote(c, e), FriendFrame, Due(e)'
  PROVE  InHand(c)'
<1>1. Turns(c, [pc |-> "wrote", event |-> e]) /\ FriendTypeInv
  BY DEF Wrote, Turns, StoryInv
<1>2. calls'[c].pc = "wrote" /\ calls'[c].event = e /\ \A d \in Call \ {c} : calls'[d] = calls[d]
  BY <1>1, OneCallTurns
<1>3. Drained'
  BY DEF InHand, Drained, FriendFrame, Wrote
<1> QED BY <1>2, <1>3 DEF InHand

LEMMA CreateRowDue ==
  ASSUME OrderInv, NEW c \in Call, InHand(c), NEW by \in User, CreateRow(c, by), FriendFrame
  PROVE  InHand(c)'
<1> DEFINE row == [id |-> ids + 1, requester |-> by, status |-> "PENDING"]
           e   == EventFor("SENT", row)
<1>1. rows = {} /\ rows' = {row} /\ Wrote(c, e) /\ calls[c].pc = "found"
  BY DEF CreateRow, Free, At
<1>2. e.type = "SENT" /\ e.id = row.id /\ row.status = "PENDING"
  BY DEF EventFor
<1> HIDE DEF row, e
<1>3. reqNotis = {} /\ accNotis = {}
  BY <1>1, NothingKept DEF InHand
<1>4. \A f : f = e => Due(f)'
  BY <1>1, <1>2, <1>3 DEF Due, RowIs, FriendFrame
<1>5. PICK f : f = e
  OBVIOUS
<1> QED BY <1>1, <1>4, <1>5, WroteInHand DEF OrderInv

LEMMA AcceptDue ==
  ASSUME OrderInv, NEW c \in Call, InHand(c), Accept(c), FriendFrame
  PROVE  InHand(c)'
<1>1. PICK row \in rows :
        /\ rows' = (rows \ {row}) \cup {[row EXCEPT !.status = "ACCEPTED"]}
        /\ Wrote(c, EventFor("ACCEPTED", [row EXCEPT !.status = "ACCEPTED"]))
  BY DEF Accept
<1> DEFINE accepted == [row EXCEPT !.status = "ACCEPTED"]
           e == EventFor("ACCEPTED", accepted)
<1>2. row \in Row /\ accepted.id = row.id /\ accepted.status = "ACCEPTED" /\ OneRow
  BY DEF OrderInv, StoryInv, FriendTypeInv, Row
<1>3. e.type = "ACCEPTED" /\ e.id = accepted.id
  BY DEF EventFor
<1>4. calls[c].pc = "found" /\ Mirrored
  BY DEF Accept, At, InHand
<1>5. rows = {row} /\ reqNotis # {} /\ (\A n \in reqNotis : n.id = row.id) /\ accNotis \subseteq {row.id}
  BY <1>2, <1>4, ShownIsKept
<1>6. rows' = {accepted} /\ Wrote(c, e)
  BY <1>1, <1>5
<1> HIDE DEF accepted, e
<1>7. \A f : f = e => Due(f)'
  BY <1>2, <1>3, <1>5, <1>6 DEF Due, RowIs, FriendFrame
<1>8. PICK f : f = e
  OBVIOUS
<1> QED BY <1>6, <1>7, <1>8, WroteInHand DEF OrderInv

LEMMA DeleteDue ==
  ASSUME OrderInv, NEW c \in Call, InHand(c), Delete(c), FriendFrame
  PROVE  InHand(c)'
<1>1. PICK row \in rows : rows' = rows \ {row} /\ Wrote(c, EventFor(Ending[calls[c].op], row))
  BY DEF Delete, Left
<1> DEFINE e == EventFor(Ending[calls[c].op], row)
<1>2. OneRow
  BY DEF OrderInv, StoryInv
<1>3. /\ calls[c].pc = "found" /\ calls[c].op \in {"cancel", "decline", "remove"}
      /\ Mirrored /\ Finds(calls[c].op)
  BY DEF Delete, At, InHand
<1>4. e.id = row.id /\ e.type = Ending[calls[c].op]
  BY DEF EventFor
<1>5. e.type \in Ended /\ (e.type # "DELETED" => calls[c].op \in {"cancel", "decline"})
  BY <1>3, <1>4 DEF Ending, Ended
<1>6. /\ rows = {row} /\ (\A n \in reqNotis : n.id = row.id) /\ accNotis \subseteq {row.id}
      /\ row.status = "PENDING" => accNotis = {}
  BY <1>2, <1>3, ShownIsKept
<1>7. e.type # "DELETED" => row.status = "PENDING"
  BY <1>3, <1>5, <1>6 DEF Finds
<1> HIDE DEF e
<1>8. rows' = {}
  BY <1>1, <1>6
<1>9. \A f : f = e => Due(f)'
  BY <1>4, <1>5, <1>6, <1>7, <1>8 DEF Due, FriendFrame
<1>10. PICK f : f = e
  OBVIOUS
<1>11. Wrote(c, f)
  BY <1>1, <1>10 DEF e
<1> QED BY <1>9, <1>10, <1>11, WroteInHand DEF OrderInv

LEMMA WriteThrowsRests ==
  ASSUME OrderInv, NEW c \in Call, InHand(c), WriteThrows(c), FriendFrame
  PROVE  Resting'
<1>1. Turns(c, Done) /\ FriendTypeInv
  BY DEF WriteThrows, Turns, OrderInv, StoryInv
<1>2. Idle'
  BY <1>1, OneCallTurns DEF InHand, Idle, Done
<1>3. Drained'
  BY DEF InHand, Drained, FriendFrame, WriteThrows
<1>4. Mirrored'
  BY DEF InHand, Mirrored, Shown, Kept, FriendFrame, WriteThrows
<1> QED BY <1>2, <1>3, <1>4 DEF Resting, CaughtUp

LEMMA DueStays ==
  ASSUME UNCHANGED <<rows, reqNotis, accNotis>>, NEW e, Due(e)
  PROVE  Due(e)'
  BY DEF Due, RowIs

LEMMA CreateEventInHand ==
  ASSUME OrderInv, NEW c \in Call, InHand(c), CreateEvent(c), FriendFrame
  PROVE  InHand(c)'
<1>1. PICK m : m = [event |-> calls[c].event, at |-> created + 1]
  OBVIOUS
<1>2. Turns(c, [pc |-> "publish", message |-> m]) /\ FriendTypeInv
  BY <1>1 DEF CreateEvent, Turns, OrderInv, StoryInv
<1>3. m.event = calls[c].event /\ m.at = created + 1
  BY <1>1
<1>4. calls'[c].pc = "publish" /\ calls'[c].message = m /\ \A d \in Call \ {c} : calls'[d] = calls[d]
  BY <1>2, OneCallTurns
<1>5. Drained'
  BY DEF InHand, Drained, FriendFrame, CreateEvent
<1>6. Due(m.event)
  BY <1>3 DEF InHand, CreateEvent
<1>7. \A e : e = m.event => Due(e)'
  BY <1>6, DueStays DEF FriendFrame, CreateEvent
<1>8. Due(calls[c].message.event)'
  BY <1>4, <1>7 DEF Due
<1>9. Newer(calls[c].message.at)'
  BY <1>2, <1>3, <1>4 DEF Newer, OrderInv, NotiVarsInv, NotisInv, IsNoti, FriendTypeInv, FriendFrame
<1> QED BY <1>4, <1>5, <1>8, <1>9 DEF InHand

LEMMA PublishOnItsWay ==
  ASSUME OrderInv, NEW c \in Call, InHand(c), NEW p \in Partition, PublishEvent(c, p), FriendFrame
  PROVE  OnItsWay(p)'
<1>1. Turns(c, Done) /\ FriendTypeInv
  BY DEF PublishEvent, Turns, OrderInv, StoryInv
<1>2. Idle'
  BY <1>1, OneCallTurns DEF InHand, Idle, Done
<1>3. PICK m : m = calls[c].message
  OBVIOUS
<1>4. m \in Message /\ Due(m.event) /\ Newer(m.at)
  BY <1>1, <1>3, InCallIs DEF InHand, PublishEvent
<1>5. friendTopic[p] \in Seq(Message) /\ friendTopic'[p] = Append(friendTopic[p], m)
      /\ \A q \in Partition \ {p} : friendTopic'[q] = friendTopic[q]
  BY <1>1, <1>3 DEF PublishEvent, FriendTypeInv
<1>6. halfway' = {} /\ \A q \in Partition : position'[q] = Len(friendTopic[q])
  BY DEF InHand, Drained, FriendFrame
<1>7. Len(friendTopic'[p]) = Len(friendTopic[p]) + 1 /\ friendTopic'[p][Len(friendTopic[p]) + 1] = m
  BY <1>4, <1>5
<1>8. OneBehind(p)'
  BY <1>5, <1>6, <1>7 DEF OneBehind
<1>9. NextOf(p)' = m
  BY <1>6, <1>7 DEF NextOf
<1>10. \A e : e = m.event => Due(e)'
  BY <1>4, DueStays DEF FriendFrame, PublishEvent
<1>11. Due(NextOf(p).event)'
  BY <1>9, <1>10 DEF Due
<1>12. Newer(NextOf(p).at)'
  BY <1>4, <1>9 DEF Newer, FriendFrame
<1> QED BY <1>2, <1>6, <1>8, <1>11, <1>12 DEF OnItsWay

LEMMA MakeInHand ==
  ASSUME OrderInv, Resting, NEW c \in Call, NEW op \in Op, Make(c, op),
         UNCHANGED <<reqNotis, accNotis, position, halfway>>
  PROVE  InHand(c)'
<1>1. Turns(c, [pc |-> "found", op |-> op]) /\ FriendTypeInv
  BY DEF Make, Turns, OrderInv, StoryInv
<1>2. /\ calls'[c].pc = "found" /\ calls'[c].op = op
      /\ \A d \in Call \ {c} : calls'[d] = calls[d] /\ calls[d].pc \in {"new", "done"}
  BY <1>1, OneCallTurns DEF Resting, CaughtUp, Idle
<1>3. Drained'
  BY DEF Resting, CaughtUp, Drained, Make
<1>4. Mirrored'
  BY DEF Resting, Mirrored, Shown, Kept, Make
<1>5. Finds(calls[c].op)'
  BY <1>2 DEF Make, Finds, Op
<1> QED BY <1>2, <1>3, <1>4, <1>5 DEF InHand

LEMMA OnlyOneBehind ==
  ASSUME OrderInv, Orderly, NEW p \in Partition, position[p] < Len(friendTopic[p])
  PROVE  OnItsWay(p)
<1>1. position[p] \in Nat /\ ~Drained
  BY TopicTypes DEF Drained, OrderInv, NotiVarsInv, PositionsInv
<1>2. PICK q \in Partition : OnItsWay(q)
  BY <1>1 DEF OrderInv, Orderly, Unhurried, Resting, CaughtUp, InHand
<1>3. q = p
  BY <1>1, <1>2 DEF OnItsWay, OneBehind
<1> QED BY <1>2, <1>3

ConsumerFrame == UNCHANGED <<rows, calls, created, friendTopic>>

LEMMA MovedOnDrained ==
  ASSUME OrderInv, NEW p \in Partition, OnItsWay(p), MovesOn(p), halfway' = {}, ConsumerFrame
  PROVE  CaughtUp'
<1>1. position'[p] = position[p] + 1 /\ \A q \in Partition \ {p} : position'[q] = position[q]
  BY DEF OrderInv, NotiVarsInv, PositionsInv, MovesOn
<1>2. Drained'
  BY <1>1 DEF Drained, OnItsWay, OneBehind, ConsumerFrame
<1>3. Idle'
  BY DEF OnItsWay, Idle, ConsumerFrame
<1> QED BY <1>2, <1>3 DEF CaughtUp

LEMMA SentRests ==
  ASSUME OrderInv, Orderly, NEW p \in Partition, HandleSent(p), ConsumerFrame
  PROVE  Resting'
<1>1. halfway = {} /\ position[p] < Len(friendTopic[p]) /\ NextOf(p).event.type = "SENT"
  BY DEF HandleSent, Receives
<1>2. OnItsWay(p)
  BY <1>1, OnlyOneBehind
<1>3. PICK e : e = NextOf(p).event
  OBVIOUS
<1>4. Due(e) /\ e.type = "SENT" /\ e.status = "PENDING"
  BY <1>1, <1>2, <1>3, NextIs DEF OnItsWay, OrderInv, NotiVarsInv, ShapeOf
<1>5. RowIs(e.id, "PENDING") /\ reqNotis = {} /\ accNotis = {}
  BY <1>4 DEF Due, Ended
<1>6. CaughtUp'
  BY <1>1, <1>2, MovedOnDrained DEF HandleSent
<1>7. PICK n : n = [id |-> e.id, status |-> e.status, updatedAt |-> created]
  OBVIOUS
<1>8. reqNotis' = {n} /\ accNotis' = {}
  BY <1>3, <1>5, <1>7 DEF HandleSent, NotYetThere, NotisOf
<1>9. n.id = e.id /\ n.status = "PENDING"
  BY <1>4, <1>7
<1>10. Shown' = {[id |-> e.id, status |-> "PENDING"]}
  BY <1>8, <1>9 DEF Shown
<1>11. Kept' = {[id |-> e.id, status |-> "PENDING"]}
  BY <1>5 DEF Kept, RowIs, ConsumerFrame
<1>12. {row.id : row \in {r \in rows' : r.status = "ACCEPTED"}} = {}
  BY <1>5 DEF RowIs, ConsumerFrame
<1>13. Mirrored'
  BY <1>8, <1>10, <1>11, <1>12 DEF Mirrored
<1> QED BY <1>6, <1>13 DEF Resting

LEMMA AcceptedHalf ==
  ASSUME OrderInv, Orderly, NEW p \in Partition, HandleAccepted(p), ConsumerFrame
  PROVE  OnItsWay(p)'
<1>1. halfway = {} /\ position[p] < Len(friendTopic[p]) /\ NextOf(p).event.type = "ACCEPTED"
      /\ UNCHANGED accNotis
  BY DEF HandleAccepted, Receives
<1>2. OnItsWay(p)
  BY <1>1, OnlyOneBehind
<1>3. PICK m : m = NextOf(p)
  OBVIOUS
<1>4. Due(m.event) /\ m.event.type = "ACCEPTED" /\ m.event.status = "ACCEPTED" /\ Newer(m.at)
  BY <1>1, <1>2, <1>3, NextIs DEF OnItsWay, OrderInv, NotiVarsInv, ShapeOf
<1>5. /\ RowIs(m.event.id, "ACCEPTED") /\ reqNotis # {}
      /\ \A n \in reqNotis : n.id = m.event.id
      /\ accNotis \subseteq {m.event.id}
  BY <1>4 DEF Due, Ended
<1>6. {x \in NotisOf(m.event.id) : Current(x, m)} = reqNotis
  BY <1>4, <1>5 DEF NotisOf, Current, Newer
<1>7. /\ reqNotis' = {Rewrite(x, "ACCEPTED", created) : x \in reqNotis}
      /\ halfway' = {[partition |-> p, event |-> m.event]}
      /\ UNCHANGED position
  <2>1. /\ reqNotis' = (reqNotis \ reqNotis) \cup {Rewrite(x, "ACCEPTED", created) : x \in reqNotis}
        /\ halfway' = {[partition |-> p, event |-> m.event]}
        /\ UNCHANGED position
    BY <1>3, <1>4, <1>5, <1>6 DEF HandleAccepted, Rewrite
  <2> QED BY <2>1
<1>8. \A x \in reqNotis : Rewrite(x, "ACCEPTED", created).id = m.event.id
                            /\ Rewrite(x, "ACCEPTED", created).status = "ACCEPTED"
  <2> TAKE x \in reqNotis
  <2>1. x = [id |-> x.id, status |-> x.status, updatedAt |-> x.updatedAt] /\ x.id = m.event.id
    BY <1>5 DEF OrderInv, NotiVarsInv, NotisInv, IsNoti
  <2>2. Rewrite(x, "ACCEPTED", created) = [id |-> x.id, status |-> "ACCEPTED", updatedAt |-> created]
    BY <2>1, Rewritten
  <2> QED BY <2>1, <2>2
<1>9. Shown' = {[id |-> m.event.id, status |-> "ACCEPTED"]}
  BY <1>5, <1>7, <1>8 DEF Shown
<1>10. Kept' = {[id |-> m.event.id, status |-> "ACCEPTED"]}
  BY <1>5 DEF Kept, RowIs, ConsumerFrame
<1>11. NextOf(p)' = m /\ OneBehind(p)' /\ Idle'
  BY <1>2, <1>3, <1>7 DEF NextOf, OneBehind, OnItsWay, Idle, ConsumerFrame
<1>12. RowIs(m.event.id, "ACCEPTED")'
  BY <1>5, <1>11 DEF RowIs, ConsumerFrame
<1>13. HalfDue(NextOf(p).event)'
  BY <1>1, <1>4, <1>5, <1>9, <1>10, <1>11 DEF HalfDue, RowIs, ConsumerFrame
<1> QED BY <1>7, <1>11, <1>13 DEF OnItsWay

LEMMA EndedComes ==
  ASSUME OrderInv, Orderly, NEW p \in Partition, HandleEnded(p), ConsumerFrame
  PROVE  Resting' \/ OnItsWay(p)'
<1>1. halfway = {} /\ position[p] < Len(friendTopic[p]) /\ NextOf(p).event.type \in Ended
      /\ UNCHANGED accNotis /\ reqNotis' = reqNotis \ NotisOf(NextOf(p).event.id)
  BY DEF HandleEnded, Receives
<1>2. OnItsWay(p)
  BY <1>1, OnlyOneBehind
<1>3. PICK e : e = NextOf(p).event
  OBVIOUS
<1>4. Due(e) /\ e.type \in Ended
  BY <1>1, <1>2, <1>3 DEF OnItsWay
<1>5. /\ rows = {} /\ (\A n \in reqNotis : n.id = e.id) /\ accNotis \subseteq {e.id}
      /\ e.type # "DELETED" => accNotis = {}
  BY <1>4 DEF Due, Ended
<1>6. reqNotis' = {} /\ rows' = {}
  BY <1>1, <1>3, <1>5 DEF NotisOf, ConsumerFrame
<1>7. CASE e.type = "DELETED"
  <2>1. halfway' = {[partition |-> p, event |-> e]} /\ UNCHANGED position
    BY <1>3, <1>7 DEF HandleEnded
  <2>2. NextOf(p)' = NextOf(p) /\ OneBehind(p)' /\ Idle'
    BY <1>2, <2>1 DEF NextOf, OneBehind, OnItsWay, Idle, ConsumerFrame
  <2>3. HalfDue(NextOf(p).event)'
    BY <1>1, <1>3, <1>5, <1>6, <1>7, <2>2 DEF HalfDue
  <2> QED BY <1>3, <2>1, <2>2, <2>3 DEF OnItsWay
<1>8. CASE e.type # "DELETED"
  <2>1. MovesOn(p) /\ UNCHANGED halfway
    BY <1>3, <1>8 DEF HandleEnded
  <2>2. CaughtUp'
    BY <1>1, <1>2, <2>1, MovedOnDrained
  <2>3. Mirrored'
    BY <1>1, <1>5, <1>6, <1>8 DEF Mirrored, Shown, Kept
  <2> QED BY <2>2, <2>3 DEF Resting
<1> QED BY <1>7, <1>8

LEMMA SecondRests ==
  ASSUME OrderInv, Orderly, SecondWrite, ConsumerFrame
  PROVE  Resting'
<1>1. PICK h \in halfway :
        /\ accNotis' = IF h.event.type = "ACCEPTED" THEN accNotis \cup {h.event.id}
                                                    ELSE accNotis \ {h.event.id}
        /\ MovesOn(h.partition) /\ halfway' = {} /\ UNCHANGED reqNotis
  BY DEF SecondWrite
<1>2. PICK p \in Partition : p = h.partition /\ position[p] < Len(friendTopic[p])
                               /\ h.event = NextOf(p).event
  BY DEF OrderInv, NotiVarsInv, PositionsInv
<1>3. OnItsWay(p)
  BY <1>2, OnlyOneBehind
<1>4. PICK e : e = h.event
  OBVIOUS
<1>5. HalfDue(e)
  BY <1>2, <1>3, <1>4 DEF OnItsWay
<1>6. CaughtUp'
  BY <1>1, <1>2, <1>3, MovedOnDrained
<1>7. CASE e.type = "ACCEPTED"
  <2>1. RowIs(e.id, "ACCEPTED") /\ Shown = Kept /\ accNotis' = {e.id}
    BY <1>1, <1>4, <1>5, <1>7 DEF HalfDue
  <2>2. {row.id : row \in {r \in rows : r.status = "ACCEPTED"}} = {e.id}
    BY <2>1 DEF RowIs
  <2>3. Shown' = Shown /\ Kept' = Kept /\ rows' = rows
    BY <1>1 DEF Shown, Kept, ConsumerFrame
  <2>4. Mirrored'
    BY <2>1, <2>2, <2>3 DEF Mirrored
  <2> QED BY <1>6, <2>4 DEF Resting
<1>8. CASE e.type # "ACCEPTED"
  <2>1. rows' = {} /\ reqNotis' = {} /\ accNotis' = {}
    BY <1>1, <1>4, <1>5, <1>8 DEF HalfDue, ConsumerFrame
  <2>2. Mirrored'
    BY <2>1 DEF Mirrored, Shown, Kept
  <2> QED BY <1>6, <2>2 DEF Resting
<1> QED BY <1>7, <1>8

LEMMA ReadRests ==
  ASSUME OrderInv, Resting, NEW n \in reqNotis, MarkAsRead(n), UNCHANGED vars
  PROVE  Resting'
<1>1. n = [id |-> n.id, status |-> n.status, updatedAt |-> n.updatedAt]
  BY DEF OrderInv, NotiVarsInv, NotisInv, IsNoti
<1>2. PICK x : x = [n EXCEPT !.updatedAt = created]
  OBVIOUS
<1>3. x.id = n.id /\ x.status = n.status
  BY <1>1, <1>2
<1>4. reqNotis' = (reqNotis \ {n}) \cup {x} /\ UNCHANGED <<accNotis, position, halfway>>
  BY <1>2 DEF MarkAsRead
<1>5. Shown' = Shown
  BY <1>3, <1>4 DEF Shown
<1>6. Mirrored'
  BY <1>4, <1>5 DEF Resting, Mirrored, Kept, vars
<1>7. CaughtUp'
  BY <1>4 DEF Resting, CaughtUp, Idle, Drained, vars
<1> QED BY <1>6, <1>7 DEF Resting

LEMMA StillResting ==
  ASSUME UNCHANGED <<rows, calls, friendTopic, reqNotis, accNotis, position, halfway>>
  PROVE  /\ Resting => Resting'
         /\ \A c \in Call : InHand(c) => InHand(c)'
         /\ \A p \in Partition : OnItsWay(p) => OnItsWay(p)'
<1>1. UNCHANGED <<CaughtUp, Idle, Drained, Mirrored, Shown, Kept>>
  BY DEF CaughtUp, Idle, Drained, Mirrored, Shown, Kept
<1>2. Resting => Resting'
  BY <1>1 DEF Resting
<1>3. \A e : (Due(e) => Due(e)') /\ (HalfDue(e) => HalfDue(e)')
  BY <1>1 DEF Due, HalfDue, RowIs
<1>4. \A t : Newer(t) => Newer(t)'
  BY DEF Newer
<1>5. ASSUME NEW c \in Call, InHand(c) PROVE InHand(c)'
  BY <1>1, <1>5 DEF InHand, Finds, Due, RowIs, Newer
<1>6. ASSUME NEW p \in Partition, OnItsWay(p) PROVE OnItsWay(p)'
  BY <1>1, <1>6 DEF OnItsWay, OneBehind, NextOf, Due, HalfDue, RowIs, Newer
<1> QED BY <1>2, <1>5, <1>6

LEMMA NotiNextUnhurried ==
  OrderInv /\ [NotiNext]_allVars => Unhurried'
<1> SUFFICES ASSUME OrderInv, [NotiNext]_allVars, Orderly'
             PROVE  Resting' \/ (\E c \in Call : InHand(c)') \/ (\E p \in Partition : OnItsWay(p)')
  BY DEF Unhurried, Orderly
<1>0. friendFaults \in Nat /\ mishaps \in Nat /\ hurried \in BOOLEAN
  BY DEF OrderInv, StoryInv, FriendTypeInv, NotiVarsInv, PositionsInv
<1>1. CASE (\E c \in Call, op \in Op : Make(c, op)) /\ UserActs /\ UNCHANGED notiVars
  <2>1. PICK c \in Call, op \in Op : Make(c, op)
    BY <1>1
  <2>2. CaughtUp /\ Orderly
    BY <1>0, <1>1, <2>1 DEF UserActs, Orderly, notiVars, Make
  <2>3. Resting
    BY <2>2, CaughtUpRests DEF Resting
  <2>4. UNCHANGED <<reqNotis, accNotis, position, halfway>>
    BY <1>1 DEF notiVars
  <2> QED BY <2>1, <2>3, <2>4, MakeInHand
<1>2. CASE (\E n \in reqNotis : MarkAsRead(n)) /\ UserActs /\ UNCHANGED vars
  <2>1. PICK n \in reqNotis : MarkAsRead(n)
    BY <1>2
  <2>2. CaughtUp /\ Orderly
    BY <1>0, <1>2, <2>1 DEF UserActs, Orderly, vars, MarkAsRead
  <2>3. Resting
    BY <2>2, CaughtUpRests DEF Resting
  <2> QED BY <1>2, <2>1, <2>3, ReadRests
<1>3. CASE (\E c \in Call : Proceed(c)) /\ UNCHANGED <<notiVars, hurried>>
  <2>1. PICK c \in Call : Proceed(c)
    BY <1>3
  <2>2. FriendFrame
    BY <1>3 DEF FriendFrame, notiVars
  <2>3. friendFaults = 0 /\ ~PublishFails(c)
    <3>1. UNCHANGED friendFaults \/ friendFaults' = friendFaults + 1
      BY <2>1 DEF Proceed, CreateRow, Accept, Delete, Wrote, WriteThrows, CreateEvent, PublishEvent, PublishFails
    <3>2. PublishFails(c) => friendFaults' = friendFaults + 1
      BY DEF PublishFails
    <3> QED BY <1>0, <3>1, <3>2 DEF Orderly
  <2>4. Orderly
    BY <2>2, <2>3 DEF Orderly, FriendFrame
  <2>5. calls[c].pc \notin {"new", "done"}
    BY <2>1 DEF Proceed, CreateRow, Accept, Delete, WriteThrows, CreateEvent, PublishEvent, PublishFails, At
  <2>6. InHand(c)
    BY <2>4, <2>5, OthersIdle
  <2> QED BY <2>1, <2>2, <2>3, <2>6, CreateRowDue, AcceptDue, DeleteDue, WriteThrowsRests,
             CreateEventInHand, PublishOnItsWay DEF Proceed
<1>4. CASE Restart
  BY <1>0, <1>4 DEF Restart, Orderly
<1>5. CASE ConsumerStep /\ UNCHANGED <<vars, hurried>>
  <2>1. ConsumerFrame
    BY <1>5 DEF ConsumerFrame, vars
  <2>2. mishaps = 0 /\ ~ThrowsHalfway
    <3>1. UNCHANGED mishaps \/ mishaps' = mishaps + 1
      BY <1>5 DEF ConsumerStep, HandleSent, HandleAccepted, HandleEnded, SecondWrite, ThrowsHalfway
    <3>2. ThrowsHalfway => mishaps' = mishaps + 1
      BY DEF ThrowsHalfway
    <3> QED BY <1>0, <3>1, <3>2 DEF Orderly
  <2>3. Orderly
    BY <1>5, <2>2 DEF Orderly, vars
  <2> QED BY <1>5, <2>1, <2>2, <2>3, SentRests, AcceptedHalf, EndedComes, SecondRests DEF ConsumerStep
<1>6. CASE RestartConsumer
  BY <1>0, <1>6 DEF RestartConsumer, Orderly
<1>7. CASE UNCHANGED allVars
  <2>1. UNCHANGED <<rows, calls, friendTopic, reqNotis, accNotis, position, halfway,
                    hurried, friendFaults, mishaps>>
    BY <1>7 DEF allVars, vars, notiVars
  <2>2. Orderly
    BY <2>1 DEF Orderly
  <2> QED BY <2>1, <2>2, StillResting DEF OrderInv, Unhurried, Orderly
<1> QED BY <1>1, <1>2, <1>3, <1>4, <1>5, <1>6, <1>7 DEF NotiNext

LEMMA NotiInitOrder == NotiInit => OrderInv
<1> SUFFICES ASSUME NotiInit PROVE OrderInv
  OBVIOUS
<1>1. StoryInv /\ NotiVarsInv
  BY NotiInitInv
<1>2. Idle
  BY DEF NotiInit, FriendInit, Idle, NotMade
<1>3. Drained
  <2>1. \A p \in Partition : friendTopic[p] = << >> /\ position[p] = 0
    BY DEF NotiInit, FriendInit
  <2>2. Len(<< >>) = 0
    OBVIOUS
  <2> QED BY <2>1, <2>2 DEF Drained, NotiInit
<1>4. Mirrored
  BY DEF NotiInit, FriendInit, Mirrored, Shown, Kept
<1> QED BY <1>1, <1>2, <1>3, <1>4 DEF OrderInv, Unhurried, Resting, CaughtUp

LEMMA NotiNextOrder == OrderInv /\ [NotiNext]_allVars => OrderInv'
  BY NotiNextKeeps, NotiNextUnhurried DEF OrderInv

LEMMA OrderMirrors == OrderInv => NotificationsMirrorRows
<1> SUFFICES ASSUME OrderInv, CaughtUp, ~hurried, friendFaults + mishaps = 0 PROVE Mirrored
  BY DEF NotificationsMirrorRows, Mirrored, Shown, Kept
<1>1. Orderly
  BY DEF Orderly, OrderInv, StoryInv, FriendTypeInv, NotiVarsInv, PositionsInv
<1> QED BY <1>1, CaughtUpRests

\* Whoever waits until what was done before has arrived finds, whenever
\* everything was handled, one notification for each request there is, with
\* the row's status, and an accepted one for exactly the accepted requests.
THEOREM NotificationsMirror == NotiSpec => []NotificationsMirrorRows
<1> QED BY NotiInitOrder, NotiNextOrder, OrderMirrors, PTL DEF NotiSpec
=============================================================================
