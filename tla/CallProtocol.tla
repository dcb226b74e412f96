---------------------------- MODULE CallProtocol ----------------------------
(***************************************************************************)
(* The Multi Device User Call Connect protocol of chat-service: one call,   *)
(* from one device of the caller to a user with several devices.  The call  *)
(* is a redis hash; every access is awaited, so the handlers of all devices *)
(* interleave between any two of them, and each goes on with the copy of    *)
(* the hash that it read.  A device of the recipient takes the call by      *)
(* being the first to set recipientDeviceId; a call ends by endedAt.        *)
(*                                                                          *)
(* The hash expires if it is not read for long enough.  The times are       *)
(* abstracted: it may vanish at any moment, MaxExpiries times.  (hGetAll of *)
(* a hash that is gone returns {}, so a copy of it has no caller.)          *)
(***************************************************************************)
EXTENDS Naturals, FiniteSets

CONSTANTS
  Recipient,    \* devices (sockets) of the recipient
  caller,       \* the caller's device
  nobody,       \* no device
  MaxExpiries,  \* bound: how often the hash expires
  MaxFaults     \* bound: reads of redis, writes of the database that throw

ASSUME CallAssumption ==
  /\ caller \notin Recipient /\ nobody \notin Recipient \cup {caller}
  /\ MaxExpiries \in Nat /\ MaxFaults \in Nat

Device == Recipient \cup {caller}

VARIABLES
  call,       \* the hash
  init,       \* progress of call.initiate
  acting,     \* per recipient device, progress of its call.action
  hanging,    \* per device, progress of its call.handup
  told,       \* <<device, what it was told, by event or callback>>
  expiries,
  faults

vars == <<call, init, acting, hanging, told, expiries, faults>>

Call == [hasCaller : BOOLEAN, recipientDevice : Recipient \cup {nobody}, ended : BOOLEAN]
NoCall == [hasCaller |-> FALSE, recipientDevice |-> nobody, ended |-> FALSE]

Actions == {"answered", "declined", "timeout"}

Told == {"ringing", "incoming", "acted", "taken", "connected", "signal",
         "callEnded", "declined", "ended", "cancelled"}

At(task, pc) == task.pc = pc
New  == [pc |-> "new"]
Done == [pc |-> "done"]
Refused == [pc |-> "refused"]

Tell(news) == told' = told \cup news
Knows(d, whats) == \E what \in whats : <<d, what>> \in told

CallerOf(copy)      == IF copy.hasCaller THEN {caller} ELSE {}
RecipientsOf(copy)  == IF copy.hasCaller THEN Recipient ELSE {}   \* room recipientId
RecipientDeviceOf(copy) == {copy.recipientDevice} \ {nobody}

----------------------------------------------------------------------------
Init ==
  /\ call     = NoCall
  /\ init     = "new"
  /\ acting   = [d \in Recipient |-> New]
  /\ hanging  = [d \in Device |-> New]
  /\ told     = {}
  /\ expiries = 0
  /\ faults   = 0

\* call.initiate: the call message is in the database, initializeCall's hSet.
InitializeCall ==
  /\ init = "new"
  /\ call' = [call EXCEPT !.hasCaller = TRUE]
  /\ init' = "initialized"
  /\ UNCHANGED <<acting, hanging, told, expiries, faults>>

\* isUserOnline has answered; only now the client gets to know the call id.
Ring ==
  /\ init = "initialized"
  /\ \E online \in SUBSET Recipient :
       Tell({<<caller, "ringing">>} \cup online \X {"incoming"})
  /\ init' = "done"
  /\ UNCHANGED <<call, acting, hanging, expiries, faults>>

LockFreeUnlessEnded == ~call.ended   \* slip: the wrong field is looked at
LockFree == call.recipientDevice = nobody

\* call.action: hSetNotExistingField of recipientDeviceId.
Acquire(d, action) ==
  /\ At(acting[d], "new")
  /\ Knows(d, {"incoming"})
  /\ IF LockFree
     THEN /\ call' = [call EXCEPT !.recipientDevice = d]
          /\ acting' = [acting EXCEPT ![d] = [pc |-> "acquired", action |-> action]]
          /\ UNCHANGED told
     ELSE /\ acting' = [acting EXCEPT ![d] = Done]
          /\ Tell(IF action = "answered" THEN {<<d, "taken">>} ELSE {})
          /\ UNCHANGED call
  /\ UNCHANGED <<init, hanging, expiries, faults>>

\* The device that has the lock gets its description; the other devices stop
\* ringing.  A timeout does not await its hangUpCall.
Act(d) ==
  /\ At(acting[d], "acquired")
  /\ acting' = [acting EXCEPT ![d] = [pc |-> IF @.action = "answered" THEN "taking" ELSE "hangUp",
                                      action |-> @.action, copy |-> call]]
  /\ Tell((RecipientsOf(call) \ {d}) \X {"acted"}
            \cup (IF call.ended THEN {<<d, "callEnded">>} ELSE {})
            \cup (IF acting[d].action = "timeout" THEN CallerOf(call) \X {"ended"} ELSE {}))
  /\ UNCHANGED <<call, init, hanging, expiries, faults>>

\* callTaken is back from the database.
Connect(d) ==
  /\ At(acting[d], "taking")
  /\ Tell(CallerOf(acting[d].copy) \X {"connected"} \cup {<<d, "connected">>})
  /\ acting' = [acting EXCEPT ![d] = Done]
  /\ UNCHANGED <<call, init, hanging, expiries, faults>>

\* getCallDescription or callTaken has thrown: the device keeps the lock, but
\* nobody else is told anything more.
ActFails(d) ==
  /\ acting[d].pc \in {"acquired", "taking"}
  /\ faults < MaxFaults
  /\ faults' = faults + 1
  /\ Tell({<<d, "callEnded">>})
  /\ acting' = [acting EXCEPT ![d] = Done]
  /\ UNCHANGED <<call, init, hanging, expiries>>

----------------------------------------------------------------------------
(* hangUpCall reads the hash, then sets endedAt if it was not set by then.  *)

MayHangUp(d, copy) ==
  /\ d \in CallerOf(copy) \cup RecipientDeviceOf(copy)
  /\ ~copy.ended

EndCall == call' = [call EXCEPT !.ended = TRUE]

\* What a declining or timed out device says once hangUpCall is over.
AfterAction(d) ==
  /\ acting' = [acting EXCEPT ![d] = Done]
  /\ Tell(IF acting[d].action = "declined" THEN CallerOf(acting[d].copy) \X {"declined"} ELSE {})

DeclineReads(d) ==
  /\ At(acting[d], "hangUp")
  /\ IF MayHangUp(d, call)
     THEN acting' = [acting EXCEPT ![d].pc = "ending"] /\ UNCHANGED told
     ELSE AfterAction(d)
  /\ UNCHANGED <<call, init, hanging, expiries, faults>>

DeclineEnds(d) ==
  /\ At(acting[d], "ending")
  /\ EndCall
  /\ AfterAction(d)
  /\ UNCHANGED <<init, hanging, expiries, faults>>

\* call.handup; a device knows the call's id once it rings.
HangUpReads(d) ==
  /\ At(hanging[d], "new")
  /\ Knows(d, {"ringing", "incoming"})
  /\ hanging' = [hanging EXCEPT ![d] =
                   IF MayHangUp(d, call) THEN [pc |-> "ending", copy |-> call] ELSE Refused]
  /\ UNCHANGED <<call, init, acting, told, expiries, faults>>

NewsOneSided(d, copy) ==   \* slip: only the caller's hanging up is announced
  RecipientDeviceOf(copy) \X {"ended"}
NewsUndistinguished(d, copy) ==   \* slip: recipientDeviceId taken as always set
  IF d = caller THEN {<<copy.recipientDevice, "ended">>} ELSE {<<caller, "ended">>}

\* Who is told about a hang-up, by what hangUpCall had read.
News(d, copy) ==
  IF copy.recipientDevice = nobody
  THEN RecipientsOf(copy) \X {"cancelled"}
  ELSE (IF d \in CallerOf(copy) THEN RecipientDeviceOf(copy) ELSE CallerOf(copy)) \X {"ended"}

HangUpEnds(d) ==
  /\ At(hanging[d], "ending")
  /\ EndCall
  /\ Tell(News(d, hanging[d].copy))
  /\ hanging' = [hanging EXCEPT ![d] = Done]
  /\ UNCHANGED <<init, acting, expiries, faults>>

\* call.ice-candidates, call.media.state, call.sdp.offer, call.sdp.answer: what
\* connected clients send each other.
Relay(d) ==
  /\ Knows(d, {"connected"})
  /\ d \in CallerOf(call) \cup RecipientDeviceOf(call)
  /\ Tell((IF d \in CallerOf(call) THEN RecipientDeviceOf(call) ELSE CallerOf(call)) \X {"signal"})
  /\ UNCHANGED <<call, init, acting, hanging, expiries, faults>>

Expire ==
  /\ call # NoCall
  /\ expiries < MaxExpiries
  /\ expiries' = expiries + 1
  /\ call' = NoCall
  /\ UNCHANGED <<init, acting, hanging, told, faults>>

Next ==
  \/ InitializeCall \/ Ring
  \/ \E d \in Recipient :
       \/ \E action \in Actions : Acquire(d, action)
       \/ Act(d) \/ Connect(d) \/ ActFails(d)
       \/ DeclineReads(d) \/ DeclineEnds(d)
  \/ \E d \in Device : HangUpReads(d) \/ HangUpEnds(d) \/ Relay(d)
  \/ Expire

Spec == Init /\ [][Next]_vars

----------------------------------------------------------------------------
Acting ==
  {New, Done} \cup [pc : {"acquired"}, action : Actions]
    \cup [pc : {"taking", "hangUp", "ending"}, action : Actions, copy : Call]

TypeOK ==
  /\ call \in Call
  /\ init \in {"new", "initialized", "done"}
  /\ acting \in [Recipient -> Acting]
  /\ hanging \in [Device -> {New, Done, Refused} \cup [pc : {"ending"}, copy : Call]]
  /\ told \in SUBSET (Device \X Told)
  /\ expiries \in 0 .. MaxExpiries
  /\ faults \in 0 .. MaxFaults

\* However many devices act at once, at most one of them ever decides: only
\* one is connected or relayed signals to, and when one has declined, the
\* caller is not connected to another.
OneDeviceTakes ==
  expiries = 0 =>
    /\ \A d, e \in Recipient :
         Knows(d, {"connected", "signal"}) /\ Knows(e, {"connected", "signal"}) => d = e
    /\ ~ (Knows(caller, {"connected"}) /\ Knows(caller, {"declined"}))

Over == {"callEnded", "declined", "ended", "cancelled"}
Settled ==
  /\ \A d \in Recipient : acting[d].pc \in {"new", "done"}
  /\ \A d \in Device : hanging[d].pc \in {"new", "done", "refused"}
HungUp(d) == hanging[d] = Done

\* Once a call is over and every handler has finished, no device is left in
\* it and none keeps ringing, whoever acted or hung up at the same time: who
\* was connected knows of the end, and who was called knows of that or that
\* another device took the call.
EveryoneLearnsTheEnd ==
  call.ended /\ Settled /\ expiries = 0 /\ faults = 0 =>
    /\ \A d \in Device : Knows(d, {"connected"}) => Knows(d, Over) \/ HungUp(d)
    /\ \A d \in Recipient :
         Knows(d, {"incoming"}) => Knows(d, Over \cup {"acted"}) \/ HungUp(d) \/ acting[d] = Done
==============================================================================
