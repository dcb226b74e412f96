------------------------- MODULE ChatServiceProof -------------------------
(***************************************************************************)
(* Proofs about chat-service.                                               *)
(*                                                                          *)
(* CallProtocol: type correctness, that at most one of any number of        *)
(* devices decides a call whose hash does not expire, and that all of them  *)
(* learn when a call is over.                                               *)
(*                                                                          *)
(* Conversations: that messages are stored for their sender and addressee,  *)
(* that a client which loads a history while it changes misses nothing,     *)
(* and that the list of conversations and the search agree with it.         *)
(***************************************************************************)
EXTENDS CallProtocol, Conversations, FiniteSetTheorems, WellFoundedInduction, TLAPS

\* A device with the lock is named in the hash; whoever is connected is, too.
LockIsHeld ==
  \A d \in Recipient :
    acting[d].pc \in {"acquired", "taking", "hangUp", "ending"} \/ Knows(d, {"connected", "signal"})
      => call.recipientDevice = d

\* The caller is told the outcome by the device with the lock, as its last step.
OutcomeIsLast ==
  Knows(caller, {"connected", "declined"}) =>
    /\ call.recipientDevice # nobody
    /\ \A d \in Recipient : acting[d].pc \in {"new", "done"}

NeverBoth == ~ (Knows(caller, {"connected"}) /\ Knows(caller, {"declined"}))

IInv == TypeOK /\ (expiries = 0 => LockIsHeld /\ OutcomeIsLast /\ NeverBoth)

----------------------------------------------------------------------------
\* Every step keeps the types.
LEMMA TypeStep == TypeOK /\ [Next]_vars => TypeOK'
<1> SUFFICES ASSUME TypeOK, [Next]_vars PROVE TypeOK'
  OBVIOUS
<1> USE CallAssumption DEF TypeOK
<1>1. CASE InitializeCall
  BY <1>1 DEF InitializeCall, Call
<1>2. CASE Ring
  BY <1>2 DEF Ring, Tell, Device, Told
<1>3. ASSUME NEW d \in Recipient, NEW action \in Actions, Acquire(d, action) PROVE TypeOK'
  BY <1>3 DEF Acquire, Tell, Device, Told, Call, Acting, Done
<1>4. ASSUME NEW d \in Recipient, Act(d) PROVE TypeOK'
  <2>1. acting[d] \in [pc : {"acquired"}, action : Actions]
    BY <1>4 DEF Act, At, Acting, New, Done
  <2>2. acting' \in [Recipient -> Acting]
    BY <1>4, <2>1 DEF Act, Acting
  <2>3. told' \in SUBSET (Device \X Told)
    BY <1>4 DEF Act, Tell, Device, Told, RecipientsOf, CallerOf
  <2> QED
    BY <1>4, <2>2, <2>3 DEF Act
<1>5. ASSUME NEW d \in Recipient, Connect(d) PROVE TypeOK'
  BY <1>5 DEF Connect, Tell, Device, Told, CallerOf, Acting
<1>6. ASSUME NEW d \in Recipient, ActFails(d) PROVE TypeOK'
  BY <1>6 DEF ActFails, Tell, Device, Told, Acting
<1>7. ASSUME NEW d \in Recipient, DeclineReads(d) PROVE TypeOK'
  <2>1. acting[d] \in [pc : {"taking", "hangUp", "ending"}, action : Actions, copy : Call]
    BY <1>7 DEF DeclineReads, At, Acting, New, Done
  <2>2. [acting[d] EXCEPT !.pc = "ending"] \in Acting
    BY <2>1 DEF Acting
  <2>3. acting' \in [Recipient -> Acting]
    BY <1>7, <2>2 DEF DeclineReads, AfterAction, Acting
  <2>4. told' \in SUBSET (Device \X Told)
    BY <1>7 DEF DeclineReads, AfterAction, Tell, Device, Told, CallerOf
  <2> QED
    BY <1>7, <2>3, <2>4 DEF DeclineReads
<1>8. ASSUME NEW d \in Recipient, DeclineEnds(d) PROVE TypeOK'
  BY <1>8 DEF DeclineEnds, EndCall, AfterAction, Tell, Device, Told, CallerOf, Call, Acting
<1>9. ASSUME NEW d \in Device, HangUpReads(d) PROVE TypeOK'
  BY <1>9 DEF HangUpReads
<1>10. ASSUME NEW d \in Device, HangUpEnds(d) PROVE TypeOK'
  <2>1. hanging[d].copy \in Call
    BY <1>10 DEF HangUpEnds, At, New, Done, Refused
  <2>2. told' \in SUBSET (Device \X Told)
    BY <1>10, <2>1
    DEF HangUpEnds, Tell, News, Device, Told, RecipientsOf, CallerOf, RecipientDeviceOf, Call
  <2> QED
    BY <1>10, <2>2 DEF HangUpEnds, EndCall, Call
<1>11. ASSUME NEW d \in Device, Relay(d) PROVE TypeOK'
  BY <1>11 DEF Relay, Tell, Device, Told, CallerOf, RecipientDeviceOf, Call
<1>12. CASE Expire
  BY <1>12 DEF Expire, NoCall, Call
<1>13. CASE UNCHANGED vars
  BY <1>13 DEF vars
<1> QED
  BY <1>1, <1>2, <1>3, <1>4, <1>5, <1>6, <1>7, <1>8, <1>9, <1>10, <1>11, <1>12, <1>13 DEF Next

\* The call starts with the types.
LEMMA TypeCorrectInit == Init => TypeOK
  BY CallAssumption DEF Init, TypeOK, NoCall, Call, Acting, Device

\* Every variable of a call has its type, for any set of devices.
THEOREM TypeCorrect == Spec => []TypeOK
<1> QED
  BY TypeCorrectInit, TypeStep, PTL DEF Spec

----------------------------------------------------------------------------
\* While one device has the lock, no other is past it.
LEMMA OthersAreOut ==
  ASSUME TypeOK, LockIsHeld, NEW d \in Recipient, call.recipientDevice = d,
         NEW e \in Recipient, e # d
  PROVE  acting[e].pc \in {"new", "done"}
<1>1. acting[e] \in Acting /\ acting[e].pc \notin {"acquired", "taking", "hangUp", "ending"}
  BY DEF TypeOK, LockIsHeld
<1> QED
  BY <1>1 DEF Acting, New, Done

\* Every step keeps the whole invariant, as long as the hash does not expire.
LEMMA LockStep ==
  ASSUME IInv, TypeOK', [Next]_vars, expiries' = 0
  PROVE  LockIsHeld' /\ OutcomeIsLast' /\ NeverBoth'
<1>e. expiries' \in {expiries, expiries + 1}
  BY DEF Next, vars, InitializeCall, Ring, Acquire, Act, Connect, ActFails,
         DeclineReads, DeclineEnds, HangUpReads, HangUpEnds, Relay, Expire
<1>a. expiries = 0 /\ LockIsHeld /\ OutcomeIsLast /\ NeverBoth
  <2>1. expiries \in Nat
    BY CallAssumption DEF IInv, TypeOK
  <2> QED
    BY <1>e, <2>1 DEF IInv
<1> USE CallAssumption DEF LockIsHeld, OutcomeIsLast, NeverBoth, Knows
<1>t. call \in Call /\ acting \in [Recipient -> Acting]
  BY DEF IInv, TypeOK
<1>1. CASE InitializeCall
  BY <1>a, <1>t, <1>1 DEF InitializeCall, Call
<1>2. CASE Ring
  BY <1>a, <1>t, <1>2 DEF Ring, Tell
<1>3. ASSUME NEW d \in Recipient, NEW action \in Actions, Acquire(d, action)
      PROVE  LockIsHeld' /\ OutcomeIsLast' /\ NeverBoth'
  <2>1. CASE LockFree
    BY <1>a, <1>t, <1>3, <2>1 DEF Acquire, LockFree, Call
  <2>2. CASE ~LockFree
    BY <1>a, <1>t, <1>3, <2>2 DEF Acquire, LockFree, Call, Tell, Done
  <2> QED
    BY <2>1, <2>2
<1>4. ASSUME NEW d \in Recipient, Act(d)
      PROVE  LockIsHeld' /\ OutcomeIsLast' /\ NeverBoth'
  BY <1>a, <1>t, <1>4 DEF Act, At, Tell, CallerOf, RecipientsOf
<1>5. ASSUME NEW d \in Recipient, Connect(d)
      PROVE  LockIsHeld' /\ OutcomeIsLast' /\ NeverBoth'
  <2>1. call.recipientDevice = d /\ ~Knows(caller, {"connected", "declined"})
    BY <1>a, <1>5 DEF Connect, At
  <2>2. \A e \in Recipient \ {d} : acting[e].pc \in {"new", "done"}
    BY <1>a, <2>1, OthersAreOut DEF IInv
  <2> QED
    BY <1>a, <1>t, <1>5, <2>1, <2>2 DEF Connect, At, Tell, CallerOf, Done
<1>6. ASSUME NEW d \in Recipient, ActFails(d)
      PROVE  LockIsHeld' /\ OutcomeIsLast' /\ NeverBoth'
  BY <1>a, <1>t, <1>6 DEF ActFails, Tell, Done
<1>7. ASSUME NEW d \in Recipient, acting[d].pc \in {"hangUp", "ending"}, AfterAction(d),
             call'.recipientDevice = call.recipientDevice
      PROVE  LockIsHeld' /\ OutcomeIsLast' /\ NeverBoth'
  <2>1. call.recipientDevice = d /\ ~Knows(caller, {"connected", "declined"})
    BY <1>a, <1>7
  <2>2. \A e \in Recipient \ {d} : acting[e].pc \in {"new", "done"}
    BY <1>a, <2>1, OthersAreOut DEF IInv
  <2> QED
    BY <1>a, <1>t, <1>7, <2>1, <2>2 DEF AfterAction, Tell, CallerOf, Done
<1>8. ASSUME NEW d \in Recipient, DeclineReads(d)
      PROVE  LockIsHeld' /\ OutcomeIsLast' /\ NeverBoth'
  <2>1. CASE MayHangUp(d, call)
    BY <1>a, <1>t, <1>8, <2>1 DEF DeclineReads, At
  <2>2. CASE ~MayHangUp(d, call)
    BY <1>7, <1>8, <2>2 DEF DeclineReads, At
  <2> QED
    BY <2>1, <2>2
<1>9. ASSUME NEW d \in Recipient, DeclineEnds(d)
      PROVE  LockIsHeld' /\ OutcomeIsLast' /\ NeverBoth'
  BY <1>7, <1>9, <1>t DEF DeclineEnds, At, EndCall, Call
<1>10. ASSUME NEW d \in Device, HangUpReads(d)
       PROVE  LockIsHeld' /\ OutcomeIsLast' /\ NeverBoth'
  BY <1>a, <1>10 DEF HangUpReads
<1>11. ASSUME NEW d \in Device, HangUpEnds(d)
       PROVE  LockIsHeld' /\ OutcomeIsLast' /\ NeverBoth'
  <2>1. call'.recipientDevice = call.recipientDevice
    BY <1>t, <1>11 DEF HangUpEnds, EndCall, Call
  <2>2. \A e \in Device, what \in {"connected", "signal", "declined"} :
          <<e, what>> \in told' => <<e, what>> \in told
    BY <1>11 DEF HangUpEnds, Tell, News, RecipientsOf, CallerOf, RecipientDeviceOf
  <2> QED
    BY <1>a, <1>11, <2>1, <2>2 DEF HangUpEnds, Device
<1>12. ASSUME NEW d \in Device, Relay(d)
       PROVE  LockIsHeld' /\ OutcomeIsLast' /\ NeverBoth'
  BY <1>a, <1>t, <1>12 DEF Relay, Tell, CallerOf, RecipientDeviceOf, Call
<1>13. CASE Expire
  BY <1>13 DEF Expire, IInv, TypeOK
<1>14. CASE UNCHANGED vars
  BY <1>a, <1>14 DEF vars
<1> QED
  BY <1>1, <1>2, <1>3, <1>4, <1>5, <1>6, <1>8, <1>9, <1>10, <1>11, <1>12, <1>13, <1>14 DEF Next

\* However many devices the recipient has: one of them decides, and a caller
\* told of a decline is never connected.
THEOREM OneDeviceDecides == Spec => []OneDeviceTakes
<1>1. Init => IInv
  BY TypeCorrectInit DEF IInv, Init, LockIsHeld, OutcomeIsLast, NeverBoth, Knows, New
<1>2. IInv /\ [Next]_vars => IInv'
  BY TypeStep, LockStep DEF IInv
<1>3. IInv => OneDeviceTakes
  BY DEF IInv, LockIsHeld, NeverBoth, OneDeviceTakes
<1> QED
  BY <1>1, <1>2, <1>3, PTL DEF Spec

----------------------------------------------------------------------------
(***************************************************************************)
(* Everyone learns the end.  Whoever ends a call tells the others by the    *)
(* copy of the hash he read before, so what has to be known is how far such *)
(* a copy may be behind: it has the caller, and it lacks at most the device *)
(* that took the call since.                                                *)
(***************************************************************************)

\* Whatever was read of the hash, by somebody who knew of the call, was there.
CallIsThere ==
  /\ init # "new" => call.hasCaller
  /\ \A d \in Device : Knows(d, {"ringing", "incoming"}) => init # "new"
  /\ call.recipientDevice # nobody => init # "new"
  /\ \A d \in Recipient : acting[d].pc # "new" => init # "new"
  /\ \A d \in Device : hanging[d].pc # "new" => init # "new"
  /\ \A d \in Recipient : acting[d].pc \in {"taking", "hangUp", "ending"} => acting[d].copy.hasCaller

\* A hang-up under way has a copy that is behind by the taking of the call at most.
CopyIsRecent ==
  \A d \in Device : hanging[d].pc = "ending" =>
    LET copy == hanging[d].copy
    IN  /\ copy.hasCaller
        /\ d = caller \/ d = copy.recipientDevice
        /\ copy.recipientDevice \in {nobody, call.recipientDevice}

ConnectedTogether ==
  \A d \in Recipient : Knows(d, {"connected"}) => Knows(caller, {"connected"})

\* Once the device with the lock has acted, the others have been told to stop.
OthersStopRinging ==
  call.recipientDevice # nobody =>
    \/ acting[call.recipientDevice].pc = "acquired"
    \/ /\ acting[call.recipientDevice].pc # "new"
       /\ \A d \in Recipient \ {call.recipientDevice} : Knows(d, {"acted"})

Learnt(d) == Knows(d, Over) \/ HungUp(d)

\* A call that was hung up: both sides know, all devices if none had taken it.
BothSidesKnow ==
  /\ Learnt(caller)
  /\ IF call.recipientDevice = nobody THEN \A d \in Recipient : Learnt(d)
                                      ELSE Learnt(call.recipientDevice)
\* A call that was declined: nobody was ever connected, or will be.
NobodyConnected ==
  /\ call.recipientDevice # nobody /\ acting[call.recipientDevice].pc = "done"
  /\ \A d \in Device : ~Knows(d, {"connected"})

EndIsKnown == call.ended => BothSidesKnow \/ NobodyConnected

EndInv == CallIsThere /\ CopyIsRecent /\ ConnectedTogether /\ OthersStopRinging /\ EndIsKnown
NothingFailed == expiries = 0 /\ faults = 0

\* Nothing has failed before a step after which nothing has.
LEMMA FaultsStay ==
  ASSUME TypeOK, [Next]_vars, NothingFailed'
  PROVE  NothingFailed /\ told \subseteq told'
<1>1. expiries' \in {expiries, expiries + 1} /\ faults' \in {faults, faults + 1}
  BY DEF Next, vars, InitializeCall, Ring, Acquire, Act, Connect, ActFails,
         DeclineReads, DeclineEnds, HangUpReads, HangUpEnds, Relay, Expire
<1>2. expiries \in Nat /\ faults \in Nat
  BY CallAssumption DEF TypeOK
<1>3. told \subseteq told'
  BY DEF Next, vars, InitializeCall, Ring, Acquire, Act, Connect, ActFails, AfterAction, Tell,
         DeclineReads, DeclineEnds, HangUpReads, HangUpEnds, Relay, Expire
<1> QED
  BY <1>1, <1>2, <1>3 DEF NothingFailed

\* What the step lemmas below start from.
Before ==
  /\ TypeOK /\ LockIsHeld /\ OutcomeIsLast /\ NeverBoth /\ EndInv
  /\ told \subseteq told' /\ NothingFailed /\ NothingFailed'

LEMMA CallIsThereStep == ASSUME Before, [Next]_vars PROVE CallIsThere'
<1> USE CallAssumption DEF CallIsThere, Knows
<1>a. /\ CallIsThere /\ call \in Call /\ acting \in [Recipient -> Acting]
      /\ told \in SUBSET (Device \X Told) /\ DOMAIN hanging = Device
  BY DEF Before, EndInv, TypeOK
<1>1. CASE InitializeCall
  BY <1>a, <1>1 DEF InitializeCall, Call
<1>2. CASE Ring
  BY <1>a, <1>2 DEF Ring, Tell
<1>3. ASSUME NEW d \in Recipient, NEW action \in Actions, Acquire(d, action) PROVE CallIsThere'
  <2>1. init # "new"
    BY <1>a, <1>3 DEF Acquire, Device
  <2>2. call'.hasCaller = call.hasCaller /\ init' = init
    BY <1>a, <1>3 DEF Acquire, Call
  <2>3. \A e \in Recipient : acting'[e].pc \in {"taking", "hangUp", "ending"} => acting'[e] = acting[e]
    BY <1>a, <1>3 DEF Acquire, Done
  <2> QED
    BY <1>a, <2>1, <2>2, <2>3
<1>4. ASSUME NEW d \in Recipient, Act(d) PROVE CallIsThere'
  <2>1. init # "new" /\ call.hasCaller
    BY <1>a, <1>4 DEF Act, At
  <2>2. acting'[d].copy = call /\ \A e \in Recipient \ {d} : acting'[e] = acting[e]
    BY <1>a, <1>4 DEF Act
  <2> QED
    BY <1>a, <1>4, <2>1, <2>2 DEF Act
<1>5. ASSUME NEW d \in Recipient, Connect(d) \/ ActFails(d) \/ DeclineReads(d) \/ DeclineEnds(d)
      PROVE CallIsThere'
  <2>1. acting[d].pc # "new" /\ init # "new"
    BY <1>a, <1>5 DEF Connect, ActFails, DeclineReads, DeclineEnds, At
  <2>2. call'.hasCaller = call.hasCaller /\ init' = init
    BY <1>a, <1>5 DEF Connect, ActFails, DeclineReads, DeclineEnds, EndCall, Call
  <2>3. \A e \in Recipient : acting'[e].pc \in {"taking", "hangUp", "ending"} =>
          /\ acting[e].pc \in {"taking", "hangUp", "ending"}
          /\ acting'[e].copy = acting[e].copy
    <3>1. CASE DeclineReads(d) /\ MayHangUp(d, call)
      <4>1. acting' = [acting EXCEPT ![d].pc = "ending"] /\ acting[d].pc = "hangUp"
        BY <3>1 DEF DeclineReads, At
      <4>2. acting[d] \in [pc : {"taking", "hangUp", "ending"}, action : Actions, copy : Call]
        BY <1>a, <4>1 DEF Acting, New, Done
      <4> QED
        BY <1>a, <4>1, <4>2
    <3>2. CASE ~(DeclineReads(d) /\ MayHangUp(d, call))
      BY <1>a, <1>5, <3>2 DEF Connect, ActFails, DeclineReads, DeclineEnds, AfterAction, Done
    <3> QED BY <3>1, <3>2
  <2> QED
    BY <1>a, <2>1, <2>2, <2>3
<1>6. ASSUME NEW d \in Device, HangUpReads(d) PROVE CallIsThere'
  BY <1>a, <1>6 DEF HangUpReads
<1>7. ASSUME NEW d \in Device, HangUpEnds(d) PROVE CallIsThere'
  <2>1. init # "new"
    BY <1>a, <1>7 DEF HangUpEnds, At
  <2>2. call'.hasCaller = call.hasCaller /\ init' = init /\ call'.recipientDevice = call.recipientDevice
    BY <1>a, <1>7 DEF HangUpEnds, EndCall, Call
  <2> QED
    BY <1>a, <1>7, <2>1, <2>2 DEF HangUpEnds
<1>8. ASSUME NEW d \in Device, Relay(d) PROVE CallIsThere'
  BY <1>a, <1>8 DEF Relay, Tell
<1>9. CASE Expire
  BY <1>9 DEF Expire, Before, NothingFailed
<1>10. CASE UNCHANGED vars
  BY <1>a, <1>10 DEF vars
<1> QED
  BY <1>1, <1>2, <1>3, <1>4, <1>5, <1>6, <1>7, <1>8, <1>9, <1>10 DEF Next

LEMMA CopyIsRecentStep == ASSUME Before, [Next]_vars PROVE CopyIsRecent'
<1> USE CallAssumption DEF CopyIsRecent
<1>a. CopyIsRecent /\ CallIsThere /\ call \in Call /\ DOMAIN hanging = Device
  BY DEF Before, EndInv, TypeOK
<1>1. CASE UNCHANGED hanging /\ call'.recipientDevice \in {call.recipientDevice}
  BY <1>a, <1>1
<1>2. ASSUME NEW d \in Recipient, NEW action \in Actions, Acquire(d, action) PROVE CopyIsRecent'
  <2>1. hanging' = hanging /\ (call.recipientDevice # nobody => call' = call)
    BY <1>2 DEF Acquire, LockFree
  <2> QED
    BY <1>a, <2>1
<1>3. ASSUME NEW d \in Device, HangUpReads(d) PROVE CopyIsRecent'
  <2>1. call.hasCaller /\ call' = call
    BY <1>a, <1>3 DEF HangUpReads, CallIsThere
  <2>2. hanging'[d].pc = "ending" =>
          hanging'[d].copy = call /\ (d = caller \/ d = call.recipientDevice)
    BY <1>a, <1>3 DEF HangUpReads, MayHangUp, CallerOf, RecipientDeviceOf, Refused
  <2>3. \A e \in Device \ {d} : hanging'[e] = hanging[e]
    BY <1>a, <1>3 DEF HangUpReads
  <2> QED
    BY <1>a, <2>1, <2>2, <2>3
<1>4. ASSUME NEW d \in Device, HangUpEnds(d) PROVE CopyIsRecent'
  <2>1. call'.recipientDevice = call.recipientDevice
    BY <1>a, <1>4 DEF HangUpEnds, EndCall, Call
  <2>2. hanging' = [hanging EXCEPT ![d] = Done]
    BY <1>4 DEF HangUpEnds
  <2> QED
    BY <1>a, <2>1, <2>2 DEF Done
<1>5. CASE InitializeCall \/ \E d \in Recipient : DeclineEnds(d)
  <2>1. call'.recipientDevice = call.recipientDevice /\ hanging' = hanging
    BY <1>a, <1>5 DEF InitializeCall, DeclineEnds, EndCall, Call
  <2> QED
    BY <1>1, <2>1
<1>6. CASE Expire
  BY <1>6 DEF Expire, Before, NothingFailed
<1>7. CASE \/ Ring \/ \E d \in Recipient : Act(d) \/ Connect(d) \/ ActFails(d) \/ DeclineReads(d)
           \/ (\E d \in Device : Relay(d)) \/ UNCHANGED vars
  BY <1>1, <1>7 DEF Ring, Act, Connect, ActFails, DeclineReads, Relay, vars
<1> QED
  BY <1>2, <1>3, <1>4, <1>5, <1>6, <1>7 DEF Next

\* Only Connect connects, and it does so for both sides.
LEMMA ConnectedBy ==
  ASSUME [Next]_vars, NEW e, Knows(e, {"connected"})'
  PROVE  Knows(e, {"connected"}) \/ \E d \in Recipient : Connect(d)
<1> USE DEF Knows, Tell
<1>1. ASSUME NEW d \in Recipient, NEW action \in Actions, Acquire(d, action)
      PROVE  Knows(e, {"connected"})
  BY <1>1 DEF Acquire
<1>2. ASSUME NEW d \in Recipient, Act(d) \/ ActFails(d) \/ DeclineReads(d) \/ DeclineEnds(d)
      PROVE  Knows(e, {"connected"})
  BY <1>2 DEF Act, ActFails, DeclineReads, DeclineEnds, AfterAction, CallerOf
<1>3. ASSUME NEW d \in Device, HangUpReads(d) \/ HangUpEnds(d) \/ Relay(d)
      PROVE  Knows(e, {"connected"})
  <2>1. CASE HangUpReads(d) \/ Relay(d)
    BY <2>1 DEF HangUpReads, Relay
  <2>2. CASE HangUpEnds(d)
    BY <2>2 DEF HangUpEnds, News
  <2> QED BY <1>3, <2>1, <2>2
<1>4. CASE InitializeCall \/ Ring \/ Expire \/ UNCHANGED vars
  BY <1>4 DEF InitializeCall, Ring, Expire, vars
<1> QED
  BY <1>1, <1>2, <1>3, <1>4 DEF Next

LEMMA ConnectedTogetherStep == ASSUME Before, [Next]_vars PROVE ConnectedTogether'
<1> SUFFICES ASSUME NEW d \in Recipient, Knows(d, {"connected"})'
             PROVE  Knows(caller, {"connected"})'
  BY DEF ConnectedTogether
<1>1. CASE Knows(d, {"connected"})
  BY <1>1 DEF Before, EndInv, ConnectedTogether, Knows
<1>2. ASSUME NEW e \in Recipient, Connect(e) PROVE Knows(caller, {"connected"})'
  <2>1. acting[e].copy.hasCaller
    BY <1>2 DEF Connect, At, Before, EndInv, CallIsThere
  <2> QED
    BY <1>2, <2>1 DEF Connect, Tell, CallerOf, Knows
<1> QED
  BY <1>1, <1>2, ConnectedBy

LEMMA OthersStopRingingStep == ASSUME Before, [Next]_vars PROVE OthersStopRinging'
<1> USE CallAssumption DEF OthersStopRinging
<1>a. /\ OthersStopRinging /\ CallIsThere /\ LockIsHeld /\ call \in Call
      /\ acting \in [Recipient -> Acting] /\ told \subseteq told'
  BY DEF Before, EndInv, TypeOK
<1>b. CASE /\ call'.recipientDevice = call.recipientDevice
           /\ call.recipientDevice # nobody =>
                acting'[call.recipientDevice] = acting[call.recipientDevice]
  BY <1>a, <1>b DEF Knows
<1>1. ASSUME NEW d \in Recipient, NEW action \in Actions, Acquire(d, action) PROVE OthersStopRinging'
  <2>1. CASE LockFree
    BY <1>a, <1>1, <2>1 DEF Acquire, Call
  <2>2. CASE ~LockFree
    <3>1. acting[d].pc = "new" /\ d # call.recipientDevice
      BY <1>a, <1>1, <2>2 DEF Acquire, At, LockFree
    <3> QED
      BY <1>a, <1>b, <1>1, <2>2, <3>1 DEF Acquire, LockFree, Call
  <2> QED BY <2>1, <2>2
<1>2. ASSUME NEW d \in Recipient, Act(d) PROVE OthersStopRinging'
  <2>1. d = call.recipientDevice /\ call.hasCaller /\ call' = call
    BY <1>a, <1>2 DEF Act, At, LockIsHeld, CallIsThere
  <2>2. acting'[d].pc # "new"
    BY <1>a, <1>2 DEF Act
  <2>3. \A e \in Recipient \ {d} : Knows(e, {"acted"})'
    BY <1>2, <2>1 DEF Act, Tell, RecipientsOf, Knows
  <2> QED BY <2>1, <2>2, <2>3
<1>3. ASSUME NEW d \in Recipient, Connect(d) \/ DeclineReads(d) \/ DeclineEnds(d) PROVE OthersStopRinging'
  <2>1. /\ acting[d].pc \in {"taking", "hangUp", "ending"}
        /\ call'.recipientDevice = call.recipientDevice
    BY <1>a, <1>3 DEF Connect, DeclineReads, DeclineEnds, At, EndCall, Call
  <2>2. d = call.recipientDevice /\ d # nobody
    BY <1>a, <2>1 DEF LockIsHeld
  <2>3. acting'[d].pc # "new"
    <3>1. CASE DeclineReads(d) /\ MayHangUp(d, call)
      <4>1. acting' = [acting EXCEPT ![d].pc = "ending"]
        BY <3>1 DEF DeclineReads
      <4>2. acting[d] \in [pc : {"taking", "hangUp", "ending"}, action : Actions, copy : Call]
        BY <1>a, <2>1 DEF Acting, New, Done
      <4> QED
        BY <1>a, <4>1, <4>2
    <3>2. CASE ~(DeclineReads(d) /\ MayHangUp(d, call))
      BY <1>a, <1>3, <3>2 DEF Connect, DeclineReads, DeclineEnds, AfterAction, Done
    <3> QED BY <3>1, <3>2
  <2> QED
    BY <1>a, <2>1, <2>2, <2>3 DEF Knows
<1>4. CASE Expire \/ \E d \in Recipient : ActFails(d)
  BY <1>4 DEF Expire, ActFails, Before, NothingFailed
<1>5. ASSUME NEW d \in Device, HangUpReads(d) \/ HangUpEnds(d) \/ Relay(d) PROVE OthersStopRinging'
  BY <1>a, <1>b, <1>5 DEF HangUpReads, HangUpEnds, Relay, EndCall, Call
<1>6. CASE InitializeCall \/ Ring \/ UNCHANGED vars
  BY <1>a, <1>b, <1>6 DEF InitializeCall, Ring, Call, vars
<1> QED
  BY <1>1, <1>2, <1>3, <1>4, <1>5, <1>6 DEF Next

LEMMA LearntStays ==
  ASSUME Before, [Next]_vars, NEW d \in Device, Learnt(d)
  PROVE  Learnt(d)'
<1>1. told \subseteq told' /\ DOMAIN hanging = Device
  BY DEF Before, TypeOK
<1>2. HungUp(d) => HungUp(d)'
  <2>1. CASE UNCHANGED hanging
    BY <2>1 DEF HungUp
  <2>2. ASSUME NEW e \in Device, HangUpReads(e) \/ HangUpEnds(e) PROVE HungUp(d) => HungUp(d)'
    <3>1. hanging[e].pc \in {"new", "ending"} /\ \A f \in Device \ {e} : hanging'[f] = hanging[f]
      BY <1>1, <2>2 DEF HangUpReads, HangUpEnds, At
    <3> QED
      BY <3>1 DEF HungUp, Done
  <2> QED
    BY <2>1, <2>2 DEF Next, vars, InitializeCall, Ring, Acquire, Act, Connect, ActFails, DeclineReads,
                      DeclineEnds, Relay, Expire
<1> QED
  BY <1>1, <1>2 DEF Learnt, Knows

LEMMA EndIsKnownStep == ASSUME Before, [Next]_vars PROVE EndIsKnown'
<1> USE CallAssumption
<1>a. /\ EndIsKnown /\ CallIsThere /\ LockIsHeld /\ OutcomeIsLast /\ ConnectedTogether /\ call \in Call
      /\ acting \in [Recipient -> Acting] /\ told \subseteq told' /\ DOMAIN hanging = Device
      /\ \A d \in Recipient : d \in Device /\ d # nobody
  BY DEF Before, EndInv, TypeOK, Device
\* A step that neither ends the call nor acts on it.
<1>b. ASSUME call'.recipientDevice = call.recipientDevice, call'.ended = call.ended,
             call.recipientDevice # nobody /\ acting[call.recipientDevice].pc = "done" =>
               /\ acting'[call.recipientDevice].pc = "done"
               /\ \A d \in Recipient : ~Connect(d)
      PROVE  EndIsKnown'
  <2>1. BothSidesKnow => BothSidesKnow'
    BY <1>a, <1>b, LearntStays DEF BothSidesKnow, Call, Device
  <2>2. NobodyConnected => NobodyConnected'
    BY <1>a, <1>b, ConnectedBy DEF NobodyConnected
  <2> QED BY <1>a, <1>b, <2>1, <2>2 DEF EndIsKnown
<1>1. ASSUME NEW d \in Recipient, NEW action \in Actions, Acquire(d, action) PROVE EndIsKnown'
  <2>1. CASE LockFree
    <3>1. call' = [call EXCEPT !.recipientDevice = d] /\ call.recipientDevice = nobody
      BY <1>1, <2>1 DEF Acquire, LockFree
    <3>2. call'.recipientDevice = d /\ call'.ended = call.ended
      BY <1>a, <3>1 DEF Call
    <3>3. call.ended => BothSidesKnow
      BY <1>a, <3>1 DEF EndIsKnown, NobodyConnected
    <3>4. BothSidesKnow => BothSidesKnow'
      BY <1>a, <3>1, <3>2, LearntStays DEF BothSidesKnow, Device
    <3> QED BY <3>2, <3>3, <3>4 DEF EndIsKnown
  <2>2. CASE ~LockFree
    <3>1. acting[d].pc = "new" /\ call' = call
      BY <1>1, <2>2 DEF Acquire, At
    <3>2. \A e \in Recipient \ {d} : acting'[e] = acting[e]
      BY <1>a, <1>1 DEF Acquire
    <3>3. \A e \in Recipient : ~Connect(e)
      BY <1>a, <3>1, <3>2 DEF Connect, At, Done
    <3> QED BY <1>a, <1>b, <3>1, <3>2, <3>3 DEF Call
  <2> QED BY <2>1, <2>2
<1>2. ASSUME NEW d \in Recipient, Act(d) \/ Connect(d) \/ DeclineReads(d) PROVE EndIsKnown'
  <2>1. acting[d].pc \in {"acquired", "taking", "hangUp", "ending"} /\ call' = call
    BY <1>2 DEF Act, Connect, DeclineReads, At
  <2>2. call.recipientDevice = d
    BY <1>a, <2>1 DEF LockIsHeld
  <2> QED BY <1>b, <2>1, <2>2
<1>3. ASSUME NEW d \in Recipient, DeclineEnds(d) PROVE EndIsKnown'
  <2>1. acting[d].pc = "ending" /\ call'.recipientDevice = call.recipientDevice
    BY <1>a, <1>3 DEF DeclineEnds, At, EndCall, Call
  <2>2. call.recipientDevice = d /\ ~Knows(caller, {"connected"})
    BY <1>a, <2>1 DEF LockIsHeld, OutcomeIsLast, Knows
  <2>3. \A e \in Device : ~Knows(e, {"connected"})
    BY <1>a, <2>2 DEF ConnectedTogether, Device
  <2>4. \A e \in Device : ~Knows(e, {"connected"})'
    BY <1>3, <2>3 DEF DeclineEnds, AfterAction, Tell, Knows
  <2>5. acting'[d].pc = "done"
    BY <1>a, <1>3 DEF DeclineEnds, AfterAction, Done
  <2> QED BY <1>a, <2>1, <2>2, <2>4, <2>5 DEF EndIsKnown, NobodyConnected
<1>4. ASSUME NEW d \in Device, HangUpEnds(d) PROVE EndIsKnown'
  <2> DEFINE copy == hanging[d].copy
  <2>1. /\ copy.hasCaller /\ (d = caller \/ d = copy.recipientDevice)
        /\ copy.recipientDevice \in {nobody, call.recipientDevice}
        /\ d # nobody
    BY <1>4 DEF HangUpEnds, At, Before, EndInv, CopyIsRecent, Device
  <2>2. HungUp(d)' /\ told' = told \cup News(d, copy)
    BY <1>a, <1>4 DEF HangUpEnds, Tell, HungUp
  <2>3. call'.recipientDevice = call.recipientDevice
    BY <1>a, <1>4 DEF HangUpEnds, EndCall, Call
  <2> HIDE DEF copy
  <2>4. CASE copy.recipientDevice = nobody
    <3>1. \A e \in Recipient : <<e, "cancelled">> \in told'
      BY <2>1, <2>2, <2>4 DEF News, RecipientsOf
    <3>2. Learnt(caller)' /\ \A e \in Recipient : Learnt(e)'
      BY <2>1, <2>2, <2>4, <3>1 DEF Learnt, Knows, Over
    <3> QED BY <1>a, <2>3, <3>2 DEF EndIsKnown, BothSidesKnow, Call
  <2>5. CASE copy.recipientDevice # nobody
    <3>1. copy.recipientDevice = call.recipientDevice /\ call.recipientDevice # nobody
      BY <2>1, <2>5
    <3>2. CASE d = caller
      <4>1. <<call.recipientDevice, "ended">> \in told'
        BY <2>1, <2>2, <3>1, <3>2 DEF News, CallerOf, RecipientDeviceOf
      <4> QED BY <2>2, <2>3, <3>1, <3>2, <4>1 DEF EndIsKnown, BothSidesKnow, Learnt, Knows, Over
    <3>3. CASE d # caller
      <4>1. <<caller, "ended">> \in told' /\ d = call.recipientDevice
        BY <2>1, <2>2, <3>1, <3>3 DEF News, CallerOf
      <4> QED BY <2>2, <2>3, <3>1, <4>1 DEF EndIsKnown, BothSidesKnow, Learnt, Knows, Over
    <3> QED BY <3>2, <3>3
  <2> QED BY <2>4, <2>5
<1>5. CASE Expire \/ \E d \in Recipient : ActFails(d)
  BY <1>5 DEF Expire, ActFails, Before, NothingFailed
<1>6. ASSUME UNCHANGED acting, InitializeCall \/ Ring \/ (\E d \in Device : HangUpReads(d) \/ Relay(d)) \/ UNCHANGED vars
      PROVE EndIsKnown'
  <2>1. call'.recipientDevice = call.recipientDevice /\ call'.ended = call.ended
    BY <1>a, <1>6 DEF InitializeCall, Ring, HangUpReads, Relay, Call, vars
  <2>2. \A d \in Recipient : ~Connect(d)
    BY <1>a, <1>6 DEF Connect, At, Done
  <2> QED BY <1>b, <1>6, <2>1, <2>2
<1> QED
  BY <1>1, <1>2, <1>3, <1>4, <1>5, <1>6 DEF Next, InitializeCall, Ring, HangUpReads, Relay, vars

LEMMA EndInvIsEnough ==
  ASSUME IInv, NothingFailed => EndInv
  PROVE  EveryoneLearnsTheEnd
<1> SUFFICES ASSUME call.ended, Settled, NothingFailed
             PROVE  /\ \A d \in Device : Knows(d, {"connected"}) => Learnt(d)
                    /\ \A d \in Recipient : Knows(d, {"incoming"}) =>
                         Learnt(d) \/ Knows(d, {"acted"}) \/ acting[d] = Done
  BY DEF EveryoneLearnsTheEnd, NothingFailed, Learnt, Knows
<1>1. TypeOK /\ LockIsHeld /\ OthersStopRinging /\ (BothSidesKnow \/ NobodyConnected)
  BY DEF IInv, NothingFailed, EndInv, EndIsKnown
<1>2. ASSUME NEW d \in Device, Knows(d, {"connected"}) PROVE Learnt(d)
  <2>1. BothSidesKnow
    BY <1>1, <1>2 DEF NobodyConnected
  <2>2. d = caller \/ (d = call.recipientDevice /\ d # nobody)
    BY <1>1, <1>2, CallAssumption DEF LockIsHeld, Device, Knows
  <2> QED BY <2>1, <2>2 DEF BothSidesKnow
<1>3. ASSUME NEW d \in Recipient
      PROVE  Learnt(d) \/ Knows(d, {"acted"}) \/ acting[d] = Done
  <2>1. CASE call.recipientDevice = nobody
    BY <1>1, <2>1 DEF BothSidesKnow, NobodyConnected
  <2>2. CASE call.recipientDevice # nobody
    <3>1. call.recipientDevice \in Recipient
      BY <1>1, <2>2 DEF TypeOK, Call
    <3>2. acting[call.recipientDevice].pc = "done" /\ \A e \in Recipient \ {call.recipientDevice} : Knows(e, {"acted"})
      BY <1>1, <2>2, <3>1 DEF OthersStopRinging, Settled
    <3>3. acting[call.recipientDevice] = Done
      BY <1>1, <3>1, <3>2 DEF TypeOK, Acting, New, Done
    <3> QED BY <3>2, <3>3
  <2> QED BY <2>1, <2>2
<1> QED BY <1>2, <1>3

\* Whoever acts or hangs up at the same time as others: when a call is over and
\* all handlers are done, no device is left connected or ringing
\* (ClientEventHandler, MDUCCProtocol.service).
THEOREM TheEndIsLearnt == Spec => []EveryoneLearnsTheEnd
<1>1. Init => IInv /\ (NothingFailed => EndInv)
  <2>1. Init => IInv
    BY TypeCorrectInit DEF IInv, Init, LockIsHeld, OutcomeIsLast, NeverBoth, Knows, New
  <2>2. Init => EndInv
    BY CallAssumption
    DEF Init, EndInv, CallIsThere, CopyIsRecent, ConnectedTogether, OthersStopRinging, EndIsKnown,
        Knows, New, NoCall
  <2> QED BY <2>1, <2>2
<1>2. IInv /\ (NothingFailed => EndInv) /\ [Next]_vars => IInv' /\ (NothingFailed => EndInv)'
  <2> SUFFICES ASSUME IInv, NothingFailed => EndInv, [Next]_vars
               PROVE  IInv' /\ (NothingFailed' => EndInv')
    OBVIOUS
  <2>1. IInv'
    BY TypeStep, LockStep DEF IInv
  <2>2. ASSUME NothingFailed' PROVE Before
    BY <2>2, FaultsStay DEF Before, IInv, NothingFailed
  <2>3. NothingFailed' => EndInv'
    BY <2>2, CallIsThereStep, CopyIsRecentStep, ConnectedTogetherStep, OthersStopRingingStep,
       EndIsKnownStep DEF EndInv
  <2> QED BY <2>1, <2>3
<1>3. IInv /\ (NothingFailed => EndInv) => EveryoneLearnsTheEnd
  BY EndInvIsEnough
<1> QED
  BY <1>1, <1>2, <1>3, PTL DEF Spec

----------------------------------------------------------------------------
(* Conversations: where messages are stored                                 *)

IsPlaced(m) ==
  /\ m.convo \in 1 .. Len(convos) /\ {m.from, m.to} \subseteq convos[m.convo]
  /\ m.at \in Nat /\ m.at <= MaxTime /\ m.id \in Nat

TaskIsPlaced(task) ==
  /\ task.pc \in {"idle", "create", "write", "ask", "emit", "deleted"}
  /\ task.pc = "create" => task.to \in User /\ task.id \in Nat
  /\ task.pc \in {"write", "ask", "emit"} => IsPlaced(task.message)
  /\ task.pc \in {"ask", "emit", "deleted"} => task.message \in messages
  /\ task.pc = "deleted" => {task.message.from, task.message.to} \subseteq task.participants

ConvosArePairs ==
  /\ convos \in Seq(SUBSET User)
  /\ \A c \in 1 .. Len(convos) : convos[c] \in Pair
CacheIsTrue ==
  /\ cache \in [Pair -> Nat]
  /\ \A p \in Pair : cache[p] # 0 => cache[p] \in 1 .. Len(convos) /\ p \subseteq convos[cache[p]]
TasksArePlaced ==
  /\ sending = [d \in Socket |-> sending[d]]
  /\ \A d \in Socket : TaskIsPlaced(sending[d])
MessagesArePlaced == \A m \in messages : IsPlaced(m)

CountersInv == sent \in Nat /\ clock \in Nat

PlacesInv ==
  CountersInv /\ ConvosArePairs /\ CacheIsTrue /\ TasksArePlaced /\ MessagesArePlaced

LEMMA ConvoInitPlaces == ConvoInit => PlacesInv
<1> SUFFICES ASSUME ConvoInit PROVE PlacesInv
  OBVIOUS
<1>1. ConvosArePairs
  <2>1. convos = << >> /\ << >> \in Seq(SUBSET User) /\ Len(<< >>) = 0
    BY DEF ConvoInit
  <2> QED BY <2>1 DEF ConvosArePairs
<1>2. CacheIsTrue
  BY DEF ConvoInit, CacheIsTrue
<1>3. TasksArePlaced
  BY DEF ConvoInit, TasksArePlaced, TaskIsPlaced, Idle
<1>4. MessagesArePlaced
  BY DEF ConvoInit, MessagesArePlaced
<1>5. CountersInv
  BY DEF ConvoInit, CountersInv
<1> QED BY <1>1, <1>2, <1>3, <1>4, <1>5 DEF PlacesInv

StoreGrows ==
  /\ messages \subseteq messages'
  /\ Len(convos) <= Len(convos') /\ \A c \in 1 .. Len(convos) : convos'[c] = convos[c]

LEMMA PlacedStays ==
  ASSUME ConvosArePairs, ConvosArePairs', StoreGrows
  PROVE  /\ \A m : IsPlaced(m) => IsPlaced(m)'
         /\ \A task : TaskIsPlaced(task) => TaskIsPlaced(task)'
<1>1. Len(convos) \in Nat /\ Len(convos') \in Nat
  BY DEF ConvosArePairs
<1>2. \A m : IsPlaced(m) => IsPlaced(m)'
  BY <1>1 DEF IsPlaced, StoreGrows
<1> QED BY <1>2 DEF TaskIsPlaced, StoreGrows

LEMMA SameConvos ==
  ASSUME ConvosArePairs, UNCHANGED convos, messages \subseteq messages'
  PROVE  ConvosArePairs' /\ StoreGrows
  BY DEF ConvosArePairs, StoreGrows

LEMMA RememberKeeps ==
  ASSUME ConvosArePairs, CacheIsTrue, UNCHANGED convos, NEW pair \in Pair, NEW c,
         Remember(pair, c), c = 0 \/ (c \in 1 .. Len(convos) /\ pair \subseteq convos[c])
  PROVE  CacheIsTrue'
<1>1. c \in Nat
  BY DEF ConvosArePairs
<1>2. cache' \in [Pair -> Nat]
  BY <1>1 DEF CacheIsTrue, Remember
<1>3. cache'[pair] = c /\ \A p \in Pair \ {pair} : cache'[p] = cache[p]
  BY DEF CacheIsTrue, Remember
<1> QED BY <1>2, <1>3 DEF CacheIsTrue

LEMMA LookupFinds ==
  ASSUME CacheIsTrue, NEW pair \in Pair, NEW c \in Lookup(pair)
  PROVE  c = 0 \/ (c \in 1 .. Len(convos) /\ pair \subseteq convos[c])
<1>1. CASE cache[pair] # 0
  BY <1>1 DEF CacheIsTrue, Lookup
<1>2. CASE cache[pair] = 0
  BY <1>2 DEF Lookup, Found
<1> QED BY <1>1, <1>2

LEMMA CacheStays ==
  ASSUME ConvosArePairs, ConvosArePairs', CacheIsTrue, StoreGrows, UNCHANGED cache
  PROVE  CacheIsTrue'
<1>1. Len(convos) \in Nat /\ Len(convos') \in Nat
  BY DEF ConvosArePairs
<1> QED BY <1>1 DEF CacheIsTrue, StoreGrows

LEMMA TaskTurns ==
  ASSUME TasksArePlaced, ConvosArePairs, ConvosArePairs', StoreGrows,
         NEW d \in Socket, NEW task, Go(d, task), TaskIsPlaced(task)'
  PROVE  TasksArePlaced'
<1>1. sending'[d] = task /\ \A e \in Socket \ {d} : sending'[e] = sending[e]
  BY DEF TasksArePlaced, Go
<1>2. sending' = [e \in Socket |-> sending'[e]]
  BY DEF TasksArePlaced, Go
<1>3. \A e \in Socket \ {d} : TaskIsPlaced(sending[e])'
  BY <1>1, PlacedStays DEF TasksArePlaced, TaskIsPlaced, IsPlaced
<1> QED BY <1>1, <1>2, <1>3 DEF TasksArePlaced, TaskIsPlaced

LEMMA MessagesStay ==
  ASSUME ConvosArePairs, ConvosArePairs', MessagesArePlaced, StoreGrows, UNCHANGED messages
  PROVE  MessagesArePlaced'
  BY PlacedStays DEF MessagesArePlaced

LEMMA SendPlaces ==
  ASSUME PlacesInv, NEW d \in Socket, NEW to \in Writes[d], Send(d, to)
  PROVE  PlacesInv'
<1>1. UserOf[d] \in User /\ to \in User /\ UNCHANGED <<convos, messages>>
  BY ConversationsAssumption DEF Send
<1> DEFINE pair == {UserOf[d], to}
<1>2. pair \in Pair
  BY <1>1 DEF Pair
<1>3. PICK c \in Lookup(pair) :
        /\ Remember(pair, c)
        /\ IF c = 0
           THEN /\ Go(d, [pc |-> "create", to |-> to, id |-> sent'])
                /\ UNCHANGED clock
           ELSE \E t \in 1 .. MaxTime : Stamp(t) /\ Go(d, Composed(d, to, c, t))
  BY DEF Send
<1>4. sent' \in Nat /\ clock' \in Nat
  BY DEF Send, PlacesInv, CountersInv, Stamp
<1> HIDE DEF pair
<1>5. c = 0 \/ (c \in 1 .. Len(convos) /\ pair \subseteq convos[c])
  BY <1>2, <1>3, LookupFinds DEF PlacesInv
<1>6. CacheIsTrue' /\ ConvosArePairs' /\ StoreGrows
  BY <1>1, <1>2, <1>3, <1>5, RememberKeeps, SameConvos DEF PlacesInv
<1>7. TasksArePlaced'
  <2>1. CASE c = 0
    <3>1. PICK task : task = [pc |-> "create", to |-> to, id |-> sent']
      OBVIOUS
    <3>2. TaskIsPlaced(task)'
      BY <1>1, <1>4, <3>1 DEF TaskIsPlaced
    <3> QED BY <1>3, <1>6, <2>1, <3>1, <3>2, TaskTurns DEF PlacesInv
  <2>2. CASE c # 0
    <3>1. PICK t \in 1 .. MaxTime : Go(d, Composed(d, to, c, t))
      BY <1>3, <2>2
    <3>2. PICK task : task = Composed(d, to, c, t)
      OBVIOUS
    <3>3. task.pc = "write" /\ task.message.convo = c /\ task.message.from = UserOf[d]
          /\ task.message.to = to /\ task.message.at = t /\ task.message.id = sent'
      BY <3>2 DEF Composed
    <3>4. TaskIsPlaced(task)'
      BY <1>1, <1>4, <1>5, <2>2, <3>3, ConversationsAssumption DEF TaskIsPlaced, IsPlaced, pair
    <3> QED BY <1>6, <3>1, <3>2, <3>4, TaskTurns DEF PlacesInv
  <2> QED BY <2>1, <2>2
<1> QED BY <1>1, <1>4, <1>6, <1>7, MessagesStay DEF PlacesInv, CountersInv

LEMMA CreatePlaces ==
  ASSUME PlacesInv, NEW d \in Socket, Create(d)
  PROVE  PlacesInv' /\ StoreGrows
<1> DEFINE to == sending[d].to
           pair == Participants(d, to)
<1>1. UserOf[d] \in User /\ to \in User /\ sending[d].pc = "create" /\ UNCHANGED <<messages, cache, sent>>
  BY ConversationsAssumption DEF Create, Doing, PlacesInv, TasksArePlaced, TaskIsPlaced
<1>2. pair \in Pair /\ UserOf[d] \in pair /\ to \in pair /\ pair \in SUBSET User
  BY <1>1 DEF Pair, Participants
<1>3. convos' = Append(convos, pair) /\ convos \in Seq(SUBSET User) /\ Len(convos) \in Nat
  BY DEF Create, PlacesInv, ConvosArePairs
<1>4. PICK t \in 1 .. MaxTime :
        /\ Stamp(t)
        /\ Go(d, [pc |-> "write",
                  message |-> [id |-> sending[d].id, convo |-> Len(convos'),
                               from |-> UserOf[d], to |-> to, at |-> t]])
  BY DEF Create
<1>5. PICK task : task = [pc |-> "write",
                  message |-> [id |-> sending[d].id, convo |-> Len(convos'),
                               from |-> UserOf[d], to |-> to, at |-> t]]
  OBVIOUS
<1>6. task.pc = "write" /\ task.message.convo = Len(convos') /\ task.message.from = UserOf[d]
      /\ task.message.to = to /\ task.message.at = t /\ task.message.id = sending[d].id
  BY <1>5
<1>7. sending[d].id \in Nat
  BY <1>1 DEF PlacesInv, TasksArePlaced, TaskIsPlaced
<1> HIDE DEF pair, to
<1>8. /\ Len(convos') = Len(convos) + 1 /\ convos'[Len(convos) + 1] = pair
      /\ \A c \in 1 .. Len(convos) : convos'[c] = convos[c]
      /\ convos' \in Seq(SUBSET User)
  BY <1>2, <1>3
<1>9. ConvosArePairs'
  BY <1>2, <1>3, <1>8 DEF ConvosArePairs, PlacesInv
<1>10. StoreGrows
  BY <1>1, <1>3, <1>8 DEF StoreGrows
<1>11. TaskIsPlaced(task)'
  BY <1>2, <1>3, <1>4, <1>6, <1>7, <1>8, ConversationsAssumption DEF TaskIsPlaced, IsPlaced
<1>12. TasksArePlaced'
  BY <1>4, <1>5, <1>9, <1>10, <1>11, TaskTurns DEF PlacesInv
<1>13. clock' \in Nat
  BY <1>4 DEF Stamp
<1> QED BY <1>1, <1>9, <1>10, <1>12, <1>13, MessagesStay, CacheStays DEF PlacesInv, CountersInv

LEMMA CommitPlaces ==
  ASSUME PlacesInv, NEW d \in Socket, Commit(d)
  PROVE  PlacesInv' /\ StoreGrows
<1>1. PICK m : m = sending[d].message
  OBVIOUS
<1>2. messages' = messages \cup {m} /\ Go(d, [pc |-> "ask", message |-> m])
      /\ UNCHANGED <<convos, cache, sent, clock>>
  BY <1>1 DEF Commit
<1>3. IsPlaced(m)
  BY <1>1 DEF Commit, Doing, PlacesInv, TasksArePlaced, TaskIsPlaced
<1>4. ConvosArePairs' /\ StoreGrows
  BY <1>2, SameConvos DEF PlacesInv
<1>5. \A x : IsPlaced(x) => IsPlaced(x)'
  BY <1>4, PlacedStays DEF PlacesInv
<1>6. MessagesArePlaced'
  BY <1>2, <1>3, <1>5 DEF MessagesArePlaced, PlacesInv
<1>7. PICK task : task = [pc |-> "ask", message |-> m]
  OBVIOUS
<1>8. TaskIsPlaced(task)'
  BY <1>2, <1>3, <1>5, <1>7 DEF TaskIsPlaced
<1>9. TasksArePlaced'
  BY <1>2, <1>4, <1>7, <1>8, TaskTurns DEF PlacesInv
<1> QED BY <1>2, <1>4, <1>6, <1>9, CacheStays DEF PlacesInv, CountersInv

\* A step that leaves what is stored alone but for the cache, and may turn a task.
LEMMA TurnPlaces ==
  ASSUME PlacesInv, UNCHANGED <<convos, messages, sent>>, clock' \in Nat, CacheIsTrue',
         NEW d \in Socket, NEW task, Go(d, task), TaskIsPlaced(task)
  PROVE  PlacesInv'
<1>1. ConvosArePairs' /\ StoreGrows
  BY SameConvos DEF PlacesInv
<1>2. TaskIsPlaced(task)'
  BY <1>1, PlacedStays DEF PlacesInv
<1> QED BY <1>1, <1>2, TaskTurns, MessagesStay DEF PlacesInv, CountersInv

LEMMA IdleIsPlaced == TaskIsPlaced(Idle)
  BY DEF TaskIsPlaced, Idle

LEMMA SocketPlaces ==
  ASSUME PlacesInv, NEW d \in Socket,
         WriteConflict(d) \/ AskOnline(d) \/ Emit(d) \/ EmitDeleted(d)
  PROVE  PlacesInv'
<1>1. CacheIsTrue' /\ clock' \in Nat /\ UNCHANGED <<convos, messages, sent>>
  BY CacheStays, SameConvos DEF PlacesInv, CountersInv, store,
     WriteConflict, AskOnline, Emit, EmitDeleted
<1>2. CASE WriteConflict(d) \/ Emit(d) \/ EmitDeleted(d)
  BY <1>1, <1>2, IdleIsPlaced, TurnPlaces DEF WriteConflict, Emit, EmitDeleted
<1>3. CASE AskOnline(d)
  <2>1. PICK m : m = sending[d].message
    OBVIOUS
  <2>2. IsPlaced(m) /\ m \in messages
    BY <1>3, <2>1 DEF AskOnline, Doing, PlacesInv, TasksArePlaced, TaskIsPlaced
  <2>3. PICK task : task = [pc |-> "emit", message |-> m, online |-> DevicesOf(m.to) # {}]
    OBVIOUS
  <2>4. TaskIsPlaced(task) /\ Go(d, task)
    BY <1>3, <2>1, <2>2, <2>3 DEF TaskIsPlaced, AskOnline
  <2> QED BY <1>1, <2>4, TurnPlaces
<1> QED BY <1>2, <1>3

LEMMA DeletePlaces ==
  ASSUME PlacesInv, NEW d \in Socket, NEW m \in messages, Delete(d, m)
  PROVE  PlacesInv'
<1>1. IsPlaced(m) /\ UNCHANGED <<convos, messages, sent, clock>>
  BY DEF PlacesInv, MessagesArePlaced, Delete
<1>2. {m.from, m.to} \in Pair
  BY <1>1 DEF IsPlaced, PlacesInv, ConvosArePairs, Pair
<1>3. PICK c \in Lookup({m.from, m.to}) \ {0} :
        /\ Remember({m.from, m.to}, c)
        /\ Go(d, [pc |-> "deleted", message |-> m, participants |-> convos[c]])
  BY DEF Delete
<1>4. c \in 1 .. Len(convos) /\ {m.from, m.to} \subseteq convos[c]
  BY <1>2, <1>3, LookupFinds DEF PlacesInv
<1>5. CacheIsTrue'
  BY <1>1, <1>2, <1>3, <1>4, RememberKeeps DEF PlacesInv
<1>6. PICK task : task = [pc |-> "deleted", message |-> m, participants |-> convos[c]]
  OBVIOUS
<1>7. TaskIsPlaced(task)
  BY <1>4, <1>6 DEF TaskIsPlaced
<1> QED BY <1>1, <1>3, <1>5, <1>6, <1>7, TurnPlaces DEF PlacesInv, CountersInv

LEMMA QuietPlaces ==
  ASSUME PlacesInv, UNCHANGED <<convos, messages, sent, clock, sending>>, CacheIsTrue'
  PROVE  PlacesInv'
<1>1. ConvosArePairs' /\ StoreGrows
  BY SameConvos DEF PlacesInv
<1>2. \A task : TaskIsPlaced(task) => TaskIsPlaced(task)'
  BY <1>1, PlacedStays DEF PlacesInv
<1>3. TasksArePlaced'
  BY <1>2 DEF PlacesInv, TasksArePlaced, TaskIsPlaced
<1> QED BY <1>1, <1>3, MessagesStay DEF PlacesInv, CountersInv

Pairing == {Reader, Peer}

LEMMA PairingIsPair == Pairing \in Pair /\ Reader \in User /\ Reader # Peer
  BY ConversationsAssumption DEF Pairing, Pair, Reader

LEMMA LoadPlaces ==
  ASSUME PlacesInv, LoadPage
  PROVE  PlacesInv'
<1>1. PICK c \in Lookup(Pairing) : Remember(Pairing, c)
  BY DEF LoadPage, Pairing
<1>2. CacheIsTrue'
  BY <1>1, LookupFinds, RememberKeeps, PairingIsPair DEF PlacesInv, LoadPage
<1> QED BY <1>2, QuietPlaces DEF LoadPage

LEMMA ExpirePlaces ==
  ASSUME PlacesInv, NEW pair \in Pair, CacheExpires(pair)
  PROVE  PlacesInv'
<1>1. CacheIsTrue'
  BY RememberKeeps DEF PlacesInv, CacheExpires
<1> QED BY <1>1, QuietPlaces DEF CacheExpires

LEMMA ConvoNextPlaces == PlacesInv /\ [ConvoNext]_convoVars => PlacesInv'
<1> SUFFICES ASSUME PlacesInv, [ConvoNext]_convoVars PROVE PlacesInv'
  OBVIOUS
<1>1. ASSUME NEW d \in Socket, HandlerStep(d) PROVE PlacesInv'
  BY <1>1, CreatePlaces, CommitPlaces, SocketPlaces DEF HandlerStep
<1>2. ASSUME NEW d \in Socket, NEW to \in Writes[d], Send(d, to) PROVE PlacesInv'
  BY <1>2, SendPlaces
<1>3. ASSUME NEW d \in Socket, NEW m \in messages, Delete(d, m) PROVE PlacesInv'
  BY <1>3, DeletePlaces
<1>4. ASSUME UNCHANGED <<convos, cache, messages, sent, clock, sending>> PROVE PlacesInv'
  <2>1. CacheIsTrue'
    BY <1>4 DEF PlacesInv, CacheIsTrue
  <2> QED BY <1>4, <2>1, QuietPlaces
<1>5. ASSUME NEW d \in Socket, NEW c, Open(d, c) PROVE PlacesInv'
  BY <1>4, <1>5 DEF Open
<1>6. ASSUME NEW d \in Socket, ComesOnline(d) \/ Disconnect(d) PROVE PlacesInv'
  BY <1>4, <1>6 DEF ComesOnline, Disconnect, store
<1>7. ASSUME NEW c, NEW u, Clear(u, c) PROVE PlacesInv'
  BY <1>4, <1>7 DEF Clear
<1>8. CASE List \/ UNCHANGED convoVars
  BY <1>4, <1>8 DEF List, convoVars, store
<1>9. CASE LoadPage
  BY <1>9, LoadPlaces
<1>10. ASSUME NEW pair \in Pair, CacheExpires(pair) PROVE PlacesInv'
  BY <1>10, ExpirePlaces
<1> QED BY <1>1, <1>2, <1>3, <1>5, <1>6, <1>7, <1>8, <1>9, <1>10
        DEF ConvoNext, ClientStep, HttpStep

LEMMA PlacesStore == PlacesInv => StoredForBoth
<1> SUFFICES ASSUME PlacesInv, NEW m \in messages, m.from # m.to
             PROVE  convos[m.convo] = {m.from, m.to}
  BY DEF StoredForBoth
<1>1. convos[m.convo] \in Pair /\ {m.from, m.to} \subseteq convos[m.convo]
  BY DEF PlacesInv, MessagesArePlaced, IsPlaced, ConvosArePairs
<1> QED BY <1>1 DEF Pair

\* Whatever sends race to create conversations, a message to somebody else is
\* stored where both, and nobody else, find it (Conversation.repository.ts,
\* OneToOneMessage.services.ts).
THEOREM MessagesAreForBoth == ConvoSpec => []StoredForBoth
<1> QED BY ConvoInitPlaces, ConvoNextPlaces, PlacesStore, PTL DEF ConvoSpec

----------------------------------------------------------------------------
(* Conversations: ids, clearing, room                                       *)

\* Every conversation was created by a send, and there is room for so many.
Creating == {d \in Socket : sending[d].pc = "create"}
RoomInv ==
  /\ sent \in Nat /\ acts \in Nat /\ sent + acts <= MaxActs
  /\ IsFiniteSet(Creating) /\ Len(convos) + Cardinality(Creating) <= sent

LEMMA TaskIsTurned ==
  ASSUME TasksArePlaced, NEW d \in Socket, NEW task, Go(d, task)
  PROVE  sending'[d] = task /\ \A e \in Socket \ {d} : sending'[e] = sending[e]
  BY DEF TasksArePlaced, Go

LEMMA FewerCreate ==
  ASSUME RoomInv, ConvosArePairs, TasksArePlaced, NEW d \in Socket, NEW task, Go(d, task),
         task.pc # "create", UNCHANGED <<convos, sent>>, acts' \in Nat, sent + acts' <= MaxActs
  PROVE  RoomInv'
<1>1. Creating' \subseteq Creating
  BY TaskIsTurned DEF Creating
<1>2. IsFiniteSet(Creating') /\ Cardinality(Creating') <= Cardinality(Creating)
  BY <1>1, FS_Subset, FS_CardinalityType DEF RoomInv
<1>3. Cardinality(Creating') \in Nat /\ Cardinality(Creating) \in Nat /\ Len(convos) \in Nat
  BY <1>2, FS_CardinalityType DEF RoomInv, ConvosArePairs
<1> QED BY <1>2, <1>3 DEF RoomInv

LEMMA SendRoom ==
  ASSUME RoomInv, PlacesInv, NEW d \in Socket, NEW to \in Writes[d], Send(d, to)
  PROVE  RoomInv'
<1>1. sending[d].pc = "idle" /\ sent' = sent + 1 /\ UNCHANGED <<convos, acts>> /\ sent + acts < MaxActs
  BY DEF Send, Doing
<1>2. \E task : Go(d, task)
  BY DEF Send
<1>3. Creating' \subseteq Creating \cup {d} /\ d \notin Creating
  BY <1>1, <1>2, TaskIsTurned DEF Creating, PlacesInv
<1>4. IsFiniteSet(Creating \cup {d}) /\ Cardinality(Creating \cup {d}) = Cardinality(Creating) + 1
  BY <1>3, FS_AddElement DEF RoomInv
<1>5. IsFiniteSet(Creating') /\ Cardinality(Creating') <= Cardinality(Creating) + 1
  BY <1>3, <1>4, FS_Subset
<1>6. Cardinality(Creating') \in Nat /\ Cardinality(Creating) \in Nat /\ Len(convos) \in Nat
  BY <1>5, FS_CardinalityType DEF RoomInv, ConvosArePairs, PlacesInv
<1> QED BY <1>1, <1>5, <1>6, ConversationsAssumption DEF RoomInv

LEMMA CreateRoom ==
  ASSUME RoomInv, PlacesInv, NEW d \in Socket, Create(d)
  PROVE  RoomInv'
<1>1. sending[d].pc = "create" /\ UNCHANGED <<sent, acts>> /\ \E c : convos' = Append(convos, c)
  BY DEF Create, Doing
<1>2. Len(convos') = Len(convos) + 1 /\ Len(convos) \in Nat
  BY <1>1 DEF PlacesInv, ConvosArePairs
<1>3. \E task : task.pc = "write" /\ Go(d, task)
  <2>1. PICK t : Go(d, [pc |-> "write",
                  message |-> [id |-> sending[d].id, convo |-> Len(convos'),
                               from |-> UserOf[d], to |-> sending[d].to, at |-> t]])
    BY DEF Create
  <2> QED BY <2>1
<1>4. Creating' = Creating \ {d} /\ d \in Creating
  BY <1>1, <1>3, TaskIsTurned DEF Creating, PlacesInv
<1>5. IsFiniteSet(Creating') /\ Cardinality(Creating') = Cardinality(Creating) - 1
  BY <1>4, FS_RemoveElement DEF RoomInv
<1>6. Cardinality(Creating) \in Nat
  BY FS_CardinalityType DEF RoomInv
<1> QED BY <1>1, <1>2, <1>5, <1>6 DEF RoomInv

LEMMA SocketRoom ==
  ASSUME RoomInv, PlacesInv, NEW d \in Socket,
         \/ Commit(d) \/ WriteConflict(d) \/ AskOnline(d) \/ Emit(d) \/ EmitDeleted(d)
         \/ \E m \in messages : Delete(d, m)
  PROVE  RoomInv'
<1>1. acts' \in Nat /\ sent + acts' <= MaxActs /\ UNCHANGED <<convos, sent>>
  <2>1. UNCHANGED <<convos, sent>>
    BY DEF Commit, WriteConflict, AskOnline, Emit, EmitDeleted, Delete, store
  <2>2. acts' = acts \/ (sent + acts < MaxActs /\ acts' = acts + 1)
    BY DEF Commit, WriteConflict, AskOnline, Emit, EmitDeleted, Delete, Counted
  <2>3. MaxActs \in Nat
    BY ConversationsAssumption
  <2> QED BY <2>1, <2>2, <2>3 DEF RoomInv
<1>2. \E task : task.pc # "create" /\ Go(d, task)
  BY DEF Commit, WriteConflict, AskOnline, Emit, EmitDeleted, Delete, Idle
<1> QED BY <1>1, <1>2, FewerCreate DEF PlacesInv

LEMMA ConvoNextRoom == RoomInv /\ PlacesInv /\ [ConvoNext]_convoVars => RoomInv'
<1> SUFFICES ASSUME RoomInv, PlacesInv, [ConvoNext]_convoVars PROVE RoomInv'
  OBVIOUS
<1>1. ASSUME NEW d \in Socket, HandlerStep(d) PROVE RoomInv'
  BY <1>1, CreateRoom, SocketRoom DEF HandlerStep
<1>2. ASSUME NEW d \in Socket, \E m \in messages : Delete(d, m) PROVE RoomInv'
  BY <1>2, SocketRoom
<1>3. ASSUME NEW d \in Socket, \E to \in Writes[d] : Send(d, to) PROVE RoomInv'
  BY <1>3, SendRoom
<1>4. ASSUME UNCHANGED <<convos, sent, sending>>, UNCHANGED acts \/ Counted PROVE RoomInv'
  BY <1>4, ConversationsAssumption DEF RoomInv, Counted, Creating
<1>5. ASSUME NEW d \in Socket,
             (\E c \in 1 .. Len(convos) : Open(d, c)) \/ ComesOnline(d) \/ Disconnect(d)
      PROVE RoomInv'
  BY <1>4, <1>5 DEF Open, ComesOnline, Disconnect, store
<1>6. ASSUME NEW c, NEW u, Clear(u, c) PROVE RoomInv'
  BY <1>4, <1>6 DEF Clear
<1>7. CASE List \/ LoadPage \/ UNCHANGED convoVars
  BY <1>4, <1>7 DEF List, LoadPage, convoVars, store
<1>8. ASSUME NEW pair \in Pair, CacheExpires(pair) PROVE RoomInv'
  BY <1>4, <1>8 DEF CacheExpires
<1> QED BY <1>1, <1>2, <1>3, <1>5, <1>6, <1>7, <1>8 DEF ConvoNext, ClientStep, HttpStep

\* Nobody has cleared a conversation in the future.
ClearsInv ==
  /\ clock \in Nat /\ cleared \in [User -> [Id -> Nat]]
  /\ \A u \in User, c \in Id : cleared[u][c] <= clock

LEMMA ClockRuns == PlacesInv /\ [ConvoNext]_convoVars => clock' \in {clock, clock + 1}
  BY DEF ConvoNext, HandlerStep, ClientStep, HttpStep, Send, Create, Commit, WriteConflict,
         AskOnline, Emit, Delete, EmitDeleted, Open, Clear, LoadPage, ComesOnline, Disconnect,
         List, CacheExpires, store, convoVars, Stamp

LEMMA ClearClears ==
  ASSUME ClearsInv, NEW u \in User, NEW c, Clear(u, c)
  PROVE  /\ ClearsInv'
         /\ \A v \in User, e \in Id : cleared'[v][e] >= cleared[v][e]
<1>1. cleared' = [cleared EXCEPT ![u] = [@ EXCEPT ![c] = clock]] /\ UNCHANGED clock
  BY DEF Clear, SetUserConvoClearedAt
<1>2. PICK row : row = [cleared[u] EXCEPT ![c] = clock]
  OBVIOUS
<1>3. cleared[u] \in [Id -> Nat] /\ clock \in Nat
  BY DEF ClearsInv
<1>4. row \in [Id -> Nat] /\ \A e \in Id : row[e] = IF e = c THEN clock ELSE cleared[u][e]
  BY <1>2, <1>3
<1>5. cleared' = [cleared EXCEPT ![u] = row]
  BY <1>1, <1>2
<1>6. cleared' \in [User -> [Id -> Nat]]
      /\ \A v \in User : cleared'[v] = IF v = u THEN row ELSE cleared[v]
  BY <1>4, <1>5 DEF ClearsInv
<1>7. \A v \in User, e \in Id : cleared'[v][e] <= clock /\ cleared'[v][e] >= cleared[v][e]
  <2> SUFFICES ASSUME NEW v \in User, NEW e \in Id
               PROVE  cleared'[v][e] <= clock /\ cleared'[v][e] >= cleared[v][e]
    OBVIOUS
  <2>1. cleared[v][e] \in Nat /\ cleared[v][e] <= clock
    BY DEF ClearsInv
  <2> QED BY <1>3, <1>4, <1>6, <2>1
<1> QED BY <1>1, <1>3, <1>6, <1>7 DEF ClearsInv

LEMMA NextClears ==
  ASSUME ClearsInv, PlacesInv, [ConvoNext]_convoVars
  PROVE  /\ ClearsInv'
         /\ \A v \in User, e \in Id : cleared'[v][e] >= cleared[v][e]
<1>1. CASE UNCHANGED cleared
  <2>1. \A v \in User, e \in Id : cleared[v][e] \in Nat
    BY DEF ClearsInv
  <2> QED BY <1>1, <2>1, ClockRuns DEF ClearsInv
<1>2. CASE \E c \in 1 .. Len(convos), d \in Socket : Clear(UserOf[d], c)
  BY <1>2, ClearClears, ConversationsAssumption
<1> QED
  BY <1>1, <1>2
     DEF ConvoNext, HandlerStep, ClientStep, HttpStep, Send, Create, Commit, WriteConflict,
         AskOnline, Emit, Delete, EmitDeleted, Open, LoadPage, ComesOnline, Disconnect,
         List, CacheExpires, store, convoVars

\* An id is given to one message, stored by one handler, and only what is
\* stored is marked as deleted.
Pending(task) ==
  CASE task.pc = "create" -> {task.id}
    [] task.pc = "write"  -> {task.message.id}
    [] OTHER              -> {}

IsFresh(i) == i \in Nat /\ i <= sent /\ \A m \in messages : m.id # i
IdsInv ==
  /\ \A m \in messages : m.id \in Nat /\ m.id <= sent
  /\ \A m \in messages, n \in messages : m.id = n.id => m = n
  /\ \A d \in Socket : \A i \in Pending(sending[d]) : IsFresh(i)
  /\ \A d, e \in Socket : d # e => Pending(sending[d]) \cap Pending(sending[e]) = {}
  /\ \A i \in deleted : \E m \in messages : m.id = i

\* A handler that stores nothing gives no new id.
LEMMA IdsTurn ==
  ASSUME IdsInv, TasksArePlaced, UNCHANGED <<messages, sent>>,
         NEW d \in Socket, NEW task, Go(d, task), Pending(task) \subseteq Pending(sending[d]),
         deleted' = deleted \/ \E m \in messages : deleted' = deleted \cup {m.id}
  PROVE  IdsInv'
<1>1. sending'[d] = task /\ \A e \in Socket \ {d} : sending'[e] = sending[e]
  BY TaskIsTurned
<1>2. \A e \in Socket : Pending(sending'[e]) \subseteq Pending(sending[e])
  BY <1>1
<1>3. \A i : IsFresh(i)' <=> IsFresh(i)
  BY DEF IsFresh
<1>4. \A e \in Socket : \A i \in Pending(sending'[e]) : IsFresh(i)'
  BY <1>2, <1>3 DEF IdsInv
<1>5. \A e, f \in Socket : e # f => Pending(sending'[e]) \cap Pending(sending'[f]) = {}
  BY <1>2 DEF IdsInv
<1>6. \A i \in deleted' : \E m \in messages' : m.id = i
  BY DEF IdsInv
<1>7. \A e \in Socket : Pending(sending[e])' = Pending(sending'[e])
  BY DEF Pending
<1> QED BY <1>4, <1>5, <1>6, <1>7 DEF IdsInv

LEMMA SendIds ==
  ASSUME IdsInv, PlacesInv, NEW d \in Socket, NEW to \in Writes[d], Send(d, to)
  PROVE  IdsInv'
<1>0. PICK k : k = sent + 1
  OBVIOUS
<1>1. sent' = k /\ k = sent + 1 /\ sent \in Nat /\ UNCHANGED <<messages, deleted>>
  BY <1>0 DEF Send, PlacesInv, CountersInv
<1>2. PICK task : Go(d, task) /\ Pending(task) = {k}
  <2>1. PICK c : IF c = 0
           THEN Go(d, [pc |-> "create", to |-> to, id |-> sent'])
           ELSE \E t \in 1 .. MaxTime : Go(d, Composed(d, to, c, t))
    BY DEF Send
  <2>2. CASE c = 0
    <3>1. PICK task : task = [pc |-> "create", to |-> to, id |-> sent']
      OBVIOUS
    <3>2. Pending(task) = {k}
      BY <1>1, <3>1 DEF Pending
    <3> QED BY <2>1, <2>2, <3>1, <3>2
  <2>3. CASE c # 0
    <3>1. PICK t : Go(d, Composed(d, to, c, t))
      BY <2>1, <2>3
    <3>2. Pending(Composed(d, to, c, t)) = {k}
      BY <1>1 DEF Pending, Composed
    <3> QED BY <3>1, <3>2
  <2> QED BY <2>2, <2>3
<1>3. sending'[d] = task /\ \A e \in Socket \ {d} : sending'[e] = sending[e]
  BY <1>2, TaskIsTurned DEF PlacesInv
<1>4. \A i : IsFresh(i) => IsFresh(i)' /\ i # k
  BY <1>1 DEF IsFresh
<1>5. IsFresh(k)'
  BY <1>1 DEF IsFresh, IdsInv
<1>6. \A e \in Socket : Pending(sending[e])' = Pending(sending'[e])
  BY DEF Pending
<1>7. \A e \in Socket : \A i \in Pending(sending'[e]) : IsFresh(i)'
  BY <1>2, <1>3, <1>4, <1>5 DEF IdsInv
<1>8. \A e, f \in Socket : e # f => Pending(sending'[e]) \cap Pending(sending'[f]) = {}
  BY <1>2, <1>3, <1>4 DEF IdsInv
<1>9. \A m \in messages' : m.id \in Nat /\ m.id <= sent'
  BY <1>1 DEF IdsInv
<1>10. (\A m \in messages, n \in messages : m.id = n.id => m = n)' /\ (\A i \in deleted : \E m \in messages : m.id = i)'
  BY <1>1 DEF IdsInv
<1> QED BY <1>6, <1>7, <1>8, <1>9, <1>10 DEF IdsInv

LEMMA CommitIds ==
  ASSUME IdsInv, PlacesInv, NEW d \in Socket, Commit(d)
  PROVE  /\ IdsInv'
         /\ \A i \in deleted : i # sending[d].message.id
<1>1. PICK m : m = sending[d].message
  OBVIOUS
<1>2. messages' = messages \cup {m} /\ Go(d, [pc |-> "ask", message |-> m])
      /\ sending[d].pc = "write" /\ UNCHANGED <<deleted, sent>>
  BY <1>1 DEF Commit, Doing
<1>3. Pending(sending[d]) = {m.id} /\ IsFresh(m.id)
  BY <1>1, <1>2 DEF Pending, IdsInv
<1>4. Pending([pc |-> "ask", message |-> m]) = {}
  BY DEF Pending
<1>5. \A e \in Socket \ {d} : sending'[e] = sending[e] /\ m.id \notin Pending(sending[e])
  BY <1>2, <1>3, TaskIsTurned DEF PlacesInv, IdsInv
<1>6. Pending(sending'[d]) = {}
  BY <1>2, <1>4, TaskIsTurned DEF PlacesInv
<1>7. \A e \in Socket : Pending(sending[e])' = Pending(sending'[e])
  BY DEF Pending
<1>8. \A e \in Socket : \A i \in Pending(sending'[e]) : IsFresh(i)'
  <2> SUFFICES ASSUME NEW e \in Socket, NEW i \in Pending(sending'[e]) PROVE IsFresh(i)'
    OBVIOUS
  <2>1. e # d /\ i \in Pending(sending[e]) /\ i # m.id
    BY <1>5, <1>6
  <2>2. IsFresh(i)
    BY <2>1 DEF IdsInv
  <2> QED BY <1>2, <2>1, <2>2 DEF IsFresh
<1>9. \A e, f \in Socket : e # f => Pending(sending'[e]) \cap Pending(sending'[f]) = {}
  BY <1>5, <1>6 DEF IdsInv
<1>10. (\A x \in messages : x.id \in Nat /\ x.id <= sent)'
  BY <1>2, <1>3 DEF IdsInv, IsFresh
<1>11. (\A x \in messages, y \in messages : x.id = y.id => x = y)'
  BY <1>2, <1>3 DEF IdsInv, IsFresh
<1>12. (\A i \in deleted : \E x \in messages : x.id = i)'
  BY <1>2 DEF IdsInv
<1>13. \A i \in deleted : i # m.id
  BY <1>3 DEF IdsInv, IsFresh
<1> QED BY <1>1, <1>7, <1>8, <1>9, <1>10, <1>11, <1>12, <1>13 DEF IdsInv

LEMMA CreateIds ==
  ASSUME IdsInv, PlacesInv, NEW d \in Socket, Create(d)
  PROVE  IdsInv'
<1>1. PICK t : Go(d, [pc |-> "write",
                  message |-> [id |-> sending[d].id, convo |-> Len(convos'),
                               from |-> UserOf[d], to |-> sending[d].to, at |-> t]])
  BY DEF Create
<1>2. PICK task : task = [pc |-> "write",
                  message |-> [id |-> sending[d].id, convo |-> Len(convos'),
                               from |-> UserOf[d], to |-> sending[d].to, at |-> t]]
  OBVIOUS
<1>3. Pending(task) = {sending[d].id}
  BY <1>2 DEF Pending
<1>4. Pending(sending[d]) = {sending[d].id} /\ UNCHANGED <<messages, sent, deleted>>
  BY DEF Create, Doing, Pending
<1> QED BY <1>1, <1>2, <1>3, <1>4, IdsTurn DEF PlacesInv

LEMMA SocketIds ==
  ASSUME IdsInv, PlacesInv, NEW d \in Socket,
         \/ WriteConflict(d) \/ AskOnline(d) \/ Emit(d) \/ EmitDeleted(d)
         \/ \E m \in messages : Delete(d, m)
  PROVE  IdsInv'
<1>1. \E task : Go(d, task) /\ Pending(task) = {}
  <2>1. Pending(Idle) = {} /\ \A m, o, p : /\ Pending([pc |-> "emit", message |-> m, online |-> o]) = {}
                      /\ Pending([pc |-> "deleted", message |-> m, participants |-> p]) = {}
    BY DEF Pending, Idle
  <2>2. CASE WriteConflict(d) \/ Emit(d) \/ EmitDeleted(d)
    BY <2>1, <2>2 DEF WriteConflict, Emit, EmitDeleted
  <2>3. CASE AskOnline(d)
    BY <2>1, <2>3 DEF AskOnline
  <2>4. CASE \E m \in messages : Delete(d, m)
    BY <2>1, <2>4 DEF Delete
  <2> QED BY <2>2, <2>3, <2>4
<1>2. UNCHANGED <<messages, sent>>
  BY DEF WriteConflict, AskOnline, Emit, EmitDeleted, Delete, store
<1>3. deleted' = deleted \/ \E m \in messages : deleted' = deleted \cup {m.id}
  BY DEF WriteConflict, AskOnline, Emit, EmitDeleted, Delete, store
<1> QED BY <1>1, <1>2, <1>3, IdsTurn DEF PlacesInv

LEMMA ConvoNextIds == IdsInv /\ PlacesInv /\ [ConvoNext]_convoVars => IdsInv'
<1> SUFFICES ASSUME IdsInv, PlacesInv, [ConvoNext]_convoVars PROVE IdsInv'
  OBVIOUS
<1>1. ASSUME NEW d \in Socket, HandlerStep(d) PROVE IdsInv'
  BY <1>1, CreateIds, CommitIds, SocketIds DEF HandlerStep
<1>2. ASSUME NEW d \in Socket, \E m \in messages : Delete(d, m) PROVE IdsInv'
  BY <1>2, SocketIds
<1>3. ASSUME NEW d \in Socket, \E to \in Writes[d] : Send(d, to) PROVE IdsInv'
  BY <1>3, SendIds
<1>4. ASSUME UNCHANGED <<messages, sent, deleted, sending>> PROVE IdsInv'
  BY <1>4 DEF IdsInv, IsFresh, Pending
<1>5. ASSUME NEW d \in Socket,
             (\E c \in 1 .. Len(convos) : Open(d, c)) \/ ComesOnline(d) \/ Disconnect(d)
      PROVE IdsInv'
  BY <1>4, <1>5 DEF Open, ComesOnline, Disconnect, store
<1>6. ASSUME NEW c, NEW u, Clear(u, c) PROVE IdsInv'
  BY <1>4, <1>6 DEF Clear
<1>7. CASE List \/ LoadPage \/ UNCHANGED convoVars
  BY <1>4, <1>7 DEF List, LoadPage, convoVars, store
<1>8. ASSUME NEW pair \in Pair, CacheExpires(pair) PROVE IdsInv'
  BY <1>4, <1>8 DEF CacheExpires
<1> QED BY <1>1, <1>2, <1>3, <1>5, <1>6, <1>7, <1>8 DEF ConvoNext, ClientStep, HttpStep

----------------------------------------------------------------------------
(* Conversations: what the client may miss                                  *)

\* What the client may still miss: nothing that the history it is loading will
\* show, that it was told already, or that a handler is about to tell it.
Tells(task, m) ==
  /\ task.pc \in {"ask", "emit"} /\ task.message = m
  /\ task.pc = "emit" => task.online \/ m.from = Reader
TellsGone(task, m) ==
  task.pc = "deleted" /\ task.message = m /\ Reader \in task.participants

Awaited(m) == reader.pc = "load" /\ After(m, reader.from)
Informed(m) ==
  /\ m.id \in view \/ \E d \in Socket : Tells(sending[d], m)
  /\ m.id \in deleted => m.id \in gone \/ \E d \in Socket : TellsGone(sending[d], m)
Followed(m) == Awaited(m) \/ Informed(m)

Lone(c) == \A e \in 1 .. Len(convos) : convos[e] = Pairing => e = c
Ours(m) == {m.from, m.to} = Pairing /\ Reader \in {m.from, m.to} /\ m.at <= MaxTime /\ m.at \in Nat

ReaderShape ==
  screen = "history" =>
    /\ reader.pc \in {"load", "loaded"}
    /\ reader.pc = "load" => reader = [pc |-> "load", from |-> reader.from]
NothingMissed ==
  screen = "history" /\ Client \in online =>
    \A c \in Found(Pairing) : Lone(c) /\ ~Ties(c) =>
      \A m \in Visible(Reader, c) : m.from # m.to => Followed(m)

ReadersInv == PlacesInv /\ RoomInv /\ ClearsInv /\ IdsInv /\ ReaderShape /\ NothingMissed

LEMMA FoundPairing ==
  ASSUME PlacesInv, NEW c \in Found(Pairing)
  PROVE  convos[c] = Pairing /\ c \in 1 .. Len(convos)
<1>1. convos[c] \in Pair /\ Pairing \subseteq convos[c] /\ c \in 1 .. Len(convos)
  BY DEF PlacesInv, ConvosArePairs, Found
<1> QED BY <1>1, ConversationsAssumption DEF Pair, Pairing, Reader

LEMMA PairingFound ==
  ASSUME NEW c \in 1 .. Len(convos), convos[c] = Pairing
  PROVE  c \in Found(Pairing)
  BY DEF Found

LEMMA VisibleAreOurs ==
  ASSUME PlacesInv, NEW c \in Found(Pairing), NEW m \in Visible(Reader, c), m.from # m.to
  PROVE  Ours(m) /\ m \in messages /\ m.convo = c
<1>1. m \in messages /\ m.convo = c
  BY DEF Visible
<1>2. {m.from, m.to} \subseteq convos[c] /\ m.at <= MaxTime /\ m.at \in Nat
  BY <1>1 DEF PlacesInv, MessagesArePlaced, IsPlaced
<1>3. convos[c] = Pairing
  BY FoundPairing
<1> QED BY <1>1, <1>2, <1>3 DEF Ours, Pairing

LEMMA NextGrows ==
  ASSUME PlacesInv, [ConvoNext]_convoVars
  PROVE  StoreGrows
<1>1. ASSUME UNCHANGED <<convos, messages>> PROVE StoreGrows
  BY <1>1 DEF StoreGrows, PlacesInv, ConvosArePairs
<1>2. ASSUME NEW d \in Socket, Create(d) \/ Commit(d) PROVE StoreGrows
  BY <1>2, CreatePlaces, CommitPlaces
<1>3. CASE UNCHANGED <<convos, messages>> \/ \E d \in Socket : Create(d) \/ Commit(d)
  BY <1>1, <1>2, <1>3
<1>4. UNCHANGED <<convos, messages>> \/ \E d \in Socket : Create(d) \/ Commit(d)
  BY DEF ConvoNext, HandlerStep, ClientStep, HttpStep, Send, WriteConflict,
         AskOnline, Emit, Delete, EmitDeleted, Open, LoadPage, ComesOnline, Disconnect,
         List, CacheExpires, Clear, store, convoVars
<1> QED BY <1>3, <1>4

\* What is visible after a step was so before, in a conversation that was there
\* and as little ambiguous, or it is new.
LEMMA VisibleBefore ==
  ASSUME PlacesInv, RoomInv, ClearsInv, [ConvoNext]_convoVars,
         NEW c \in Found(Pairing)', Lone(c)', ~Ties(c)',
         NEW m \in Visible(Reader, c)', m \in messages
  PROVE  c \in Found(Pairing) /\ Lone(c) /\ ~Ties(c) /\ m \in Visible(Reader, c)
<1>1. PlacesInv' /\ StoreGrows
  BY ConvoNextPlaces, NextGrows
<1>2. Len(convos) \in Nat /\ Len(convos') \in Nat
  BY <1>1 DEF PlacesInv, ConvosArePairs
<1>3. m.convo = c /\ m.at > cleared'[Reader][c]
  BY DEF Visible
<1>4. c \in 1 .. Len(convos) /\ m.at \in Nat
  BY <1>3 DEF PlacesInv, MessagesArePlaced, IsPlaced
<1>5. c \in Found(Pairing)
  BY <1>1, <1>4 DEF Found, StoreGrows
<1>6. Lone(c)
  BY <1>1, <1>2 DEF Lone, StoreGrows
<1>7. ~Ties(c)
  BY <1>1 DEF Ties, StoreGrows
<1>8. c \in Id
  <2>1. Cardinality(Creating) \in Nat /\ MaxActs \in Nat
    BY FS_CardinalityType, ConversationsAssumption DEF RoomInv
  <2> QED BY <1>2, <1>4, <2>1 DEF RoomInv, Id
<1>9. cleared[Reader][c] \in Nat /\ cleared'[Reader][c] \in Nat /\ cleared'[Reader][c] >= cleared[Reader][c]
  <2>1. ClearsInv' /\ \A v \in User, e \in Id : cleared'[v][e] >= cleared[v][e]
    BY NextClears
  <2>2. cleared[Reader] \in [Id -> Nat] /\ cleared'[Reader] \in [Id -> Nat]
    BY <2>1, PairingIsPair DEF ClearsInv
  <2> QED BY <1>8, <2>1, <2>2, PairingIsPair
<1>10. m.at > cleared[Reader][c]
  BY <1>3, <1>4, <1>9
<1>11. m \in Visible(Reader, c)
  BY <1>3, <1>10 DEF Visible
<1> QED BY <1>5, <1>6, <1>7, <1>11

LEMMA KeepFollowing ==
  ASSUME ReadersInv, [ConvoNext]_convoVars, Client \in online,
         \A m \in messages : Ours(m) /\ Followed(m) => Followed(m)',
         \A m \in messages' \ messages : Ours(m) => Followed(m)', UNCHANGED screen
  PROVE  NothingMissed'
<1> SUFFICES ASSUME screen = "history",
                    NEW c \in Found(Pairing)', Lone(c)', ~Ties(c)',
                    NEW m \in Visible(Reader, c)', m.from # m.to
             PROVE  Followed(m)'
  BY DEF NothingMissed
<1>1. PlacesInv'
  BY ConvoNextPlaces DEF ReadersInv
<1>2. Ours(m) /\ m \in messages'
  <2>1. m \in messages' /\ m.convo = c
    BY DEF Visible
  <2>2. {m.from, m.to} \subseteq convos'[c] /\ m.at <= MaxTime /\ m.at \in Nat
    BY <1>1, <2>1 DEF PlacesInv, MessagesArePlaced, IsPlaced
  <2>3. convos'[c] \in Pair /\ Pairing \subseteq convos'[c]
    BY <1>1 DEF PlacesInv, ConvosArePairs, Found, Pairing, Reader
  <2>4. convos'[c] = Pairing
    BY <2>3, ConversationsAssumption DEF Pair, Pairing, Reader
  <2> QED BY <2>1, <2>2, <2>4 DEF Ours, Pairing
<1>3. CASE m \in messages
  <2>1. c \in Found(Pairing) /\ Lone(c) /\ ~Ties(c) /\ m \in Visible(Reader, c)
    BY <1>3, VisibleBefore DEF ReadersInv
  <2>2. Followed(m)
    BY <2>1 DEF ReadersInv, NothingMissed
  <2> QED BY <1>2, <1>3, <2>2
<1> QED BY <1>2, <1>3

LEMMA FollowedTurns ==
  ASSUME TasksArePlaced, NEW d \in Socket, NEW task, Go(d, task), NEW m, Followed(m),
         UNCHANGED reader, view \subseteq view', gone \subseteq gone',
         Tells(sending[d], m) => Tells(task, m) \/ m.id \in view',
         TellsGone(sending[d], m) => TellsGone(task, m) \/ m.id \in gone',
         m.id \in deleted' => m.id \in deleted \/ TellsGone(task, m)
  PROVE  Followed(m)'
<1>1. sending'[d] = task /\ \A e \in Socket \ {d} : sending'[e] = sending[e]
  BY TaskIsTurned
<1>2. Awaited(m) => Awaited(m)'
  BY DEF Awaited, After
<1>3. ASSUME NEW e \in Socket, Tells(sending[e], m)
      PROVE  m.id \in view' \/ \E f \in Socket : Tells(sending'[f], m)
  BY <1>1, <1>3
<1>4. ASSUME NEW e \in Socket, TellsGone(sending[e], m)
      PROVE  m.id \in gone' \/ \E f \in Socket : TellsGone(sending'[f], m)
  BY <1>1, <1>4
<1>5. Informed(m) => Informed(m)'
  <2> SUFFICES ASSUME Informed(m) PROVE Informed(m)'
    OBVIOUS
  <2>1. m.id \in view' \/ \E f \in Socket : Tells(sending'[f], m)
    BY <1>3 DEF Informed
  <2>2. m.id \in deleted' => m.id \in gone' \/ \E f \in Socket : TellsGone(sending'[f], m)
    BY <1>1, <1>4 DEF Informed
  <2>3. \A f : /\ Tells(sending[f], m)' <=> Tells(sending'[f], m)
               /\ TellsGone(sending[f], m)' <=> TellsGone(sending'[f], m)
    BY DEF Tells, TellsGone, Reader
  <2> QED BY <2>1, <2>2, <2>3 DEF Informed
<1> QED BY <1>2, <1>5 DEF Followed

\* Handlers that have nothing to tell, and tell nothing yet.
LEMMA SilentKeeps ==
  ASSUME PlacesInv, NEW d \in Socket, NEW m, Followed(m), UNCHANGED <<reader, view, gone, deleted>>,
         sending[d].pc \in {"idle", "create", "write"}, \E task : Go(d, task)
  PROVE  Followed(m)'
<1>1. ~Tells(sending[d], m) /\ ~TellsGone(sending[d], m)
  BY DEF Tells, TellsGone
<1> QED BY <1>1, FollowedTurns DEF PlacesInv

LEMMA QuietKeeps ==
  ASSUME UNCHANGED <<sending, reader, view, gone, deleted>>, NEW m, Followed(m)
  PROVE  Followed(m)'
  BY DEF Followed, Awaited, After, Informed, Tells, TellsGone, Reader

LEMMA CommitKeeps ==
  ASSUME ReadersInv, NEW d \in Socket, Commit(d), screen = "history"
  PROVE  /\ \A m \in messages : Followed(m) => Followed(m)'
         /\ \A m \in messages' \ messages : Followed(m)'
<1>1. UNCHANGED <<reader, view, gone, deleted>> /\ sending[d].pc = "write"
  BY DEF Commit, Doing
<1>2. PICK x : x = sending[d].message
  OBVIOUS
<1>3. PICK task : task = [pc |-> "ask", message |-> x]
  OBVIOUS
<1>4. Go(d, task) /\ messages' = messages \cup {x}
  BY <1>2, <1>3 DEF Commit
<1>5. \A m \in messages : Followed(m) => Followed(m)'
  BY <1>1, <1>4, SilentKeeps DEF ReadersInv
<1>6. Followed(x)'
  <2>1. sending'[d] = task
    BY <1>4, TaskIsTurned DEF ReadersInv, PlacesInv
  <2>2. Tells(sending[d], x)'
    BY <1>3, <2>1 DEF Tells
  <2>3. x.id \notin deleted'
    BY <1>1, <1>2, CommitIds DEF ReadersInv
  <2> QED BY <2>2, <2>3 DEF Followed, Informed
<1> QED BY <1>4, <1>5, <1>6

LEMMA AskKeeps ==
  ASSUME ReadersInv, NEW d \in Socket, AskOnline(d), Client \in online,
         NEW m, Ours(m), Followed(m)
  PROVE  Followed(m)'
<1>1. UNCHANGED <<reader, view, gone, deleted>> /\ sending[d].pc = "ask"
  BY DEF AskOnline, Doing, client, store
<1>2. PICK x : x = sending[d].message
  OBVIOUS
<1>3. PICK task : task = [pc |-> "emit", message |-> x, online |-> DevicesOf(x.to) # {}]
  OBVIOUS
<1>4. Go(d, task)
  BY <1>2, <1>3 DEF AskOnline
<1>5. Tells(sending[d], m) => Tells(task, m)
  <2> SUFFICES ASSUME x = m PROVE Tells(task, m)
    BY <1>2 DEF Tells
  <2>1. Reader = m.to => Client \in DevicesOf(m.to)
    BY DEF DevicesOf, Reader
  <2>2. task.pc = "emit" /\ task.message = m /\ task.online = (DevicesOf(m.to) # {})
    BY <1>3
  <2>3. Reader = m.to \/ Reader = m.from
    BY DEF Ours
  <2> QED BY <2>1, <2>2, <2>3 DEF Tells
<1>6. ~TellsGone(sending[d], m)
  BY <1>1 DEF TellsGone
<1> QED BY <1>1, <1>4, <1>5, <1>6, FollowedTurns DEF ReadersInv, PlacesInv

LEMMA EmitKeeps ==
  ASSUME ReadersInv, NEW d \in Socket, Emit(d), Client \in online,
         NEW m, Ours(m), Followed(m)
  PROVE  Followed(m)'
<1>1. UNCHANGED <<reader, gone, deleted>> /\ sending[d].pc = "emit" /\ Go(d, Idle)
  BY DEF Emit, Doing, store
<1>2. PICK x : x = sending[d].message
  OBVIOUS
<1>3. view' = IF Client \in DevicesOf(x.from) \cup IF sending[d].online THEN DevicesOf(x.to) ELSE {}
              THEN view \cup {x.id} ELSE view
  BY <1>2 DEF Emit, Show
<1>4. view \subseteq view'
  BY <1>3
<1>5. Tells(sending[d], m) => m.id \in view'
  <2> SUFFICES ASSUME x = m, sending[d].online \/ m.from = Reader PROVE m.id \in view'
    BY <1>1, <1>2 DEF Tells
  <2>1. \A u : u = Reader => Client \in DevicesOf(u)
    BY DEF DevicesOf, Reader
  <2>2. Reader = m.to \/ Reader = m.from
    BY DEF Ours
  <2> QED BY <1>3, <2>1, <2>2
<1>6. ~TellsGone(sending[d], m)
  BY <1>1 DEF TellsGone
<1> QED BY <1>1, <1>4, <1>5, <1>6, FollowedTurns DEF ReadersInv, PlacesInv

LEMMA EmitDeletedKeeps ==
  ASSUME ReadersInv, NEW d \in Socket, EmitDeleted(d), Client \in online,
         NEW m, Followed(m)
  PROVE  Followed(m)'
<1>1. UNCHANGED <<reader, view, deleted>> /\ sending[d].pc = "deleted" /\ Go(d, Idle)
  BY DEF EmitDeleted, Doing, store
<1>2. gone \subseteq gone' /\ (TellsGone(sending[d], m) => m.id \in gone')
  BY DEF EmitDeleted, TellsGone
<1>3. ~Tells(sending[d], m)
  BY <1>1 DEF Tells
<1> QED BY <1>1, <1>2, <1>3, FollowedTurns DEF ReadersInv, PlacesInv

LEMMA DeleteKeeps ==
  ASSUME ReadersInv, NEW d \in Socket, NEW x \in messages, Delete(d, x),
         NEW m \in messages, Ours(m), Followed(m)
  PROVE  Followed(m)'
<1>1. UNCHANGED <<reader, view, gone>> /\ sending[d].pc = "idle" /\ deleted' = deleted \cup {x.id}
  BY DEF Delete, Doing, client
<1>2. PICK c \in Lookup({x.from, x.to}) \ {0} :
        Go(d, [pc |-> "deleted", message |-> x, participants |-> convos[c]])
  BY DEF Delete
<1>3. IsPlaced(x)
  BY DEF ReadersInv, PlacesInv, MessagesArePlaced
<1>4. {x.from, x.to} \in Pair
  BY <1>3 DEF IsPlaced, ReadersInv, PlacesInv, ConvosArePairs, Pair
<1>5. {x.from, x.to} \subseteq convos[c]
  BY <1>2, <1>4, LookupFinds DEF ReadersInv, PlacesInv
<1>6. PICK task : task = [pc |-> "deleted", message |-> x, participants |-> convos[c]]
  OBVIOUS
<1>7. m.id \in deleted' => m.id \in deleted \/ TellsGone(task, m)
  <2> SUFFICES ASSUME m.id = x.id PROVE TellsGone(task, m)
    BY <1>1
  <2>1. m = x
    BY DEF ReadersInv, IdsInv
  <2> QED BY <1>5, <1>6, <2>1 DEF TellsGone, Ours
<1>8. ~Tells(sending[d], m) /\ ~TellsGone(sending[d], m)
  BY <1>1 DEF Tells, TellsGone
<1> QED BY <1>1, <1>2, <1>6, <1>7, <1>8, FollowedTurns DEF ReadersInv, PlacesInv

LEMMA LookupLone ==
  ASSUME PlacesInv, NEW c \in Lookup(Pairing)
  PROVE  /\ c = 0 => Found(Pairing) = {}
         /\ c # 0 => c \in Found(Pairing)
<1>1. c = 0 \/ (c \in 1 .. Len(convos) /\ Pairing \subseteq convos[c])
  BY LookupFinds, PairingIsPair DEF PlacesInv
<1>2. ASSUME c = 0 PROVE Found(Pairing) = {}
  <2>1. CASE cache[Pairing] # 0
    BY <1>2, <2>1 DEF Lookup
  <2>2. CASE cache[Pairing] = 0 /\ Found(Pairing) # {}
    <3>1. c \in Found(Pairing)
      BY <2>2 DEF Lookup
    <3>2. c \in 1 .. Len(convos)
      BY <3>1 DEF Found
    <3> QED BY <1>2, <3>2 DEF PlacesInv, ConvosArePairs
  <2> QED BY <2>1, <2>2
<1> QED BY <1>1, <1>2 DEF Found, PlacesInv, ConvosArePairs

\* The page a client reads shows what comes after its cursor, or leaves it for
\* the next page.
LEMMA PageKeeps ==
  ASSUME ReadersInv, NEW c \in Found(Pairing), ~Ties(c),
         reader = [pc |-> "load", from |-> reader.from],
         NEW page \in GetMessages(Reader, c, reader.from),
         view' = view \cup {m.id : m \in page},
         gone' = gone \cup ({m.id : m \in page} \cap deleted),
         IF HasMore(page)
           THEN \E m \in Lowest(page) : reader' = [reader EXCEPT !.from = Cursor(m)]
           ELSE reader' = [pc |-> "loaded"],
         UNCHANGED <<sending, deleted>>,
         NEW m \in Visible(Reader, c), Followed(m)
  PROVE  Followed(m)'
<1> DEFINE rows == {n \in Visible(Reader, c) : After(n, reader.from)}
<1>1. /\ page \subseteq rows
      /\ Cardinality(page) = PageSize \/ page = rows
      /\ \A x \in page, n \in rows \ page : x.at >= n.at
  BY DEF GetMessages, Pages
<1>2. Informed(m) => Followed(m)'
  BY DEF Followed, Informed, Tells, TellsGone, Reader
<1>3. m \in page => Informed(m)'
  BY DEF Informed, Tells, TellsGone, Reader
<1>4. CASE m \in rows \ page
  <2>1. PICK x \in Lowest(page) : reader' = [reader EXCEPT !.from = Cursor(x)]
    BY <1>1, <1>4 DEF HasMore
  <2>2. x.at >= m.at /\ x # m /\ x \in Visible(Reader, c)
    BY <1>1, <1>4, <2>1 DEF Lowest
  <2>3. x.at # m.at
    BY <2>2 DEF Ties, Visible
  <2>4. x.at \in Nat /\ m.at \in Nat
    BY <2>2 DEF Visible, ReadersInv, PlacesInv, MessagesArePlaced, IsPlaced
  <2>5. reader'.pc = "load" /\ reader'.from = Cursor(x)
    BY <2>1
  <2>6. m.at < reader'.from.at
    BY <2>2, <2>3, <2>4, <2>5 DEF Cursor
  <2> QED BY <2>5, <2>6 DEF Followed, Awaited, After
<1>5. m \in rows \/ Informed(m)
  BY DEF Followed, Awaited
<1> QED BY <1>2, <1>3, <1>4, <1>5 DEF Followed

LEMMA LoadMisses ==
  ASSUME ReadersInv, LoadPage, [ConvoNext]_convoVars
  PROVE  ReaderShape' /\ NothingMissed'
<1>1. Client \in online /\ screen = "history" /\ reader.pc = "load"
      /\ UNCHANGED <<convos, messages, cleared, sending, deleted, online, screen>>
  BY DEF LoadPage
<1>2. reader = [pc |-> "load", from |-> reader.from]
  BY <1>1 DEF ReadersInv, ReaderShape
<1>3. PICK e \in Lookup(Pairing) :
       IF e = 0
          THEN reader' = [pc |-> "loaded"] /\ UNCHANGED <<view, gone>>
          ELSE \E page \in GetMessages(Reader, e, reader.from) :
                 /\ view' = view \cup {m.id : m \in page}
                 /\ gone' = gone \cup ({m.id : m \in page} \cap deleted)
                 /\ IF HasMore(page)
                    THEN \E m \in Lowest(page) : reader' = [reader EXCEPT !.from = Cursor(m)]
                    ELSE reader' = [pc |-> "loaded"]
  BY DEF LoadPage, Pairing
<1>4. ReaderShape'
  <2>1. CASE reader' = [pc |-> "loaded"]
    BY <2>1 DEF ReaderShape
  <2>2. ASSUME NEW f, reader' = [reader EXCEPT !.from = f] PROVE ReaderShape'
    <3>1. reader' = [pc |-> "load", from |-> f]
      BY <1>2, <2>2
    <3> QED BY <3>1 DEF ReaderShape
  <2> QED BY <1>3, <2>1, <2>2
<1>5. NothingMissed'
  <2> SUFFICES ASSUME NEW c \in Found(Pairing)', Lone(c)', ~Ties(c)',
                      NEW m \in Visible(Reader, c)', m.from # m.to
               PROVE  Followed(m)'
    BY DEF NothingMissed
  <2>1. m \in messages
    BY <1>1 DEF Visible
  <2>2. c \in Found(Pairing) /\ Lone(c) /\ ~Ties(c) /\ m \in Visible(Reader, c)
    BY <2>1, VisibleBefore DEF ReadersInv
  <2>3. Followed(m)
    BY <1>1, <2>2 DEF ReadersInv, NothingMissed
  <2>4. e \in Found(Pairing)
    BY <2>2, LookupLone DEF ReadersInv
  <2>5. e = c
    BY <2>2, <2>4, FoundPairing DEF ReadersInv, Lone
  <2>6. e # 0
    BY <2>4 DEF Found
  <2>7. PICK page \in GetMessages(Reader, c, reader.from) :
                 /\ view' = view \cup {n.id : n \in page}
                 /\ gone' = gone \cup ({n.id : n \in page} \cap deleted)
                 /\ IF HasMore(page)
                    THEN \E n \in Lowest(page) : reader' = [reader EXCEPT !.from = Cursor(n)]
                    ELSE reader' = [pc |-> "loaded"]
    BY <1>3, <2>5, <2>6
  <2> QED BY <1>1, <1>2, <2>2, <2>3, <2>7, PageKeeps
<1> QED BY <1>4, <1>5

\* A client that comes back begins with the newest page.
LEMMA OnlineMisses ==
  ASSUME ReadersInv, NEW d \in Socket, ComesOnline(d), [ConvoNext]_convoVars
  PROVE  ReaderShape' /\ NothingMissed'
<1>1. UNCHANGED <<messages, deleted, sending, screen>>
  BY DEF ComesOnline, store
<1>2. CASE d = Client /\ screen = "history"
  <2>1. reader' = [pc |-> "load", from |-> Top]
    BY <1>2 DEF ComesOnline
  <2>2. ReaderShape'
    BY <2>1 DEF ReaderShape
  <2>3. \A m \in messages : Followed(m)'
    <3> SUFFICES ASSUME NEW m \in messages PROVE Followed(m)'
      OBVIOUS
    <3>1. m.at \in Nat /\ m.at <= MaxTime /\ MaxTime \in Nat
      BY ConversationsAssumption DEF ReadersInv, PlacesInv, MessagesArePlaced, IsPlaced
    <3>2. reader'.pc = "load" /\ reader'.from.at = MaxTime + 1
      BY <2>1 DEF Top
    <3> QED BY <3>1, <3>2 DEF Followed, Awaited, After
  <2> QED BY <1>1, <2>2, <2>3 DEF NothingMissed, Visible
<1>3. CASE ~(d = Client /\ screen = "history")
  <2>1. UNCHANGED <<reader, view, gone>>
    BY <1>3 DEF ComesOnline
  <2>2. ReaderShape'
    BY <1>1, <2>1 DEF ReaderShape, ReadersInv
  <2>3. screen = "history" /\ Client \in online' => Client \in online
    BY <1>3 DEF ComesOnline
  <2>4. Client \in online => NothingMissed'
    BY <1>1, <2>1, KeepFollowing, QuietKeeps
  <2> QED BY <1>1, <2>2, <2>3, <2>4 DEF NothingMissed
<1> QED BY <1>2, <1>3

\* Every other step leaves the reader of a history where it is.
LEMMA OtherMisses ==
  ASSUME ReadersInv, [ConvoNext]_convoVars, UNCHANGED screen,
         screen = "history" => UNCHANGED reader, online' \subseteq online,
         \A m \in messages : screen = "history" /\ Client \in online' /\ Ours(m) /\ Followed(m)
                               => Followed(m)',
         \A m \in messages' \ messages : screen = "history" /\ Client \in online' /\ Ours(m)
                               => Followed(m)'
  PROVE  ReaderShape' /\ NothingMissed'
<1>1. ReaderShape'
  BY DEF ReadersInv, ReaderShape
<1>2. CASE screen = "history" /\ Client \in online'
  <2>1. Client \in online
    BY <1>2
  <2> QED BY <1>1, <1>2, <2>1, KeepFollowing
<1>3. CASE ~(screen = "history" /\ Client \in online')
  BY <1>1, <1>3 DEF NothingMissed
<1> QED BY <1>2, <1>3

LEMMA HandlerMisses ==
  ASSUME ReadersInv, NEW d \in Socket, HandlerStep(d), [ConvoNext]_convoVars
  PROVE  ReaderShape' /\ NothingMissed'
<1>1. UNCHANGED <<online, screen>> /\ (screen = "history" => UNCHANGED reader)
  BY DEF HandlerStep, Create, Commit, WriteConflict, AskOnline, Emit, EmitDeleted, client
<1>2. CASE Commit(d)
  BY <1>1, <1>2, CommitKeeps, OtherMisses
<1>3. CASE Create(d) \/ WriteConflict(d)
  <2>1. UNCHANGED <<messages, reader, view, gone, deleted>> /\ \E task : Go(d, task)
        /\ sending[d].pc \in {"create", "write"}
    BY <1>3 DEF Create, WriteConflict, store, client, Doing
  <2> QED BY <1>1, <2>1, SilentKeeps, OtherMisses DEF ReadersInv
<1>4. CASE AskOnline(d) \/ Emit(d) \/ EmitDeleted(d)
  <2>1. UNCHANGED messages
    BY <1>4 DEF AskOnline, Emit, EmitDeleted, store
  <2>2. \A m : Client \in online /\ Ours(m) /\ Followed(m) => Followed(m)'
    BY <1>4, AskKeeps, EmitKeeps, EmitDeletedKeeps
  <2> QED BY <1>1, <2>1, <2>2, OtherMisses
<1> QED BY <1>2, <1>3, <1>4 DEF HandlerStep

LEMMA ClientMisses ==
  ASSUME ReadersInv, NEW d \in Socket, ClientStep(d), [ConvoNext]_convoVars
  PROVE  ReaderShape' /\ NothingMissed'
<1>1. CASE \E to \in Writes[d] : Send(d, to)
  <2>1. UNCHANGED <<messages, deleted, online, screen, reader, view, gone>>
        /\ sending[d].pc = "idle" /\ \E task : Go(d, task)
    BY <1>1 DEF Send, client, Doing
  <2> QED BY <2>1, SilentKeeps, OtherMisses DEF ReadersInv
<1>2. CASE \E x \in messages : Delete(d, x)
  <2>1. UNCHANGED <<messages, online, screen, reader>>
    BY <1>2 DEF Delete, client
  <2> QED BY <1>2, <2>1, DeleteKeeps, OtherMisses
<1>3. CASE (\E c \in 1 .. Len(convos) : Open(d, c)) \/ Disconnect(d)
  <2>1. UNCHANGED <<messages, deleted, sending, screen, reader, view, gone>> /\ online' \subseteq online
    BY <1>3 DEF Open, Disconnect, client, store
  <2> QED BY <2>1, QuietKeeps, OtherMisses
<1>4. CASE ComesOnline(d)
  BY <1>4, OnlineMisses
<1> QED BY <1>1, <1>2, <1>3, <1>4 DEF ClientStep

LEMMA ConvoNextMisses ==
  ASSUME ReadersInv, [ConvoNext]_convoVars
  PROVE  ReaderShape' /\ NothingMissed'
<1>1. ASSUME UNCHANGED <<messages, deleted, sending, online, screen, view, gone>>,
             screen = "history" => UNCHANGED reader
      PROVE  ReaderShape' /\ NothingMissed'
  BY <1>1, QuietKeeps, OtherMisses
<1>2. ASSUME NEW c, NEW u, Clear(u, c) PROVE ReaderShape' /\ NothingMissed'
  BY <1>1, <1>2 DEF Clear, client
<1>3. CASE List \/ UNCHANGED convoVars
  BY <1>1, <1>3 DEF List, convoVars, store, client
<1>4. ASSUME NEW pair \in Pair, CacheExpires(pair) PROVE ReaderShape' /\ NothingMissed'
  BY <1>1, <1>4 DEF CacheExpires, client
<1>5. CASE LoadPage
  BY <1>5, LoadMisses
<1> QED BY <1>2, <1>3, <1>4, <1>5, HandlerMisses, ClientMisses DEF ConvoNext, HttpStep

LEMMA ConvoInitReaders == ConvoInit => ReadersInv
<1> SUFFICES ASSUME ConvoInit PROVE ReadersInv
  OBVIOUS
<1>1. RoomInv
  <2>1. Creating = {}
    BY DEF ConvoInit, Creating, Idle
  <2> QED BY <2>1, FS_EmptySet, ConversationsAssumption DEF ConvoInit, RoomInv
<1>2. ClearsInv
  <2>1. \A u \in User, c \in Id : cleared[u][c] = 0
    BY DEF ConvoInit
  <2>2. cleared \in [User -> [Id -> Nat]] /\ clock = 1
    BY DEF ConvoInit
  <2> QED BY <2>1, <2>2 DEF ClearsInv
<1>3. IdsInv
  BY DEF ConvoInit, IdsInv, Idle, Pending
<1>4. ReaderShape
  BY DEF ConvoInit, ReaderShape
<1>5. NothingMissed
  BY DEF ConvoInit, NothingMissed, Visible
<1> QED BY <1>1, <1>2, <1>3, <1>4, <1>5, ConvoInitPlaces DEF ReadersInv

LEMMA ConvoNextReaders == ReadersInv /\ [ConvoNext]_convoVars => ReadersInv'
<1> SUFFICES ASSUME ReadersInv, [ConvoNext]_convoVars PROVE ReadersInv'
  OBVIOUS
<1>1. PlacesInv' /\ RoomInv' /\ IdsInv' /\ ClearsInv'
  BY ConvoNextPlaces, ConvoNextRoom, ConvoNextIds, NextClears DEF ReadersInv
<1> QED BY <1>1, ConvoNextMisses DEF ReadersInv

LEMMA OneUnlessSplit ==
  ASSUME PlacesInv, NEW pair, ~ Split(pair),
         NEW c \in 1 .. Len(convos), NEW e \in 1 .. Len(convos),
         convos[c] = pair, convos[e] = pair
  PROVE  c = e
<1> SUFFICES ASSUME e # c PROVE FALSE
  OBVIOUS
<1> DEFINE same == {x \in 1 .. Len(convos) : convos[x] = pair}
<1>1. Len(convos) \in Nat
  BY DEF PlacesInv, ConvosArePairs
<1>2. IsFiniteSet(same)
  <2>1. IsFiniteSet(1 .. Len(convos)) /\ same \subseteq 1 .. Len(convos)
    BY <1>1, FS_Interval
  <2> QED BY <2>1, FS_Subset
<1>3. {c, e} \subseteq same
  OBVIOUS
<1>4. IsFiniteSet({c, e}) /\ Cardinality({c, e}) = 2
  <2>1. IsFiniteSet({c}) /\ Cardinality({c}) = 1
    BY FS_Singleton
  <2>2. IsFiniteSet({c} \cup {e}) /\ Cardinality({c} \cup {e}) = 1 + 1
    BY <2>1, FS_AddElement
  <2>3. {c, e} = {c} \cup {e}
    OBVIOUS
  <2> QED BY <2>2, <2>3
<1>5. Cardinality(same) \in Nat /\ 2 <= Cardinality(same)
  BY <1>2, <1>3, <1>4, FS_Subset, FS_CardinalityType
<1> QED BY <1>5 DEF Split

LEMMA LoneUnlessSplit ==
  ASSUME PlacesInv, ~Split(Pairing), NEW c \in Found(Pairing)
  PROVE  Lone(c)
<1>1. convos[c] = Pairing /\ c \in 1 .. Len(convos)
  BY FoundPairing
<1> QED BY <1>1, OneUnlessSplit DEF Lone

LEMMA ReadersMissNothing == ReadersInv => NoMessageMissed
<1> SUFFICES ASSUME ReadersInv, screen = "history", Client \in online, reader.pc = "loaded",
                    NEW c \in Found(Pairing), ~Split(Pairing), ~Ties(c),
                    NEW m \in Visible(Reader, c), ~Announcing(m), m.from # m.to
             PROVE  m.id \in view /\ (m.id \in deleted => m.id \in gone)
  BY DEF NoMessageMissed, Pairing
<1>1. Lone(c)
  BY LoneUnlessSplit DEF ReadersInv
<1>2. Informed(m)
  BY <1>1 DEF ReadersInv, NothingMissed, Followed, Awaited
<1>3. ASSUME NEW d \in Socket, Tells(sending[d], m) \/ TellsGone(sending[d], m) PROVE FALSE
  BY <1>3 DEF Tells, TellsGone, Announcing, Doing
<1> QED BY <1>2, <1>3 DEF Informed

\* A client that stays online while it loads a history, page by page, misses
\* neither a message nor a deletion: what is stored behind its back is told over
\* the socket (ClientEventHandler.ts, Message.repository.ts).
THEOREM TheHistoryIsComplete == ConvoSpec => []NoMessageMissed
<1> QED BY ConvoInitReaders, ConvoNextReaders, ReadersMissNothing, PTL DEF ConvoSpec

----------------------------------------------------------------------------
(* Conversations: the list and the search                                   *)

----------------------------------------------------------------------------
(* Extremes                                                                 *)

LEMMA MinExists ==
  ASSUME NEW S \in SUBSET Nat, S # {}
  PROVE  \E x \in S : \A y \in S : x <= y
<1>1. IsWellFoundedOn(OpToRel(<, Nat), Nat)
  BY NatLessThanWellFounded
<1>2. PICK x \in S : \A y \in S : ~ (<<y, x>> \in OpToRel(<, Nat))
  BY <1>1, WFMin
<1>3. ASSUME NEW y \in S PROVE x <= y
  <2>1. ~ (y < x)
    BY <1>2 DEF OpToRel
  <2> QED BY <2>1
<1> QED BY <1>2, <1>3

LEMMA MaxExists ==
  ASSUME NEW S \in SUBSET Nat, S # {}, NEW b \in Nat, \A x \in S : x <= b
  PROVE  \E x \in S : \A y \in S : y <= x
<1> DEFINE T == {b - x : x \in S}
<1>1. T \in SUBSET Nat /\ T # {}
  <2>1. \A x \in S : b - x \in Nat
    OBVIOUS
  <2>2. PICK x : x \in S
    OBVIOUS
  <2>3. b - x \in T
    BY <2>2
  <2> QED BY <2>1, <2>3
<1>2. PICK t \in T : \A y \in T : t <= y
  BY <1>1, MinExists
<1>3. PICK x \in S : t = b - x
  OBVIOUS
<1>4. ASSUME NEW y \in S PROVE y <= x
  <2>1. b - y \in T
    OBVIOUS
  <2>2. b - x <= b - y
    BY <1>2, <1>3, <2>1
  <2> QED BY <2>2
<1> QED BY <1>4

\* The order of the list of recent conversations.
UpdatesInv ==
  /\ clock \in Nat /\ clock <= MaxTime /\ updatedAt \in [Id -> Nat]
  /\ \A c \in Id : updatedAt[c] <= MaxTime

LEMMA NewerIsTotal ==
  ASSUME updatedAt \in [Id -> Nat]
  PROVE  /\ \A c, e \in Id : c = e \/ Newer(c, e) \/ Newer(e, c)
         /\ \A c, e \in Id : Newer(c, e) => ~ Newer(e, c) /\ c # e
         /\ \A c, e, f \in Id : Newer(c, e) /\ Newer(e, f) => Newer(c, f)
<1>1. \A c \in Id : c \in Int /\ updatedAt[c] \in Nat
  BY DEF Id
<1> QED BY <1>1 DEF Newer

LEMMA OldestExists ==
  ASSUME updatedAt \in [Id -> Nat], NEW S \in SUBSET Id, S # {}
  PROVE  \E c \in S : \A e \in S : e = c \/ Newer(e, c)
<1>1. \A c \in Id : c \in Nat /\ updatedAt[c] \in Nat
  BY DEF Id
<1> DEFINE T == {updatedAt[c] : c \in S}
           U(t) == {c \in S : updatedAt[c] = t}
<1>2. T \in SUBSET Nat /\ T # {}
  BY <1>1
<1>3. PICK t \in T : \A y \in T : t <= y
  BY <1>2, MinExists
<1>4. U(t) \in SUBSET Nat /\ U(t) # {}
  BY <1>1
<1>5. PICK c \in U(t) : \A y \in U(t) : c <= y
  BY <1>4, MinExists
<1>6. ASSUME NEW e \in S PROVE e = c \/ Newer(e, c)
  <2>1. t <= updatedAt[e] /\ updatedAt[c] = t
    BY <1>3
  <2>2. updatedAt[e] = t => c <= e
    BY <1>5
  <2>3. e \in Nat /\ c \in Nat /\ updatedAt[e] \in Nat /\ t \in Nat
    BY <1>1
  <2>4. updatedAt[e] > t \/ updatedAt[e] = t
    BY <2>1, <2>3
  <2> HIDE DEF U
  <2>5. updatedAt[e] = t => e = c \/ e > c
    BY <2>2, <2>3
  <2> QED BY <2>1, <2>4, <2>5 DEF Newer
<1> QED BY <1>6

LEMMA NewestExists ==
  ASSUME UpdatesInv, NEW S \in SUBSET Id, S # {}
  PROVE  \E c \in S : \A e \in S : e = c \/ Newer(c, e)
<1>1. \A c \in Id : c \in Nat /\ c <= MaxActs /\ updatedAt[c] \in Nat /\ updatedAt[c] <= MaxTime
  BY ConversationsAssumption DEF Id, UpdatesInv
<1> DEFINE T == {updatedAt[c] : c \in S}
           U(t) == {c \in S : updatedAt[c] = t}
<1>2. T \in SUBSET Nat /\ T # {} /\ MaxTime \in Nat /\ MaxActs \in Nat
      /\ \A y \in T : y <= MaxTime
  BY <1>1, ConversationsAssumption
<1>3. PICK t \in T : \A y \in T : y <= t
  <2> HIDE DEF T
  <2> QED BY <1>2, MaxExists
<1>4. U(t) \in SUBSET Nat /\ U(t) # {} /\ \A y \in U(t) : y <= MaxActs
  BY <1>1
<1>5. PICK c \in U(t) : \A y \in U(t) : y <= c
  <2> HIDE DEF U
  <2> QED BY <1>2, <1>4, MaxExists
<1>6. ASSUME NEW e \in S PROVE e = c \/ Newer(c, e)
  <2>1. updatedAt[e] <= t /\ updatedAt[c] = t
    BY <1>3
  <2>2. updatedAt[e] = t => e <= c
    BY <1>5
  <2>3. e \in Nat /\ c \in Nat /\ updatedAt[e] \in Nat /\ t \in Nat
    BY <1>1
  <2> HIDE DEF U
  <2>4. t > updatedAt[e] \/ updatedAt[e] = t
    BY <2>1, <2>3
  <2>5. updatedAt[e] = t => e = c \/ c > e
    BY <2>2, <2>3
  <2> QED BY <2>1, <2>4, <2>5 DEF Newer
<1> QED BY <1>6

----------------------------------------------------------------------------
(* The first few of a set of conversations                                  *)

LEMMA IdsFinite == \A S \in SUBSET Id : IsFiniteSet(S) /\ Cardinality(S) \in Nat
<1>1. IsFiniteSet(1 .. MaxActs)
  BY FS_Interval, ConversationsAssumption
<1>2. \A S \in SUBSET Id : IsFiniteSet(S)
  BY <1>1, FS_Subset DEF Id
<1> QED BY <1>2, FS_CardinalityType

LEMMA NewerOnesFirst ==
  ASSUME updatedAt \in [Id -> Nat], NEW rows \in SUBSET Id, NEW limit \in Nat,
         NEW e \in FirstOf(rows, limit), NEW c \in rows, Newer(c, e)
  PROVE  c \in FirstOf(rows, limit)
<1> DEFINE above(x) == {y \in rows : Newer(y, x)}
<1>1. above(c) \subseteq above(e) /\ above(e) \subseteq Id /\ above(c) \subseteq Id
  BY NewerIsTotal DEF FirstOf
<1>2. Cardinality(above(c)) <= Cardinality(above(e)) /\ Cardinality(above(c)) \in Nat
      /\ Cardinality(above(e)) \in Nat
  BY <1>1, IdsFinite, FS_Subset
<1>3. Cardinality(above(e)) < limit
  BY DEF FirstOf
<1>4. Cardinality(above(c)) < limit
  <2> HIDE DEF above
  <2> QED BY <1>2, <1>3
<1> QED BY <1>4 DEF FirstOf

LEMMA AtMostLimit ==
  ASSUME UpdatesInv, NEW rows \in SUBSET Id, NEW limit \in Nat
  PROVE  Cardinality(FirstOf(rows, limit)) <= limit
<1> DEFINE page == FirstOf(rows, limit)
<1>1. page \in SUBSET Id /\ page \subseteq rows
  BY DEF FirstOf
<1>2. CASE page = {}
  BY <1>2, FS_EmptySet
<1>3. CASE page # {}
  <2>1. PICK c \in page : \A e \in page : e = c \/ Newer(e, c)
    BY <1>1, <1>3, OldestExists DEF UpdatesInv
  <2> DEFINE above == {y \in rows : Newer(y, c)}
  <2>2. page \ {c} \subseteq above /\ above \subseteq Id
    BY <1>1, <2>1
  <2>3. Cardinality(above) < limit
    BY <2>1 DEF FirstOf
  <2> HIDE DEF page, above
  <2>4. IsFiniteSet(above) /\ Cardinality(above) \in Nat
    BY <2>2, IdsFinite
  <2>5. Cardinality(page \ {c}) <= Cardinality(above) /\ IsFiniteSet(page \ {c})
    BY <2>2, <2>4, FS_Subset
  <2>6. IsFiniteSet(page) /\ Cardinality(page) \in Nat /\ c \in page
    BY <1>1, <2>1, IdsFinite
  <2>7. Cardinality(page \ {c}) = Cardinality(page) - 1
    BY <2>6, FS_RemoveElement
  <2>8. Cardinality(page) <= limit
    BY <2>3, <2>4, <2>5, <2>6, <2>7
  <2> QED BY <2>8 DEF page
<1> QED BY <1>2, <1>3

\* A page that is not full is all there is.
LEMMA ShortPageIsAll ==
  ASSUME UpdatesInv, NEW rows \in SUBSET Id, NEW limit \in Nat,
         Cardinality(FirstOf(rows, limit)) # limit
  PROVE  FirstOf(rows, limit) = rows
<1> DEFINE page == FirstOf(rows, limit)
<1>1. page \subseteq rows /\ page \in SUBSET Id /\ rows \ page \in SUBSET Id
  BY DEF FirstOf
<1> SUFFICES ASSUME rows \ page # {} PROVE FALSE
  BY <1>1
<1>2. PICK c \in rows \ page : \A e \in rows \ page : e = c \/ Newer(c, e)
  BY <1>1, NewestExists
<1> DEFINE above == {y \in rows : Newer(y, c)}
<1>3. above \subseteq page
  <2>1. \A e \in rows \ page : ~ Newer(e, c)
    BY <1>1, <1>2, NewerIsTotal DEF UpdatesInv
  <2> HIDE DEF page
  <2> QED BY <2>1
<1>4. ~ (Cardinality(above) < limit)
  BY <1>2 DEF FirstOf
<1>5. Cardinality(page) <= limit
  BY AtMostLimit
<1>6. Cardinality(page) # limit
  OBVIOUS
<1> HIDE DEF page, above
<1>7. IsFiniteSet(page) /\ Cardinality(page) \in Nat
  BY <1>1, IdsFinite
<1>8. Cardinality(above) \in Nat /\ Cardinality(above) <= Cardinality(page)
  BY <1>3, <1>7, FS_Subset, FS_CardinalityType
<1> QED BY <1>4, <1>5, <1>6, <1>7, <1>8

LEMMA ConvosHaveIds ==
  ASSUME RoomInv, PlacesInv
  PROVE  1 .. Len(convos) \subseteq Id
<1>1. Cardinality(Creating) \in Nat /\ MaxActs \in Nat /\ Len(convos) \in Nat
  BY FS_CardinalityType, ConversationsAssumption DEF RoomInv, PlacesInv, ConvosArePairs
<1> QED BY <1>1 DEF RoomInv, Id

\* What the user who pages through the recent conversations has been shown.
Undisturbed(c, from, shown, again) ==
  c \in ConvosOf(Reader) /\ c \notin again /\ (c \in shown <=> ~ Beyond(c, from))

ListShape ==
  screen = "recent" =>
    /\ reader.pc \in {"load", "paging", "listed"}
    /\ reader.pc = "load" => reader.from = Top
    /\ reader.pc = "paging" =>
         reader = [pc |-> "paging", from |-> reader.from, due |-> reader.due,
                   shown |-> reader.shown, again |-> reader.again]
    /\ reader.pc = "listed" =>
         reader = [pc |-> "listed", due |-> reader.due,
                   shown |-> reader.shown, again |-> reader.again]
DueInv ==
  screen = "recent" =>
    /\ reader.pc = "paging" =>
         /\ reader.from.at \in Nat /\ reader.from.id \in Nat
         /\ \A c \in reader.due : Undisturbed(c, reader.from, reader.shown, reader.again)
    /\ reader.pc = "listed" =>
         \A c \in reader.due : c \in reader.shown /\ c \notin reader.again

RecentInv == screen \in {"history", "recent"} /\ UpdatesInv /\ ListShape /\ DueInv

LEMMA CommitUpdates ==
  ASSUME UpdatesInv, NEW d, Commit(d)
  PROVE  /\ UpdatesInv'
         /\ \A c \in Id : c # sending[d].message.convo => updatedAt'[c] = updatedAt[c]
  BY DEF UpdatesInv, Commit

LEMMA NextUpdates ==
  ASSUME UpdatesInv, [ConvoNext]_convoVars
  PROVE  UpdatesInv'
<1>1. CASE \E d \in Socket : Commit(d)
  BY <1>1, CommitUpdates
<1>2. CASE UNCHANGED updatedAt /\ (UNCHANGED clock \/ \E t \in 1 .. MaxTime : Stamp(t))
  BY <1>2, ConversationsAssumption DEF UpdatesInv, Stamp
<1> QED
  BY <1>1, <1>2
     DEF ConvoNext, HandlerStep, ClientStep, HttpStep, Send, Create, WriteConflict,
         AskOnline, Emit, Delete, EmitDeleted, Open, Clear, LoadPage, ComesOnline, Disconnect,
         List, CacheExpires, store, convoVars

LEMMA ConvosStay ==
  ASSUME PlacesInv, StoreGrows, NEW u, NEW c \in ConvosOf(u), Len(convos') \in Nat
  PROVE  c \in ConvosOf(u)'
<1>1. Len(convos) \in Nat
  BY DEF PlacesInv, ConvosArePairs
<1> QED BY <1>1 DEF ConvosOf, StoreGrows

\* While the reader and the times of the conversations stay.
LEMMA RecentStays ==
  ASSUME PlacesInv, [ConvoNext]_convoVars, UNCHANGED <<updatedAt, screen>>, RecentInv,
         screen = "recent" => UNCHANGED reader
  PROVE  RecentInv'
<1>1. UpdatesInv'
  BY NextUpdates DEF RecentInv
<1>2. ListShape'
  BY DEF ListShape, RecentInv
<1>3. StoreGrows /\ PlacesInv' /\ Len(convos') \in Nat
  BY NextGrows, ConvoNextPlaces DEF PlacesInv, ConvosArePairs
<1>4. \A c, f, s, a : Undisturbed(c, f, s, a) => Undisturbed(c, f, s, a)'
  BY <1>3, ConvosStay DEF Undisturbed, Beyond, Reader
<1>5. DueInv'
  BY <1>4 DEF DueInv, RecentInv
<1> QED BY <1>1, <1>2, <1>5 DEF RecentInv

LEMMA CommitRecent ==
  ASSUME PlacesInv, RoomInv, RecentInv, NEW d \in Socket, Commit(d), [ConvoNext]_convoVars
  PROVE  RecentInv'
<1>1. UpdatesInv' /\ UNCHANGED <<screen, convos>>
  BY CommitUpdates DEF RecentInv, Commit
<1>2. PICK x : x = sending[d].message.convo
  OBVIOUS
<1>3. reader' = IF screen = "recent" /\ reader.pc # "load"
                THEN [reader EXCEPT !.due = @ \ {x}] ELSE reader
  BY <1>2 DEF Commit
<1>4. CASE screen = "recent" /\ reader.pc = "paging"
  <2>1. reader = [pc |-> "paging", from |-> reader.from, due |-> reader.due,
                   shown |-> reader.shown, again |-> reader.again]
    BY <1>4 DEF RecentInv, ListShape
  <2>2. reader' = [pc |-> "paging", from |-> reader.from, due |-> reader.due \ {x},
                   shown |-> reader.shown, again |-> reader.again]
    BY <1>3, <1>4, <2>1
  <2>3. ListShape'
    BY <1>1, <2>2 DEF ListShape
  <2>4. ASSUME NEW c \in reader.due, c # x
        PROVE  Undisturbed(c, reader.from, reader.shown, reader.again)'
    <3>1. Undisturbed(c, reader.from, reader.shown, reader.again)
      BY <1>4 DEF RecentInv, DueInv
    <3>2. c \in Id
      BY <3>1, ConvosHaveIds DEF Undisturbed, ConvosOf
    <3>3. updatedAt'[c] = updatedAt[c]
      BY <1>2, <2>4, <3>2, CommitUpdates DEF RecentInv
    <3>4. reader'.from = reader.from /\ reader'.shown = reader.shown /\ reader'.again = reader.again
      BY <2>2
    <3> QED BY <1>1, <3>1, <3>3, <3>4 DEF Undisturbed, Beyond, ConvosOf, Reader
  <2>5. reader'.from = reader.from /\ reader'.due = reader.due \ {x} /\ reader'.pc = "paging"
    BY <2>2
  <2>6. reader.from.at \in Nat /\ reader.from.id \in Nat
    BY <1>4 DEF RecentInv, DueInv
  <2>7. DueInv'
    BY <2>4, <2>5, <2>6 DEF DueInv
  <2> QED BY <1>1, <2>3, <2>7 DEF RecentInv
<1>5. CASE screen = "recent" /\ reader.pc = "listed"
  <2>1. reader = [pc |-> "listed", due |-> reader.due,
                   shown |-> reader.shown, again |-> reader.again]
    BY <1>5 DEF RecentInv, ListShape
  <2>2. reader' = [pc |-> "listed", due |-> reader.due \ {x},
                   shown |-> reader.shown, again |-> reader.again]
    BY <1>3, <1>5, <2>1
  <2>3. ListShape'
    BY <1>1, <2>2 DEF ListShape
  <2>4. DueInv'
    BY <1>5, <2>2 DEF DueInv, RecentInv
  <2> QED BY <1>1, <2>3, <2>4 DEF RecentInv
<1>6. CASE ~ (screen = "recent" /\ reader.pc \in {"paging", "listed"})
  <2>1. UNCHANGED reader
    BY <1>3, <1>6 DEF RecentInv, ListShape
  <2>2. ListShape'
    BY <1>1, <2>1 DEF ListShape, RecentInv
  <2>3. DueInv'
    BY <1>1, <1>6, <2>1 DEF DueInv
  <2> QED BY <1>1, <2>2, <2>3 DEF RecentInv
<1> QED BY <1>4, <1>5, <1>6

\* The next page shows what is due and beyond the cursor, or leaves it beyond
\* the next one; it repeats nothing that is due.
LEMMA PageShowsDue ==
  ASSUME PlacesInv, RoomInv, UpdatesInv, NEW from, from.at \in Nat, from.id \in Nat,
         NEW c, NEW shown, NEW again, Undisturbed(c, from, shown, again)
  PROVE  LET page == RecentPage(Reader, from) IN
         /\ c \notin again \cup (shown \cap page)
         /\ Cardinality(page) # PageSize => c \in shown \cup page
         /\ \A x \in page : (\A e \in page : e = x \/ Newer(e, x)) =>
              (c \in shown \cup page <=> ~ Beyond(c, [at |-> updatedAt[x], id |-> x]))
<1> DEFINE rows == {e \in ConvosOf(Reader) : Beyond(e, from)}
           page == RecentPage(Reader, from)
<1>1. ConvosOf(Reader) \subseteq Id
  BY ConvosHaveIds DEF ConvosOf
<1>2. rows \in SUBSET Id /\ page = FirstOf(rows, PageSize) /\ page \subseteq rows
      /\ PageSize \in Nat /\ updatedAt \in [Id -> Nat]
  BY <1>1, ConversationsAssumption DEF RecentPage, FirstOf, UpdatesInv
<1>3. c \in Id /\ c \notin again /\ (c \in shown <=> c \notin rows)
  BY <1>1 DEF Undisturbed
<1>4. c \notin again \cup (shown \cap page)
  BY <1>2, <1>3
<1>5. ASSUME Cardinality(page) # PageSize PROVE c \in shown \cup page
  <2>1. page = rows
    BY <1>2, <1>5, ShortPageIsAll
  <2> QED BY <1>3, <2>1
<1>6. ASSUME NEW x \in page, \A e \in page : e = x \/ Newer(e, x)
      PROVE  c \in shown \cup page <=> ~ Beyond(c, [at |-> updatedAt[x], id |-> x])
  <2>1. x \in Id /\ x \in rows
    BY <1>2
  <2>2. Beyond(c, [at |-> updatedAt[x], id |-> x]) <=> Newer(x, c)
    <3>1. updatedAt[c] \in Nat /\ updatedAt[x] \in Nat /\ c \in Nat /\ x \in Nat
      BY <1>2, <1>3, <2>1 DEF Id
    <3> QED BY <3>1 DEF Beyond, Newer
  <2>3. CASE c \in page
    <3>1. c = x \/ Newer(c, x)
      BY <1>6, <2>3
    <3>2. ~ Newer(x, c)
      BY <1>2, <1>3, <2>1, <3>1, NewerIsTotal
    <3> QED BY <2>2, <2>3, <3>2
  <2>4. CASE c \in shown
    <3>1. c \notin rows
      BY <1>3, <2>4
    <3>2. ~ Beyond(c, from)
      BY <3>1 DEF Undisturbed
    <3>3. Beyond(x, from)
      BY <2>1
    <3>4. updatedAt[c] \in Nat /\ updatedAt[x] \in Nat /\ c \in Nat /\ x \in Nat
      BY <1>2, <1>3, <2>1 DEF Id
    <3>5. ~ Newer(x, c)
      BY <3>2, <3>3, <3>4 DEF Beyond, Newer
    <3> QED BY <2>2, <2>4, <3>5
  <2>5. CASE c \notin shown /\ c \notin page
    <3>1. c \in rows
      BY <1>3, <2>5
    <3>2. ~ Newer(c, x)
      BY <1>2, <2>5, <3>1, NewerOnesFirst
    <3>3. Newer(x, c)
      BY <1>2, <1>3, <2>1, <2>5, <3>2, NewerIsTotal
    <3> QED BY <2>2, <2>5, <3>3
  <2> QED BY <2>3, <2>4, <2>5
<1> QED BY <1>4, <1>5, <1>6

LEMMA ListRecent ==
  ASSUME PlacesInv, RoomInv, RecentInv, List, [ConvoNext]_convoVars
  PROVE  RecentInv'
<1>1. UNCHANGED <<convos, updatedAt, screen>> /\ screen = "recent" /\ reader.pc \in {"load", "paging"}
  BY DEF List, store
<1>2. UpdatesInv /\ UpdatesInv'
  BY NextUpdates DEF RecentInv
<1> DEFINE first == reader.pc = "load"
<1>3. PICK from : from = reader.from
  OBVIOUS
<1>4. PICK seen : seen = IF first THEN {} ELSE reader.shown
  OBVIOUS
<1>5. PICK due : due = IF first THEN ConvosOf(Reader) ELSE reader.due
  OBVIOUS
<1>6. PICK old : old = IF first THEN {} ELSE reader.again
  OBVIOUS
<1>7. PICK page : page = RecentPage(Reader, from)
  OBVIOUS
<1>8. PICK again : again = old \cup (seen \cap page)
  OBVIOUS
<1>9. IF Cardinality(page) = PageSize
      THEN \E c \in page : /\ \A e \in page : e = c \/ Newer(e, c)
                           /\ reader' = [pc |-> "paging", from |-> [at |-> updatedAt[c], id |-> c],
                                due |-> due, shown |-> seen \cup page, again |-> again]
      ELSE reader' = [pc |-> "listed",
                      due |-> due, shown |-> seen \cup page, again |-> again]
  <2>1. again = IF first THEN {} ELSE reader.again \cup (seen \cap page)
    BY <1>4, <1>6, <1>8
  <2>2. \A c, e : Newer(e, c) => Newer(e, c)
    OBVIOUS
  <2> QED BY <1>3, <1>4, <1>5, <1>7, <2>1 DEF List
<1>10. from.at \in Nat /\ from.id \in Nat /\ \A c \in due : Undisturbed(c, from, seen, old)
  <2>1. CASE first
    <3>1. from = Top
      BY <1>1, <1>3, <2>1 DEF RecentInv, ListShape
    <3>2. from.at = MaxTime + 1 /\ from.id = 0 /\ MaxTime \in Nat
      BY <3>1, ConversationsAssumption DEF Top
    <3>3. \A c \in ConvosOf(Reader) : updatedAt[c] < MaxTime + 1
      BY <1>2, <3>2, ConvosHaveIds DEF UpdatesInv, ConvosOf
    <3> QED BY <1>4, <1>5, <1>6, <2>1, <3>2, <3>3 DEF Undisturbed, Beyond
  <2>2. CASE ~ first
    BY <1>1, <1>3, <1>4, <1>5, <1>6, <2>2 DEF RecentInv, DueInv
  <2> QED BY <2>1, <2>2
<1>11. ASSUME NEW c \in due
       PROVE  /\ c \notin again
              /\ Cardinality(page) # PageSize => c \in seen \cup page
              /\ \A x \in page : (\A e \in page : e = x \/ Newer(e, x)) =>
                   (c \in seen \cup page <=> ~ Beyond(c, [at |-> updatedAt[x], id |-> x]))
  BY <1>2, <1>7, <1>8, <1>10, PageShowsDue
<1>12. CASE Cardinality(page) # PageSize
  <2>1. reader' = [pc |-> "listed", due |-> due, shown |-> seen \cup page, again |-> again]
    BY <1>9, <1>12
  <2>2. ListShape'
    BY <1>1, <2>1 DEF ListShape
  <2>3. reader'.due = due /\ reader'.shown = seen \cup page /\ reader'.again = again
        /\ reader'.pc = "listed"
    BY <2>1
  <2>4. DueInv'
    BY <1>11, <1>12, <2>3 DEF DueInv
  <2> QED BY <1>1, <1>2, <2>2, <2>4 DEF RecentInv
<1>13. CASE Cardinality(page) = PageSize
  <2>1. PICK x \in page : /\ \A e \in page : e = x \/ Newer(e, x)
                          /\ reader' = [pc |-> "paging", from |-> [at |-> updatedAt[x], id |-> x],
                                due |-> due, shown |-> seen \cup page, again |-> again]
    BY <1>9, <1>13
  <2>2. PICK next : next = [at |-> updatedAt[x], id |-> x]
    OBVIOUS
  <2>3. reader' = [pc |-> "paging", from |-> next,
                   due |-> due, shown |-> seen \cup page, again |-> again]
    BY <2>1, <2>2
  <2>4. ListShape'
    BY <1>1, <2>3 DEF ListShape
  <2>5. reader'.due = due /\ reader'.shown = seen \cup page /\ reader'.again = again
        /\ reader'.pc = "paging" /\ reader'.from = next
    BY <2>3
  <2>6. x \in Id
    BY <1>7, <2>1, ConvosHaveIds DEF RecentPage, FirstOf, ConvosOf
  <2>7. next.at \in Nat /\ next.id \in Nat
    BY <1>2, <2>2, <2>6 DEF UpdatesInv, Id
  <2>8. ASSUME NEW c \in due PROVE Undisturbed(c, next, seen \cup page, again)'
    <3>1. c \in ConvosOf(Reader)
      BY <1>10 DEF Undisturbed
    <3>2. c \notin again /\ (c \in seen \cup page <=> ~ Beyond(c, next))
      BY <1>11, <2>1, <2>2
    <3> QED BY <1>1, <3>1, <3>2 DEF Undisturbed, ConvosOf, Beyond, Reader
  <2>9. DueInv'
    BY <2>5, <2>7, <2>8 DEF DueInv
  <2> QED BY <1>1, <1>2, <2>4, <2>9 DEF RecentInv
<1> QED BY <1>12, <1>13

LEMMA ConvoNextRecent ==
  PlacesInv /\ RoomInv /\ RecentInv /\ [ConvoNext]_convoVars => RecentInv'
<1> SUFFICES ASSUME PlacesInv, RoomInv, RecentInv, [ConvoNext]_convoVars PROVE RecentInv'
  OBVIOUS
<1>1. CASE \E d \in Socket : Commit(d)
  BY <1>1, CommitRecent
<1>2. CASE List
  BY <1>2, ListRecent
<1>3. CASE UNCHANGED <<updatedAt, screen>> /\ (screen = "recent" => UNCHANGED reader)
  BY <1>3, RecentStays
<1>4. \/ \E d \in Socket : Commit(d)
      \/ List
      \/ UNCHANGED <<updatedAt, screen>> /\ (screen = "recent" => UNCHANGED reader)
  BY DEF ConvoNext, HandlerStep, ClientStep, HttpStep, Send, Create, WriteConflict,
         AskOnline, Emit, Delete, EmitDeleted, Open, Clear, LoadPage, ComesOnline, Disconnect,
         CacheExpires, store, client, convoVars
<1> QED BY <1>1, <1>2, <1>3, <1>4

LEMMA ConvoInitRecent == ConvoInit => RecentInv
<1> SUFFICES ASSUME ConvoInit PROVE RecentInv
  OBVIOUS
<1>1. UpdatesInv
  BY ConversationsAssumption DEF ConvoInit, UpdatesInv
<1>2. ListShape /\ DueInv
  BY DEF ConvoInit, ListShape, DueInv
<1> QED BY <1>1, <1>2 DEF ConvoInit, RecentInv

LEMMA RecentShows == ReadersInv /\ RecentInv => RecentsShowEach
<1> SUFFICES ASSUME ReadersInv, RecentInv, reader.pc = "listed"
             PROVE  reader.due \subseteq reader.shown /\ reader.again \cap reader.due = {}
  BY DEF RecentsShowEach
<1>1. screen = "recent"
  BY DEF RecentInv, ReadersInv, ReaderShape
<1> QED BY <1>1 DEF RecentInv, DueInv

LEMMA ConvoInvHolds == ConvoSpec => [](ReadersInv /\ RecentInv)
<1>1. ReadersInv /\ RecentInv /\ [ConvoNext]_convoVars => (ReadersInv /\ RecentInv)'
  BY ConvoNextReaders, ConvoNextRecent DEF ReadersInv
<1> QED BY <1>1, ConvoInitReaders, ConvoInitRecent, PTL DEF ConvoSpec

\* Who pages through the recent conversations is shown each one without news
\* once, whatever moves to the top meanwhile (getUserConversations).
THEOREM TheListShowsEach == ConvoSpec => []RecentsShowEach
<1> QED BY ConvoInvHolds, RecentShows, PTL

LEMMA LastMessageExists ==
  ASSUME ReadersInv, NEW u, NEW c, Visible(u, c) # {}
  PROVE  LastMessage(u, c) # {}
<1> DEFINE V == Visible(u, c)
           T == {m.at : m \in V}
           W(t) == {m \in V : m.at = t}
           I(t) == {m.id : m \in W(t)}
<1>1. \A m \in V : /\ m.at \in Nat /\ m.at <= MaxTime
                   /\ m.id \in Nat /\ m.id <= sent
  BY DEF Visible, ReadersInv, PlacesInv, MessagesArePlaced, IsPlaced, IdsInv
<1>2. MaxTime \in Nat /\ sent \in Nat
  BY ConversationsAssumption DEF ReadersInv, PlacesInv, CountersInv
<1> HIDE DEF V
<1>3. T \in SUBSET Nat /\ T # {} /\ \A t \in T : t <= MaxTime
  BY <1>1 DEF V
<1>4. PICK t \in T : \A y \in T : y <= t
  <2> HIDE DEF T
  <2> QED BY <1>2, <1>3, MaxExists
<1>5. I(t) \in SUBSET Nat /\ I(t) # {} /\ \A i \in I(t) : i <= sent
  BY <1>1
<1>6. PICK i \in I(t) : \A y \in I(t) : y <= i
  <2> HIDE DEF I
  <2> QED BY <1>2, <1>5, MaxExists
<1>7. PICK m \in V : m.at = t /\ m.id = i
  OBVIOUS
<1>8. ASSUME NEW n \in V PROVE n.at < m.at \/ (n.at = m.at /\ n.id <= m.id)
  <2>1. n.at <= t /\ n.at \in Nat /\ t \in Nat
    BY <1>1, <1>4, <1>7
  <2>2. CASE n.at = t
    <3>1. n.id \in I(t)
      BY <2>2
    <3> QED BY <1>6, <1>7, <2>2, <3>1
  <2> QED BY <1>7, <2>1, <2>2
<1>9. m \in LastMessage(u, c)
  BY <1>7, <1>8 DEF LastMessage, V
<1> QED BY <1>9

\* The users a search hits have one conversation each with the one who searches,
\* so that the limit of the query cuts none of them off.
LEMMA SearchKnowsAll ==
  ASSUME ReadersInv, UpdatesInv, NEW u \in User, NEW hits \in SUBSET User,
         \A v \in User : ~ Split({u, v}),
         NEW v \in hits \ {u}, NEW c \in Found({u, v})
  PROVE  c \in Known(u, hits \ {u}, Cardinality(hits))
<1> DEFINE others == hits \ {u}
           rows == {e \in ConvosOf(u) : convos[e] \cap others # {}}
           above == {e \in rows : Newer(e, c)}
<1>1. PlacesInv /\ RoomInv /\ updatedAt \in [Id -> Nat]
  BY DEF ReadersInv, UpdatesInv
<1>2. rows \in SUBSET Id /\ above \subseteq rows
  BY <1>1, ConvosHaveIds DEF ConvosOf
<1>3. c \in rows /\ c \in Id
  BY <1>2 DEF Found, ConvosOf
<1>4. c \notin above
  BY <1>1, <1>3, NewerIsTotal
<1>5. \A e \in rows : \E w \in others : convos[e] = {u, w}
  <2> SUFFICES ASSUME NEW e \in rows PROVE \E w \in others : convos[e] = {u, w}
    OBVIOUS
  <2>1. convos[e] \in Pair /\ u \in convos[e]
    BY <1>1 DEF PlacesInv, ConvosArePairs, ConvosOf
  <2>2. PICK w \in others : w \in convos[e]
    OBVIOUS
  <2> QED BY <2>1, <2>2 DEF Pair
<1>6. PICK f \in [rows -> others] : \A e \in rows : convos[e] = {u, f[e]}
  <2> DEFINE f == [e \in rows |-> CHOOSE w \in others : convos[e] = {u, w}]
  <2>1. \A e \in rows : f[e] \in others /\ convos[e] = {u, f[e]}
    BY <1>5
  <2>2. f \in [rows -> others]
    BY <2>1
  <2> QED BY <2>1, <2>2
<1>7. \A e \in rows, g \in rows : f[e] = f[g] => e = g
  <2> SUFFICES ASSUME NEW e \in rows, NEW g \in rows, f[e] = f[g] PROVE e = g
    OBVIOUS
  <2>1. convos[e] = {u, f[e]} /\ convos[g] = {u, f[e]} /\ f[e] \in User
    BY <1>6
  <2>2. e \in 1 .. Len(convos) /\ g \in 1 .. Len(convos)
    BY DEF ConvosOf
  <2> QED BY <1>1, <2>1, <2>2, OneUnlessSplit
<1>8. f \in Injection(rows, others)
  BY <1>6, <1>7 DEF Injection, IsInjective
<1> HIDE DEF rows, above
<1>9. IsFiniteSet(others) /\ IsFiniteSet(hits)
  BY FS_Subset, ConversationsAssumption
<1>10. IsFiniteSet(rows) /\ Cardinality(rows) <= Cardinality(others)
  BY <1>8, <1>9, FS_Injection
<1>11. Cardinality(others) <= Cardinality(hits)
  BY <1>9, FS_Subset
<1>12. Cardinality(rows \ {c}) = Cardinality(rows) - 1 /\ IsFiniteSet(rows \ {c})
  BY <1>3, <1>10, FS_RemoveElement
<1>13. above \subseteq rows \ {c}
  BY <1>2, <1>4
<1>14. Cardinality(above) <= Cardinality(rows \ {c}) /\ IsFiniteSet(above)
  BY <1>12, <1>13, FS_Subset
<1>15. Cardinality(above) \in Nat /\ Cardinality(rows) \in Nat
       /\ Cardinality(others) \in Nat /\ Cardinality(hits) \in Nat
  BY <1>9, <1>10, <1>14, FS_CardinalityType
<1>16. Cardinality(above) < Cardinality(hits)
  BY <1>10, <1>11, <1>12, <1>14, <1>15
<1> QED BY <1>3, <1>16 DEF Known, FirstOf, rows, above

LEMMA ConvoViews == ReadersInv /\ RecentInv => ViewsAgree
<1> SUFFICES ASSUME ReadersInv, UpdatesInv PROVE ViewsAgree
  BY DEF RecentInv
<1>1. ASSUME NEW u, NEW c
      PROVE  /\ Unread(u, c) \cup LastMessage(u, c) \subseteq Visible(u, c)
             /\ Visible(u, c) # {} => LastMessage(u, c) # {}
  BY LastMessageExists DEF Unread, LastMessage
<1>2. ASSUME NEW u \in User, NEW hits \in SUBSET User, \A v \in User : ~ Split({u, v}),
             NEW v \in hits \ {u}
      PROVE  v \in SearchUserConvo(u, hits).startNew <=> Found({u, v}) = {}
  <2> DEFINE known == Known(u, hits \ {u}, Cardinality(hits))
  <2>1. v \in SearchUserConvo(u, hits).startNew <=> ~ \E c \in known : v \in convos[c]
    BY DEF SearchUserConvo
  <2>2. ASSUME NEW c \in known, v \in convos[c] PROVE c \in Found({u, v})
    BY <2>2 DEF Known, FirstOf, ConvosOf, Found
  <2>3. ASSUME NEW c \in Found({u, v}) PROVE c \in known /\ v \in convos[c]
    BY <1>2, SearchKnowsAll DEF Found
  <2> QED BY <2>1, <2>2, <2>3
<1> QED BY <1>1, <1>2 DEF ViewsAgree

\* The list, the search and the history agree about what there is between two
\* users (Conversation.repository.ts, SearchUserConvo.ts).
THEOREM TheViewsAgree == ConvoSpec => []ViewsAgree
<1> QED BY ConvoInvHolds, ConvoViews, PTL
=============================================================================
