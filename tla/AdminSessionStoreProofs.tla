----------------------- MODULE AdminSessionStoreProofs -----------------------
(***************************************************************************)
(* For every clock size, every pair of limits and every delay of the two   *)
(* tasks that TimingAssumption allows: the ages valid() computes from the  *)
(* wrapping counter are the true ones, the loop task ends an overdue       *)
(* session in time, and no handler is let in on an expired one.            *)
(***************************************************************************)
EXTENDS AdminSessionStore, TLAPS

SinceLoop == Since(clock, loopNow)
SinceHttpd == Since(clock, httpdNow)

\* The two tasks respect their delays, as Tick makes them.
Punctual ==
    /\ SinceLoop <= MaxLoopMs
    /\ InValid => SinceHttpd <= MaxCheckMs

\* Between LoopClear and LoopWipe the session stays inactive: only the loop
\* task could activate it again.
WipeInactive == loopPc = "wipe" => ~active

\* How far past a limit a live session can be at each point of the loop task:
\* a compare that passed brings the bound back by one pass.
AgeBound ==
    Live => IF loopPc \in {"check", "signIn", "lastSeen"}
            THEN age <= AbsoluteTimeout + SinceLoop
            ELSE age <= AbsoluteTimeout + MaxLoopMs + SinceLoop

IdleBound ==
    Live => IF loopPc \in {"check", "signIn"}
            THEN idle <= InactivityTimeout + SinceLoop
            ELSE idle <= InactivityTimeout + MaxLoopMs + SinceLoop

\* What the compares a handler has already passed guarantee.
AcceptedAge ==
    httpdPc \in {"lastSeen", "act"} /\ Live =>
        age <= AbsoluteTimeout + SinceHttpd

AcceptedIdle ==
    httpdPc = "act" /\ Live => idle <= InactivityTimeout + SinceHttpd

IInv ==
    /\ TypeOK
    /\ Punctual
    /\ WipeInactive
    /\ ExactAges
    /\ AgeBound
    /\ IdleBound
    /\ AcceptedAge
    /\ AcceptedIdle

\* Types and ranges are kept by every step, TypeOK alone being inductive.
LEMMA TypeStep == TypeOK /\ [Next]_vars => TypeOK'
<1> SUFFICES ASSUME TypeOK, [Next]_vars PROVE TypeOK'
  OBVIOUS
<1> USE TimingAssumption DEF TypeOK, session, loopVars, httpdVars, history
<1>1. CASE Tick
  BY <1>1 DEF Tick, LoopPcs, HttpdPcs, Requests, Calls
<1>2. CASE LoopTask
  <2>1. CASE LoopCheck \/ LoopCompareCreated \/ LoopCompareLastSeen
    BY <2>1 DEF LoopCheck, LoopCompareCreated, LoopCompareLastSeen, LoopPcs
  <2>2. CASE LoopClear
    <3>1. active' \in BOOLEAN
      BY <2>2, Zenon DEF LoopClear
    <3>2. age' \in Nat /\ idle' \in Nat
      BY <2>2 DEF LoopClear
    <3> QED
      BY <2>2, <3>1, <3>2 DEF LoopClear, LoopPcs
  <2>3. CASE LoopWipe
    <3>1. hasId' \in BOOLEAN
      BY <2>3, Zenon DEF LoopWipe
    <3>2. created' \in 0..W-1 /\ lastSeen' \in 0..W-1
      BY <2>3 DEF LoopWipe
    <3> QED
      BY <2>3, <3>1, <3>2 DEF LoopWipe, LoopPcs
  <2>4. CASE NoSignIn \/ CreateIds
    BY <2>4 DEF NoSignIn, CreateIds, LoopPcs
  <2>5. CASE CreateStamp
    BY <2>5 DEF CreateStamp, LoopPcs
  <2> QED
    BY <1>2, <2>1, <2>2, <2>3, <2>4, <2>5 DEF LoopTask
<1>3. CASE BeginRequest
  BY <1>3 DEF BeginRequest, FirstCall, HttpdPcs, Requests, Calls
<1>4. CASE HttpdTask
  <2>1. CASE HttpdCheck \/ HttpdCompareCreated \/ HttpdCompareLastSeen
    BY <2>1 DEF HttpdCheck, HttpdCompareCreated, HttpdCompareLastSeen,
       Refusal, ForgetNow, InValid, HttpdPcs
  <2>2. CASE HttpdPassed
    <3>1. CallAfter(call) = "done" \/ CallAfter(call) \in Calls
      BY <2>2 DEF HttpdPassed, CallAfter, Calls
    <3>2. call' \in Calls /\ httpdPc' \in HttpdPcs
      BY <2>2, <3>1 DEF HttpdPassed, HttpdPcs
    <3>3. httpdNow' \in 0..W-1
      BY <2>2 DEF HttpdPassed, ForgetNow
    <3> QED
      BY <2>2, <3>2, <3>3 DEF HttpdPassed
  <2>3. CASE HttpdMismatch \/ HttpdRefuse \/ HttpdTouch
    BY <2>3 DEF HttpdMismatch, HttpdRefuse, HttpdTouch, ForgetNow, InValid,
       HttpdPcs
  <2>4. CASE HttpdClear
    <3>1. active' \in BOOLEAN
      BY <2>4, Zenon DEF HttpdClear
    <3>2. age' \in Nat /\ idle' \in Nat
      BY <2>4 DEF HttpdClear
    <3> QED
      BY <2>4, <3>1, <3>2 DEF HttpdClear, HttpdPcs
  <2>5. CASE HttpdWipe
    <3>1. hasId' \in BOOLEAN
      BY <2>5, Zenon DEF HttpdWipe
    <3>2. created' \in 0..W-1 /\ lastSeen' \in 0..W-1
      BY <2>5 DEF HttpdWipe
    <3> QED
      BY <2>5, <3>1, <3>2 DEF HttpdWipe, HttpdPcs
  <2> QED
    BY <1>4, <2>1, <2>2, <2>3, <2>4, <2>5 DEF HttpdTask
<1>5. CASE UNCHANGED vars
  BY <1>5 DEF vars
<1> QED
  BY <1>1, <1>2, <1>3, <1>4, <1>5 DEF Next

\* The initial state satisfies the inductive invariant.
LEMMA InitIInv == Init => IInv
<1> SUFFICES ASSUME Init PROVE IInv
  OBVIOUS
<1>1. active \in BOOLEAN /\ hasId \in BOOLEAN
  BY Zenon DEF Init
<1>2. TypeOK
  BY <1>1, TimingAssumption DEF Init, TypeOK, LoopPcs, HttpdPcs, Requests, Calls
<1>3. Punctual
  BY TimingAssumption DEF Init, Punctual, InValid, SinceLoop, SinceHttpd, Since
<1>4. ~Live /\ WipeInactive
  BY DEF Init, Live, WipeInactive
<1> QED
  BY <1>2, <1>3, <1>4 DEF IInv, ExactAges, AgeBound, IdleBound, AcceptedAge,
     AcceptedIdle

\* Every step keeps the inductive invariant.
LEMMA StepIInv == IInv /\ [Next]_vars => IInv'
<1> SUFFICES ASSUME IInv, [Next]_vars PROVE IInv'
  OBVIOUS
<1>0. TypeOK'
  BY TypeStep DEF IInv
<1> USE <1>0, TimingAssumption
<1> USE DEF IInv, TypeOK, Punctual, WipeInactive, ExactAges, AgeBound,
        IdleBound, AcceptedAge, AcceptedIdle, Live, InValid, SinceLoop,
        SinceHttpd, Since, session, loopVars, httpdVars, history
<1>1. CASE Tick
  BY <1>1 DEF Tick
<1>2. CASE LoopCheck
  BY <1>2 DEF LoopCheck
<1>3. CASE LoopCompareCreated
  BY <1>3 DEF LoopCompareCreated, TooOld
<1>4. CASE LoopCompareLastSeen
  BY <1>4 DEF LoopCompareLastSeen, TooIdle
<1>5. CASE LoopClear \/ LoopWipe
  <2>1. CASE LoopClear
    BY <2>1 DEF LoopClear
  <2>2. CASE LoopWipe
    BY <2>2 DEF LoopWipe
  <2> QED
    BY <1>5, <2>1, <2>2
<1>6. CASE NoSignIn \/ CreateIds
  BY <1>6 DEF NoSignIn, CreateIds
<1>7. CASE CreateStamp
  BY <1>7 DEF CreateStamp
<1>8. CASE BeginRequest
  BY <1>8 DEF BeginRequest
<1>9. CASE HttpdCheck
  BY <1>9 DEF HttpdCheck, Refusal
<1>10. CASE HttpdCompareCreated
  BY <1>10 DEF HttpdCompareCreated, TooOld, Refusal, ForgetNow
<1>11. CASE HttpdCompareLastSeen
  BY <1>11 DEF HttpdCompareLastSeen, TooIdle, Refusal, ForgetNow
<1>12. CASE HttpdPassed
  <2>1. httpdPc = "act" /\ httpdPc' \in {"check", "clear", "idle"}
    BY <1>12 DEF HttpdPassed
  <2>2. UNCHANGED <<clock, session, loopVars, history>>
    BY <1>12 DEF HttpdPassed
  <2> QED
    BY <2>1, <2>2
<1>13. CASE HttpdMismatch \/ HttpdRefuse
  BY <1>13 DEF HttpdMismatch, HttpdRefuse
<1>14. CASE HttpdTouch
  BY <1>14 DEF HttpdTouch
<1>15. CASE HttpdClear \/ HttpdWipe
  <2>1. CASE HttpdClear
    BY <2>1 DEF HttpdClear
  <2>2. CASE HttpdWipe
    BY <2>2 DEF HttpdWipe
  <2> QED
    BY <1>15, <2>1, <2>2
<1>16. CASE UNCHANGED vars
  BY <1>16 DEF vars
<1> QED
  BY <1>1, <1>2, <1>3, <1>4, <1>5, <1>6, <1>7, <1>8, <1>9, <1>10, <1>11,
     <1>12, <1>13, <1>14, <1>15, <1>16 DEF Next, LoopTask, HttpdTask

\* Every reachable state satisfies the inductive invariant.
THEOREM Invariance == Spec => []IInv
BY InitIInv, StepIInv, PTL DEF Spec

\* Type correctness of the session and both tasks, for every value of the constants.
THEOREM TypeCorrect == Spec => []TypeOK
BY Invariance, PTL DEF IInv

\* The unsigned differences of millis() readings are the true ages of a live
\* session, for any counter size TimingAssumption allows.
THEOREM ExactAgesHolds == Spec => []ExactAges
BY Invariance, PTL DEF IInv

\* The loop task ends a live session within one pass after either limit.
THEOREM OverdueBoundedHolds == Spec => []OverdueBounded
<1>1. IInv => OverdueBounded
  BY TimingAssumption DEF IInv, TypeOK, Punctual, AgeBound, IdleBound,
     OverdueBounded, SinceLoop, Since
<1> QED
  BY Invariance, <1>1, PTL

\* A handler is let in only on a session that was within both limits when the
\* handler read the clock.
THEOREM AcceptedOnlyLiveHolds == Spec => []AcceptedOnlyLive
<1>1. IInv => AcceptedOnlyLive
  BY DEF IInv, AcceptedAge, AcceptedIdle, AcceptedOnlyLive, SinceHttpd
<1> QED
  BY Invariance, <1>1, PTL
=============================================================================
