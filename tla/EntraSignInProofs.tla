-------------------------- MODULE EntraSignInProofs --------------------------
(***************************************************************************)
(* For any number of device codes and any interleaving of the two tasks: a *)
(* session belongs to a user with the role, no code is polled for with     *)
(* tokens in memory, results are not stranded, and the sign-in implements  *)
(* AdminAccess.                                                            *)
(***************************************************************************)
EXTENDS EntraSignIn, TLAPS

Decided == {"admin", "noRole"}

\* A token is for a code whose user signed in, and it has opened no session.
TokenFresh ==
    token # None =>
        approval[token] \in Decided /\ token \in redeemed \ granted

\* The token the loop task validates: the one in memory, unless the other task
\* has wiped it; once it is validated its user has the role, and once the
\* session is created there is none.
ArgFresh ==
    /\ pc \in {"validate", "accept"} => token \in {arg, None}
    /\ pc = "validate" /\ arg # None =>
        approval[arg] \in Decided /\ arg \in redeemed \ granted
    /\ pc \in {"accept", "create"} =>
        arg # None /\ approval[arg] = "admin" /\ arg \in redeemed \ granted
    /\ pc = "create" => token = None

\* What the loop task is about to write.
GoalKnown ==
    /\ pc \in {"clear", "wipe", "set"} => goal \in FlowStates
    /\ pc \in {"reclear", "rewrite"} => goal \in {"Idle", "Denied"}

\* The state becomes Pending only when no tokens are in memory, and tokens are
\* stored in that state only to leave it.
NoOldTokens ==
    /\ state = "Pending" /\ token # None =>
        pc = "stored" \/ (pc = "set" /\ goal = "Authorized")
    /\ pc = "set" /\ goal = "Pending" => token = None
    /\ pc \in {"deadline", "interval", "poll", "pollWait"} => token = None

GrantedRedeemed == granted \subseteq redeemed

\* authorizationHandled_ is set only while a result is being handled.
HandledHere ==
    handled => pc \in {"validate", "accept", "deny", "create", "reclear",
                       "rewrite", "reset"}

IInv ==
    /\ TypeOK
    /\ SessionNeedsRole
    /\ ResultNotStranded
    /\ TokenFresh
    /\ ArgFresh
    /\ GoalKnown
    /\ NoOldTokens
    /\ GrantedRedeemed
    /\ HandledHere

-----------------------------------------------------------------------------
\* The initial state satisfies the inductive invariant.
LEMMA InitIInv == Init => IInv
BY MaxCodesAssumption DEF Init, IInv, TypeOK, SessionNeedsRole,
   ResultNotStranded, TokenFresh, ArgFresh, GoalKnown, NoOldTokens,
   GrantedRedeemed, HandledHere, FlowStates, LoopPcs, HttpdPcs, Requests,
   Replies, Approvals, None, Codes

\* The types are kept by the steps of the loop task.
LEMMA TypeLoop == TypeOK /\ ArgFresh /\ GoalKnown /\ LoopStep => TypeOK'
<1> SUFFICES ASSUME TypeOK, ArgFresh, GoalKnown, LoopStep PROVE TypeOK'
  OBVIOUS
<1> USE DEF TypeOK, None, Goto, Toward, Enter, Wipe, Clear, Write, LoopPcs,
        flow, auth, loopTask, httpdTask, microsoft, history
<1>1. CASE CheckSession \/ FlowLoop \/ CheckDeadline \/ CheckInterval
  BY <1>1 DEF CheckSession, FlowLoop, CheckDeadline, CheckInterval, FlowStates
<1>2. CASE GoOffline \/ SendRequest \/ CodeRefused \/ SendPoll
  BY <1>2 DEF GoOffline, SendRequest, CodeRefused, SendPoll, FlowStates
<1>3. CASE CodeIssued
  BY <1>3 DEF CodeIssued, Approvals
<1>4. CASE CheckCode \/ StampDeadline \/ StoredTokens
  BY <1>4 DEF CheckCode, StampDeadline, StoredTokens, FlowStates
<1>5. CASE PollAgain \/ PollExpired \/ PollRefused
  BY <1>5 DEF PollAgain, PollExpired, PollRefused, FlowStates
<1>6. CASE PollAnswered \/ PollLost
  BY <1>6 DEF PollAnswered, PollLost, FlowStates
<1>7. CASE SetClear \/ SetWipe \/ SetState
  BY <1>7 DEF SetClear, SetWipe, SetState, GoalKnown
<1>8. CASE StartFinish \/ TakeTokens \/ Authorized \/ Rejected
  BY <1>8 DEF StartFinish, TakeTokens, Authorized, Rejected
<1>9. CASE AcceptWipe \/ DenyWipe \/ FinishClear \/ FinishState
  BY <1>9 DEF AcceptWipe, DenyWipe, FinishClear, FinishState, GoalKnown,
     FlowStates
<1>10. CASE CreateSession
  <2>1. backed' \in BOOLEAN
    BY <1>10, Zenon DEF CreateSession
  <2>2. handled' \in BOOLEAN
    BY <1>10 DEF CreateSession
  <2>3. arg \in Codes
    BY <1>10 DEF CreateSession, ArgFresh
  <2> QED
    BY <1>10, <2>1, <2>2, <2>3 DEF CreateSession, FlowStates
<1>11. CASE ResetHandled
  BY <1>11 DEF ResetHandled
<1> QED
  BY <1>1, <1>2, <1>3, <1>4, <1>5, <1>6, <1>7, <1>8, <1>9, <1>10, <1>11
     DEF LoopStep

\* The types are kept by the steps of the HTTPS task.
LEMMA TypeHttpd == TypeOK /\ (HttpdBegin \/ HttpdStep) => TypeOK'
<1> SUFFICES ASSUME TypeOK, HttpdBegin \/ HttpdStep PROVE TypeOK'
  OBVIOUS
<1> USE DEF TypeOK, None, Wipe, Clear, Write, Serve, Report, flow, auth,
        loopTask, httpdTask, microsoft, history
<1>1. CASE BeginStatus \/ BeginCancel \/ BeginSignOut
  BY <1>1 DEF BeginStatus, BeginCancel, BeginSignOut, HttpdPcs, Requests,
     Replies
<1>2. CASE BeginStart
  BY <1>2 DEF BeginStart, HttpdPcs, Requests, Replies
<1>3. CASE StartCheck \/ ClearSession \/ WipeTokens \/ ClearSensitive
  BY <1>3 DEF StartCheck, ClearSession, WipeTokens, ClearSensitive, HttpdPcs
<1>4. CASE WriteState
  <2>1. backed' \in BOOLEAN
    BY <1>4, Zenon DEF WriteState
  <2>2. hpc' \in HttpdPcs /\ state' \in FlowStates
    BY <1>4 DEF WriteState, HttpdPcs, FlowStates, Requests
  <2> QED
    BY <1>4, <2>1, <2>2 DEF WriteState
<1>5. CASE Unhandle
  <2>1. handled' \in BOOLEAN
    BY <1>5, Zenon DEF Unhandle
  <2>2. backed' \in BOOLEAN
    BY <1>5 DEF Unhandle, Requests
  <2>3. hpc' \in HttpdPcs /\ request' \in Requests /\ reply' \in Replies
    BY <1>5 DEF Unhandle, HttpdPcs, Replies, Requests
  <2> QED
    BY <1>5, <2>1, <2>2, <2>3 DEF Unhandle
<1>6. CASE ReportSession
  BY <1>6 DEF ReportSession, HttpdPcs, Replies
<1>7. CASE ReportFlow
  BY <1>7 DEF ReportFlow, FlowReply, FlowStates, HttpdPcs, Replies
<1> QED
  BY <1>1, <1>2, <1>3, <1>4, <1>5, <1>6, <1>7 DEF HttpdBegin, HttpdStep

\* The types are kept by every step.
LEMMA TypeStep == TypeOK /\ ArgFresh /\ GoalKnown /\ [Next]_vars => TypeOK'
<1> SUFFICES ASSUME TypeOK, ArgFresh, GoalKnown, [Next]_vars PROVE TypeOK'
  OBVIOUS
<1> USE DEF TypeOK, None, Goto, flow, auth, loopTask, httpdTask, microsoft,
        history
<1>1. CASE \E c \in Codes : Decide(c)
  BY <1>1 DEF Decide, Approvals
<1>2. CASE DeadlinePasses
  BY <1>2 DEF DeadlinePasses
<1>3. CASE Restart
  BY <1>3 DEF Restart, FlowStates, LoopPcs, HttpdPcs, Requests, Replies
<1>4. CASE UNCHANGED vars
  BY <1>4 DEF vars
<1> QED
  BY <1>1, <1>2, <1>3, <1>4, TypeLoop, TypeHttpd DEF Next

-----------------------------------------------------------------------------
\* A step of the loop task keeps the inductive invariant.
LEMMA LoopIInv == IInv /\ LoopStep => IInv'
<1> SUFFICES ASSUME IInv, LoopStep PROVE IInv'
  OBVIOUS
<1>0. TypeOK'
  BY TypeLoop DEF IInv
<1> USE <1>0, MaxCodesAssumption
<1> USE DEF IInv, TypeOK, SessionNeedsRole, ResultNotStranded, TokenFresh,
        ArgFresh, GoalKnown, NoOldTokens, GrantedRedeemed, HandledHere, Decided,
        None, Codes, Goto, Toward, Enter, Wipe, Clear, Write, flow, auth,
        loopTask, httpdTask, microsoft, history
<1>1. CASE CheckSession
  BY <1>1 DEF CheckSession
<1>2. CASE FlowLoop
  BY <1>2 DEF FlowLoop
<1>3. CASE CheckDeadline \/ CheckInterval
  BY <1>3 DEF CheckDeadline, CheckInterval, FlowStates
<1>4. CASE GoOffline \/ SendRequest \/ CodeRefused \/ SendPoll
  BY <1>4 DEF GoOffline, SendRequest, CodeRefused, SendPoll, FlowStates
<1>5. CASE CodeIssued
  BY <1>5 DEF CodeIssued
<1>6. CASE CheckCode \/ StampDeadline
  BY <1>6 DEF CheckCode, StampDeadline, FlowStates
<1>7. CASE PollAgain \/ PollExpired
  BY <1>7 DEF PollAgain, PollExpired, FlowStates
<1>8. CASE PollRefused \/ PollLost
  BY <1>8 DEF PollRefused, PollLost, FlowStates
<1>9. CASE PollAnswered
  <2>1. TokenFresh' /\ NoOldTokens' /\ ResultNotStranded'
    BY <1>9 DEF PollAnswered
  <2>2. SessionNeedsRole' /\ ArgFresh' /\ GoalKnown'
    BY <1>9 DEF PollAnswered
  <2>3. GrantedRedeemed' /\ HandledHere'
    BY <1>9 DEF PollAnswered
  <2> QED
    BY <2>1, <2>2, <2>3
<1>10. CASE StoredTokens
  BY <1>10 DEF StoredTokens, FlowStates
<1>11. CASE SetClear \/ SetWipe
  BY <1>11 DEF SetClear, SetWipe
<1>12. CASE SetState
  BY <1>12 DEF SetState
<1>13. CASE StartFinish \/ TakeTokens
  BY <1>13 DEF StartFinish, TakeTokens
<1>14. CASE Authorized \/ Rejected
  BY <1>14 DEF Authorized, Rejected
<1>15. CASE AcceptWipe \/ DenyWipe
  BY <1>15 DEF AcceptWipe, DenyWipe
<1>16. CASE CreateSession
  BY <1>16 DEF CreateSession
<1>17. CASE FinishClear \/ FinishState
  BY <1>17 DEF FinishClear, FinishState
<1>18. CASE ResetHandled
  BY <1>18 DEF ResetHandled
<1> QED
  BY <1>1, <1>2, <1>3, <1>4, <1>5, <1>6, <1>7, <1>8, <1>9, <1>10, <1>11,
     <1>12, <1>13, <1>14, <1>15, <1>16, <1>17, <1>18 DEF LoopStep

\* A step of the HTTPS task keeps the inductive invariant.
LEMMA HttpdIInv == IInv /\ (HttpdBegin \/ HttpdStep) => IInv'
<1> SUFFICES ASSUME IInv, HttpdBegin \/ HttpdStep PROVE IInv'
  OBVIOUS
<1>0. TypeOK'
  BY TypeHttpd DEF IInv
<1> USE <1>0
<1> USE DEF IInv, SessionNeedsRole, ResultNotStranded, TokenFresh, ArgFresh,
        GoalKnown, NoOldTokens, GrantedRedeemed, HandledHere, None, Serve,
        Report, Wipe, Clear, Write, flow, auth, loopTask, microsoft, history
<1>1. CASE HttpdBegin
  BY <1>1 DEF HttpdBegin, BeginStatus, BeginStart, BeginCancel, BeginSignOut
<1>2. CASE StartCheck \/ ReportSession \/ ReportFlow
  BY <1>2 DEF StartCheck, ReportSession, ReportFlow
<1>3. CASE WipeTokens \/ ClearSensitive \/ WriteState
  BY <1>3 DEF WipeTokens, ClearSensitive, WriteState
<1>4. CASE ClearSession
  BY <1>4 DEF ClearSession
<1>5. CASE Unhandle
  BY <1>5 DEF Unhandle
<1> QED
  BY <1>1, <1>2, <1>3, <1>4, <1>5 DEF HttpdStep

\* Every step keeps the inductive invariant.
LEMMA StepIInv == IInv /\ [Next]_vars => IInv'
<1> SUFFICES ASSUME IInv, [Next]_vars PROVE IInv'
  OBVIOUS
<1>0. TypeOK'
  BY TypeStep DEF IInv
<1> USE <1>0
<1> USE DEF IInv, TypeOK, SessionNeedsRole, ResultNotStranded, TokenFresh,
        ArgFresh, GoalKnown, NoOldTokens, GrantedRedeemed, HandledHere, Decided,
        None, Goto, flow, auth, loopTask, httpdTask, microsoft, history
<1>1. CASE \E c \in Codes : Decide(c)
  BY <1>1 DEF Decide
<1>2. CASE DeadlinePasses
  BY <1>2 DEF DeadlinePasses
<1>3. CASE Restart
  BY <1>3 DEF Restart
<1>4. CASE UNCHANGED vars
  BY <1>4 DEF vars
<1> QED
  BY <1>1, <1>2, <1>3, <1>4, LoopIInv, HttpdIInv DEF Next

\* Every reachable state satisfies the inductive invariant.
THEOREM Invariance == Spec => []IInv
BY InitIInv, StepIInv, PTL DEF Spec

\* Type correctness of the sign-in flow and both tasks, for every value of the constants.
THEOREM TypeCorrect == Spec => []TypeOK
BY Invariance, PTL DEF IInv

\* A session belongs to a user who approved the device code with the role.
THEOREM SessionNeedsRoleHolds == Spec => []SessionNeedsRole
BY Invariance, PTL DEF IInv

\* Whenever the device polls for a code no tokens of an earlier sign-in are in
\* memory, whichever writes of a cancel or a start the loop task's came between.
THEOREM NoTokensWhilePollingHolds == Spec => []NoTokensWhilePolling
<1>1. IInv => NoTokensWhilePolling
  BY DEF IInv, NoOldTokens, NoTokensWhilePolling
<1> QED
  BY <1>1, Invariance, PTL

\* No result of Microsoft is left unhandled in the Authorized state.
THEOREM ResultNotStrandedHolds == Spec => []ResultNotStranded
BY Invariance, PTL DEF IInv
-----------------------------------------------------------------------------
(* Refinement.  Only five steps are visible to AdminAccess: a user's       *)
(* decision, the creation of the session and its three ends.               *)

AdmittedCodes == {c \in Codes : approval[c] = "admin"}

\* A step that leaves these alone is a stutter of AdminAccess.
LEMMA Stutter ==
    UNCHANGED <<approval, granted, session>> => UNCHANGED Access!vars
BY DEF Access!vars

\* Steps of the loop task: CreateSession grants, CheckSession may end the
\* session, a new device code is not admitted yet, the rest is invisible.
LEMMA LoopAccess == IInv /\ LoopStep => [Access!Next]_(Access!vars)
<1> SUFFICES ASSUME IInv, LoopStep PROVE [Access!Next]_(Access!vars)
  OBVIOUS
<1> USE DEF Goto, Toward, Enter, Wipe, Clear, Write, flow, auth, loopTask,
        httpdTask, microsoft, history
<1>1. CASE CreateSession
  <2>1. arg \in Codes /\ arg \in AdmittedCodes \ granted
    BY <1>1 DEF CreateSession, IInv, ArgFresh, TypeOK, None, AdmittedCodes
  <2>2. Access!Grant(arg)
    BY <1>1, <2>1 DEF CreateSession, Access!Grant, AdmittedCodes
  <2> QED
    BY <2>1, <2>2 DEF Access!Next
<1>2. CASE CheckSession
  <2>1. CASE session' = session
    BY <1>2, <2>1 DEF CheckSession, Access!vars
  <2>2. CASE session' # session
    BY <1>2, <2>2 DEF CheckSession, Access!Next, Access!End
  <2> QED
    BY <2>1, <2>2
<1>3. CASE CodeIssued
  <2>1. {c \in Codes : approval'[c] = "admin"} = AdmittedCodes
    BY <1>3 DEF CodeIssued, AdmittedCodes, IInv, TypeOK
  <2> QED
    BY <1>3, <2>1 DEF CodeIssued, Access!vars, AdmittedCodes
<1>4. CASE FlowLoop \/ CheckDeadline \/ CheckInterval \/ GoOffline \/ SendRequest
  BY <1>4, Stutter DEF FlowLoop, CheckDeadline, CheckInterval, GoOffline,
     SendRequest
<1>5. CASE CodeRefused \/ SendPoll \/ PollAgain \/ PollExpired \/ PollRefused
  BY <1>5, Stutter DEF CodeRefused, SendPoll, PollAgain, PollExpired,
     PollRefused
<1>6. CASE PollAnswered \/ PollLost \/ CheckCode \/ StampDeadline \/ StoredTokens
  BY <1>6, Stutter DEF PollAnswered, PollLost, CheckCode, StampDeadline,
     StoredTokens
<1>7. CASE SetClear \/ SetWipe \/ SetState \/ FinishClear \/ FinishState
  BY <1>7, Stutter DEF SetClear, SetWipe, SetState, FinishClear, FinishState
<1>8. CASE StartFinish \/ TakeTokens \/ Authorized \/ Rejected
  BY <1>8, Stutter DEF StartFinish, TakeTokens, Authorized, Rejected
<1>9. CASE AcceptWipe \/ DenyWipe \/ ResetHandled
  BY <1>9, Stutter DEF AcceptWipe, DenyWipe, ResetHandled
<1> QED
  BY <1>1, <1>2, <1>3, <1>4, <1>5, <1>6, <1>7, <1>8, <1>9 DEF LoopStep

\* Steps of the HTTPS task: a sign-out ends the session.
LEMMA HttpdAccess ==
    HttpdBegin \/ HttpdStep => [Access!Next]_(Access!vars)
<1> SUFFICES ASSUME HttpdBegin \/ HttpdStep PROVE [Access!Next]_(Access!vars)
  OBVIOUS
<1> USE DEF Serve, Report, Wipe, Clear, Write, flow, auth, loopTask, microsoft,
        history
<1>1. CASE ClearSession
  <2>1. CASE session = None
    BY <1>1, <2>1 DEF ClearSession, Access!vars
  <2>2. CASE session # None
    BY <1>1, <2>2 DEF ClearSession, Access!Next, Access!End
  <2> QED
    BY <2>1, <2>2
<1>2. CASE HttpdBegin
  BY <1>2, Stutter DEF HttpdBegin, BeginStatus, BeginStart, BeginCancel,
     BeginSignOut
<1>3. CASE StartCheck \/ WipeTokens \/ ClearSensitive \/ WriteState
  BY <1>3, Stutter DEF StartCheck, WipeTokens, ClearSensitive, WriteState
<1>4. CASE Unhandle \/ ReportSession \/ ReportFlow
  BY <1>4, Stutter DEF Unhandle, ReportSession, ReportFlow
<1> QED
  BY <1>1, <1>2, <1>3, <1>4 DEF HttpdStep

\* Every step is a step of AdminAccess or a stutter.
LEMMA StepAccess == IInv /\ [Next]_vars => [Access!Next]_(Access!vars)
<1> SUFFICES ASSUME IInv, [Next]_vars PROVE [Access!Next]_(Access!vars)
  OBVIOUS
<1> USE DEF flow, auth, loopTask, httpdTask, microsoft, history
<1>1. ASSUME NEW c \in Codes, Decide(c) PROVE [Access!Next]_(Access!vars)
  <2>1. PICK a \in {"admin", "noRole", "declined", "expired"} :
          approval' = [approval EXCEPT ![c] = a]
    BY <1>1 DEF Decide
  <2>2. UNCHANGED <<granted, session>> /\ approval[c] = "waiting"
    BY <1>1 DEF Decide
  <2>3. CASE a = "admin"
    <3>1. {d \in Codes : approval'[d] = "admin"} = AdmittedCodes \cup {c}
      BY <2>1, <2>3 DEF AdmittedCodes, IInv, TypeOK
    <3>2. Access!Admit(c)
      BY <2>2, <3>1 DEF Access!Admit, AdmittedCodes
    <3> QED
      BY <3>2 DEF Access!Next
  <2>4. CASE a # "admin"
    <3>1. {d \in Codes : approval'[d] = "admin"} = AdmittedCodes
      BY <2>1, <2>2, <2>4 DEF AdmittedCodes, IInv, TypeOK
    <3> QED
      BY <2>2, <3>1 DEF Access!vars, AdmittedCodes
  <2> QED
    BY <2>3, <2>4
<1>2. CASE DeadlinePasses
  BY <1>2, Stutter DEF DeadlinePasses
<1>3. CASE Restart
  <2>1. CASE session = None
    BY <1>3, <2>1 DEF Restart, Access!vars
  <2>2. CASE session # None
    BY <1>3, <2>2 DEF Restart, Access!Next, Access!End
  <2> QED
    BY <2>1, <2>2
<1>4. CASE UNCHANGED vars
  BY <1>4, Stutter DEF vars
<1> QED
  BY <1>1, <1>2, <1>3, <1>4, LoopAccess, HttpdAccess DEF Next

\* The two tasks together implement AdminAccess: one approval with the role,
\* one session, which ends for good.
THEOREM ImplementsAdminAccess == Spec => AdminAccessSpec
<1>1. Init => Access!Init
  BY DEF Init, Access!Init
<1> QED
  BY <1>1, Invariance, StepAccess, PTL DEF Spec, AdminAccessSpec, Access!Spec
=============================================================================
