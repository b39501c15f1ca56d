----------------------------- MODULE EntraSignIn -----------------------------
(***************************************************************************)
(* Administrator sign-in with the Microsoft Entra device-code flow.        *)
(*                                                                         *)
(* Two FreeRTOS tasks share DeviceCodeFlow, EntraAuthService and           *)
(* AdminSessionStore without a lock:                                       *)
(*   - the Arduino loop task runs EntraAuthService::loop over and over; it *)
(*     blocks there in HTTPS calls to Microsoft (up to 15 s each);         *)
(*   - the HTTPS server task serves the administrator's requests, one at a *)
(*     time: status, start, cancel, sign-out, reset.                       *)
(* A step is one test, one call or one group of adjacent writes of one     *)
(* task; wiping the tokens, clearing the codes and writing the state are   *)
(* steps of their own in both tasks.  While the loop task stands in        *)
(* "reqWait", "pollWait" or "validate" its HTTPS call is in flight and the *)
(* other task goes on.                                                     *)
(*                                                                         *)
(* Session times are the subject of AdminSessionStore: here an open        *)
(* session may expire at any check of the loop task.                       *)
(***************************************************************************)
EXTENDS Integers

CONSTANT MaxCodes   \* bound: device codes Microsoft issues in a behaviour

ASSUME MaxCodesAssumption == MaxCodes \in Nat \ {0}

Codes == 1..MaxCodes
None == 0           \* no code, no token, no session

VARIABLES
    \* DeviceCodeFlow
    state,          \* state_
    deviceCode,     \* deviceCode_: the code to poll for
    deadline,       \* expiresAtMs_ seen from millis(): "zero", "ahead", "past"
    token,          \* idToken_ and accessToken_: the code they were issued for
    \* EntraAuthService
    handled,        \* authorizationHandled_
    session,        \* sessions_: the code whose user is signed in
    \* the two tasks
    pc,             \* where the loop task stands
    arg,            \* its local: the code it polls for, the token it validates
    goal,           \* its local: the state it is about to write
    hpc,            \* where the HTTPS task stands
    request,        \* the request it serves
    reply,          \* the sign-in state it answered last
    \* Microsoft and the user
    approval,       \* what became of each device code
    redeemed,       \* the codes whose tokens were handed out
    \* history
    granted,        \* the codes a session was created for
    backed          \* a session was open while the last status was answered

flow == <<state, deviceCode, deadline, token>>
auth == <<handled, session>>
loopTask == <<pc, arg, goal>>
httpdTask == <<hpc, request, reply>>
microsoft == <<approval, redeemed>>
history == <<granted, backed>>
vars == <<flow, auth, loopTask, httpdTask, microsoft, history>>

FlowStates == {"Idle", "StartRequested", "Pending", "Authorized", "Denied",
               "Timeout", "Offline", "Cancelled"}
LoopPcs == {"session", "flow", "request", "reqWait", "deadline", "interval",
            "poll", "pollWait", "issued", "stamp", "stored", "clear", "wipe",
            "set", "finish", "take", "validate", "accept", "deny", "create",
            "reclear", "rewrite", "reset"}
HttpdPcs == {"idle", "startCheck", "endSession", "wipe", "clear", "write",
             "unhandle", "report", "reportFlow", "restart"}
Requests == {"status", "start", "cancel", "logout", "reset"}
Replies == {"none", "idle", "pending", "authorized", "denied", "timeout",
            "offline", "cancelled"}
Approvals == {"unissued", "waiting", "admin", "noRole", "declined", "expired"}

TypeOK ==
    /\ state \in FlowStates
    /\ deviceCode \in Codes \cup {None}
    /\ deadline \in {"zero", "ahead", "past"}
    /\ token \in Codes \cup {None}
    /\ handled \in BOOLEAN
    /\ session \in Codes \cup {None}
    /\ pc \in LoopPcs /\ arg \in Codes \cup {None}
    /\ goal \in FlowStates \cup {"none"}
    /\ hpc \in HttpdPcs /\ request \in Requests /\ reply \in Replies
    /\ approval \in [Codes -> Approvals]
    /\ redeemed \in SUBSET Codes /\ granted \in SUBSET Codes
    /\ backed \in BOOLEAN

-----------------------------------------------------------------------------
(* The writes of DeviceCodeFlow, each one step of the task that makes it.  *)

\* wipeTokens()
Wipe == token' = None /\ UNCHANGED <<state, deviceCode, deadline>>

\* clearSensitive()
Clear ==
    /\ deviceCode' = None /\ deadline' = "zero"
    /\ UNCHANGED <<state, token>>

\* state_ = s
Write(s) == state' = s /\ UNCHANGED <<deviceCode, deadline, token>>

Goto(l) == pc' = l /\ arg' = None /\ goal' = "none"

\* The loop task goes on at l with setting the state s.
Toward(l, s) == pc' = l /\ arg' = None /\ goal' = s

\* Mutant: only a final state wipes the tokens.
Enter_KeepsTokens(s) ==
    Toward(IF s \in {"Pending", "Authorized"} THEN "set" ELSE "clear", s)

\* It calls setState: a state other than Pending and Authorized clears the
\* codes, a state other than Authorized wipes the tokens.
Enter(s) ==
    Toward(CASE s = "Authorized" -> "set"
             [] s = "Pending" -> "wipe"
             [] OTHER -> "clear", s)

-----------------------------------------------------------------------------
(* The loop task: EntraAuthService::loop.                                  *)

\* The three writes of setState, in its order.
SetClear ==
    /\ pc = "clear"
    /\ Clear
    /\ Toward("wipe", goal)
    /\ UNCHANGED <<auth, httpdTask, microsoft, history>>

SetWipe ==
    /\ pc = "wipe"
    /\ Wipe
    /\ Toward("set", goal)
    /\ UNCHANGED <<auth, httpdTask, microsoft, history>>

SetState ==
    /\ pc = "set"
    /\ Write(goal)
    /\ Goto("finish")
    /\ UNCHANGED <<auth, httpdTask, microsoft, history>>

\* if (!sessions_.valid()) sessions_.clear();
CheckSession ==
    /\ pc = "session"
    /\ session' \in {session, None}
    /\ Goto("flow")
    /\ UNCHANGED <<flow, handled, httpdTask, microsoft, history>>

\* Mutant: only a pending sign-in is worked on.
FlowLoop_OnlyPending ==
    /\ pc = "flow"
    /\ Goto(IF state = "Pending" THEN "deadline" ELSE "finish")
    /\ UNCHANGED <<flow, auth, httpdTask, microsoft, history>>

\* DeviceCodeFlow::loop tests the state ...
FlowLoop ==
    /\ pc = "flow"
    /\ Goto(CASE state = "StartRequested" -> "request"
              [] state = "Pending" -> "deadline"
              [] OTHER -> "finish")
    /\ UNCHANGED <<flow, auth, httpdTask, microsoft, history>>

\* Mutant: the deadline is not checked.
CheckDeadline_Ignored ==
    /\ pc = "deadline"
    /\ Goto("interval")
    /\ UNCHANGED <<flow, auth, httpdTask, microsoft, history>>

\* ... then the deadline, which the other task may have zeroed meanwhile ...
CheckDeadline ==
    /\ pc = "deadline"
    /\ IF deadline = "ahead" THEN Goto("interval") ELSE Enter("Timeout")
    /\ UNCHANGED <<flow, auth, httpdTask, microsoft, history>>

\* ... then whether a poll is due.
CheckInterval ==
    /\ pc = "interval"
    /\ Goto("finish") \/ Goto("poll")
    /\ UNCHANGED <<flow, auth, httpdTask, microsoft, history>>

\* Wi-Fi is down, no memory for the answer, the call failed, or its answer is
\* no JSON: requestDeviceCode and pollToken both give up the sign-in.
GoOffline ==
    /\ pc \in {"request", "reqWait", "poll", "pollWait"}
    /\ Enter("Offline")
    /\ UNCHANGED <<flow, auth, httpdTask, microsoft, history>>

SendRequest ==
    /\ pc = "request"
    /\ Goto("reqWait")
    /\ UNCHANGED <<flow, auth, httpdTask, microsoft, history>>

\* Microsoft issues a code, which the device copies ...
CodeIssued ==
    /\ pc = "reqWait"
    /\ \E c \in Codes :
        /\ approval[c] = "unissued"
        /\ \A d \in 1..(c-1) : approval[d] # "unissued"
        /\ approval' = [approval EXCEPT ![c] = "waiting"]
        /\ deviceCode' = c
    /\ Goto("issued")
    /\ UNCHANGED <<state, deadline, token, auth, httpdTask, redeemed, history>>

\* ... finds there, unless the other task has cleared it ...
CheckCode ==
    /\ pc = "issued"
    /\ IF deviceCode = None THEN Enter("Denied") ELSE Goto("stamp")
    /\ UNCHANGED <<flow, auth, httpdTask, microsoft, history>>

\* ... and starts to poll for.
StampDeadline ==
    /\ pc = "stamp"
    /\ deadline' = "ahead"
    /\ Enter("Pending")
    /\ UNCHANGED <<state, deviceCode, token, auth, httpdTask, microsoft,
                   history>>

\* An answer without the codes, such as an OAuth error.
CodeRefused ==
    /\ pc = "reqWait"
    /\ Enter("Denied")
    /\ UNCHANGED <<flow, auth, httpdTask, microsoft, history>>

\* pollToken copies the device code, wiped or not, into the form it posts.
SendPoll ==
    /\ pc = "poll"
    /\ pc' = "pollWait" /\ arg' = deviceCode
    /\ UNCHANGED <<goal, flow, auth, httpdTask, microsoft, history>>

\* authorization_pending or slow_down.
PollAgain ==
    /\ pc = "pollWait"
    /\ arg # None /\ approval[arg] = "waiting"
    /\ Goto("finish")
    /\ UNCHANGED <<flow, auth, httpdTask, microsoft, history>>

PollExpired ==
    /\ pc = "pollWait"
    /\ arg # None /\ approval[arg] = "expired"
    /\ Enter("Timeout")
    /\ UNCHANGED <<flow, auth, httpdTask, microsoft, history>>

\* The user declined, the code is empty or used up, or no id_token came.
PollRefused ==
    /\ pc = "pollWait"
    /\ Enter("Denied")
    /\ redeemed' = IF arg # None /\ approval[arg] \in {"admin", "noRole"}
                   THEN redeemed \cup {arg} ELSE redeemed
    /\ UNCHANGED <<flow, auth, httpdTask, approval, history>>

\* The tokens are there and stored, whatever the state became during the call.
\* (Both are one step: the other task that wipes the ID token between them
\* leaves the access token, and the sign-in is denied in StoredTokens.)
PollAnswered ==
    /\ pc = "pollWait"
    /\ arg # None /\ approval[arg] \in {"admin", "noRole"}
    /\ arg \notin redeemed
    /\ redeemed' = redeemed \cup {arg}
    /\ token' = arg
    /\ Goto("stored")
    /\ UNCHANGED <<state, deviceCode, deadline, auth, httpdTask, approval,
                   history>>

\* The code is used up; an ID token that is missing denies the sign-in.
StoredTokens ==
    /\ pc = "stored"
    /\ deviceCode' = None
    /\ Enter(IF token = None THEN "Denied" ELSE "Authorized")
    /\ UNCHANGED <<state, deadline, token, auth, httpdTask, microsoft, history>>

\* Microsoft hands out the tokens but the answer does not arrive.
PollLost ==
    /\ pc = "pollWait"
    /\ arg # None /\ approval[arg] \in {"admin", "noRole"}
    /\ redeemed' = redeemed \cup {arg}
    /\ Enter("Offline")
    /\ UNCHANGED <<flow, auth, httpdTask, approval, history>>

\* if (flow_.state() == Authorized && !authorizationHandled_)
\*   finishAuthorization();
StartFinish ==
    /\ pc = "finish"
    /\ Goto(IF state = "Authorized" /\ ~handled THEN "take" ELSE "reset")
    /\ UNCHANGED <<flow, auth, httpdTask, microsoft, history>>

\* authorizationHandled_ = true; the tokens are handed to the validator.
TakeTokens ==
    /\ pc = "take"
    /\ handled' = TRUE
    /\ pc' = "validate" /\ arg' = token
    /\ UNCHANGED <<goal, flow, session, httpdTask, microsoft, history>>

\* Mutant: the role is not required.
Authorized_AnyUser ==
    /\ pc = "validate"
    /\ arg # None /\ approval[arg] \in {"admin", "noRole"}
    /\ pc' = "accept"
    /\ UNCHANGED <<flow, auth, arg, goal, httpdTask, microsoft, history>>

\* validator_.authorize(idToken, accessToken), over the network when the keys
\* must be fetched.  It fails on any error; it also reads memory that the other
\* task may have wiped and freed, and then either has its copy or fails.
Authorized ==
    /\ pc = "validate"
    /\ arg # None /\ approval[arg] = "admin"
    /\ pc' = "accept"
    /\ UNCHANGED <<flow, auth, arg, goal, httpdTask, microsoft, history>>

Rejected ==
    /\ pc = "validate"
    /\ Goto("deny")
    /\ UNCHANGED <<flow, auth, httpdTask, microsoft, history>>

\* flow_.wipeTokens(); an accepted user gets a session ...
AcceptWipe ==
    /\ pc = "accept"
    /\ Wipe
    /\ pc' = "create"
    /\ UNCHANGED <<arg, goal, auth, httpdTask, microsoft, history>>

\* ... and for any other flow_.reject() follows, whose wipe finds no tokens.
DenyWipe ==
    /\ pc = "deny"
    /\ Wipe
    /\ Toward("reclear", "Denied")
    /\ UNCHANGED <<auth, httpdTask, microsoft, history>>

\* Mutant: a create() that seems to fail is tried again.
CreateSession_Retried ==
    /\ pc = "create"
    /\ session' = arg
    /\ granted' = granted \cup {arg}
    /\ backed' = (backed \/ hpc \in {"report", "reportFlow"})
    /\ Toward("reclear", "Idle") \/ UNCHANGED <<pc, arg, goal>>
    /\ UNCHANGED <<flow, handled, httpdTask, microsoft>>

\* sessions_.create(); flow_.resetToIdle(), whose wipe finds no tokens.
CreateSession ==
    /\ pc = "create"
    /\ session' = arg
    /\ granted' = granted \cup {arg}
    /\ backed' = (backed \/ hpc \in {"report", "reportFlow"})
    /\ Toward("reclear", "Idle")
    /\ UNCHANGED <<flow, handled, httpdTask, microsoft>>

\* The other two writes of reject() and of resetToIdle().
FinishClear ==
    /\ pc = "reclear"
    /\ Clear
    /\ Toward("rewrite", goal)
    /\ UNCHANGED <<auth, httpdTask, microsoft, history>>

FinishState ==
    /\ pc = "rewrite"
    /\ Write(goal)
    /\ Goto("reset")
    /\ UNCHANGED <<auth, httpdTask, microsoft, history>>

\* Mutant: the flag is reset by requests only.
ResetHandled_Never ==
    /\ pc = "reset"
    /\ Goto("session")
    /\ UNCHANGED <<flow, auth, httpdTask, microsoft, history>>

\* if (flow_.state() != Authorized) authorizationHandled_ = false;
ResetHandled ==
    /\ pc = "reset"
    /\ handled' = (handled /\ state = "Authorized")
    /\ Goto("session")
    /\ UNCHANGED <<flow, session, httpdTask, microsoft, history>>

-----------------------------------------------------------------------------
(* The HTTPS task.  Requests without the right cookie or CSRF header are   *)
(* refused before they change anything and are left out.                   *)

Serve(l) == hpc' = l /\ UNCHANGED <<request, reply>>

\* backed becomes true when a session is open at any moment of the report.
Report ==
    /\ Serve("report")
    /\ backed' = (session # None)

BeginStatus ==
    /\ hpc = "idle"
    /\ hpc' = "report" /\ request' = "status" /\ reply' = "none"
    /\ backed' = (session # None)
    /\ UNCHANGED <<flow, auth, loopTask, microsoft, granted>>

\* startHttpsSession: a browser that has the session gets its status; any other
\* starts a sign-in: authorizationHandled_ = false; flow_.requestStart().
BeginStart ==
    /\ hpc = "idle"
    /\ hpc' = "startCheck" /\ request' = "start" /\ reply' = "none"
    /\ handled' = FALSE
    /\ UNCHANGED <<flow, session, loopTask, microsoft, history>>

StartCheck ==
    /\ hpc = "startCheck"
    /\ IF state = "Pending"
       THEN Report
       ELSE Serve("wipe") /\ UNCHANGED backed
    /\ UNCHANGED <<flow, auth, loopTask, microsoft, granted>>

BeginCancel ==
    /\ hpc = "idle"
    /\ hpc' = "wipe" /\ request' = "cancel" /\ reply' = "none"
    /\ UNCHANGED <<flow, auth, loopTask, microsoft, history>>

\* logoutHttps, and resetHttps once the saved data is erased: sessions_.clear(),
\* flow_.resetToIdle(), authorizationHandled_ = false.
BeginSignOut ==
    /\ hpc = "idle" /\ session # None
    /\ hpc' = "endSession" /\ request' \in {"logout", "reset"} /\ reply' = "none"
    /\ UNCHANGED <<flow, auth, loopTask, microsoft, history>>

ClearSession ==
    /\ hpc = "endSession"
    /\ session' = None
    /\ Serve("wipe")
    /\ UNCHANGED <<flow, handled, loopTask, microsoft, history>>

\* The three writes of requestStart (after its test), cancel and resetToIdle.
WipeTokens ==
    /\ hpc = "wipe"
    /\ Wipe
    /\ Serve("clear")
    /\ UNCHANGED <<auth, loopTask, microsoft, history>>

ClearSensitive ==
    /\ hpc = "clear"
    /\ Clear
    /\ Serve("write")
    /\ UNCHANGED <<auth, loopTask, microsoft, history>>

WriteState ==
    /\ hpc = "write"
    /\ \/ request = "start" /\ Write("StartRequested") /\ Report
       \/ /\ request = "cancel" /\ Write("Cancelled")
          /\ Serve("unhandle") /\ UNCHANGED backed
       \/ /\ request \in {"logout", "reset"} /\ Write("Idle")
          /\ Serve("unhandle") /\ UNCHANGED backed
    /\ UNCHANGED <<auth, loopTask, microsoft, granted>>

\* authorizationHandled_ = false, as the last step of cancelSignIn, signOut and
\* resetSignIn.
Unhandle ==
    /\ hpc = "unhandle"
    /\ handled' = FALSE
    /\ \/ request = "cancel" /\ Report
       \/ /\ request = "logout" /\ hpc' = "idle" /\ reply' = "idle"
          /\ UNCHANGED <<request, backed>>
       \/ request = "reset" /\ Serve("restart") /\ UNCHANGED backed
    /\ UNCHANGED <<flow, session, loopTask, microsoft, granted>>

\* sendHttpsSession: an open session is reported first ...
ReportSession ==
    /\ hpc = "report"
    /\ IF session # None
       THEN hpc' = "idle" /\ reply' = "authorized" /\ UNCHANGED request
       ELSE Serve("reportFlow")
    /\ UNCHANGED <<flow, auth, loopTask, microsoft, history>>

FlowReply ==
    CASE state \in {"StartRequested", "Pending"} -> "pending"
      [] state = "Authorized" -> "authorized"
      [] state = "Denied" -> "denied"
      [] state = "Timeout" -> "timeout"
      [] state = "Offline" -> "offline"
      [] state = "Cancelled" -> "cancelled"
      [] state = "Idle" -> "idle"

\* Mutant: the answer is the name of the state.
ReportFlow_StateName ==
    /\ hpc = "reportFlow"
    /\ hpc' = "idle" /\ reply' = state /\ UNCHANGED request
    /\ UNCHANGED <<flow, auth, loopTask, microsoft, history>>

\* ... and otherwise the state of the flow.
ReportFlow ==
    /\ hpc = "reportFlow"
    /\ hpc' = "idle" /\ reply' = FlowReply /\ UNCHANGED request
    /\ UNCHANGED <<flow, auth, loopTask, microsoft, history>>

-----------------------------------------------------------------------------
(* Microsoft, the user and time.                                           *)

\* The user of a code signs in (with or without the role) or declines, or the
\* code expires at Microsoft.
Decide(c) ==
    /\ approval[c] = "waiting"
    /\ \E a \in {"admin", "noRole", "declined", "expired"} :
        approval' = [approval EXCEPT ![c] = a]
    /\ UNCHANGED <<flow, auth, loopTask, httpdTask, redeemed, history>>

\* millis() reaches expiresAtMs_.
DeadlinePasses ==
    /\ deadline = "ahead"
    /\ deadline' = "past"
    /\ UNCHANGED <<state, deviceCode, token, auth, loopTask, httpdTask,
                   microsoft, history>>

\* Power loss, or ESP.restart() by the reset handler, an update or the Wi-Fi
\* form: everything but Microsoft's side is in RAM.
Restart ==
    /\ state' = "Idle" /\ deviceCode' = None /\ deadline' = "zero"
    /\ token' = None /\ handled' = FALSE /\ session' = None
    /\ Goto("session")
    /\ hpc' = "idle" /\ request' = "status" /\ reply' = "none"
    /\ backed' = FALSE
    /\ UNCHANGED <<microsoft, granted>>

-----------------------------------------------------------------------------
Init ==
    /\ state = "Idle" /\ deviceCode = None /\ deadline = "zero"
    /\ token = None /\ handled = FALSE /\ session = None
    /\ pc = "session" /\ arg = None /\ goal = "none"
    /\ hpc = "idle" /\ request = "status" /\ reply = "none"
    /\ approval = [c \in Codes |-> "unissued"] /\ redeemed = {}
    /\ granted = {} /\ backed = FALSE

LoopStep ==
    \/ CheckSession \/ FlowLoop \/ CheckDeadline \/ CheckInterval
    \/ GoOffline \/ SendRequest \/ CodeIssued \/ CodeRefused
    \/ CheckCode \/ StampDeadline
    \/ SendPoll \/ PollAgain \/ PollExpired \/ PollRefused \/ PollAnswered
    \/ StoredTokens \/ PollLost \/ SetClear \/ SetWipe \/ SetState
    \/ StartFinish \/ TakeTokens \/ Authorized \/ Rejected \/ AcceptWipe
    \/ DenyWipe \/ CreateSession \/ FinishClear \/ FinishState \/ ResetHandled

HttpdBegin == BeginStatus \/ BeginStart \/ BeginCancel \/ BeginSignOut

HttpdStep ==
    \/ StartCheck \/ ClearSession \/ WipeTokens \/ ClearSensitive \/ WriteState
    \/ Unhandle
    \/ ReportSession \/ ReportFlow

Next ==
    \/ LoopStep \/ HttpdBegin \/ HttpdStep
    \/ \E c \in Codes : Decide(c)
    \/ DeadlinePasses \/ Restart

Spec == Init /\ [][Next]_vars

\* Every HTTPS call returns or times out and the loop task never stops; a
\* request that was begun is served, a restart that was begun happens; time
\* passes.  Nothing is assumed of Microsoft, of the user or of the requests.
FairSpec ==
    /\ Spec
    /\ WF_vars(LoopStep)
    /\ WF_vars(HttpdStep)
    /\ WF_vars(hpc = "restart" /\ Restart)
    /\ WF_vars(DeadlinePasses)

-----------------------------------------------------------------------------
(* Properties.                                                             *)

\* Whatever the two tasks do to each other, a session belongs to a user who
\* approved the device code and holds the role.
SessionNeedsRole == session # None => approval[session] = "admin"

\* Tokens of an earlier sign-in do not last into the next one: whenever the
\* device polls for a code there are none in memory.  A cancel, or the start
\* itself, may leave tokens behind: it wipes first and writes the state last,
\* and the loop task may store them in between.
NoTokensWhilePolling == pc \in {"poll", "pollWait"} => token = None

\* A result is never stranded: whenever the flow is Authorized the loop task is
\* on its way to finish or to reject it.
ResultNotStranded ==
    state = "Authorized" => pc \in {"finish", "take", "validate", "accept",
                                    "deny", "create", "reclear", "rewrite"}

\* No device code opens two sessions, a session is opened only after an
\* approval, and one that ended stays closed.
Access == INSTANCE AdminAccess WITH
    NoCode <- None, admitted <- {c \in Codes : approval[c] = "admin"}
AdminAccessSpec == Access!Spec

\* A start that was accepted does not wait for ever: it becomes a device code
\* or an answer.
StartIsTaken == state = "StartRequested" ~> state # "StartRequested"

\* A sign-in nobody completes ends: by its deadline at the latest.
PendingEnds == state = "Pending" ~> state # "Pending"

\* The page says "Sign-in was cancelled." once the cancel is answered: until
\* the next request no session comes.  The code breaks this: the answer to a
\* poll that was in flight, or a validation that was running, is applied
\* whatever the state has become.
CancelledMeansNoSession ==
    reply = "cancelled" /\ ~backed => session = None
=============================================================================
