-------------------------- MODULE AdminSessionStore --------------------------
(***************************************************************************)
(* The one administrator session of the device (src/auth/AdminSessionStore)*)
(* and the two tasks that use it without a lock:                           *)
(*   - the Arduino loop task, which on every pass checks the session,      *)
(*     clears it when the check fails and creates it when a sign-in ends;  *)
(*   - the HTTPS server task, whose handlers chain several calls of        *)
(*     valid() and then refresh the session (touch) or clear it (signOut). *)
(* millis() is a 32-bit counter that wraps, so every age is an unsigned    *)
(* difference of two readings.  A step is one read or one group of         *)
(* adjacent writes of one task; the clock may move between any two steps.  *)
(***************************************************************************)
EXTENDS Integers

CONSTANTS
    W,                  \* number of values of millis(): 2^32 on the device
    AbsoluteTimeout,    \* EntraConfig::sessionAbsoluteTimeoutMs
    InactivityTimeout,  \* EntraConfig::sessionInactivityTimeoutMs
    MaxLoopMs,          \* longest time between two checks of the loop task
    MaxCheckMs          \* longest time a handler stays inside one valid()

\* All that is asked of the timing: the session limits and the delays of the
\* two tasks together stay below one turn of the 32-bit counter (49.7 days).
ASSUME TimingAssumption ==
    /\ W \in Nat /\ AbsoluteTimeout \in Nat /\ InactivityTimeout \in Nat
    /\ MaxLoopMs \in Nat /\ MaxCheckMs \in Nat
    /\ AbsoluteTimeout + MaxLoopMs + MaxLoopMs < W
    /\ InactivityTimeout + MaxLoopMs + MaxLoopMs < W
    /\ AbsoluteTimeout + MaxCheckMs < W
    /\ InactivityTimeout + MaxCheckMs < W

VARIABLES
    clock,      \* millis()
    active,     \* active_
    created,    \* createdMs_
    lastSeen,   \* lastSeenMs_
    hasId,      \* sessionId_ and csrf_ are not empty
    loopPc,     \* where the loop task stands
    loopNow,    \* the local variable now of its valid()
    httpdPc,    \* where the HTTPS task stands
    httpdNow,   \* the local variable now of its valid()
    request,    \* the request it serves
    call,       \* the call of that request that runs valid()
    age,        \* history: true time since create(), 0 when inactive
    idle        \* history: true time since the last refresh, 0 when inactive

session == <<active, created, lastSeen, hasId>>
loopVars == <<loopPc, loopNow>>
httpdVars == <<httpdPc, httpdNow, request, call>>
history == <<age, idle>>
vars == <<clock, session, loopVars, httpdVars, history>>

LoopPcs == {"check", "created", "lastSeen", "clear", "wipe", "signIn", "stamp"}
HttpdPcs == {"idle", "check", "created", "lastSeen", "act", "refused",
             "clear", "wipe"}
Requests == {"session", "read", "write", "tls", "logout"}
Calls == {"cookie", "has", "csrf", "touch"}

TypeOK ==
    /\ clock \in 0..W-1 /\ created \in 0..W-1 /\ lastSeen \in 0..W-1
    /\ loopNow \in 0..W-1 /\ httpdNow \in 0..W-1
    /\ active \in BOOLEAN /\ hasId \in BOOLEAN
    /\ loopPc \in LoopPcs /\ httpdPc \in HttpdPcs
    /\ request \in Requests /\ call \in Calls
    /\ age \in Nat /\ idle \in Nat

-----------------------------------------------------------------------------
\* The 32-bit unsigned difference now - then of two clock readings.
Since(now, then) == IF now >= then THEN now - then ELSE now - then + W

TooOld(now) == Since(now, created) > AbsoluteTimeout
TooIdle(now) == Since(now, lastSeen) > InactivityTimeout

\* The HTTPS task has read its now and not yet used the verdict of valid().
InValid == httpdPc \in {"created", "lastSeen", "act"}

Init ==
    /\ clock = 0
    /\ active = FALSE /\ created = 0 /\ lastSeen = 0 /\ hasId = FALSE
    /\ loopPc = "check" /\ loopNow = 0
    /\ httpdPc = "idle" /\ httpdNow = 0
    /\ request = "session" /\ call = "has"
    /\ age = 0 /\ idle = 0

-----------------------------------------------------------------------------
(* Time.  The two guards are the only scheduling assumption.               *)
Tick ==
    /\ Since(clock, loopNow) < MaxLoopMs
    /\ InValid => Since(clock, httpdNow) < MaxCheckMs
    /\ clock' = IF clock = W - 1 THEN 0 ELSE clock + 1
    /\ age' = IF active THEN age + 1 ELSE age
    /\ idle' = IF active THEN idle + 1 ELSE idle
    /\ UNCHANGED <<session, loopPc, loopNow, httpdPc, httpdNow, request, call>>

-----------------------------------------------------------------------------
(* The loop task: if (!sessions_.valid()) sessions_.clear(); then the rest *)
(* of EntraAuthService::loop, which may end a sign-in and create a session.*)
\* Mutant: the loop task renews the session it should check.
LoopCheck_Renews ==
    /\ loopPc = "check"
    /\ loopNow' = clock
    /\ loopPc' = IF active THEN "signIn" ELSE "clear"
    /\ IF active
       THEN created' = clock /\ lastSeen' = clock /\ age' = 0 /\ idle' = 0
       ELSE UNCHANGED <<created, lastSeen, history>>
    /\ UNCHANGED <<clock, active, hasId, httpdVars>>

LoopCheck ==
    /\ loopPc = "check"
    /\ loopNow' = clock
    /\ loopPc' = IF active THEN "created" ELSE "clear"
    /\ UNCHANGED <<clock, session, httpdVars, history>>

\* Mutant: the absolute limit is not checked.
LoopCompareCreated_NoLimit ==
    /\ loopPc = "created"
    /\ loopPc' = "lastSeen"
    /\ UNCHANGED <<clock, session, loopNow, httpdVars, history>>

LoopCompareCreated ==
    /\ loopPc = "created"
    /\ loopPc' = IF TooOld(loopNow) THEN "clear" ELSE "lastSeen"
    /\ UNCHANGED <<clock, session, loopNow, httpdVars, history>>

LoopCompareLastSeen ==
    /\ loopPc = "lastSeen"
    /\ loopPc' = IF TooIdle(loopNow) THEN "clear" ELSE "signIn"
    /\ UNCHANGED <<clock, session, loopNow, httpdVars, history>>

LoopClear ==
    /\ loopPc = "clear"
    /\ loopPc' = "wipe"
    /\ active' = FALSE
    /\ age' = 0 /\ idle' = 0
    /\ UNCHANGED <<clock, created, lastSeen, hasId, loopNow, httpdVars>>

LoopWipe ==
    /\ loopPc = "wipe"
    /\ loopPc' = "signIn"
    /\ created' = 0 /\ lastSeen' = 0 /\ hasId' = FALSE
    /\ UNCHANGED <<clock, active, loopNow, httpdVars, history>>

NoSignIn ==
    /\ loopPc = "signIn"
    /\ loopPc' = "check"
    /\ UNCHANGED <<clock, session, loopNow, httpdVars, history>>

CreateIds ==
    /\ loopPc = "signIn"
    /\ loopPc' = "stamp"
    /\ hasId' = TRUE
    /\ UNCHANGED <<clock, active, created, lastSeen, loopNow, httpdVars, history>>

\* Mutant: create() leaves the last refresh as it was.
CreateStamp_KeepsLastSeen ==
    /\ loopPc = "stamp"
    /\ loopPc' = "check"
    /\ created' = clock
    /\ active' = hasId
    /\ age' = 0 /\ idle' = 0
    /\ UNCHANGED <<clock, lastSeen, hasId, loopNow, httpdVars>>

CreateStamp ==
    /\ loopPc = "stamp"
    /\ loopPc' = "check"
    /\ created' = clock /\ lastSeen' = clock
    /\ active' = hasId
    /\ age' = 0 /\ idle' = 0
    /\ UNCHANGED <<clock, hasId, loopNow, httpdVars>>

-----------------------------------------------------------------------------
(* The HTTPS task.  A request is a chain of calls, each of which runs      *)
(* valid() first:                                                          *)
(*   session  hasAdminSession, touch               (GET /admin/session)    *)
(*   read     cookie, hasAdminSession, touch       (page, networks, status)*)
(*   write    cookie, hasAdminSession, CSRF, touch (Wi-Fi, OTA)            *)
(*   tls      cookie, hasAdminSession, CSRF        (no refresh)            *)
(*   logout   cookie, hasAdminSession, CSRF, then clear (logout, reset)    *)
FirstCall(r) == IF r = "session" THEN "has" ELSE "cookie"

BeginRequest ==
    /\ httpdPc = "idle"
    /\ httpdPc' = "check"
    /\ \E r \in Requests : request' = r /\ call' = FirstCall(r)
    /\ UNCHANGED <<clock, session, loopVars, httpdNow, history>>

\* valid() said no, or a compare failed.  Only the two calls that require a
\* session answer 401 or 403; GET /admin/session then reports the sign-in state
\* and touch() does nothing.
Refusal == IF call = "touch" \/ request = "session" THEN "idle" ELSE "refused"

\* now is a local of valid(): nothing remembers it after the verdict is used.
ForgetNow == httpdNow' = IF InValid' THEN httpdNow ELSE 0

HttpdCheck ==
    /\ httpdPc = "check"
    /\ httpdNow' = IF active THEN clock ELSE 0
    /\ httpdPc' = IF active THEN "created" ELSE Refusal
    /\ UNCHANGED <<clock, session, loopVars, request, call, history>>

HttpdCompareCreated ==
    /\ httpdPc = "created"
    /\ httpdPc' = IF TooOld(httpdNow) THEN Refusal ELSE "lastSeen"
    /\ ForgetNow
    /\ UNCHANGED <<clock, session, loopVars, request, call, history>>

\* Mutant: a handler does not check the inactivity limit.
HttpdCompareLastSeen_NoLimit ==
    /\ httpdPc = "lastSeen"
    /\ httpdPc' = "act"
    /\ ForgetNow
    /\ UNCHANGED <<clock, session, loopVars, request, call, history>>

HttpdCompareLastSeen ==
    /\ httpdPc = "lastSeen"
    /\ httpdPc' = IF TooIdle(httpdNow) THEN Refusal ELSE "act"
    /\ ForgetNow
    /\ UNCHANGED <<clock, session, loopVars, request, call, history>>

\* The call that follows c in a chain, "done" when the handler goes on to its
\* own work and the check was the last thing it asked of the session.
CallAfter(c) ==
    CASE c = "cookie" -> "has"
      [] c = "has" -> IF request \in {"session", "read"} THEN "touch" ELSE "csrf"
      [] c = "csrf" -> IF request = "write" THEN "touch" ELSE "done"

\* valid() was true and the cookie or the CSRF header, if this call compares
\* one, equals the stored id, which is impossible once the id is wiped.
HttpdPassed ==
    /\ httpdPc = "act" /\ call # "touch"
    /\ call = "has" \/ hasId
    /\ IF CallAfter(call) = "done"
       THEN /\ httpdPc' = IF request = "logout" THEN "clear" ELSE "idle"
            /\ call' = call
       ELSE /\ httpdPc' = "check"
            /\ call' = CallAfter(call)
    /\ ForgetNow
    /\ UNCHANGED <<clock, session, loopVars, request, history>>

\* The cookie or the header is missing, of another session, or the id wiped.
HttpdMismatch ==
    /\ httpdPc = "act" /\ call \in {"cookie", "csrf"}
    /\ httpdPc' = "refused"
    /\ ForgetNow
    /\ UNCHANGED <<clock, session, loopVars, request, call, history>>

\* 401 or 403 is sent; the handler returns without touching the session.
HttpdRefuse ==
    /\ httpdPc = "refused"
    /\ httpdPc' = "idle"
    /\ UNCHANGED <<clock, session, loopVars, httpdNow, request, call, history>>

HttpdTouch ==
    /\ httpdPc = "act" /\ call = "touch"
    /\ httpdPc' = "idle"
    /\ lastSeen' = clock
    /\ idle' = 0
    /\ ForgetNow
    /\ UNCHANGED <<clock, active, created, hasId, loopVars, request, call, age>>

HttpdClear ==
    /\ httpdPc = "clear"
    /\ httpdPc' = "wipe"
    /\ active' = FALSE
    /\ age' = 0 /\ idle' = 0
    /\ UNCHANGED <<clock, created, lastSeen, hasId, loopVars, httpdNow,
                   request, call>>

HttpdWipe ==
    /\ httpdPc = "wipe"
    /\ httpdPc' = "idle"
    /\ created' = 0 /\ lastSeen' = 0 /\ hasId' = FALSE
    /\ UNCHANGED <<clock, active, loopVars, httpdNow, request, call, history>>

-----------------------------------------------------------------------------
LoopTask ==
    \/ LoopCheck \/ LoopCompareCreated \/ LoopCompareLastSeen
    \/ LoopClear \/ LoopWipe
    \/ NoSignIn \/ CreateIds \/ CreateStamp

HttpdTask ==
    \/ HttpdCheck \/ HttpdCompareCreated \/ HttpdCompareLastSeen
    \/ HttpdPassed \/ HttpdMismatch
    \/ HttpdRefuse \/ HttpdTouch \/ HttpdClear \/ HttpdWipe

Next == Tick \/ LoopTask \/ BeginRequest \/ HttpdTask

Spec == Init /\ [][Next]_vars

\* The loop task and time never stop, a request once begun is served; no
\* request has to arrive and no sign-in has to succeed.
FairSpec ==
    /\ Spec
    /\ WF_vars(Tick)
    /\ WF_vars(LoopTask)
    /\ WF_vars(HttpdTask)

-----------------------------------------------------------------------------
(* Properties.                                                             *)

\* A session a browser can present: active, with ids that are not being
\* wiped and times that are not being written.
Live == active /\ hasId /\ httpdPc # "wipe" /\ loopPc # "stamp"

\* The unsigned differences valid() computes from millis() are the true ages of
\* a live session, also after the counter wrapped: no session is so old that
\* its age aliases to a small one.
ExactAges ==
    Live => /\ Since(clock, created) = age
            /\ Since(clock, lastSeen) = idle

\* The loop task ends a live session within one pass after either limit.
OverdueBounded ==
    Live => /\ age <= AbsoluteTimeout + MaxLoopMs + MaxLoopMs
            /\ idle <= InactivityTimeout + MaxLoopMs + MaxLoopMs

\* When valid() says yes to a handler, the live session was within both limits
\* when the handler read the clock: a request never gets in on a session that
\* had expired by then, whatever the loop task did during the check.
AcceptedOnlyLive ==
    httpdPc = "act" /\ Live =>
        /\ age <= AbsoluteTimeout + Since(clock, httpdNow)
        /\ idle <= InactivityTimeout + Since(clock, httpdNow)

\* clear() of a sign-out that overlaps create() can leave a session that is
\* active without ids; it does not stay.
ZombieEnds == active /\ ~hasId ~> ~active \/ hasId
=============================================================================
