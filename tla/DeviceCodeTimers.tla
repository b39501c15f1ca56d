--------------------------- MODULE DeviceCodeTimers ---------------------------
(***************************************************************************)
(* The clock of the device-code flow.  millis() counts in a word that wraps*)
(* (after 49.7 days); a code has a deadline, taken as a sum, and an        *)
(* interval between polls, tested as a difference.  The loop task tests    *)
(* them one after the other, and waits in HTTPS calls, while the HTTPS task*)
(* may cancel or start over.  What the codes and the tokens are for is in  *)
(* EntraSignIn; here, what the clock does to them.                         *)
(***************************************************************************)
EXTENDS Integers

CONSTANTS
    Word,           \* the modulus of uint32_t
    DefaultInterval,\* clearSensitive: 5 s
    SlowBy,         \* slow_down: 5 s more
    Asks,           \* intervals Microsoft may ask for
    Lifetimes,      \* expires_in
    MaxNow,         \* bound: time since the boot
    MaxInterval     \* bound: an interval after slow_downs

ASSUME TimersAssumption ==
    /\ Word \in Nat \ {0} /\ SlowBy \in Nat /\ MaxNow \in Nat
    /\ DefaultInterval \in 0..(Word - 1)
    /\ Asks \subseteq 0..(Word - 1) /\ Lifetimes \subseteq 1..(Word - 1)
    /\ MaxInterval \in 0..(Word - 1)

VARIABLES
    now,         \* the time since the boot, which no variable of the code has
    \* DeviceCodeFlow
    state,       \* state_; "Ended" stands for Authorized, Denied and Offline
    deviceCode,  \* deviceCode_ is not wiped
    intervalMs, lastPollMs, expiresAtMs,
    \* the loop task
    pc,          \* where it stands
    arg,         \* the poll on its way carries the code
    \* the code Microsoft issued, in its own time
    issued, lifetime, asked,
    polled       \* when it was issued or last polled for

timers == <<intervalMs, lastPollMs, expiresAtMs>>
code == <<issued, lifetime, asked, polled>>
vars == <<now, state, deviceCode, timers, pc, arg, code>>

States == {"Idle", "StartRequested", "Pending", "Timeout", "Cancelled", "Ended"}

TypeOK ==
    /\ now \in Nat
    /\ state \in States /\ deviceCode \in BOOLEAN
    /\ intervalMs \in 0..(Word - 1)
    /\ lastPollMs \in 0..(Word - 1) /\ expiresAtMs \in 0..(Word - 1)
    /\ pc \in {"loop", "request", "deadline", "interval", "poll", "pollWait"}
    /\ arg \in BOOLEAN
    /\ issued \in Nat /\ lifetime \in Nat /\ asked \in Nat /\ polled \in Nat

Init ==
    /\ now = 0
    /\ state = "Idle" /\ deviceCode = FALSE
    /\ intervalMs = DefaultInterval /\ lastPollMs = 0 /\ expiresAtMs = 0
    /\ pc = "loop" /\ arg = FALSE
    /\ issued = 0 /\ lifetime = 0 /\ asked = 0 /\ polled = 0

-----------------------------------------------------------------------------
Millis == now % Word

\* millis() - t, in uint32_t.
Since(t) == (Millis - t) % Word

Tick ==
    /\ now < MaxNow
    /\ now' = now + 1
    /\ UNCHANGED <<state, deviceCode, timers, pc, arg, code>>

\* clearSensitive and the state that follows it.
ClearTo(s) ==
    /\ state' = s
    /\ deviceCode' = FALSE
    /\ intervalMs' = DefaultInterval /\ lastPollMs' = 0 /\ expiresAtMs' = 0

\* cancel, requestStart and resetToIdle, in the HTTPS task at any moment; the
\* test for Pending in requestStart may be out of date when it writes.
Interfere ==
    /\ \E s \in {"Cancelled", "StartRequested", "Idle"} : ClearTo(s)
    /\ UNCHANGED <<now, pc, arg, code>>

-----------------------------------------------------------------------------
(* DeviceCodeFlow::loop, in the loop task.                                 *)

Loop ==
    /\ pc = "loop"
    /\ \/ state = "StartRequested" /\ pc' = "request"
       \/ state = "Pending" /\ pc' = "deadline"
    /\ UNCHANGED <<now, state, deviceCode, timers, arg, code>>

\* requestDeviceCode with an answer, whatever the state became meanwhile.
CodeIssued ==
    /\ pc = "request" /\ pc' = "loop"
    /\ state' = "Pending" /\ deviceCode' = TRUE
    /\ \E i \in Asks, l \in Lifetimes :
        /\ intervalMs' = i /\ lastPollMs' = Millis
        /\ expiresAtMs' = (Millis + l) % Word
        /\ issued' = now /\ lifetime' = l /\ asked' = i /\ polled' = now
    /\ UNCHANGED <<now, arg>>

\* Offline or refused.
RequestFails ==
    /\ pc = "request" /\ pc' = "loop"
    /\ ClearTo("Ended")
    /\ UNCHANGED <<now, arg, code>>

\* Mutant: the deadline itself is not part of it.
CheckDeadline_Late ==
    /\ pc = "deadline"
    /\ IF Millis > expiresAtMs
       THEN pc' = "loop" /\ ClearTo("Timeout")
       ELSE pc' = "interval" /\ UNCHANGED <<state, deviceCode, timers>>
    /\ UNCHANGED <<now, arg, code>>

\* millis() >= expiresAtMs_
CheckDeadline ==
    /\ pc = "deadline"
    /\ IF Millis >= expiresAtMs
       THEN pc' = "loop" /\ ClearTo("Timeout")
       ELSE pc' = "interval" /\ UNCHANGED <<state, deviceCode, timers>>
    /\ UNCHANGED <<now, arg, code>>

\* Mutant: compared with a sum, like the deadline.
CheckInterval_BySum ==
    /\ pc = "interval"
    /\ pc' = IF Millis < (lastPollMs + intervalMs) % Word THEN "loop" ELSE "poll"
    /\ UNCHANGED <<now, state, deviceCode, timers, arg, code>>

\* millis() - lastPollMs_ < intervalMs_
CheckInterval ==
    /\ pc = "interval"
    /\ pc' = IF Since(lastPollMs) < intervalMs THEN "loop" ELSE "poll"
    /\ UNCHANGED <<now, state, deviceCode, timers, arg, code>>

\* pollToken notes the time and copies the code, wiped or not, into its form.
SendPoll ==
    /\ pc = "poll" /\ pc' = "pollWait"
    /\ lastPollMs' = Millis /\ arg' = deviceCode
    /\ polled' = now
    /\ UNCHANGED <<now, state, deviceCode, intervalMs, expiresAtMs, issued, lifetime,
                   asked>>

\* authorization_pending
PollAgain ==
    /\ pc = "pollWait" /\ pc' = "loop" /\ arg /\ arg' = FALSE
    /\ UNCHANGED <<now, state, deviceCode, timers, code>>

\* slow_down
SlowDown ==
    /\ pc = "pollWait" /\ pc' = "loop" /\ arg /\ arg' = FALSE
    /\ asked + SlowBy <= MaxInterval
    /\ asked' = asked + SlowBy /\ intervalMs' = (intervalMs + SlowBy) % Word
    /\ UNCHANGED <<now, state, deviceCode, lastPollMs, expiresAtMs, issued, lifetime,
                   polled>>

\* expired_token, access_denied, any other error, no code, offline ...
PollFails ==
    /\ pc \in {"poll", "pollWait"} /\ pc' = "loop" /\ arg' = FALSE
    /\ \E s \in {"Timeout", "Ended"} : ClearTo(s)
    /\ UNCHANGED <<now, code>>

\* ... or the tokens, which leave the timers as they are.
PollAnswered ==
    /\ pc = "pollWait" /\ pc' = "loop" /\ arg /\ arg' = FALSE
    /\ state' = "Ended" /\ deviceCode' = FALSE
    /\ UNCHANGED <<now, timers, code>>

LoopTask ==
    \/ Loop \/ CodeIssued \/ RequestFails \/ CheckDeadline \/ CheckInterval
    \/ SendPoll \/ PollAgain \/ SlowDown \/ PollFails \/ PollAnswered

Next == Tick \/ Interfere \/ LoopTask

Spec == Init /\ [][Next]_vars

-----------------------------------------------------------------------------
(* Properties.                                                             *)

\* Microsoft asks for a minimum time between two polls for a code, and for more
\* with every slow_down: the device keeps to it across the wrap of millis(),
\* whatever the HTTPS task resets between the tests (a poll that slips through
\* then carries no code) and however long a call took.
PollsSpaced ==
    [][pc = "poll" /\ pc' = "pollWait" /\ arg' => now - polled >= asked]_vars

\* The issue, the deadline and the present lie in one turn of millis().
OneTurn ==
    /\ (issued + lifetime) \div Word = issued \div Word
    /\ now \div Word = issued \div Word

\* Within one turn of millis() the deadline of a code that was not cancelled is
\* met exactly: it is not polled for later, nor given up before.
DeadlineExact ==
    [][pc = "deadline" /\ pc' # pc /\ deviceCode /\ OneTurn =>
           (state' = "Timeout" <=> now - issued >= lifetime)]_vars

\* The device itself says "The device code expired" only of a code that did.  The
\* code breaks this when the sum wraps: the deadline is then in the past.
TimeoutMeansExpired ==
    [][pc = "deadline" /\ deviceCode /\ state' = "Timeout" =>
           now - issued >= lifetime]_vars
=============================================================================
