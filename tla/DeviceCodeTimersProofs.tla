------------------------ MODULE DeviceCodeTimersProofs ------------------------
(* That polls are spaced and deadlines exact, for every width of millis(),   *)
(* interval and lifetime.                                                    *)
EXTENDS DeviceCodeTimers, TLAPS

-----------------------------------------------------------------------------
(* Arithmetic of a wrapping word.                                          *)

\* A time is so many turns and a rest.
LEMMA Turns ==
    ASSUME NEW t \in Nat, NEW w \in Nat \ {0}
    PROVE  /\ t \div w \in Nat /\ t % w \in 0..(w - 1)
           /\ t = w * (t \div w) + (t % w)
OBVIOUS

LEMMA InWord == ASSUME NEW i \in Int, NEW w \in Nat \ {0} PROVE i % w \in 0..(w - 1)
OBVIOUS

LEMMA Unwrapped ==
    ASSUME NEW i \in Int, NEW w \in Nat \ {0}, 0 <= i, i < w
    PROVE  i % w = i
OBVIOUS

LEMMA WrappedOnce ==
    ASSUME NEW i \in Int, NEW w \in Nat \ {0}, i < 0, 0 <= i + w
    PROVE  i % w = i + w
OBVIOUS

\* The difference of two readings is never more than the time between them.
LEMMA DifferenceBound ==
    ASSUME NEW w \in Nat \ {0}, NEW t \in Nat, NEW u \in Nat, u <= t
    PROVE  ((t % w) - (u % w)) % w <= t - u
<1> DEFINE a == t % w  b == u % w  p == t \div w  q == u \div w
<1>1. /\ p \in Nat /\ a \in 0..(w - 1) /\ t = w * p + a
      /\ q \in Nat /\ b \in 0..(w - 1) /\ u = w * q + b
  BY Turns
<1>2. a - b \in Int /\ (a - b) % w \in 0..(w - 1)
  <2>1. a - b \in Int
    BY <1>1
  <2> QED
    BY <2>1, InWord
<1> HIDE DEF a, b, p, q
<1>3. CASE p <= q
  <2>1. p = q
    <3>1. p < q => w * p + w <= w * q
      <4>1. p < q => w * (p + 1) <= w * q
        BY <1>1
      <4>2. w * (p + 1) = w * p + w
        BY <1>1
      <4> QED
        BY <4>1, <4>2
    <3> QED
      BY <1>1, <1>3, <3>1
  <2>2. a - b = t - u
    BY <1>1, <2>1
  <2>3. 0 <= a - b /\ a - b < w
    BY <1>1, <2>2
  <2>4. (a - b) % w = a - b
    BY <1>2, <2>3, Unwrapped
  <2> QED
    BY <2>2, <2>4 DEF a, b
<1>4. CASE p = q + 1
  <2>1. t - u = w + a - b
    <3>1. w * (q + 1) = w * q + w
      BY <1>1
    <3> QED
      BY <1>1, <1>4, <3>1
  <2>2. CASE a < b
    <3>1. (a - b) % w = a - b + w
      BY <1>1, <1>2, <2>2, WrappedOnce
    <3> QED
      BY <1>1, <2>1, <3>1 DEF a, b
  <2>3. CASE b <= a
    <3>1. (a - b) % w = a - b
      BY <1>1, <1>2, <2>3, Unwrapped
    <3> QED
      BY <1>1, <2>1, <3>1 DEF a, b
  <2> QED
    BY <1>1, <2>2, <2>3
<1>5. CASE p > q + 1
  <2>1. w * (q + 2) <= w * p
    BY <1>1, <1>5
  <2>2. w * (q + 2) = w * q + w + w
    BY <1>1
  <2>3. t - u >= w
    BY <1>1, <2>1, <2>2
  <2> QED
    BY <1>1, <1>2, <2>3 DEF a, b
<1> QED
  BY <1>1, <1>3, <1>4, <1>5

\* A sum may start from a reading as well as from the time itself.
LEMMA SumOfReading ==
    ASSUME NEW w \in Nat \ {0}, NEW t \in Nat, NEW l \in 0..(w - 1)
    PROVE  ((t % w) + l) % w = (t + l) % w
<1> DEFINE a == t % w  p == t \div w  u == t + l  b == u % w  q == u \div w
<1>1. /\ p \in Nat /\ a \in 0..(w - 1) /\ t = w * p + a
      /\ q \in Nat /\ b \in 0..(w - 1) /\ u = w * q + b
  <2>1. u \in Nat
    OBVIOUS
  <2> QED
    BY <2>1, Turns
<1>2. u = t + l
  OBVIOUS
<1> HIDE DEF a, b, p, q, u
<1>3. w * (p + 1) = w * p + w /\ w * (p + 2) = w * p + w + w
  BY <1>1
<1>4. q < p => w * (q + 1) <= w * p
  BY <1>1
<1>5. q > p + 1 => w * (p + 2) <= w * q
  BY <1>1
<1>6. w * (q + 1) = w * q + w
  BY <1>1
<1>7. q = p \/ q = p + 1
  BY <1>1, <1>2, <1>3, <1>4, <1>5, <1>6
<1>8. CASE q = p
  <2>1. a + l = b
    BY <1>1, <1>2, <1>8
  <2>2. (a + l) % w = b
    BY <1>1, <2>1, Unwrapped
  <2> QED
    BY <2>2 DEF a, b, u
<1>9. CASE q = p + 1
  <2>1. a + l = b + w
    BY <1>1, <1>2, <1>3, <1>9
  <2>2. (b + w) % w = b
    BY <1>1
  <2> QED
    BY <2>1, <2>2 DEF a, b, u
<1> QED
  BY <1>7, <1>8, <1>9

-----------------------------------------------------------------------------
\* What the timers mean while the code is in use.
Meaning ==
    /\ polled <= now /\ issued <= now
    /\ deviceCode =>
           /\ state = "Pending"
           /\ intervalMs = asked
           /\ lastPollMs = polled % Word
           /\ expiresAtMs = (issued + lifetime) % Word
    /\ pc = "poll" /\ deviceCode => now - polled >= asked

IInv == TypeOK /\ Meaning

LEMMA InitIInv == Init => IInv
<1> SUFFICES ASSUME Init PROVE IInv
  OBVIOUS
<1>1. 0 \in 0..(Word - 1) /\ 0 \in Nat
  BY TimersAssumption
<1>2. TypeOK
  BY <1>1, TimersAssumption DEF Init, TypeOK, States
<1>3. Meaning
  BY <1>1 DEF Init, Meaning
<1> QED
  BY <1>2, <1>3 DEF IInv

LEMMA ClearType ==
    ASSUME TypeOK, NEW s \in States, ClearTo(s)
    PROVE  /\ state' \in States /\ deviceCode' = FALSE
           /\ intervalMs' \in 0..(Word - 1) /\ lastPollMs' \in 0..(Word - 1)
           /\ expiresAtMs' \in 0..(Word - 1)
BY TimersAssumption DEF ClearTo

LEMMA MillisType == TypeOK => Millis \in 0..(Word - 1)
BY TimersAssumption, InWord DEF TypeOK, Millis

LEMMA Step == IInv /\ [Next]_vars => IInv'
<1> SUFFICES ASSUME IInv, [Next]_vars PROVE IInv'
  OBVIOUS
<1> USE TimersAssumption DEF IInv
<1>1. CASE Tick
  BY <1>1 DEF Tick, TypeOK, Meaning, timers, code
<1>2. CASE Interfere
  <2>1. PICK s \in States : ClearTo(s)
    BY <1>2 DEF Interfere, States
  <2> QED
    BY <1>2, <2>1, ClearType DEF Interfere, TypeOK, Meaning, code
<1>3. CASE Loop
  BY <1>3 DEF Loop, TypeOK, Meaning, timers, code
<1>4. CASE CodeIssued
  <2>1. PICK i \in Asks, l \in Lifetimes :
            /\ intervalMs' = i /\ expiresAtMs' = (Millis + l) % Word
            /\ issued' = now /\ lifetime' = l /\ asked' = i
    BY <1>4 DEF CodeIssued
  <2>2. /\ lastPollMs' = Millis /\ polled' = now /\ now' = now /\ arg' = arg
        /\ pc' = "loop" /\ state' = "Pending" /\ deviceCode' = TRUE
    BY <1>4 DEF CodeIssued
  <2>3. i \in 0..(Word - 1) /\ l \in 0..(Word - 1) /\ now \in Nat
    BY DEF TypeOK
  <2>4. (Millis + l) % Word = (now + l) % Word
    BY <2>3, SumOfReading DEF Millis
  <2>5. (now + l) % Word \in 0..(Word - 1)
    BY <2>3, InWord, SMTT(20)
  <2>6. TypeOK'
    BY <2>1, <2>2, <2>3, <2>4, <2>5, MillisType DEF TypeOK, States
  <2> QED
    BY <2>1, <2>2, <2>3, <2>4, <2>6 DEF Meaning, Millis
<1>5. CASE RequestFails
  BY <1>5, ClearType DEF RequestFails, TypeOK, Meaning, code, States
<1>6. CASE CheckDeadline
  <2>1. CASE Millis >= expiresAtMs
    BY <1>6, <2>1, ClearType DEF CheckDeadline, TypeOK, Meaning, code, States
  <2>2. CASE ~(Millis >= expiresAtMs)
    BY <1>6, <2>2 DEF CheckDeadline, TypeOK, Meaning, timers, code
  <2> QED
    BY <2>1, <2>2
<1>7. CASE CheckInterval
  <2>1. TypeOK'
    BY <1>7 DEF CheckInterval, TypeOK, timers, code
  <2>2. ASSUME pc' = "poll", deviceCode PROVE now - polled >= asked
    <3>1. ~(Since(lastPollMs) < asked)
      BY <1>7, <2>2 DEF CheckInterval, Meaning
    <3>2. Since(lastPollMs) = ((now % Word) - (polled % Word)) % Word
      BY <2>2 DEF Since, Millis, Meaning
    <3>3. Since(lastPollMs) <= now - polled
      BY <3>2, DifferenceBound DEF TypeOK, Meaning
    <3>4. Since(lastPollMs) \in Int /\ asked \in Int /\ now - polled \in Int
      BY <3>2, InWord DEF TypeOK
    <3> QED
      BY <3>1, <3>3, <3>4
  <2> QED
    BY <1>7, <2>1, <2>2 DEF CheckInterval, Meaning, timers, code
<1>8. CASE SendPoll
  BY <1>8, MillisType DEF SendPoll, TypeOK, Meaning, Millis
<1>9. CASE PollAgain
  BY <1>9 DEF PollAgain, TypeOK, Meaning, timers, code
<1>10. CASE SlowDown
  <2>1. (intervalMs + SlowBy) % Word \in 0..(Word - 1)
    BY InWord DEF TypeOK
  <2>2. deviceCode => intervalMs' = asked'
    BY <1>10, Unwrapped DEF SlowDown, TypeOK, Meaning
  <2>3. asked + SlowBy \in Nat
    BY DEF TypeOK
  <2>4. TypeOK'
    BY <1>10, <2>1, <2>3 DEF SlowDown, TypeOK
  <2> QED
    BY <1>10, <2>2, <2>4 DEF SlowDown, Meaning
<1>11. CASE PollFails
  <2>1. PICK s \in States : ClearTo(s)
    BY <1>11 DEF PollFails, States
  <2> QED
    BY <1>11, <2>1, ClearType DEF PollFails, TypeOK, Meaning, code
<1>12. CASE PollAnswered
  BY <1>12 DEF PollAnswered, TypeOK, Meaning, timers, code, States
<1>13. CASE UNCHANGED vars
  BY <1>13 DEF vars, TypeOK, Meaning, timers, code
<1> QED
  BY <1>1, <1>2, <1>3, <1>4, <1>5, <1>6, <1>7, <1>8, <1>9, <1>10, <1>11, <1>12,
     <1>13 DEF Next, LoopTask

-----------------------------------------------------------------------------
\* Every reachable state gives the timers their meaning.
THEOREM Invariance == Spec => []IInv
BY InitIInv, Step, PTL DEF Spec

\* Type correctness of the clock and the timers, for every word and interval.
THEOREM TypeCorrect == Spec => []TypeOK
BY Invariance, PTL DEF IInv

\* No code is polled for sooner than Microsoft asked, whatever the width of
\* millis(), the interval and the calls' length (DeviceCodeFlow::loop).
THEOREM PollsSpacedHolds == Spec => PollsSpaced
<1>1. ASSUME IInv, [Next]_vars
      PROVE  [pc = "poll" /\ pc' = "pollWait" /\ arg' => now - polled >= asked]_vars
  <2> SUFFICES ASSUME pc = "poll", pc' = "pollWait", arg' PROVE now - polled >= asked
    OBVIOUS
  <2>1. SendPoll
    BY <1>1 DEF Next, LoopTask, Tick, Interfere, Loop, CodeIssued, RequestFails,
       CheckDeadline, CheckInterval, PollAgain, SlowDown, PollFails, PollAnswered,
       vars
  <2> QED
    BY <1>1, <2>1 DEF SendPoll, IInv, Meaning
<1> QED
  BY <1>1, Invariance, PTL DEF Spec, PollsSpaced

\* A deadline in the present turn of millis() is met exactly (DeviceCodeFlow::loop).
THEOREM DeadlineExactHolds == Spec => DeadlineExact
<1>1. ASSUME IInv, [Next]_vars
      PROVE  [pc = "deadline" /\ pc' # pc /\ deviceCode /\ OneTurn =>
                  (state' = "Timeout" <=> now - issued >= lifetime)]_vars
  <2> SUFFICES ASSUME pc = "deadline", pc' # pc, deviceCode, OneTurn
               PROVE  state' = "Timeout" <=> now - issued >= lifetime
    OBVIOUS
  <2>1. CheckDeadline
    BY <1>1 DEF Next, LoopTask, Tick, Interfere, Loop, CodeIssued, RequestFails,
       SendPoll, CheckInterval, PollAgain, SlowDown, PollFails, PollAnswered, vars
  <2>2. state = "Pending"
    BY <1>1 DEF IInv, Meaning
  <2> DEFINE due == issued + lifetime
  <2>3. Word \in Nat \ {0} /\ now \in Nat /\ due \in Nat
        /\ issued \in Nat /\ lifetime \in Nat
    BY <1>1, TimersAssumption DEF IInv, TypeOK
  <2>4. now = Word * (now \div Word) + (now % Word)
        /\ due = Word * (due \div Word) + (due % Word)
        /\ now % Word \in 0..(Word - 1) /\ due % Word \in 0..(Word - 1)
        /\ now \div Word \in Nat
    BY <2>3, Turns
  <2>5. now \div Word = due \div Word
    BY DEF OneTurn
  <2>6. now % Word >= due % Word <=> now >= due
    <3> DEFINE base == Word * (now \div Word)
    <3>1. base \in Nat
      BY <2>3, <2>4
    <3>2. now = base + (now % Word) /\ due = base + (due % Word)
      BY <2>4, <2>5
    <3> HIDE DEF base
    <3> QED
      BY <2>3, <2>4, <3>1, <3>2
  <2>7. Millis >= expiresAtMs <=> now - issued >= lifetime
    BY <1>1, <2>3, <2>6 DEF IInv, Meaning, Millis
  <2> QED
    BY <2>1, <2>2, <2>7 DEF CheckDeadline, ClearTo
<1> QED
  BY <1>1, Invariance, PTL DEF Spec, DeadlineExact
=============================================================================
