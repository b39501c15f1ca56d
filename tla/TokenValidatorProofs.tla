------------------------- MODULE TokenValidatorProofs -------------------------
(***************************************************************************)
(* For any set of signing keys: nobody is let in without the tokens that   *)
(* are asked for, good tokens are accepted whatever the cache held, and a  *)
(* validation fetches the keys at most four times.                         *)
(***************************************************************************)
EXTENDS TokenValidator, TLAPS

Fetching == at \in {"metadata", "jwks"}
Running == Fetching \/ at = "verify"

\* Where a validation can be, and what the ID token has shown by then.
IdSound == id.key \in ever /\ Client \in id.aud

Position ==
    /\ published \subseteq ever /\ cache.keys \subseteq ever
    /\ at = "verify" => pass \in {1, 2}
    /\ Fetching => pass \in {0, 1}
    /\ pass = 0 => check = "id"
    /\ Running /\ check # "id" => access \in Tokens /\ IdSound
    /\ Running /\ missingRole /\ check = "id" => IdSound

\* Fetches before and after the one a check may make.
Before == IF check = "id" THEN 1 ELSE IF check = "accessClient" THEN 2 ELSE 3

FetchCount ==
    /\ at = "metadata" => fetches <= IF pass = 0 THEN 0 ELSE Before
    /\ at = "jwks" => fetches <= IF pass = 0 THEN 1 ELSE Before + 1
    /\ at = "verify" => fetches <= IF pass = 1 THEN Before ELSE Before + 1
    /\ fetches <= MaxFetches

\* Why good tokens are not refused as long as nothing disturbs: after a fetch
\* the cache holds their key, and a check that fails then was of the wrong
\* token or audience.
OnTheWay ==
    ~disturbed /\ Deserved =>
        /\ at = "verify" /\ pass = 2 => cache = Loaded(published)
        /\ Running /\ check # "id" => ~id.role
        /\ Running /\ check = "accessApi" => Client \notin access.aud
        /\ verdict # "refused"

\* A verdict is there only when the validation is done.
Undecided == verdict = "none" <=> at # "done"

IInv ==
    /\ TypeOK
    /\ Position
    /\ FetchCount
    /\ AcceptedNeedsTokens
    /\ OnTheWay
    /\ Undecided

LEMMA InitIInv == Init => IInv
<1> SUFFICES ASSUME Init PROVE IInv
  OBVIOUS
<1>1. missingRole \in BOOLEAN /\ disturbed \in BOOLEAN
  BY Zenon DEF Init
<1>2. cache \in [loaded : BOOLEAN, keys : SUBSET Keys]
  <2>1. {} \in SUBSET Keys
    OBVIOUS
  <2> QED
    BY <2>1, Zenon DEF Init, NoCache
<1>3. TypeOK
  BY <1>1, <1>2 DEF Init, TypeOK, Checks, MaxFetches
<1>4. Position /\ FetchCount /\ AcceptedNeedsTokens /\ OnTheWay /\ Undecided
  BY DEF Init, Position, Fetching, Running, FetchCount, Before, MaxFetches,
     AcceptedNeedsTokens, OnTheWay, Undecided, NoCache
<1> QED
  BY <1>3, <1>4 DEF IInv

-----------------------------------------------------------------------------
\* Types and ranges.
LEMMA CacheType == \A keys \in SUBSET Keys :
    Loaded(keys) \in [loaded : BOOLEAN, keys : SUBSET Keys]
BY Zenon DEF Loaded

LEMMA NoCacheType == NoCache \in [loaded : BOOLEAN, keys : SUBSET Keys]
<1>1. {} \in SUBSET Keys
  OBVIOUS
<1> QED
  BY <1>1, Zenon DEF NoCache

\* The check that comes next is one of the three, and a first one.
LEMMA NextCheckType ==
    ASSUME TypeOK, NEW missing, NextCheck(missing)
    PROVE  /\ at' \in {"verify", "done"} /\ check' \in Checks /\ pass' \in 0..2
           /\ verdict' \in {"none", "accepted", "refused"}
BY DEF TypeOK, NextCheck, Return, Checks

LEMMA CountType ==
    ASSUME TypeOK, Count \/ UNCHANGED fetches
    PROVE  fetches' \in 0..MaxFetches + 1
BY DEF TypeOK, Count, MaxFetches

LEMMA TypeStep == IInv /\ [Next]_vars => TypeOK'
<1> SUFFICES ASSUME TypeOK, Position, [Next]_vars PROVE TypeOK'
  BY DEF IInv
<1> USE DEF TypeOK, world, tokens
<1>1. CASE Rotate \/ Time
  <2>1. disturbed' \in BOOLEAN
    <3>1. (at # "idle") \in BOOLEAN
      OBVIOUS
    <3> QED
      BY <1>1, <3>1, Zenon DEF Rotate, Time
  <2>2. published' \in SUBSET Keys /\ ever' \in SUBSET Keys
        /\ clock' \in {"unset", "valid", "past"}
    BY <1>1 DEF Rotate, Time
  <2>3. UNCHANGED <<cache, at, tokens, check, pass, missingRole, verdict, fetches>>
    BY <1>1 DEF Rotate, Time
  <2> QED
    BY <2>1, <2>2, <2>3
<1>2. CASE Authorize
  <2>1. missingRole' \in BOOLEAN /\ disturbed' \in BOOLEAN
    BY <1>2, Zenon DEF Authorize
  <2>2. fetches' = 0 /\ check' \in Checks /\ pass' \in 0..2
        /\ at' \in {"verify", "metadata", "done"}
        /\ verdict' \in {"none", "refused"}
    BY <1>2 DEF Authorize, Return, Checks
  <2>3. id' \in Tokens \cup {NoToken} /\ access' \in Tokens \cup {NoToken}
        /\ UNCHANGED <<published, ever, cache>>
        /\ clock' \in {"unset", "valid", "past"}
    BY <1>2 DEF Authorize
  <2>4. 0 \in 0..MaxFetches + 1
    BY DEF MaxFetches
  <2> QED
    BY <2>1, <2>2, <2>3, <2>4
<1>3. CASE Finish
  <2>1. missingRole' \in BOOLEAN /\ disturbed' \in BOOLEAN
    BY <1>3, Zenon DEF Finish
  <2> QED
    BY <1>3, <2>1 DEF Finish, Checks, MaxFetches
<1>4. CASE FetchFails
  <2>1. disturbed' \in BOOLEAN
    BY <1>4, Zenon DEF FetchFails
  <2>2. fetches' \in 0..MaxFetches + 1
    BY <1>4, CountType DEF FetchFails
  <2>3. at' \in {"verify", "done"} /\ check' \in Checks /\ pass' \in 0..2
        /\ verdict' \in {"none", "accepted", "refused"}
    <3>1. CASE pass = 0
      BY <1>4, <3>1 DEF FetchFails, Return
    <3>2. CASE pass # 0
      <4>1. NextCheck(missingRole)
        BY <1>4, <3>2 DEF FetchFails
      <4> QED
        BY <4>1, NextCheckType
    <3> QED
      BY <3>1, <3>2
  <2>4. UNCHANGED <<world, cache, tokens, missingRole>>
    BY <1>4 DEF FetchFails
  <2> QED
    BY <2>1, <2>2, <2>3, <2>4
<1>5. CASE FetchMetadata
  <2>1. fetches' \in 0..MaxFetches + 1
    BY <1>5, CountType DEF FetchMetadata
  <2> QED
    BY <1>5, <2>1 DEF FetchMetadata
<1>6. CASE FetchKeys
  <2>1. disturbed' \in BOOLEAN
    BY <1>6, Zenon DEF FetchKeys
  <2>2. cache' \in [loaded : BOOLEAN, keys : SUBSET Keys]
    <3>1. cache' \in {Loaded(published), Loaded({})} /\ {} \in SUBSET Keys
      BY <1>6 DEF FetchKeys
    <3> QED
      BY <3>1, CacheType
  <2>3. at' = "verify" /\ pass' \in 0..2
    BY <1>6 DEF FetchKeys, Position, Fetching
  <2> QED
    BY <1>6, <2>1, <2>2, <2>3 DEF FetchKeys
<1>7. CASE VerifyAccepts
  <2>1. missingRole' \in BOOLEAN
    BY <1>7, Zenon DEF VerifyAccepts
  <2> QED
    BY <1>7, <2>1 DEF VerifyAccepts, Return
<1>8. Matches \in BOOLEAN
  BY DEF Matches
<1>9. CASE VerifyAgain
  <2>1. missingRole' \in BOOLEAN
    BY <1>8, <1>9 DEF VerifyAgain
  <2>2. cache' \in [loaded : BOOLEAN, keys : SUBSET Keys]
    BY <1>9, NoCacheType DEF VerifyAgain
  <2>3. UNCHANGED <<world, tokens, check, pass, verdict, fetches, disturbed>>
        /\ at' = "metadata"
    BY <1>9 DEF VerifyAgain
  <2> QED
    BY <2>1, <2>2, <2>3
<1>10. CASE VerifyFails
  <2>1. missingRole' \in BOOLEAN
    BY <1>8, <1>10 DEF VerifyFails
  <2>2. NextCheck(Matches)
    BY <1>10 DEF VerifyFails
  <2>3. UNCHANGED <<world, cache, tokens, fetches, disturbed>>
    BY <1>10 DEF VerifyFails
  <2> QED
    BY <2>1, <2>2, <2>3, NextCheckType
<1>11. CASE UNCHANGED vars
  BY <1>11 DEF vars
<1> QED
  BY <1>1, <1>2, <1>3, <1>4, <1>5, <1>6, <1>7, <1>9, <1>10, <1>11
     DEF Next, ValidatorStep

-----------------------------------------------------------------------------
\* A token that matches was signed with a key published some time.
LEMMA MatchesSound ==
    ASSUME IInv, Matches
    PROVE  Token.key \in ever /\ Audience \in Token.aud
BY DEF IInv, TypeOK, Position, Matches

\* What the steps other than those of verification keep.
LEMMA SafeOther ==
    ASSUME IInv, Rotate \/ Time \/ Authorize \/ Finish \/ FetchMetadata
                 \/ FetchKeys \/ UNCHANGED vars
    PROVE  Position' /\ AcceptedNeedsTokens' /\ Undecided'
<1> USE DEF IInv, Position, AcceptedNeedsTokens, Undecided, Fetching, Running,
        IdSound, world, tokens
<1>1. CASE Rotate \/ Time \/ FetchMetadata \/ UNCHANGED vars
  BY <1>1 DEF Rotate, Time, FetchMetadata, vars
<1>2. CASE Authorize \/ Finish
  BY <1>2 DEF Authorize, Finish, Return
<1>3. CASE FetchKeys
  BY <1>3 DEF FetchKeys, Loaded, TypeOK
<1> QED
  BY <1>1, <1>2, <1>3

\* The next check is made only after a sound ID token without the role.
LEMMA SafeNextCheck ==
    ASSUME IInv, Running, NEW missing \in BOOLEAN, NextCheck(missing),
           check = "id" /\ missing => IdSound,
           UNCHANGED <<world, tokens>>,
           cache' = cache
    PROVE  Position' /\ AcceptedNeedsTokens' /\ Undecided'
BY DEF IInv, TypeOK, Position, AcceptedNeedsTokens, Undecided, Fetching, Running,
   IdSound, world, tokens, NextCheck, Return

LEMMA SafeStep ==
    IInv /\ [Next]_vars => Position' /\ AcceptedNeedsTokens' /\ Undecided'
<1> SUFFICES ASSUME IInv, [Next]_vars
             PROVE  Position' /\ AcceptedNeedsTokens' /\ Undecided'
  OBVIOUS
<1> DEFINE Safe == Position /\ AcceptedNeedsTokens /\ Undecided
<1>1. CASE FetchFails
  <2>1. CASE pass = 0
    BY <1>1, <2>1 DEF IInv, FetchFails, Return, Position, AcceptedNeedsTokens,
       Undecided, Fetching, Running, world, tokens
  <2>2. CASE pass # 0
    BY <1>1, <2>2, SafeNextCheck
       DEF IInv, TypeOK, FetchFails, Fetching, Running, Position
  <2> QED
    BY <2>1, <2>2
<1>2. CASE VerifyAccepts
  <2>1. Token.key \in ever /\ Audience \in Token.aud /\ Token.role
    BY <1>2, MatchesSound DEF VerifyAccepts
  <2>2. check # "id" => IdSound
    BY <1>2 DEF VerifyAccepts, IInv, Position, Running
  <2> QED
    BY <1>2, <2>1, <2>2 DEF VerifyAccepts, Return, IInv, Position,
       AcceptedNeedsTokens, Undecided, Fetching, Running, IdSound, Token,
       Audience, world, tokens
<1>3. Matches /\ check = "id" => IdSound
  BY MatchesSound DEF Token, Audience, IdSound
<1>4. CASE VerifyAgain
  BY <1>3, <1>4 DEF VerifyAgain, IInv, Position, AcceptedNeedsTokens, Undecided,
     Fetching, Running, IdSound, NoCache, world, tokens
<1>5. CASE VerifyFails
  <2>1. Matches \in BOOLEAN
    BY DEF Matches
  <2> QED
    BY <1>3, <1>5, <2>1, SafeNextCheck DEF VerifyFails, Running
<1> QED
  BY <1>1, <1>2, <1>4, <1>5, SafeOther DEF Next, ValidatorStep

-----------------------------------------------------------------------------
\* A check makes at most one fetch, and the first of all at most one more.
LEMMA CountStep == IInv /\ [Next]_vars => FetchCount'
<1> SUFFICES ASSUME IInv, [Next]_vars PROVE FetchCount'
  OBVIOUS
<1> USE DEF IInv, TypeOK, Position, Fetching, FetchCount, Before, MaxFetches,
        Checks, world, tokens
<1>1. CASE Rotate \/ Time \/ UNCHANGED vars
  BY <1>1 DEF Rotate, Time, vars
<1>2. CASE Authorize \/ Finish
  BY <1>2 DEF Authorize, Finish, Return
<1>3. CASE FetchFails
  <2>0. fetches' \in Nat
    BY <1>3, CountType DEF FetchFails
  <2>1. fetches' <= IF pass = 0 THEN 1 ELSE Before + 1
    BY <1>3 DEF FetchFails, Count
  <2>2. CASE pass = 0
    BY <1>3, <2>0, <2>1, <2>2 DEF FetchFails, Return
  <2>3. CASE pass # 0
    <3>1. NextCheck(missingRole)
      BY <1>3, <2>3 DEF FetchFails
    <3> QED
      BY <2>0, <2>1, <2>3, <3>1 DEF NextCheck, Return
  <2> QED
    BY <2>2, <2>3
<1>4. CASE FetchMetadata
  BY <1>4 DEF FetchMetadata, Count
<1>5. CASE FetchKeys
  BY <1>5 DEF FetchKeys
<1>6. CASE VerifyAccepts \/ VerifyAgain
  BY <1>6 DEF VerifyAccepts, VerifyAgain, Return
<1>7. CASE VerifyFails
  BY <1>7 DEF VerifyFails, NextCheck, Return
<1> QED
  BY <1>1, <1>2, <1>3, <1>4, <1>5, <1>6, <1>7 DEF Next, ValidatorStep

-----------------------------------------------------------------------------
\* Good tokens stay on the way to acceptance.
LEMMA OnTheWayStep == IInv /\ [Next]_vars => OnTheWay'
<1> SUFFICES ASSUME IInv, [Next]_vars, ~disturbed', Deserved' PROVE OnTheWay'
  BY DEF OnTheWay
<1> USE KeysAssumption DEF IInv, TypeOK, Position, OnTheWay, Undecided, Fetching,
        Running, Deserved, world, tokens
<1>1. CASE Rotate \/ Time
  BY <1>1 DEF Rotate, Time
<1>2. CASE Authorize
  BY <1>2 DEF Authorize, Return, NoToken
<1>3. CASE Finish
  BY <1>3 DEF Finish
<1>4. CASE FetchFails
  BY <1>4 DEF FetchFails
<1>5. CASE FetchMetadata
  BY <1>5 DEF FetchMetadata
<1>6. CASE FetchKeys
  BY <1>6 DEF FetchKeys
<1>7. CASE VerifyAccepts
  BY <1>7 DEF VerifyAccepts, Return
<1>8. CASE VerifyAgain
  BY <1>8 DEF VerifyAgain
<1>9. CASE VerifyFails
  <2>1. pass = 2 /\ at = "verify" /\ ~disturbed /\ Deserved /\ NextCheck(Matches)
        /\ ~(Matches /\ Token.role) /\ UNCHANGED <<world, tokens>>
    BY <1>9 DEF VerifyFails
  <2>2. cache = Loaded(published)
    BY <2>1
  <2>3. Matches <=> Token.key \in published /\ Audience \in Token.aud
    BY <2>1, <2>2 DEF Matches, Loaded
  <2>4. CASE check = "id"
    <3>1. Matches /\ ~id.role
      BY <2>1, <2>3, <2>4 DEF Token, Audience
    <3>2. access # NoToken
      BY <2>1, <3>1 DEF NoToken
    <3> QED
      BY <2>1, <2>4, <3>1, <3>2 DEF NextCheck
  <2>5. CASE check = "accessClient"
    <3>1. ~id.role /\ access.role /\ access.key \in published
      BY <2>1, <2>5
    <3>2. Client \notin access.aud
      BY <2>1, <2>3, <2>5, <3>1 DEF Token, Audience
    <3> QED
      BY <2>1, <2>5, <3>1, <3>2 DEF NextCheck
  <2>6. CASE check = "accessApi"
    <3>1. ~id.role /\ access.role /\ access.key \in published
      BY <2>1, <2>6
    <3>2. Client \notin access.aud /\ access \in Tokens
      BY <2>1, <2>6
    <3>3. Api \in access.aud
      BY <2>1, <3>1, <3>2 DEF Tokens
    <3>4. Matches /\ Token.role
      BY <2>3, <2>6, <3>1, <3>3 DEF Token, Audience
    <3> QED
      BY <2>1, <3>4
  <2> QED
    BY <2>4, <2>5, <2>6 DEF Checks
<1>10. CASE UNCHANGED vars
  BY <1>10 DEF vars
<1> QED
  BY <1>1, <1>2, <1>3, <1>4, <1>5, <1>6, <1>7, <1>8, <1>9, <1>10
     DEF Next, ValidatorStep

-----------------------------------------------------------------------------
\* Every reachable state satisfies the inductive invariant.
THEOREM Invariance == Spec => []IInv
<1>1. IInv /\ [Next]_vars => IInv'
  BY TypeStep, SafeStep, CountStep, OnTheWayStep DEF IInv
<1> QED
  BY InitIInv, <1>1, PTL DEF Spec

\* Type correctness of a validation, for every set of signing keys.
THEOREM TypeCorrect == Spec => []TypeOK
BY Invariance, PTL DEF IInv

\* authorize returns true only on a sound ID token and the role.
THEOREM AcceptedNeedsTokensHolds == Spec => []AcceptedNeedsTokens
BY Invariance, PTL DEF IInv

\* authorize returns true for good tokens unless something fails meanwhile.
THEOREM GoodTokensAcceptedHolds == Spec => []GoodTokensAccepted
<1>1. IInv => GoodTokensAccepted
  BY DEF IInv, OnTheWay, GoodTokensAccepted
<1> QED
  BY Invariance, <1>1, PTL

\* ensureJwks is called for a fetch at most four times in one authorize.
THEOREM FetchesBoundedHolds == Spec => []FetchesBounded
<1>1. IInv => FetchesBounded
  BY DEF IInv, FetchCount, FetchesBounded
<1> QED
  BY Invariance, <1>1, PTL
=============================================================================
