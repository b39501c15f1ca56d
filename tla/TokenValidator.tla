---------------------------- MODULE TokenValidator ----------------------------
(***************************************************************************)
(* IdTokenValidator::authorize: may the user whose tokens the device has   *)
(* got open a session?  The loop task checks the ID token and, when that   *)
(* is valid but has no role, the access token for either of two audiences. *)
(* Each check is made with the cached signing keys of the tenant and, when *)
(* it fails, once more with keys fetched again.                            *)
(*                                                                         *)
(* Between any two steps Microsoft may publish other keys and time goes on:*)
(* the clock is set by NTP, and later the tokens expire.  Every fetch may  *)
(* fail, or end with a body that is cut short.  The cache outlives a       *)
(* validation.                                                             *)
(***************************************************************************)
EXTENDS Naturals

CONSTANT Keys       \* the signing keys Microsoft ever uses

ASSUME KeysAssumption == Keys # {} /\ "none" \notin Keys

VARIABLES
    published,  \* the keys Microsoft publishes now
    clock,      \* "unset", "valid" for the tokens, or "past" their expiry
    cache,      \* jwksBody_: nullptr or the keys in it, none if cut short
    at,         \* where authorize stands
    id, access, \* the two tokens
    check,      \* the call of verifyJwt that runs
    pass,       \* 0 before the first check, 1 cached keys, 2 fetched again
    missingRole,
    verdict,    \* what authorize returned
    ever,       \* history: all keys published so far
    fetches,    \* history: fetches of this validation
    disturbed   \* history: a fetch failed, keys or clock changed during it

world == <<published, clock, ever>>
tokens == <<id, access>>
vars == <<world, cache, at, tokens, check, pass, missingRole, verdict, fetches,
          disturbed>>

Client == "client"  \* EntraConfig::clientId
Api == "api"        \* "api://" followed by it

\* What authorize reads of a token.  It is for no audience when the signature is
\* not that of its key, or the issuer, the tenant or a time is not right.
Tokens == [key : Keys, aud : SUBSET {Client, Api}, role : BOOLEAN]
NoToken == [key |-> "none", aud |-> {}, role |-> FALSE]

NoCache == [loaded |-> FALSE, keys |-> {}]
Loaded(keys) == [loaded |-> TRUE, keys |-> keys]

Checks == {"id", "accessClient", "accessApi"}

\* Bound: more fetches than any validation makes are counted as one more.
MaxFetches == 4
Count == fetches' = IF fetches <= MaxFetches THEN fetches + 1 ELSE fetches

TypeOK ==
    /\ published \in SUBSET Keys /\ ever \in SUBSET Keys
    /\ clock \in {"unset", "valid", "past"}
    /\ cache \in [loaded : BOOLEAN, keys : SUBSET Keys]
    /\ at \in {"idle", "metadata", "jwks", "verify", "done"}
    /\ id \in Tokens \cup {NoToken} /\ access \in Tokens \cup {NoToken}
    /\ check \in Checks /\ pass \in 0..2
    /\ missingRole \in BOOLEAN /\ disturbed \in BOOLEAN
    /\ verdict \in {"none", "accepted", "refused"}
    /\ fetches \in 0..MaxFetches + 1

Return(v) == at' = "done" /\ verdict' = v

-----------------------------------------------------------------------------
(* Microsoft and time.                                                     *)

Rotate ==
    /\ published' \in SUBSET Keys \ {{}, published}
    /\ ever' = ever \cup published'
    /\ disturbed' = (at # "idle")
    /\ UNCHANGED <<clock, cache, at, tokens, check, pass, missingRole, verdict,
                   fetches>>

Time ==
    /\ \/ clock = "unset" /\ clock' = "valid"
       \/ clock = "valid" /\ clock' = "past"
    /\ disturbed' = (at # "idle")
    /\ UNCHANGED <<published, ever, cache, at, tokens, check, pass, missingRole,
                   verdict, fetches>>

-----------------------------------------------------------------------------
(* authorize.                                                              *)

\* The tokens of a sign-in; tokens issued now are not expired.  An empty ID
\* token is refused before anything is fetched.
Authorize ==
    /\ at = "idle"
    /\ id' \in Tokens \cup {NoToken} /\ access' \in Tokens \cup {NoToken}
    /\ clock' = IF clock = "past" THEN "valid" ELSE clock
    /\ check' = "id" /\ missingRole' = FALSE /\ fetches' = 0
    /\ disturbed' = FALSE
    /\ IF id' = NoToken
       THEN Return("refused") /\ pass' = 0
       ELSE /\ at' = IF cache.loaded THEN "verify" ELSE "metadata"
            /\ pass' = IF cache.loaded THEN 1 ELSE 0
            /\ verdict' = "none"
    /\ UNCHANGED <<published, ever, cache>>

\* finishAuthorization takes the verdict; the tokens are wiped after it.
Finish ==
    /\ at = "done"
    /\ at' = "idle" /\ id' = NoToken /\ access' = NoToken
    /\ check' = "id" /\ pass' = 0 /\ missingRole' = FALSE
    /\ verdict' = "none" /\ fetches' = 0 /\ disturbed' = FALSE
    /\ UNCHANGED <<world, cache>>

\* Mutant: a valid ID token is not asked for.
NextCheck_AnyIdToken(missing) ==
    \/ /\ check = "id" /\ access # NoToken
       /\ check' = "accessClient" /\ pass' = 1 /\ at' = "verify"
       /\ UNCHANGED verdict
    \/ /\ check = "id" /\ access = NoToken
       /\ Return("refused") /\ UNCHANGED <<check, pass>>
    \/ /\ check = "accessClient"
       /\ check' = "accessApi" /\ pass' = 1 /\ at' = "verify"
       /\ UNCHANGED verdict
    \/ /\ check = "accessApi"
       /\ Return("refused") /\ UNCHANGED <<check, pass>>

\* verifyJwt returned false: the access token is only asked when nothing but
\* the role was missing.
NextCheck(missing) ==
    \/ /\ check = "id" /\ missing /\ access # NoToken
       /\ check' = "accessClient" /\ pass' = 1 /\ at' = "verify"
       /\ UNCHANGED verdict
    \/ /\ check = "id" /\ ~(missing /\ access # NoToken)
       /\ Return("refused") /\ UNCHANGED <<check, pass>>
    \/ /\ check = "accessClient"
       /\ check' = "accessApi" /\ pass' = 1 /\ at' = "verify"
       /\ UNCHANGED verdict
    \/ /\ check = "accessApi"
       /\ Return("refused") /\ UNCHANGED <<check, pass>>

-----------------------------------------------------------------------------
(* ensureJwks: the metadata, which names the address of the keys, and then *)
(* the keys.                                                               *)

\* Mutant: a failed fetch is tried again.
FetchFails_Retries ==
    /\ at \in {"metadata", "jwks"}
    /\ disturbed' = TRUE
    /\ at' = "metadata"
    /\ UNCHANGED <<world, cache, tokens, missingRole, check, pass, verdict,
                   fetches>>

\* Without keys before the first check authorize returns false; after a check
\* the check has failed.
FetchFails ==
    /\ at \in {"metadata", "jwks"}
    /\ disturbed' = TRUE
    /\ IF at = "metadata" THEN Count ELSE UNCHANGED fetches
    /\ IF pass = 0
       THEN Return("refused") /\ UNCHANGED <<check, pass>>
       ELSE NextCheck(missingRole)
    /\ UNCHANGED <<world, cache, tokens, missingRole>>

FetchMetadata ==
    /\ at = "metadata"
    /\ at' = "jwks" /\ Count
    /\ UNCHANGED <<world, cache, tokens, check, pass, missingRole, verdict,
                   disturbed>>

\* Mutant: new keys start the check over.
FetchKeys_Anew ==
    /\ at = "jwks"
    /\ at' = "verify" /\ pass' = 1
    /\ \/ cache' = Loaded(published) /\ UNCHANGED disturbed
       \/ cache' = Loaded({}) /\ disturbed' = TRUE
    /\ UNCHANGED <<world, tokens, check, missingRole, verdict, fetches>>

\* A body with status 200 is stored as it came; one that was cut short is no
\* JSON and holds no key.
FetchKeys ==
    /\ at = "jwks"
    /\ at' = "verify" /\ pass' = pass + 1
    /\ \/ cache' = Loaded(published) /\ UNCHANGED disturbed
       \/ cache' = Loaded({}) /\ disturbed' = TRUE
    /\ UNCHANGED <<world, tokens, check, missingRole, verdict, fetches>>

-----------------------------------------------------------------------------
(* verifyWithCachedKeys, and what verifyJwt does with its result.          *)

Token == IF check = "id" THEN id ELSE access
Audience == IF check = "accessApi" THEN Api ELSE Client

\* A cached key made the signature, and the claims match, which needs a clock.
Matches ==
    /\ cache.loaded /\ Token.key \in cache.keys
    /\ clock = "valid" /\ Audience \in Token.aud

VerifyAccepts ==
    /\ at = "verify" /\ Matches /\ Token.role
    /\ missingRole' = FALSE
    /\ Return("accepted")
    /\ UNCHANGED <<world, cache, tokens, check, pass, fetches, disturbed>>

\* Mutant: keys that are there are not fetched again.
VerifyAgain_CacheKept ==
    /\ at = "verify" /\ pass = 1 /\ ~(Matches /\ Token.role)
    /\ missingRole' = Matches
    /\ NextCheck(Matches)
    /\ UNCHANGED <<world, cache, tokens, fetches, disturbed>>

\* The first failure frees the cached keys and fetches new ones.
VerifyAgain ==
    /\ at = "verify" /\ pass = 1 /\ ~(Matches /\ Token.role)
    /\ missingRole' = Matches
    /\ cache' = NoCache /\ at' = "metadata"
    /\ UNCHANGED <<world, tokens, check, pass, verdict, fetches, disturbed>>

VerifyFails ==
    /\ at = "verify" /\ pass = 2 /\ ~(Matches /\ Token.role)
    /\ missingRole' = Matches
    /\ NextCheck(Matches)
    /\ UNCHANGED <<world, cache, tokens, fetches, disturbed>>

-----------------------------------------------------------------------------
Init ==
    /\ published \in SUBSET Keys \ {{}} /\ ever = published
    /\ clock = "unset"
    /\ cache = NoCache
    /\ at = "idle" /\ id = NoToken /\ access = NoToken
    /\ check = "id" /\ pass = 0 /\ missingRole = FALSE
    /\ verdict = "none" /\ fetches = 0 /\ disturbed = FALSE

ValidatorStep ==
    \/ FetchFails \/ FetchMetadata \/ FetchKeys
    \/ VerifyAccepts \/ VerifyAgain \/ VerifyFails \/ Finish

Next == Rotate \/ Time \/ Authorize \/ ValidatorStep

Spec == Init /\ [][Next]_vars

\* The loop task goes on, and every HTTPS call ends within its timeout.
FairSpec == Spec /\ WF_vars(ValidatorStep)

-----------------------------------------------------------------------------
(* Properties.                                                             *)

\* A user is let in only on an ID token for this client, signed with a key that
\* Microsoft has published, and on the role in it or in such an access token,
\* whatever became of the keys, the clock and the cache meanwhile.
AcceptedNeedsTokens ==
    verdict = "accepted" =>
        /\ id.key \in ever /\ Client \in id.aud
        /\ \/ id.role
           \/ access.role /\ access.key \in ever /\ access.aud # {}

\* The tokens that should be accepted at this moment.
Deserved ==
    /\ clock = "valid" /\ id.key \in published /\ Client \in id.aud
    /\ \/ id.role
       \/ access.role /\ access.key \in published /\ access.aud # {}

\* A rotation of the keys before the sign-in, or a cache left empty, outdated
\* or cut short by earlier validations, never keeps an administrator out.
GoodTokensAccepted ==
    verdict = "refused" /\ ~disturbed => ~Deserved

\* A validation occupies the loop task for at most eight HTTPS calls.
FetchesBounded == fetches <= MaxFetches

\* A validation ends.
ValidationEnds == at # "idle" ~> at = "idle"
=============================================================================
