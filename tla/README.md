# Verification of the InkAds display-device firmware

TLA+ models of the firmware in `src/` (Arduino sketch for an ESP32): what its
tasks do to the state they share, what survives restarts and failed writes, and
what each part promises. TLC checks the models on small instances; TLAPS proves
the safety properties for every value of the constants.

## 1. The system

The device has two long-lived tasks and one that comes and goes:

- the **loop task** (`Application::loop`, `LocalWebServer::loop`): drives the
  Microsoft sign-in and blocks in HTTPS calls to Microsoft while it does;
- the **HTTPS server task** (`esp_https_server`): serves `/admin`, one request at a
  time, and blocks in uploads and manifest downloads;
- the **install task** (`releaseInstallTask`): downloads a release and restarts.

They share objects without locks, except for the install status. Everything but
the flash (settings, certificate files, firmware slots) is lost at a restart, and
a restart may come at any time: power, the end of an update, the Wi-Fi form, the
factory reset.

| Part (source) | State it keeps | Operations | Used by | What makes it correct |
|---|---|---|---|---|
| Administrator session (`auth/AdminSessionStore`) | active, two times, ids | `create`, `valid`, `touch`, `clear` | loop task, every handler | one session, exact ages over the wrap of `millis()`, ended in time |
| Sign-in (`auth/DeviceCodeFlow`, `auth/EntraAuthService`) | flow state, device code, deadline, tokens, handled flag | start, cancel, poll, finish, sign-out | both tasks | a session only for a user with the role; every start ends |
| Token validation (`auth/IdTokenValidator`, `auth/EntraHttpsClient`) | cached signing keys | `authorize` | loop task | nobody in without sound tokens; key rotation keeps nobody out |
| Firmware update (`update/OtaUpdateService`, handlers in `web/LocalWebServer`) | status, metadata, mutex, the `Update` object, two slots | install, status, upload | HTTPS task, install task | one install at a time, only verified images, an `Update` object that comes free again |
| Certificate store (`config/TlsCertificateStore`) | four files, pair in RAM | load, stage, bootstrap | boot, upload | certificate and key are of one bundle, a stored bundle is kept |
| Settings and boot (`app/Application`, `config/ConfigStore`, `network/ProvisioningPortal`, `network/WifiConnection`) | two NVS entries, mode | load, save, clear, connect | boot, both forms, reset | what was answered is stored and is what the device runs on |
| Wi-Fi scan (`network/WifiScan`) | the list while a scan is answered | merge, add, replace, sort | both Wi-Fi forms | each network once, the strongest kept and first |
| E-paper display (`display/`) | panel ready or not | `begin`, `displayFramebuffer` | boot | a silent panel does not stop the boot |
| Pages (`web/pages`) | what the script waits for, the version shown | check, confirm, install, poll | the administrator | no endless poll, no false success |
| Names, mDNS, logging (`platform/`, `network/MdnsService`) | none | formatting | all | left out: pure I/O |
| Release scripts (`scripts/`) | none on the device | build, release plan | CI | left out of these models |

What is hard here: two tasks on one unlocked object with blocking calls in the
middle of an operation; a state read before such a call and applied after it; time
as unsigned differences of a counter that wraps; files and entries written one
after the other with a restart in between; operations that half fail; answers that
promise something about a later boot. `PROJECT.json` lists each hazard at its line.

## 2. Modules

Each `X.tla` is a component, `XProofs.tla` its theorems, `MCX.tla` and the `.cfg`
files its instances for TLC. Definitions whose name ends in `_Something` next to an
action are its mutated forms (plausible bugs), used only to see that a property can
fail. Variables called "history" in a module are not state of the program.

### AdminSessionStore
`active`, `created`, `lastSeen`, `hasId` are the fields of the class. `valid()` is
cut at each read the other task can get between: the test of `active_`, the read of
`millis()`, the two comparisons. `clear()` and `create()` are cut in two groups of
writes, because a sign-out on the HTTPS task can overlap either. A handler is a
chain of calls (`cookie`, `has`, `csrf`, `touch`), each with its own `valid()`, as
`requireSession` and `requireSessionCsrf` make them. Ids are reduced to whether they
are set: a comparison with a wiped id cannot succeed.

### EntraSignIn, AdminAccess
The loop task is the chain of `EntraAuthService::loop` and `DeviceCodeFlow::loop`,
one step per test, call or write that the other task can get between; in `reqWait`, `pollWait` and `validate` its
HTTPS call is in flight and the HTTPS task goes on. Handlers are status, start,
cancel, sign-out and reset. Microsoft decides each device code once. A token is
named by the code it was issued for, so "whose session is this" can be asked. Every change
of state is three writes in the code: `wipeTokens`, `clearSensitive` and `state_`, in the
order of `requestStart`, `cancel`, `reject` and `resetToIdle` on either task (`WipeTokens`,
`ClearSensitive`, `WriteState`; `DenyWipe`, `FinishClear`, `FinishState`) or of `setState`
(`Enter`, `SetClear`, `SetWipe`, `SetState`), and each write is a step. The answer to a poll
stores the tokens first (`PollAnswered`) and becomes `Authorized` in later steps, so tokens
exist while the flow is Pending, and a cancel in between leaves them next to `Cancelled`.
A token that was wiped or freed while the validator works on it is taken to fail its check.
`resetSignIn` has no caller. The flow's clock is a deadline that passes here; its arithmetic,
and what a wrap of `millis()` does to it (a deadline missed just before a wrap lies ahead
again for one more turn), is DeviceCodeTimers. `sessions_.create()` cannot fail (`randomHex` always
fills its buffer), so its failure branch is not taken.
`AdminAccess` is the abstract specification: an approval by a user with the role
grants at most one session, and a session that ended stays ended. `EntraSignIn`
implements it with `admitted` = the codes approved by such users.

### DeviceCodeTimers
The three timer fields of `DeviceCodeFlow` on a `millis()` that wraps. `now` is the time
since the boot; `Millis` is its remainder. A step is one test of `DeviceCodeFlow::loop`,
one group of writes, or the answer of a call; `Interfere` is what the HTTPS task does to
the fields (`cancel`, `requestStart`, `resetToIdle`) at any moment, tests out of date
included. History variables keep when Microsoft issued the code, for how long, which
interval it asks for and when the device last polled for it. A poll whose code was wiped
between the tests carries none and is not counted by `PollsSpaced`.

### TokenValidator
`authorize` is a sequence of checks (ID token; access token for the client id; access
token for `api://` client id), each made with the cached keys (`pass` 1) and, if it
fails, again after a forced refresh (`pass` 2). A refresh frees the cache, gets the
metadata, then the keys; either call may fail, and a body that was cut short is
cached like a good one. Between any two steps Microsoft may publish other keys, NTP
may set the clock, and the tokens may expire. `missingRole` is kept exactly: every
verification resets it, a failed refresh does not. A token is its key, the audiences
it is valid for (none when signature, issuer, tenant or times are wrong) and whether
it has the role. `EntraSignIn` uses `authorize` as one call that says yes or no; a
wipe of the tokens by the other task while it runs is modelled there.

### OtaUpdate, Firmware
The HTTPS task serves installs, their status and uploads; up to `Tasks` install tasks
exist (one that waits for its restart and one that a later install started). `status`
and `meta` are `releaseInstall*_`, written under `mutex` and read by the install task
without it. `Update` is the one object of the Arduino core, modelled external: begin
is refused while an update runs, the first piece erases the inactive slot, `end`
checks and selects. An image is a sequence of pieces, each of a release, the upload
(`manual`) or anything else a server may send (`other`). After an error
`esp_http_client_perform` goes on delivering data, so the callback runs again.
`Fetch` is `checkReleaseUpdate`, as `installOtaHttps` calls it: the manifest of that moment
names any release, or there is none to be had; only one that `compareSemver` puts above
the running image goes on. A version is its three numbers (`Semver`), which `compareSemver`
reads from the string; the version of an image is that of the slot it runs from.
`Firmware` is the abstract specification: the image that runs, the one the next boot would
run, and the release that is accepted. The next image is the running one, an upload, or the
accepted release while it is being installed; an accepted release is newer than what runs.
`FirmwareView` maps to it: the next image is that of the selected slot when it would boot and
the running one otherwise, and a release is accepted from the moment the status becomes
`Running` to the report, with the URL written before. So a write of the first piece into a
selected slot is `Discard`, `Update.end` is `Select`, and a restart with the fallback of the
boot loader is `Boot`.

### ReleasePage
Extends OtaUpdate with the script of the administration page, so that page, HTTPS task and
install task run side by side. `page` is where the script stands, `otaVersion` the release
its button names, `csrf` whether its token is that of the session, `client` whom the
request in the HTTPS task belongs to. A fetch can be lost before or after it is served
(`Lose`), refused (`Refuse`), or hang through a restart (`RestartDevice`). `Reply` is what
the script does with an answer: 202 and "running" keep it polling, "succeeded" leaves the
buttons locked, the rest frees them. Requests of other pages are those of OtaUpdate's
`Begin`.

### TlsCertificateStore, StoredCertificate
Each write of a boot and of an upload is a step that may fail; a file is
truncated on opening and then printed, so a power loss leaves it empty or partial. A read
of a file that has contents gives these, a part of them, or nothing (`Reads`, `Loads`):
at boot, before a promotion, where what fails to be read cannot be rolled back to, and
after it, where what cannot be read back counts as not stored. A
certificate or key is the bundle it came from. `stage` is validate, write the staged
pair, promote certificate, promote key, roll back if the key fails, tidy, reload.
`httpd_ssl_start` only copies the pair; it does not look whether it matches. `found`
(history) is the pair that was active when the promotion began, whatever was read of it.
`StoredCertificate` is the abstract specification: one stored bundle that changes in one step
(`Store`), unless a write fails or is cut off (`Damage`), which never puts a bundle there that
was neither stored nor being stored. A reader of what is stored (`Load` at boot, `Confirm`
after a `Store`) gets it, nothing, or something torn; the bundle compiled in is stored only at
a boot that got nothing, and a server serves what was read. `StoreView` maps the two active
files, and the two strings in memory, to one of three
kinds (a bundle, nothing readable, torn); during a promotion the pair that it found
counts, so the promotion takes effect with the write of the key and a rollback that
succeeds never happened. That a failed read counts as no bundle, and that something torn is
served, is what the code does and not what its documents say: see 6.

### WifiProvisioning
A build with the e-paper panel first waits for it, after `initPanel` and after the refresh
(`panel`, `show`); either wait may time out, and the device boots on without it.
`nvs` holds the two entries, each as the form it came from, so a pair of two forms
shows; `legacy` is the old `admin_pass` entry. Boot is load, remove the old entry,
connect, or start the portal. Each entry is read on its own, so a boot may have the
network without the password, and the test for the old entry may miss it. The portal form and the admin form save; the reset
erases entry by entry. Every NVS access may fail, and `Reboot` may come anywhere:
`PowerLoss`, the restart a handler ends with, or the one after an access point that
did not start. The session checks and the sign-out of these handlers belong to
AdminSessionStore and EntraSignIn.

### WifiScan
`toJson`: a step handles one reading of the radio scan (skipped, merged with the entry of
its name, added, or put in the place of the weakest) or fixes one place of the selection
sort. Ties go to the first entry, as the comparisons of the loops have it. `heard` is
history.

## 3. Runs

| Run | Instance | Shows |
|---|---|---|
| `session` | clock of 8, limits 3 and 2, delays 2 | exact ages, overdue sessions end, no request on an expired session, a session without ids goes away |
| `signin` | 2 device codes | role needed, no tokens left over from an earlier sign-in while polling, results not stranded, `AdminAccess` implemented, a start and a pending sign-in end |
| `signin_cancelled` | same | violation, see 6 |
| `token` | 2 keys, all tokens over them | only sound tokens open, good ones do after any rotation or bad cache, at most 4 fetches, it ends |
| `ota` | 2 releases, 2 tasks, 2 pieces, symmetric | one installer, metadata frozen, unverified image never selected, `Update` never left running by nobody, what was reported as installed stays selected or is erased, no restart into an older release, `Firmware` implemented |
| `release_page` | 1 release, 1 task, 1 piece, one page and the requests of others | an accepted install ends, the `Update` object comes free again, "installed" is announced only while a restart is due and the slot is selected, the page does not poll for ever |
| `ota_installed_boots` | as `ota` | violation, see 6 |
| `tls` | 2 bundles, one compiled in | pair unless torn, "stored" is active, invalid never written, `StoredCertificate` implemented, a boot or upload ends |
| `wifi` | 2 protected networks, 1 open, 1 refused form, with the panel | stored as told, pair of one form, runs as told, a boot gets past the panel and the flash |
| `timers` | `millis()` of 12 ticks over 36, intervals 1, 2 and up to 4 after slow_down, lifetimes 5 and 7 | polls keep the interval Microsoft asks for, a deadline is exact within one turn |
| `timers_wrap` | same | violation, see 6 |
| `scan` | 4 names, list of 3, up to 5 readings, names symmetric | best readings, strongest kept, strongest first |

Why the bounds are enough. Eight clock values wrap several times in the life of one
session and leave room for limits of different length; the proofs lift the sizes. Two
device codes let one sign-in overtake another; a third adds no new pair of tasks, and
the safety part is proved for any number. Two releases let metadata change under a
task, two tasks let a finished one overlap a new one (no third: one waits for its
restart, one installs), two pieces let an image be cut or mixed. Two bundles or two
protected networks are the least that can be mixed, and an open network and a refused
form are the two special cases of `save`. Two keys are the least with which a cached
key can be withdrawn, kept or replaced and two tokens can differ. `fetches` is counted
to one above what is allowed (`MaxFetches`). The semantic versions of the `ota` run
are ordered differently by their first and their last part. Twelve ticks hold a
lifetime and several intervals, and 36 let a deadline, an interval and both fall across a
wrap; `MaxNow` and `MaxInterval` stop the clock and the slow_downs. Four names and a list
of three with five readings (`MaxFound`) let a network be pushed out and come back. One
page, one task and one piece are enough for liveness: `Begin` stands for every other page,
and `Versions`, `Tasks` and `Chunks` only add ways to fail that the one task has already.
No run turns deadlock checking off. Type correctness is a theorem of every module
(`TypeCorrect`, `PageTypeCorrect`); only `signin` checks its `TypeOK` as well.

## 4. Fairness

Liveness is checked under weak fairness of each task's steps, which the code justifies:
the loop task never stops and every HTTPS call has a timeout (15 s to Microsoft, 30 s
for downloads), a request once begun is served to its end, and time passes. A mutex is
given to each waiter in turn (strong fairness of taking it). Nothing is assumed of the
access point: `BootEnds` takes a boot to normal mode or to the attempt to start it, and one
that fails every time restarts the device for ever (6). `UpdateEnds` needs no more than that
the tasks go on: every install that gives up aborts its update.
In `ReleasePage` the browser adds its own: the poll timer fires, a fetch nobody will answer
ends in an error, the HTTPS task comes in the end to a request that keeps waiting (strong
fairness of `Take \/ Refuse`), and a delay before `ESP.restart()` ends in a restart.
`PageEnds` excepts only other pages whose installs are accepted again and again, since the
page reports whichever install runs. The panel is never assumed to answer: `PanelTimeout`
is what ends its waits. Nothing is assumed of Microsoft, of the user, of the arrival of requests, of the flash
or of the network. Where the power may fail, the property asks for an end only once it
stays on (`PowerStaysOn`).

## 5. Proofs

Each `XProofs` module proves `Spec => []IInv` for an inductive invariant and the
properties from it, for all constants allowed by the module's ASSUME.

- **AdminSessionStore** (assumes that limits plus two delays stay below one turn of
  the counter, far from 49.7 days): `TypeCorrect`, `ExactAgesHolds`,
  `OverdueBoundedHolds`, `AcceptedOnlyLiveHolds`. `ExactAges` alone is not inductive:
  a bound on the age at each point of the loop task (`AgeBound`, `IdleBound`) is what
  keeps an age from reaching one turn, and needs the delays (`Punctual`).
- **EntraSignIn** (any number of codes): `TypeCorrect`, `SessionNeedsRoleHolds`,
  `NoTokensWhilePollingHolds`, `ResultNotStrandedHolds` and
  `ImplementsAdminAccess`, the refinement: every step is a step or a stutter of
  `AdminAccess`. The invariant says that a token in memory or under validation is of a
  decided code that has not opened a session (`TokenFresh`, `ArgFresh`).
- **DeviceCodeTimers** (any word, intervals and lifetimes): `PollsSpacedHolds`,
  `DeadlineExactHolds`, `TypeCorrect`. `Meaning` says what the three fields mean of a code
  that was not wiped: `lastPollMs` is `polled` modulo the word, and so on; `DifferenceBound`
  is the arithmetic: a difference modulo the word never exceeds the true one.
- **TokenValidator** (any set of keys): `TypeCorrect`, `AcceptedNeedsTokensHolds`,
  `GoodTokensAcceptedHolds`, `FetchesBoundedHolds`. `Position` carries what the ID
  token has shown into the checks of the access token; `OnTheWay` says that after an
  undisturbed refresh the cache is what Microsoft publishes, and what a failed check
  then implies; `FetchCount` gives each check its fetch.
- **OtaUpdate** (any releases, tasks and pieces): `TypeCorrect`, `OneInstallerHolds`,
  `MetadataFrozenHolds`, `UpdateOwnedHolds`,
  `NeverSelectsUnverifiedHolds`, `NoDowngradeHolds`, `InstalledOrErasedHolds` and the
  refinement `ImplementsFirmware`. The invariant ties the mutex to the
  program counters and `Running` to the life of an install; `Provenance` follows each piece
  from the server or the upload through the `Update` object into the slot, and each release
  from the comparison of its version to the task that installs it. `CompareSemverOrders` shows
  that `compareSemver` is the order of versions, for all versions. The refinement needs one
  more invariant, `ReleasePiecesOwned`: pieces of a release in a slot being written have a
  task that installs it, so `Update.end` of an upload cannot select them.
  `InstalledOrErased` needs that a seal is always of a whole image and that a task which
  ended its update finds its slot selected (`SealedIsWhole`, `EndedSelects`).
- **ReleasePage** (in `OtaUpdateProofs`): `PageImplementsOta` (every step of page and device is
  a step of OtaUpdate or leaves it alone, so all of the above holds under the page),
  `PageTypeCorrect` and `SaysInstalledHolds`, from the invariant that the status `Succeeded`
  has a task waiting for its restart with its slot selected. The slot may be erased by then
  (`ota_installed_boots`), so the theorem does not say that the restart boots the update.
- **TlsCertificateStore** (any bundles): `TypeCorrect`, `PairUnlessTornHolds`,
  `StoredMeansActiveHolds`, `InvalidNeverWrittenHolds` and the refinement
  `ImplementsStoredCertificate`. `StageState` says what each step of `stage` knows about the
  files written before it; the refinement adds what a promotion can have made of the pair it
  found (`Between`, `PromotionKnown`), what a boot has not done yet (`BootKnown`) and what a
  read can give (`LoadsKnown`, `KindOfLoad`).
- **WifiProvisioning** (any forms): `TypeCorrect`, `StoredAsToldHolds`,
  `PairFromOneFormHolds`, `RunsAsToldHolds`. `Written` relates the two byte counts of
  `save` to the entries; `ReadAsTold` carries an answer through the next boot.

- **WifiScan** (any names, strengths, list size and number of readings): `TypeCorrect`,
  `BestReadingsHolds`, `StrongestKeptHolds`, `StrongestFirstHolds`. The proof carries
  "every reading heard is listed as strong, or the list is full of stronger ones" through
  each kind of step, and the sorted prefix through the exchanges of the sort.

Only model-checked: the liveness properties (`ZombieEnds`, `StartIsTaken`, `PendingEnds`,
`InstallEnds`, `UpdateEnds`, `PageEnds`, `StageEnds`, `ValidationEnds`, `BootEnds`), which are out of the
prover's reach. Every invariant, action property and refinement a passing run checks is also
a theorem. The three findings below are shown by TLC alone.

## 6. Where code and documents disagree

Each of these has a run that TLC must find violated.

- `signin_cancelled`: the answer to a poll or a validation in flight is applied after a
  cancel was answered, so a session can follow "Sign-in was cancelled."
- `ota_installed_boots`: in the delay between "Update installed" and the restart another
  install or upload is accepted and erases the slot just verified. The device still
  boots, but the old image; `InstalledOrErased` says that nothing else can
  become of the slot.
- `timers_wrap`: the deadline of a code is compared as a sum. In the last minutes before
  `millis()` wraps it lies in the next turn, and a code just issued is given up as expired.

Seen while modelling, without a run of their own:

- `valid()` reads `millis()` before `lastSeenMs_`; when the HTTPS task refreshes in between,
  the idle time wraps and the loop task ends a session in use. `AcceptedOnlyLive` asks only
  that no dead session is accepted.
- `requireSessionCsrf` answers 403 and leaves the session, where the README of the
  repository says a failed check clears it; a status request reports "authorized" while
  the token is still to be validated.
- A cancel that wipes before the loop task stores the answer to a poll leaves the tokens in
  memory, in state Cancelled if its own write of the state comes last, until the next start
  wipes them; nothing reads them meanwhile.
- A cancel between the loop's test for Pending and its test of the deadline zeroes the
  deadline, and the sign-in is shown as timed out instead of cancelled.
- The HTTPS task wipes and frees the tokens a validation is reading. What a read of freed
  memory gives is not modelled beyond a token that fails its check.
- Promotion writes certificate and key in place, one after the other; after a power loss in
  between, a certificate that could not be written, or a rollback that failed, the boot starts
  HTTPS with halves of two bundles, and a short read is served as it is, where
  `src/README.md:119` says that HTTPS starts only with a valid bundle. `PairUnlessTorn` and
  `StoredCertificateSpec` excuse these files by `torn` and bound what can be left.
- A stored bundle that cannot be read at one boot is overwritten by the one compiled in, where
  `src/README.md:119` speaks of a bootstrap when no flash bundle exists.
- SSID and password are two writes: when the second fails or is cut off, the new network
  stays with the old password. The form is answered with an error, and `torn` excuses the
  entries in `PairFromOneForm`.
- An empty password counts as saved whatever its write returned, so the old password can
  stay next to an open network that was answered as saved; `StoredAsTold` and `RunsAsTold`
  exempt it.
- An access point that never starts restarts the device for ever; no mode is reached.
- Before NTP has set the clock every token is refused; `GoodTokensAccepted` excuses it.
- A signing key that Microsoft withdrew is trusted as long as it is cached: keys are fetched
  when a check fails and not at "the next validation" (`src/README.md:227`).
- The page asks to confirm the version of its last check; the install fetches the manifest
  again and installs what that names.
- The page polls every 1.5 s and the restart follows success by the same delay: a poll
  lost in the restart shows "Installation failed." after an install that succeeded.
- A manifest that does not fit its buffer of 1024 bytes fails every check.
- An install whose own update was stopped by the clean-up of a failed upload ends the update
  of the next upload, which its digest does not cover.
- `expiresInSeconds` reads `expiresAtMs_` twice; a cancel in between shows a huge time for
  one answer.
- A reset that fails half way, or whose answer is lost, is reported as having changed
  nothing.

## 7. Not modelled

Parsing and formatting (JSON, base64, URLs, HTML, PEM), cryptography, the HTTP redirects,
names, mDNS and logging change none of the modelled state. The HTTPS server's own sessions
and sockets are external. Of the e-paper driver the command bytes, look-up tables and pixels
are data sent to the panel without an answer; `sleep` has no caller. Of the pages the
forms for certificate, upload, Wi-Fi and reset send one request and print its answer, and
the sign-in page repeats a status request that `EntraSignIn` already serves at any moment.
The capture of a response body into its buffer (`EntraHttpsClient`) is sequential
arithmetic within one call and appears as a fetch that fails or is cut short. The release
scripts run outside of the device.

## 8. Plan

1. (done) AdminSessionStore, EntraSignIn with AdminAccess, OtaUpdate, TlsCertificateStore,
   TokenValidator, WifiProvisioning, with their proofs.
2. (done) Versions and the choice of a release (`OtaUpdate`), the scan (`WifiScan`), the
   timers of the device code (`DeviceCodeTimers`), the panel's part in a boot
   (`WifiProvisioning`), the release page (`ReleasePage`); `NeverSelectsUnverified` proved.
3. (done) Abstract specifications of the firmware (`Firmware`) and of the certificate store
   (`StoredCertificate`), checked and proved as refinements; the page proved to leave the
   device's behaviour as it is, and `SaysInstalled` proved.
4. An abstract specification of the settings (one pair, replaced at once unless a write
   fails) with its refinement; the relation of a sign-in's `Authorized` step to
   `TokenValidator` and of its deadline to `DeviceCodeTimers`.
