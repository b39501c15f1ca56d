------------------------------ MODULE OtaUpdate ------------------------------
(***************************************************************************)
(* Firmware updates.  The HTTPS task serves release installs, their status *)
(* and manual uploads, one request at a time; a release install runs in a  *)
(* task of its own (ota_install), which reads the release metadata, streams*)
(* the image into the inactive slot, reports and restarts the device.      *)
(*                                                                         *)
(* The status and the metadata are written under releaseInstallMutex_; the *)
(* install task reads the metadata without it.  The Arduino object Update  *)
(* is one for all and has no lock.  A step is one call of that object, one *)
(* mutex operation or one group of adjacent writes.                        *)
(***************************************************************************)
EXTENDS Integers, Sequences

CONSTANTS
    Versions,   \* releases the manifest may name
    Tasks,      \* bound: install tasks alive at the same time
    Chunks,     \* bound: pieces an image is received in
    Semver      \* the version of an image: <<major, minor, patch>>

NoRelease == ""     \* empty strings, before the first install

\* Release images, an uploaded one, and whatever else a server may send.
Releases == Versions \cup {NoRelease}
Images == Versions \cup {"manual", "other"}

ASSUME OtaAssumption ==
    /\ Versions # {} /\ Versions \cap {"manual", "other", NoRelease} = {}
    /\ Tasks # {} /\ "httpd" \notin Tasks /\ "free" \notin Tasks
    /\ Chunks \in Nat \ {0}
    /\ Semver \in [Images -> Nat \X Nat \X Nat]

VARIABLES
    \* LocalWebServer
    status,     \* releaseInstallState_
    meta,       \* releaseInstallUrl_ (with its size) and releaseInstallSha256_
    mutex,      \* the owner of releaseInstallMutex_, or "free"
    \* the HTTPS task
    hpc,        \* where it stands
    offer,      \* its local: the release the manifest names
    uploaded,   \* its local: pieces of a manual upload received
    \* the install tasks
    pc,         \* where each stands
    url,        \* the release it downloads
    sent,       \* pieces the server has sent it
    got,        \* DownloadContext: the pieces hashed so far
    started,    \* DownloadContext::updateStarted
    failed,     \* DownloadContext::failed
    \* the object Update and the flash
    update,     \* running, size and progress
    slot,       \* contents of the two application slots
    running,    \* the slot the device runs from
    boot        \* the slot selected for the next boot

server == <<status, meta, mutex>>
httpd == <<hpc, offer, uploaded>>
task == <<pc, url, sent, got, started, failed>>
flash == <<slot, running, boot>>
vars == <<server, httpd, task, update, flash>>

Slots == {"A", "B"}
Inactive == IF running = "A" THEN "B" ELSE "A"

HttpdPcs == {"idle", "fetch", "take", "decide", "writeSha", "writeStatus",
             "spawn", "failTake", "failSet", "statusTake", "statusCopy",
             "uploadBegin", "uploadData", "uploadAbort", "uploadEnd",
             "restart"}
TaskPcs == {"none", "init", "data", "begin", "write", "abort", "abortLast",
            "end", "failTake", "failSet", "okTake", "okSet", "restart"}

TypeOK ==
    /\ status \in {"Idle", "Running", "Succeeded", "Failed"}
    /\ meta \in [url : Releases, sha : Releases]
    /\ mutex \in Tasks \cup {"httpd", "free"}
    /\ hpc \in HttpdPcs /\ offer \in Releases /\ uploaded \in 0..Chunks
    /\ pc \in [Tasks -> TaskPcs]
    /\ url \in [Tasks -> Releases]
    /\ sent \in [Tasks -> 0..Chunks]
    /\ got \in [Tasks -> Seq(Images)]
    /\ started \in [Tasks -> BOOLEAN] /\ failed \in [Tasks -> BOOLEAN]
    /\ update \in [running : BOOLEAN, progress : 0..Chunks]
    /\ slot \in [Slots -> [pieces : Seq(Images), sealed : BOOLEAN]]
    /\ running \in Slots /\ boot \in Slots

-----------------------------------------------------------------------------
(* The object Update of the Arduino core and the boot loader.              *)

Stopped == [running |-> FALSE, progress |-> 0]

Whole(img) == [i \in 1..Chunks |-> img]

\* esp_image_verify: the pieces of one image, all of them, in order.
WellFormed(pieces) == \E img \in Images : pieces = Whole(img)

Bootable(s) == slot[s].sealed /\ WellFormed(slot[s].pieces)

\* begin: refused while an update runs, or for lack of memory.
BeginOk ==
    /\ ~update.running
    /\ update' = [running |-> TRUE, progress |-> 0]
    /\ UNCHANGED flash

BeginFails == UNCHANGED <<update, flash>>

\* write: the first piece erases the slot, whose first bytes stay withheld
\* until the end; a piece more than begin announced does not fit.
WriteOk(img) ==
    /\ update.running /\ update.progress < Chunks
    /\ update' = [update EXCEPT !.progress = @ + 1]
    /\ slot' = [slot EXCEPT ![Inactive] =
                   [pieces |-> Append(IF update.progress = 0 THEN <<>>
                                      ELSE slot[Inactive].pieces, img),
                    sealed |-> FALSE]]
    /\ UNCHANGED <<running, boot>>

\* Not running, no room, or a flash error: the object stops the update itself.
WriteFails == update' = Stopped /\ UNCHANGED flash

Abort == update' = Stopped /\ UNCHANGED flash

\* end(true): writes the withheld bytes, verifies the image and selects it.
EndOk ==
    /\ update.running
    /\ WellFormed(slot[Inactive].pieces)
    /\ update.progress = Chunks
    /\ slot' = [slot EXCEPT ![Inactive].sealed = TRUE]
    /\ boot' = Inactive
    /\ update' = Stopped
    /\ UNCHANGED running

EndFails == update' = Stopped /\ UNCHANGED flash

-----------------------------------------------------------------------------
Init ==
    /\ status = "Idle" /\ mutex = "free"
    /\ meta = [url |-> NoRelease, sha |-> NoRelease]
    /\ hpc = "idle" /\ offer = NoRelease /\ uploaded = 0
    /\ pc = [t \in Tasks |-> "none"]
    /\ url = [t \in Tasks |-> NoRelease]
    /\ sent = [t \in Tasks |-> 0] /\ got = [t \in Tasks |-> <<>>]
    /\ started = [t \in Tasks |-> FALSE] /\ failed = [t \in Tasks |-> FALSE]
    /\ update = Stopped
    /\ slot = [s \in Slots |-> [pieces |-> Whole("manual"), sealed |-> TRUE]]
    /\ running = "A" /\ boot = "A"

-----------------------------------------------------------------------------
(* The HTTPS task.  Requests without a session or CSRF header are refused  *)
(* before they get here.                                                   *)

\* The locals of a handler are gone once it has answered.
Serve(l) ==
    /\ hpc' = l
    /\ offer' = IF l = "idle" THEN NoRelease ELSE offer
    /\ uploaded' = IF l = "idle" THEN 0 ELSE uploaded

TakeMutex(p) == mutex = "free" /\ mutex' = p
GiveMutex == mutex' = "free"

Begin ==
    /\ hpc = "idle"
    /\ hpc' \in {"fetch", "statusTake", "uploadBegin", "restart"}
    /\ UNCHANGED <<offer, uploaded, server, task, update, flash>>

\* Mutant: the last part that differs decides.
CompareSemver_LastPart(a, b) ==
    IF a[3] # b[3] THEN IF a[3] > b[3] THEN 1 ELSE -1
    ELSE IF a[2] # b[2] THEN IF a[2] > b[2] THEN 1 ELSE -1
    ELSE IF a[1] = b[1] THEN 0 ELSE IF a[1] > b[1] THEN 1 ELSE -1

\* compareSemver: the first part that differs decides.
CompareSemver(a, b) ==
    IF a[1] # b[1] THEN IF a[1] > b[1] THEN 1 ELSE -1
    ELSE IF a[2] # b[2] THEN IF a[2] > b[2] THEN 1 ELSE -1
    ELSE IF a[3] = b[3] THEN 0 ELSE IF a[3] > b[3] THEN 1 ELSE -1

\* Mutant: a release that is not older will do.
Newer_NotOlder(v) ==
    CompareSemver(Semver[v], Semver[slot[running].pieces[1]]) >= 0

\* DeviceConfig::firmwareVersion is compiled into the image that runs.
Newer(v) == CompareSemver(Semver[v], Semver[slot[running].pieces[1]]) > 0

\* installOtaHttps and checkReleaseUpdate: no manifest (or one that does not
\* fit its buffer), one without this target, version, URL or digest, or with
\* metadata that is too long, or no newer version ends the request; otherwise
\* the manifest of this moment names a release.
Fetch ==
    /\ hpc = "fetch"
    /\ \/ Serve("idle")
       \/ \E v \in Versions :
            /\ Newer(v)
            /\ hpc' = "take" /\ offer' = v /\ UNCHANGED uploaded
    /\ UNCHANGED <<server, task, update, flash>>

\* Mutant: the URL is copied before the status is tested.
InstallTake_WritesFirst ==
    /\ hpc = "take"
    /\ TakeMutex("httpd")
    /\ meta' = [meta EXCEPT !.url = offer]
    /\ Serve("decide")
    /\ UNCHANGED <<status, task, update, flash>>

InstallTake ==
    /\ hpc = "take"
    /\ TakeMutex("httpd")
    /\ Serve("decide")
    /\ UNCHANGED <<status, meta, task, update, flash>>

\* 409 when an installation is in progress, else the metadata is written.
InstallBusy ==
    /\ hpc = "decide" /\ status = "Running"
    /\ GiveMutex
    /\ Serve("idle")
    /\ UNCHANGED <<status, meta, task, update, flash>>

\* Mutant: no test for an installation in progress.
InstallWriteUrl_Anyway ==
    /\ hpc = "decide"
    /\ meta' = [meta EXCEPT !.url = offer]
    /\ Serve("writeSha")
    /\ UNCHANGED <<status, mutex, task, update, flash>>

InstallWriteUrl ==
    /\ hpc = "decide" /\ status # "Running"
    /\ meta' = [meta EXCEPT !.url = offer]
    /\ Serve("writeSha")
    /\ UNCHANGED <<status, mutex, task, update, flash>>

InstallWriteSha ==
    /\ hpc = "writeSha"
    /\ meta' = [meta EXCEPT !.sha = offer]
    /\ Serve("writeStatus")
    /\ UNCHANGED <<status, mutex, task, update, flash>>

InstallWriteStatus ==
    /\ hpc = "writeStatus"
    /\ status' = "Running"
    /\ GiveMutex
    /\ Serve("spawn")
    /\ UNCHANGED <<meta, task, update, flash>>

\* xTaskCreate(releaseInstallTask, ...)
Spawn ==
    /\ hpc = "spawn"
    /\ \E t \in Tasks :
        /\ pc[t] = "none"
        /\ pc' = [pc EXCEPT ![t] = "init"]
    /\ Serve("idle")
    /\ UNCHANGED <<server, url, sent, got, started, failed, update, flash>>

SpawnFails ==
    /\ hpc = "spawn"
    /\ Serve("failTake")
    /\ UNCHANGED <<server, task, update, flash>>

SpawnFailTake ==
    /\ hpc = "failTake"
    /\ TakeMutex("httpd")
    /\ Serve("failSet")
    /\ UNCHANGED <<status, meta, task, update, flash>>

SpawnFailSet ==
    /\ hpc = "failSet"
    /\ status' = "Failed"
    /\ GiveMutex
    /\ Serve("idle")
    /\ UNCHANGED <<meta, task, update, flash>>

\* otaInstallStatusHttps: copyReleaseInstallStatus.
StatusTake ==
    /\ hpc = "statusTake"
    /\ TakeMutex("httpd")
    /\ Serve("statusCopy")
    /\ UNCHANGED <<status, meta, task, update, flash>>

StatusCopy ==
    /\ hpc = "statusCopy"
    /\ GiveMutex
    /\ Serve("idle")
    /\ UNCHANGED <<status, meta, task, update, flash>>

\* handleHttpsUpdate.
UploadBegin ==
    /\ hpc = "uploadBegin"
    /\ \/ BeginOk /\ Serve("uploadData")
       \/ BeginFails /\ Serve("idle")
    /\ UNCHANGED <<server, task>>

UploadData ==
    /\ hpc = "uploadData" /\ uploaded < Chunks
    /\ WriteOk("manual")
    /\ uploaded' = uploaded + 1
    /\ UNCHANGED <<hpc, offer, server, task>>

UploadWriteFails ==
    /\ hpc = "uploadData" /\ uploaded < Chunks
    /\ WriteFails
    /\ Serve("uploadAbort")
    /\ UNCHANGED <<server, task>>

UploadLost ==
    /\ hpc = "uploadData" /\ uploaded < Chunks
    /\ Serve("uploadAbort")
    /\ UNCHANGED <<server, task, update, flash>>

UploadAbort ==
    /\ hpc = "uploadAbort"
    /\ Abort
    /\ Serve("idle")
    /\ UNCHANGED <<server, task>>

UploadReceived ==
    /\ hpc = "uploadData" /\ uploaded = Chunks
    /\ Serve("uploadEnd")
    /\ UNCHANGED <<server, task, update, flash>>

UploadEnd ==
    /\ hpc = "uploadEnd"
    /\ \/ EndOk /\ Serve("restart")
       \/ EndFails /\ Serve("idle")
    /\ UNCHANGED <<server, task>>

-----------------------------------------------------------------------------
(* An install task: releaseInstallTask and installReleaseUpdate.           *)

Step(t, l) == pc' = [pc EXCEPT ![t] = l]

\* The client copies the URL; the digest is only pointed to.
TaskInit(t) ==
    /\ pc[t] = "init"
    /\ url' = [url EXCEPT ![t] = meta.url]
    /\ sent' = [sent EXCEPT ![t] = 0] /\ got' = [got EXCEPT ![t] = <<>>]
    /\ started' = [started EXCEPT ![t] = FALSE]
    /\ failed' = [failed EXCEPT ![t] = FALSE]
    /\ Step(t, "data") \/ Step(t, "failTake")
    /\ UNCHANGED <<server, httpd, update, flash>>

\* otaDownloadEvent: esp_http_client_perform goes on calling it with the rest
\* of the body after it has reported a failure.
TaskData(t) ==
    /\ pc[t] = "data" /\ sent[t] < Chunks
    /\ sent' = [sent EXCEPT ![t] = @ + 1]
    /\ Step(t, IF started[t] THEN "write" ELSE "begin")
    /\ UNCHANGED <<server, httpd, url, got, started, failed, update, flash>>

TaskBegin(t) ==
    /\ pc[t] = "begin"
    /\ \/ /\ BeginOk
          /\ started' = [started EXCEPT ![t] = TRUE]
          /\ Step(t, "write") /\ UNCHANGED failed
       \/ /\ BeginFails
          /\ failed' = [failed EXCEPT ![t] = TRUE]
          /\ Step(t, "data") /\ UNCHANGED started
    /\ UNCHANGED <<server, httpd, url, sent, got>>

\* The server may send another image than the one the release names.
TaskWrite(t) ==
    /\ pc[t] = "write"
    /\ \E img \in {url[t], "other"} :
        /\ WriteOk(img)
        /\ got' = [got EXCEPT ![t] = Append(@, img)]
    /\ Step(t, "data")
    /\ UNCHANGED <<server, httpd, url, sent, started, failed>>

TaskWriteFails(t) ==
    /\ pc[t] = "write"
    /\ WriteFails
    /\ failed' = [failed EXCEPT ![t] = TRUE]
    /\ Step(t, "abort")
    /\ UNCHANGED <<server, httpd, url, sent, got, started>>

TaskAbort(t) ==
    /\ pc[t] = "abort"
    /\ Abort
    /\ Step(t, "data")
    /\ UNCHANGED <<server, httpd, url, sent, got, started, failed>>

\* Mutant: the digest is not compared.
Verified_NoDigest(t) ==
    /\ ~failed[t] /\ started[t]
    /\ sent[t] = Chunks

\* perform returns, at any point when the connection is lost.  Everything must
\* be right before Update.end: no failure, all data, the size and the digest.
Verified(t) ==
    /\ ~failed[t] /\ started[t]
    /\ sent[t] = Chunks
    /\ got[t] = Whole(meta.sha)

TaskVerified(t) ==
    /\ pc[t] = "data"
    /\ Verified(t)
    /\ Step(t, "end")
    /\ UNCHANGED <<server, httpd, url, sent, got, started, failed, update, flash>>

\* Mutant: a download that failed does not stop the update it began.
TaskGivesUp_NoAbort(t) ==
    /\ pc[t] = "data"
    /\ Step(t, "failTake")
    /\ UNCHANGED <<server, httpd, url, sent, got, started, failed, update, flash>>

TaskGivesUp(t) ==
    /\ pc[t] = "data"
    /\ Step(t, IF started[t] THEN "abortLast" ELSE "failTake")
    /\ UNCHANGED <<server, httpd, url, sent, got, started, failed, update, flash>>

TaskAbortLast(t) ==
    /\ pc[t] = "abortLast"
    /\ Abort
    /\ Step(t, "failTake")
    /\ UNCHANGED <<server, httpd, url, sent, got, started, failed>>

\* Mutant: the result of Update.end is not looked at.
TaskEnd_ResultIgnored(t) ==
    /\ pc[t] = "end"
    /\ EndOk \/ EndFails
    /\ Step(t, "okTake")
    /\ UNCHANGED <<server, httpd, url, sent, got, started, failed>>

TaskEnd(t) ==
    /\ pc[t] = "end"
    /\ \/ EndOk /\ Step(t, "okTake")
       \/ EndFails /\ Step(t, "failTake")
    /\ UNCHANGED <<server, httpd, url, sent, got, started, failed>>

\* setReleaseInstallStatus.
TaskTake(t) ==
    /\ \/ pc[t] = "failTake" /\ Step(t, "failSet")
       \/ pc[t] = "okTake" /\ Step(t, "okSet")
    /\ TakeMutex(t)
    /\ UNCHANGED <<status, meta, httpd, url, sent, got, started, failed, update,
                   flash>>

\* Mutant: a failed task deletes itself without reporting.
TaskFailed_Silent(t) ==
    /\ pc[t] = "failSet"
    /\ GiveMutex
    /\ Step(t, "none")
    /\ url' = [url EXCEPT ![t] = NoRelease]
    /\ sent' = [sent EXCEPT ![t] = 0] /\ got' = [got EXCEPT ![t] = <<>>]
    /\ started' = [started EXCEPT ![t] = FALSE]
    /\ failed' = [failed EXCEPT ![t] = FALSE]
    /\ UNCHANGED <<status, meta, httpd, update, flash>>

\* The task deletes itself; what its locals held is gone.
TaskFailed(t) ==
    /\ pc[t] = "failSet"
    /\ status' = "Failed"
    /\ GiveMutex
    /\ Step(t, "none")
    /\ url' = [url EXCEPT ![t] = NoRelease]
    /\ sent' = [sent EXCEPT ![t] = 0] /\ got' = [got EXCEPT ![t] = <<>>]
    /\ started' = [started EXCEPT ![t] = FALSE]
    /\ failed' = [failed EXCEPT ![t] = FALSE]
    /\ UNCHANGED <<meta, httpd, update, flash>>

\* "Update installed. Restarting...", then a delay before ESP.restart().
TaskSucceeded(t) ==
    /\ pc[t] = "okSet"
    /\ status' = "Succeeded"
    /\ GiveMutex
    /\ Step(t, "restart")
    /\ UNCHANGED <<meta, httpd, url, sent, got, started, failed, update, flash>>

-----------------------------------------------------------------------------
\* ESP.restart(), by a finished task or upload, the Wi-Fi form or the reset, or
\* a power failure: RAM is lost, and the boot loader takes the selected slot, or
\* the other one when that image is not intact.
Restart ==
    /\ running' = IF Bootable(boot) THEN boot ELSE IF boot = "A" THEN "B" ELSE "A"
    /\ status' = "Idle" /\ mutex' = "free" /\ update' = Stopped
    /\ meta' = [url |-> NoRelease, sha |-> NoRelease]
    /\ hpc' = "idle" /\ offer' = NoRelease /\ uploaded' = 0
    /\ pc' = [t \in Tasks |-> "none"]
    /\ url' = [t \in Tasks |-> NoRelease]
    /\ sent' = [t \in Tasks |-> 0] /\ got' = [t \in Tasks |-> <<>>]
    /\ started' = [t \in Tasks |-> FALSE]
    /\ failed' = [t \in Tasks |-> FALSE]
    /\ UNCHANGED <<slot, boot>>

HttpdStep ==
    \/ Fetch \/ InstallTake \/ InstallBusy \/ InstallWriteUrl
    \/ InstallWriteSha \/ InstallWriteStatus \/ Spawn \/ SpawnFails
    \/ SpawnFailTake \/ SpawnFailSet \/ StatusTake \/ StatusCopy
    \/ UploadBegin \/ UploadData \/ UploadWriteFails \/ UploadLost
    \/ UploadAbort \/ UploadReceived \/ UploadEnd

TaskStep(t) ==
    \/ TaskInit(t) \/ TaskData(t) \/ TaskBegin(t) \/ TaskWrite(t)
    \/ TaskWriteFails(t) \/ TaskAbort(t) \/ TaskVerified(t) \/ TaskGivesUp(t)
    \/ TaskAbortLast(t) \/ TaskEnd(t) \/ TaskTake(t) \/ TaskFailed(t)
    \/ TaskSucceeded(t)

Next == Begin \/ HttpdStep \/ (\E t \in Tasks : TaskStep(t)) \/ Restart

Spec == Init /\ [][Next]_vars

\* Every task runs; a download, an upload and a manifest request end or time
\* out; the mutex is fair to each waiter, so a task that waits gets it.
FairSpec ==
    /\ Spec
    /\ WF_vars(HttpdStep)
    /\ SF_vars(InstallTake \/ SpawnFailTake \/ StatusTake)
    /\ \A t \in Tasks : WF_vars(TaskStep(t)) /\ SF_vars(TaskTake(t))

-----------------------------------------------------------------------------
(* Properties.                                                             *)

\* A task that has not reported yet.
Installing(t) == pc[t] \notin {"none", "restart"}

\* One release install at a time: the status is Running from before the task
\* exists until it reports, and the test and the write are under the mutex.
OneInstaller ==
    \A t, u \in Tasks : Installing(t) /\ Installing(u) => t = u

\* The install task reads URL and digest without the mutex, yet they are not
\* rewritten under it: it verifies the release it downloads.
MetadataFrozen ==
    \A t \in Tasks : Installing(t) =>
        /\ meta.url = meta.sha
        /\ pc[t] # "init" => url[t] = meta.url

\* An image whose SHA-256 did not match the manifest is never selected.
NeverSelectsUnverified ==
    slot[boot].sealed => slot[boot].pieces # Whole("other")

\* Update.begin is refused while an update runs, so one that nobody goes on to
\* end or abort would refuse every install and upload until a restart: on every
\* error path somebody is still there to stop what was begun.
UpdateOwned ==
    update.running =>
        \/ hpc \in {"uploadData", "uploadAbort", "uploadEnd"}
        \/ \E t \in Tasks :
              started[t] /\ pc[t] \in {"data", "write", "abort", "abortLast", "end"}

\* The order of versions.
Precedes(a, b) ==
    \E i \in 1..3 : a[i] < b[i] /\ \A j \in 1..(i-1) : a[j] = b[j]

\* A release install never takes the device back: the release it boots into is
\* newer than the image it ran, whatever manifests say meanwhile, whichever task
\* ended the update and wherever the power failed.
NoDowngrade ==
    [][\A v \in Versions :
           running' # running /\ slot[running'].pieces[1] = v =>
               Precedes(Semver[slot[running].pieces[1]], Semver[v])]_vars

\* However tasks and uploads share the object Update, lose connections or meet a
\* power failure, the device boots the image it ran, an uploaded one or the newer
\* release whose install it had accepted and not yet reported.
FirmwareView == INSTANCE Firmware WITH
    Releases <- Versions, Upload <- "manual",
    Upgrades <- {p \in Images \X Versions : Precedes(Semver[p[1]], Semver[p[2]])},
    runs <- slot[running].pieces[1],
    next <- IF Bootable(boot) THEN slot[boot].pieces[1] ELSE slot[running].pieces[1],
    accepted <- IF status = "Running" THEN meta.url ELSE NoRelease
FirmwareSpec == FirmwareView!Spec

\* What was reported as installed stays selected until the restart: the device
\* boots it, unless another install or upload has begun to erase it meanwhile,
\* and then the boot loader does not take it for an image.
InstalledOrErased ==
    \A t \in Tasks : pc[t] = "restart" =>
        boot = Inactive /\ (Bootable(boot) \/ ~slot[boot].sealed)

\* An update that was begun ends, so that the next install or upload is not
\* refused for ever, whichever of the two was begun and however it fails.
UpdateEnds == update.running ~> ~update.running

\* An accepted install ends: in success, failure or a restart.
InstallEnds == status = "Running" ~> status # "Running"

\* An update that was reported as installed is what the device restarts into.
\* The code breaks this: during the delay before the restart another install or
\* upload may begin, which erases the slot just verified.
InstalledImageBoots ==
    \A t \in Tasks : pc[t] = "restart" => boot = Inactive /\ Bootable(boot)
=============================================================================
