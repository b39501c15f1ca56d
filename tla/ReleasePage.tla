----------------------------- MODULE ReleasePage -----------------------------
(***************************************************************************)
(* The release part of the administration page and the device it talks to. *)
(* The script asks for a newer release, has the administrator confirm the  *)
(* one it shows, posts the install and polls its status every 1.5 s.  The  *)
(* HTTPS task serves it between the requests of other pages; an answer can *)
(* be lost, and a restart loses every request and the session.             *)
(***************************************************************************)
EXTENDS OtaUpdate

VARIABLES
    page,       \* what the script is doing
    otaVersion, \* the release its button names
    csrf,       \* the token in the page is that of the session
    client      \* whom the HTTPS task will answer

pageVars == <<page, otaVersion, csrf, client>>
allVars == <<vars, pageVars>>

\* "found" shows the button, unlocked; "done" leaves it locked; "lost" waits for
\* an answer that will not come.
PageStates == {"ready", "checking", "found", "asking", "waiting", "polling",
               "done", "lost", "reload"}

\* The await fetch of the install and of the status.
Asking == page \in {"asking", "polling"}

\* From the confirmation to the moment the script lets go of the buttons.
Locked == page \in {"asking", "waiting", "polling", "lost"}

PageTypeOK ==
    /\ TypeOK
    /\ page \in PageStates /\ otaVersion \in Releases
    /\ csrf \in BOOLEAN /\ client \in {"page", "other", "none"}
    /\ client = "page" => Asking

PageInit ==
    /\ Init
    /\ page = "ready" /\ otaVersion = NoRelease /\ csrf = TRUE /\ client = "none"

-----------------------------------------------------------------------------
(* The script between two requests.                                        *)

Check ==
    /\ page \in {"ready", "found"}
    /\ page' = "checking" /\ otaVersion' = NoRelease
    /\ UNCHANGED <<csrf, client, vars>>

\* checkOtaHttps reads the manifest of this moment and changes nothing; without
\* a newer release, or an answer, the button stays hidden.
Checked ==
    /\ page = "checking" /\ hpc = "idle"
    /\ \/ page' = "ready" /\ UNCHANGED otaVersion
       \/ csrf /\ page' = "found" /\ \E v \in Versions : Newer(v) /\ otaVersion' = v
    /\ UNCHANGED <<csrf, client, vars>>

\* window.confirm names otaVersion; the request that follows does not.
Confirm ==
    /\ page = "found"
    /\ page' = "asking"
    /\ UNCHANGED <<otaVersion, csrf, client, vars>>

\* setTimeout(r, 1500)
Poll ==
    /\ page = "waiting"
    /\ page' = "polling"
    /\ UNCHANGED <<otaVersion, csrf, client, vars>>

\* location.reload() is a new page, once the user has signed in again.
Reload ==
    /\ page \in {"ready", "found", "done", "reload"}
    /\ page' = "ready" /\ otaVersion' = NoRelease /\ csrf' = TRUE
    /\ UNCHANGED <<client, vars>>

-----------------------------------------------------------------------------
(* Its requests.                                                           *)

\* The HTTPS task takes a request of the page: the install needs the CSRF token,
\* the status only the cookie, which another page may have renewed.
Take ==
    /\ hpc = "idle"
    /\ \/ page = "asking" /\ csrf /\ hpc' = "fetch"
       \/ page = "polling" /\ hpc' = "statusTake"
    /\ client' = "page"
    /\ UNCHANGED <<offer, uploaded, server, task, update, flash, page, otaVersion,
                   csrf>>

\* 401 or 403: no session, or one this page is not of.
Refuse ==
    /\ hpc = "idle" /\ Asking
    /\ page' = "reload"
    /\ UNCHANGED <<otaVersion, csrf, client, vars>>

\* The request or the answer is lost: "Installation failed.", and the buttons are
\* unlocked; the handler goes on with nobody to hear it.
Lose ==
    /\ Asking \/ page = "lost"
    /\ page' = "found"
    /\ client' = IF client = "page" THEN "other" ELSE client
    /\ UNCHANGED <<otaVersion, csrf, vars>>

OtherRequest ==
    /\ Begin
    /\ client' = "other"
    /\ UNCHANGED <<page, otaVersion, csrf>>

\* Mutant: the script waits for success only.
Reply_OnlySuccessEnds ==
    CASE hpc = "spawn" -> "waiting"
      [] hpc = "statusCopy" -> IF status = "Succeeded" THEN "done" ELSE "waiting"
      [] OTHER -> "found"

\* Mutant: whatever is not a failure is taken for success.
Reply_NoFailureIsSuccess ==
    CASE hpc = "spawn" -> "waiting"
      [] hpc = "statusCopy" /\ status # "Failed" -> "done"
      [] OTHER -> "found"

\* What the script does with the answer of a handler that ends now: 202 when the
\* task was started, the status copied under the mutex, or a refusal.
Reply ==
    CASE hpc = "spawn" -> "waiting"
      [] hpc = "statusCopy" /\ status = "Running" -> "waiting"
      [] hpc = "statusCopy" /\ status = "Succeeded" -> "done"
      [] OTHER -> "found"

ServeStep ==
    /\ HttpdStep
    /\ page' = IF hpc' = "idle" /\ client = "page" THEN Reply ELSE page
    /\ client' = IF hpc' = "idle" THEN "none" ELSE client
    /\ UNCHANGED <<otaVersion, csrf>>

InstallTaskStep == (\E t \in Tasks : TaskStep(t)) /\ UNCHANGED pageVars

\* The session and every request are gone.
RestartDevice ==
    /\ Restart
    /\ csrf' = FALSE /\ client' = "none"
    /\ page' = IF Asking THEN "lost" ELSE page
    /\ UNCHANGED otaVersion

PageNext ==
    \/ Check \/ Checked \/ Confirm \/ Poll \/ Reload \/ Take \/ Refuse \/ Lose
    \/ OtherRequest \/ ServeStep \/ InstallTaskStep \/ RestartDevice

PageSpec == PageInit /\ [][PageNext]_allVars

\* As in OtaUpdate; besides, a handler or task that delays before ESP.restart()
\* restarts the device, the browser's timer fires, a fetch without an answer ends
\* in an error, and the HTTPS task comes to every waiting request.
PageFairSpec ==
    /\ PageSpec
    /\ WF_allVars(ServeStep)
    /\ SF_allVars((InstallTake \/ SpawnFailTake \/ StatusTake) /\ ServeStep)
    /\ \A t \in Tasks : /\ WF_allVars(TaskStep(t) /\ UNCHANGED pageVars)
                        /\ SF_allVars(TaskTake(t) /\ UNCHANGED pageVars)
    /\ WF_allVars((hpc = "restart" \/ \E t \in Tasks : pc[t] = "restart") /\ RestartDevice)
    /\ WF_allVars(Poll)
    /\ WF_allVars(page = "lost" /\ Lose)
    /\ SF_allVars(Take \/ Refuse)

-----------------------------------------------------------------------------
(* Properties.                                                             *)

\* "Update installed. Restarting..." is said only while an install task is in
\* its delay before ESP.restart() and the slot it wrote is the one selected,
\* whichever page started it.  That the slot still holds the image at the restart
\* is not said: see InstalledImageBoots.
SaysInstalled ==
    [][page' = "done" /\ page # "done" =>
           \E t \in Tasks : pc[t] = "restart" /\ boot = Inactive]_allVars

\* The script does not poll for ever: once installs of other pages stop being
\* accepted, every confirmed install ends with the buttons free, the page
\* reloaded or the restart announced, however tasks fail and answers are lost.
PageEnds ==
    \/ []<><<InstallWriteStatus /\ client = "other">>_allVars
    \/ Locked ~> ~Locked
=============================================================================
