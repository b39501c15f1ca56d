--------------------------- MODULE WifiProvisioning ---------------------------
(***************************************************************************)
(* The saved Wi-Fi settings and the mode the device boots into.            *)
(*   boot    the e-paper panel in builds that have one, ConfigStore::load, *)
(*           then WifiConnection::connect                                  *)
(*   normal  the administrator may save other settings or erase them       *)
(*   portal  the access point of the setup mode, whose form saves settings *)
(* The settings are two entries of one namespace of the flash (NVS), next  *)
(* to admin_pass of earlier firmware; every access to it may fail.  One    *)
(* task serves the forms, one at a time, and a restart may come at any     *)
(* time: a power failure, or the end of a firmware update.                 *)
(*                                                                         *)
(* An entry is the form it was submitted with, so that a pair of entries   *)
(* of two forms shows.  A step is one access to the flash.                 *)
(***************************************************************************)
CONSTANTS
    Forms,      \* the pairs of network and password that are submitted
    Open,       \* those for an open network, with an empty password
    Rejected,   \* those with an empty or too long field
    Epaper      \* the build has the e-paper panel

Empty == "empty"    \* no entry, or an empty string

ASSUME FormsAssumption ==
    /\ Open \subseteq Forms /\ Rejected \subseteq Forms /\ Epaper \in BOOLEAN
    /\ Forms \cap {Empty, "nothing", "refused", "erased"} = {}

VARIABLES
    nvs,        \* the entries wifi_ssid and wifi_pass
    legacy,     \* the entry admin_pass is there
    mode,       \* deviceMode_, and how far begin() got
    settings,   \* the DeviceSettings the device connects with
    at,         \* where the handler of a request stands
    form,       \* the DeviceSettings it was sent
    ssidSaved,  \* save: ssidBytes > 0
    passwordSaved,
    told,       \* history: the last answer about the entries as they are
    torn        \* history: a save or a reset was left unfinished

boot == <<mode, settings>>
request == <<at, form, ssidSaved, passwordSaved>>
vars == <<nvs, legacy, boot, request, told, torn>>

Pairs == [ssid : Forms \cup {Empty}, password : Forms \cup {Empty}]
Pair(f) == [ssid |-> f, password |-> f]

Modes == {"panel", "show", "load", "legacy", "connect", "startPortal", "normal", "portal"}
Steps == {"idle", "load", "loadLegacy", "open", "ssid", "password", "legacy",
          "answer", "clear", "erase", "restart"}

TypeOK ==
    /\ nvs \in Pairs /\ legacy \in BOOLEAN
    /\ mode \in Modes /\ settings \in Pairs
    /\ at \in Steps /\ form \in Forms \cup {Empty}
    /\ ssidSaved \in BOOLEAN /\ passwordSaved \in BOOLEAN
    /\ told \in Forms \cup {"nothing", "refused", "erased"}
    /\ torn \in BOOLEAN

NoRequest == /\ at' = "idle" /\ form' = Empty
             /\ ssidSaved' = FALSE /\ passwordSaved' = FALSE

-----------------------------------------------------------------------------
(* Boot: Application::begin.                                               *)

FirstMode == IF Epaper THEN "panel" ELSE "load"

\* waitWhileBusy: the panel is no longer busy, once initialised and once more
\* after the refresh.  Nothing says it ever will be.
PanelReady ==
    /\ mode \in {"panel", "show"}
    /\ mode' = IF mode = "panel" THEN "show" ELSE "load"
    /\ UNCHANGED <<nvs, legacy, settings, request, told, torn>>

\* Mutant: the first wait has no limit.
PanelTimeout_OnlyRefresh ==
    /\ mode = "show"
    /\ mode' = "load"
    /\ UNCHANGED <<nvs, legacy, settings, request, told, torn>>

\* After 30 seconds begin or displayFramebuffer gives up, and the device boots
\* without its panel.
PanelTimeout ==
    /\ mode \in {"panel", "show"}
    /\ mode' = "load"
    /\ UNCHANGED <<nvs, legacy, settings, request, told, torn>>

\* ConfigStore::load: each getString that fails reads an empty string, isKey
\* that fails finds no entry, and nothing is read when the namespace cannot be
\* opened.  No other access comes between the reads of a boot.
BootLoad ==
    /\ mode = "load"
    /\ settings' \in [ssid : {nvs.ssid, Empty}, password : {nvs.password, Empty}]
    /\ mode' = "connect" \/ (legacy /\ mode' = "legacy")
    /\ UNCHANGED <<nvs, legacy, request, told, torn>>

\* "removed legacy admin_pass", unless the flash refuses.
BootLegacy ==
    /\ mode = "legacy"
    /\ mode' = "connect"
    /\ legacy' \in {legacy, FALSE}
    /\ UNCHANGED <<nvs, settings, request, told, torn>>

\* connect: needs a network name, and answers within 15 seconds.
Connect ==
    /\ mode = "connect"
    /\ \/ settings.ssid # Empty /\ mode' = "normal"
       \/ mode' = "startPortal"
    /\ UNCHANGED <<nvs, legacy, settings, request, told, torn>>

StartPortal ==
    /\ mode = "startPortal"
    /\ mode' = "portal"
    /\ UNCHANGED <<nvs, legacy, settings, request, told, torn>>

\* Everything in RAM is lost.  A request that had not finished its writes
\* leaves some of them undone.
Reboot ==
    /\ mode' = FirstMode /\ settings' = Pair(Empty)
    /\ NoRequest
    /\ torn' = (torn \/ at \in {"password", "erase"})
    /\ UNCHANGED <<nvs, legacy, told>>

\* The access point does not start: restart, after a delay.
PortalFails == mode = "startPortal" /\ Reboot

PowerLoss == Reboot

-----------------------------------------------------------------------------
(* The two forms: saveCredentials in the portal and updateWifiHttps in     *)
(* normal mode, which loads the settings first and then replaces them.     *)

Submit ==
    /\ at = "idle" /\ mode \in {"portal", "normal"}
    /\ form' \in Forms
    /\ at' = IF mode = "portal" THEN "open" ELSE "load"
    /\ UNCHANGED <<nvs, legacy, boot, ssidSaved, passwordSaved, told, torn>>

\* Of what it loads only the old password entry matters, if it is seen.
FormLoad ==
    /\ at = "load"
    /\ at' = "open" \/ (legacy /\ at' = "loadLegacy")
    /\ UNCHANGED <<nvs, legacy, boot, form, ssidSaved, passwordSaved, told, torn>>

FormLegacy ==
    /\ at = "loadLegacy"
    /\ at' = "open"
    /\ legacy' \in {legacy, FALSE}
    /\ UNCHANGED <<nvs, boot, form, ssidSaved, passwordSaved, told, torn>>

\* save: wrong lengths, or the namespace cannot be opened for writing.
SaveRefused ==
    /\ at = "open"
    /\ NoRequest
    /\ UNCHANGED <<nvs, legacy, boot, told, torn>>

SaveOpen ==
    /\ at = "open" /\ form \notin Rejected
    /\ at' = "ssid"
    /\ UNCHANGED <<nvs, legacy, boot, form, ssidSaved, passwordSaved, told, torn>>

\* From the first write on the last answer is out of date.
SaveSsid ==
    /\ at = "ssid"
    /\ at' = "password"
    /\ told' = "nothing"
    /\ \/ nvs' = [nvs EXCEPT !.ssid = form] /\ ssidSaved' = TRUE
       \/ UNCHANGED nvs /\ ssidSaved' = FALSE
    /\ UNCHANGED <<legacy, boot, form, passwordSaved, torn>>

\* Mutant: the number of bytes written is not looked at.
SavePassword_Unchecked ==
    /\ at = "password"
    /\ at' = "legacy"
    /\ passwordSaved' = TRUE
    /\ \/ nvs' = [nvs EXCEPT !.password = form] /\ torn' = ~ssidSaved
       \/ UNCHANGED nvs /\ torn' = TRUE
    /\ UNCHANGED <<legacy, boot, form, ssidSaved, told>>

\* Mutant: an empty password is not written.
SavePassword_NotEmpty ==
    /\ at = "password"
    /\ at' = "legacy"
    /\ \/ /\ nvs' = IF form \in Open THEN nvs ELSE [nvs EXCEPT !.password = form]
          /\ passwordSaved' = TRUE /\ torn' = ~ssidSaved
       \/ UNCHANGED nvs /\ passwordSaved' = (form \in Open) /\ torn' = TRUE
    /\ UNCHANGED <<legacy, boot, form, ssidSaved, told>>

\* putString of an empty string returns 0 whether it was written or not, and
\* counts as saved.
SavePassword ==
    /\ at = "password"
    /\ at' = "legacy"
    /\ \/ /\ nvs' = [nvs EXCEPT !.password = form]
          /\ passwordSaved' = TRUE /\ torn' = ~ssidSaved
       \/ UNCHANGED nvs /\ passwordSaved' = (form \in Open) /\ torn' = TRUE
    /\ UNCHANGED <<legacy, boot, form, ssidSaved, told>>

SaveLegacy ==
    /\ at = "legacy"
    /\ at' = "answer"
    /\ legacy' \in {legacy, FALSE}
    /\ UNCHANGED <<nvs, boot, form, ssidSaved, passwordSaved, told, torn>>

\* Mutant: the device goes on with the settings it has.
SaveAnswer_NoRestart ==
    /\ at = "answer"
    /\ told' = IF ssidSaved /\ passwordSaved THEN form ELSE "refused"
    /\ NoRequest
    /\ UNCHANGED <<nvs, legacy, boot, torn>>

\* "Wi-Fi saved. The device is restarting...", or 400 and no restart.
SaveAnswer ==
    /\ at = "answer"
    /\ \/ /\ ssidSaved /\ passwordSaved
          /\ told' = form
          /\ at' = "restart" /\ UNCHANGED <<form, ssidSaved, passwordSaved>>
       \/ /\ ~(ssidSaved /\ passwordSaved)
          /\ told' = "refused"
          /\ NoRequest
    /\ UNCHANGED <<nvs, legacy, boot, torn>>

-----------------------------------------------------------------------------
(* resetHttps: ConfigStore::clear erases the entries one by one.           *)

Reset ==
    /\ at = "idle" /\ mode = "normal"
    /\ at' = "clear"
    /\ UNCHANGED <<nvs, legacy, boot, form, ssidSaved, passwordSaved, told, torn>>

\* 500: the namespace cannot be opened for writing.
ClearRefused ==
    /\ at = "clear"
    /\ NoRequest
    /\ UNCHANGED <<nvs, legacy, boot, told, torn>>

ClearBegin ==
    /\ at = "clear"
    /\ at' = "erase" /\ told' = "nothing"
    /\ UNCHANGED <<nvs, legacy, boot, form, ssidSaved, passwordSaved, torn>>

Erase ==
    /\ at = "erase"
    /\ \/ /\ \E key \in {"ssid", "password"} :
               nvs[key] # Empty /\ nvs' = [nvs EXCEPT ![key] = Empty]
          /\ UNCHANGED legacy
       \/ legacy /\ legacy' = FALSE /\ UNCHANGED nvs
    /\ UNCHANGED <<boot, request, told, torn>>

\* 500: the flash refuses, with some of the entries erased already.
EraseFails ==
    /\ at = "erase"
    /\ NoRequest
    /\ told' = "refused" /\ torn' = TRUE
    /\ UNCHANGED <<nvs, legacy, boot>>

\* "Saved data erased. The device is restarting..."
Erased ==
    /\ at = "erase" /\ nvs = Pair(Empty) /\ ~legacy
    /\ at' = "restart"
    /\ told' = "erased" /\ torn' = FALSE
    /\ UNCHANGED <<nvs, legacy, boot, form, ssidSaved, passwordSaved>>

\* ESP.restart(), after the delay that lets the answer out.
Restart == at = "restart" /\ Reboot

-----------------------------------------------------------------------------
\* A new device, or one set up by earlier firmware.
Init ==
    /\ nvs \in {Pair(f) : f \in (Forms \ Rejected) \cup {Empty}}
    /\ legacy \in BOOLEAN
    /\ mode = FirstMode /\ settings = Pair(Empty)
    /\ at = "idle" /\ form = Empty
    /\ ssidSaved = FALSE /\ passwordSaved = FALSE
    /\ told = "nothing" /\ torn = FALSE

BootStep == PanelTimeout \/ BootLoad \/ BootLegacy \/ Connect \/ StartPortal \/ PortalFails

HandlerStep ==
    \/ FormLoad \/ FormLegacy \/ SaveRefused \/ SaveOpen \/ SaveSsid
    \/ SavePassword \/ SaveLegacy \/ SaveAnswer
    \/ ClearRefused \/ ClearBegin \/ Erase \/ EraseFails \/ Erased
    \/ Restart

Next == PanelReady \/ BootStep \/ Submit \/ Reset \/ HandlerStep \/ PowerLoss

Spec == Init /\ [][Next]_vars

\* The boot goes on, with or without an answer of the panel.  Nothing is assumed
\* of the network or the access point.
FairSpec == Spec /\ WF_vars(BootStep)

-----------------------------------------------------------------------------
(* Properties.                                                             *)

\* What the last answer said is what the flash holds, through any number of
\* restarts: after "saved" the network and a password that is not empty, after
\* "erased" nothing.
StoredAsTold ==
    /\ told \in Forms => /\ nvs.ssid = told
                         /\ told \notin Open => nvs.password = told
    /\ told = "erased" => nvs = Pair(Empty) /\ ~legacy

\* A network is never paired with the password of another one, unless a write
\* failed or a restart came between the two.
PairFromOneForm ==
    ~torn /\ at \notin {"password", "erase"} => nvs.ssid = nvs.password

\* The device never goes on in normal mode with another network than it told it
\* had saved or with the password of another one (a password that could not be
\* read is empty), nor after it told that it had erased them.
RunsAsTold ==
    mode = "normal" /\ at # "restart" =>
        /\ told # "erased"
        /\ told \in Forms => /\ settings.ssid = told
                             /\ told \notin Open => settings.password \in {told, Empty}

\* Once the power stays on a boot gets past the panel and the flash, whatever
\* fails there, to normal mode or to the start of the access point.  What follows
\* is not promised: an access point that does not start restarts the device,
\* time and again.
PowerStaysOn == <>[][PowerLoss => PortalFails \/ Restart]_vars
BootEnds ==
    PowerStaysOn => (mode \in {"panel", "show", "load", "legacy", "connect"}
                         ~> mode \in {"normal", "startPortal"})
=============================================================================
