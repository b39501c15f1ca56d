------------------------- MODULE TlsCertificateStore -------------------------
(***************************************************************************)
(* The TLS certificate and private key in flash                            *)
(* (src/config/TlsCertificateStore), its two callers, the boot             *)
(* (LocalWebServer::startHttpsServer) and the upload from the admin page   *)
(* (updateTlsCertificate), and power loss between any two steps.           *)
(*                                                                         *)
(* A file is written by truncating it and printing the new contents, and   *)
(* read by opening it and reading it whole; every open, print, read and    *)
(* removal may fail, and a print or a read may stop short.  A certificate  *)
(* and a key are represented by the bundle they come from.                 *)
(***************************************************************************)
EXTENDS Naturals

CONSTANTS
    Bundles,    \* bundles that pass validateBundle
    Local       \* the bundle compiled in (TlsCredentials.local.h), or "none"

Bad == "bad"    \* a bundle that validateBundle rejects
Unread == {"missing", "empty"}
Contents == Bundles \cup {Bad, "missing", "empty", "partial"}

ASSUME BundlesAssumption ==
    /\ Bundles # {} /\ Local \in Bundles \cup {Bad, "none"}
    /\ Bundles \cap {Bad, "missing", "empty", "partial", "none", "torn"} = {}

VARIABLES
    file,       \* what each path holds
    ram,        \* activeCertificate_ and activePrivateKey_
    at,         \* where the task that works on the store stands
    open,       \* the file it writes is open: truncated, not yet printed
    caller,     \* who called stage: the boot or an upload
    offered,    \* the bundle given to stage
    previous,   \* previousCert, previousKey and whether both were read
    found,      \* history: the pair that was active when they were read
    served,     \* the pair the running HTTPS server was started with
    answer,     \* what the last upload was answered
    torn        \* history: a write of an active file failed or was cut short,
                \* and no bundle has been written or rolled back whole since

before == <<previous, found>>
vars == <<file, ram, at, open, caller, offered, before, served, answer, torn>>

Paths == {"activeCert", "activeKey", "stagedCert", "stagedKey"}
Writes == Paths \cup {"rollbackCert", "rollbackKey"}
Steps == Writes \cup {"mount", "load", "validate", "tidy", "reload", "start",
                      "ready", "closed"}
Pairs == [cert : Contents, key : Contents]
NoPair == [cert |-> "missing", key |-> "missing"]

TypeOK ==
    /\ file \in [Paths -> Contents]
    /\ ram \in Pairs /\ previous \in Pairs /\ found \in Pairs /\ served \in Pairs
    /\ at \in Steps /\ open \in BOOLEAN /\ torn \in BOOLEAN
    /\ caller \in {"boot", "upload"}
    /\ offered \in Bundles \cup {Bad, "none"}
    /\ answer \in {"none", "stored", "rejected"}

Active == [cert |-> file["activeCert"], key |-> file["activeKey"]]
Readable(pair) == pair.cert \notin Unread /\ pair.key \notin Unread
Matched(pair) == pair.cert = pair.key /\ pair.cert \in Bundles

-----------------------------------------------------------------------------
(* Reading.                                                                *)

\* readFile: what is there, nothing or a part of it.
Reads(contents) ==
    IF contents \in Unread THEN {"missing"} ELSE {contents, "missing", "partial"}

\* loadActive: a certificate that cannot be read stops it before the key.
Loads ==
    {pair \in [cert : Reads(file["activeCert"]), key : Reads(file["activeKey"])] :
        pair.cert = "missing" => pair.key = "missing"}

\* stage fails: the upload is answered 400, the boot goes on without HTTPS.
Fail ==
    /\ at' = IF caller = "boot" THEN "closed" ELSE "ready"
    /\ answer' = IF caller = "boot" THEN answer ELSE "rejected"

Go(l) == at' = l /\ UNCHANGED answer

-----------------------------------------------------------------------------
(* Writing a file (writeFile).                                             *)

Target(w) ==
    CASE w = "rollbackCert" -> "activeCert"
      [] w = "rollbackKey" -> "activeKey"
      [] OTHER -> w

\* Mutant: the rollback writes the new key again.
Text_NewKey(w) == IF w = "rollbackCert" THEN previous.cert ELSE offered

\* What is printed to the file.
Text(w) ==
    CASE w = "rollbackCert" -> previous.cert
      [] w = "rollbackKey" -> previous.key
      [] OTHER -> offered

TouchesActive(w) == Target(w) \in {"activeCert", "activeKey"}

\* hadPrevious: both active files were read before the first was overwritten.
HadPrevious == Readable(previous)

ReadPrevious ==
    /\ previous' \in {IF Readable(pair) THEN pair ELSE NoPair : pair \in Loads}
    /\ found' = Active

\* The write succeeded.
Written(w) ==
    \/ w = "stagedCert" /\ Go("stagedKey") /\ UNCHANGED before
    \/ w = "stagedKey" /\ Go("activeCert") /\ ReadPrevious
    \/ w = "activeCert" /\ Go("activeKey") /\ UNCHANGED before
    \/ w = "activeKey" /\ Go("tidy") /\ UNCHANGED before
    \/ w = "rollbackCert" /\ Go("rollbackKey") /\ UNCHANGED before
    \/ w = "rollbackKey" /\ Fail /\ UNCHANGED before

\* Mutant: a key that could not be written is ignored.
WriteFailed_KeyIgnored(w, f) ==
    /\ \/ w = "activeKey" /\ Go("tidy")
       \/ w = "rollbackCert" /\ Go("rollbackKey")
       \/ w \notin {"activeKey", "rollbackCert"} /\ Fail
    /\ file' = f
    /\ torn' = (torn \/ TouchesActive(w))

\* Mutant: a rollback that fails starts over.
WriteFailed_Retries(w, f) ==
    /\ \/ w \in {"activeKey", "rollbackKey"} /\ HadPrevious /\ Go("rollbackCert")
       \/ w = "rollbackCert" /\ Go("rollbackKey")
       \/ w # "rollbackCert" /\ (w \in {"activeKey", "rollbackKey"} => ~HadPrevious)
          /\ Fail
    /\ file' = f
    /\ torn' = (torn \/ TouchesActive(w))

\* The write failed and left f behind.  Only a key that could not be written
\* rolls back; a failed rollback is not reported.
WriteFailed(w, f) ==
    /\ \/ w = "activeKey" /\ HadPrevious /\ Go("rollbackCert")
       \/ w = "rollbackCert" /\ Go("rollbackKey")
       \/ w # "rollbackCert" /\ (w = "activeKey" => ~HadPrevious) /\ Fail
    /\ file' \in IF w = "stagedKey" THEN {f, [f EXCEPT !["stagedCert"] = "missing"]}
                 ELSE {f}
    /\ torn' = (torn \/ TouchesActive(w))

OpenFile ==
    /\ at \in Writes /\ ~open
    /\ open' = TRUE
    /\ file' = [file EXCEPT ![Target(at)] = "empty"]
    /\ UNCHANGED <<ram, at, caller, offered, before, served, answer, torn>>

OpenFails ==
    /\ at \in Writes /\ ~open
    /\ WriteFailed(at, file)
    /\ UNCHANGED <<ram, open, caller, offered, before, served>>

\* With this write both halves of a whole previous bundle are back.
RolledBack ==
    at = "rollbackKey" /\ Matched(previous) /\ file["activeCert"] = previous.cert

PrintFile ==
    /\ at \in Writes /\ open
    /\ open' = FALSE
    /\ file' = [file EXCEPT ![Target(at)] = Text(at)]
    /\ Written(at)
    /\ torn' = (torn /\ at # "activeKey" /\ ~RolledBack)
    /\ UNCHANGED <<ram, caller, offered, served>>

PrintFails ==
    /\ at \in Writes /\ open
    /\ open' = FALSE
    /\ \E rest \in {"empty", "partial"} :
        WriteFailed(at, [file EXCEPT ![Target(at)] = rest])
    /\ UNCHANGED <<ram, caller, offered, before, served>>

-----------------------------------------------------------------------------
(* stage, around its writes.                                               *)

\* Mutant: the bundle is not validated.
Validate_Skipped ==
    /\ at = "validate"
    /\ Go("stagedCert")
    /\ UNCHANGED <<file, ram, open, caller, offered, before, served, torn>>

Validate ==
    /\ at = "validate"
    /\ \/ offered = Bad /\ Fail
       \/ offered # Bad /\ Go("stagedCert")
    /\ UNCHANGED <<file, ram, open, caller, offered, before, served, torn>>

\* removeIfPresent, whose result is ignored.
Tidy ==
    /\ at = "tidy"
    /\ \E left \in SUBSET {"stagedCert", "stagedKey"} :
        file' = [p \in Paths |-> IF p \in {"stagedCert", "stagedKey"} \ left
                                 THEN "missing" ELSE file[p]]
    /\ Go("reload")
    /\ UNCHANGED <<ram, open, caller, offered, before, served, torn>>

\* What was stored but cannot be read back counts as not stored.
Reload ==
    /\ at = "reload"
    /\ ram' \in Loads
    /\ IF Readable(ram')
       THEN IF caller = "boot" THEN Go("start")
            ELSE at' = "ready" /\ answer' = "stored"
       ELSE Fail
    /\ previous' = NoPair /\ found' = NoPair
    /\ UNCHANGED <<file, open, caller, offered, served, torn>>

-----------------------------------------------------------------------------
(* The boot: startHttpsServer.                                             *)

\* SPIFFS.begin(true) formats a file system it cannot mount.
Mount ==
    /\ at = "mount"
    /\ \/ Go("load") /\ UNCHANGED file
       \/ Go("load") /\ file' = [p \in Paths |-> "missing"]
       \/ Go("closed") /\ UNCHANGED file
    /\ UNCHANGED <<ram, open, caller, offered, before, served, torn>>

\* Mutant: the compiled-in bundle is staged although flash holds another.
Load_LocalFirst ==
    /\ at = "load"
    /\ ram' \in Loads
    /\ \/ Local # "none" /\ Go("validate") /\ offered' = Local
       \/ Local = "none" /\ Readable(ram') /\ Go("start") /\ UNCHANGED offered
       \/ Local = "none" /\ ~Readable(ram') /\ Go("closed") /\ UNCHANGED offered
    /\ UNCHANGED <<file, open, caller, before, served, torn>>

\* A bundle that is read is used as it is, whatever its halves; without one the
\* compiled-in bundle is staged, when there is one.  A read that fails counts as
\* no bundle.
Load ==
    /\ at = "load"
    /\ ram' \in Loads
    /\ \/ Readable(ram') /\ Go("start") /\ UNCHANGED offered
       \/ ~Readable(ram') /\ Local # "none" /\ Go("validate") /\ offered' = Local
       \/ ~Readable(ram') /\ Local = "none" /\ Go("closed") /\ UNCHANGED offered
    /\ UNCHANGED <<file, open, caller, before, served, torn>>

\* httpd_ssl_start copies the pair; it can fail for want of memory.
StartHttps ==
    /\ at = "start"
    /\ \/ Go("ready") /\ served' = ram
       \/ Go("closed") /\ UNCHANGED served
    /\ UNCHANGED <<file, ram, open, caller, offered, before, torn>>

-----------------------------------------------------------------------------
\* updateTlsCertificate: a payload that is empty, too large or no JSON changes
\* nothing; any other is staged.
Upload ==
    /\ at = "ready"
    /\ at' = "validate" /\ caller' = "upload" /\ answer' = "none"
    /\ offered' \in Bundles \cup {Bad}
    /\ previous' = NoPair /\ found' = NoPair
    /\ UNCHANGED <<file, ram, open, served, torn>>

\* Power loss or a restart by another task.  A file that was being written is
\* left empty or partial.
PowerLoss ==
    /\ file' \in IF open THEN {[file EXCEPT ![Target(at)] = rest] :
                                 rest \in {"empty", "partial"}}
                 ELSE {file}
    /\ torn' = (torn \/ at \in {"activeKey", "rollbackCert", "rollbackKey"}
                     \/ (at = "activeCert" /\ open))
    /\ at' = "mount" /\ open' = FALSE /\ caller' = "boot" /\ offered' = "none"
    /\ ram' = NoPair /\ previous' = NoPair /\ found' = NoPair /\ served' = NoPair
    /\ answer' = "none"

-----------------------------------------------------------------------------
\* A new device, or one that was provisioned by an earlier firmware, whose
\* compiled-in bundle may have been another one or none.
Init ==
    /\ file \in {[p \in Paths |-> IF p \in {"activeCert", "activeKey"}
                                 THEN old ELSE "missing"] :
                    old \in Bundles \cup {"missing"}}
    /\ ram = NoPair /\ previous = NoPair /\ found = NoPair /\ served = NoPair
    /\ at = "mount" /\ open = FALSE /\ caller = "boot" /\ offered = "none"
    /\ answer = "none" /\ torn = FALSE

StoreStep ==
    \/ OpenFile \/ OpenFails \/ PrintFile \/ PrintFails
    \/ Validate \/ Tidy \/ Reload \/ Mount \/ Load \/ StartHttps

Next == StoreStep \/ Upload \/ PowerLoss

Spec == Init /\ [][Next]_vars

\* A boot or an upload that was begun goes on until it ends.
FairSpec == Spec /\ WF_vars(StoreStep)

-----------------------------------------------------------------------------
(* Properties.                                                             *)

Promoting == at \in {"activeCert", "activeKey", "rollbackCert", "rollbackKey"}

\* Whatever fails, outside of the promotion the active files are the two halves
\* of one bundle or cannot be read, unless a write of one of them failed
\* without a complete rollback or the power was lost in between.
PairUnlessTorn ==
    ~torn /\ ~Promoting => Matched(Active) \/ ~Readable(Active)

\* "Certificate stored and activated": both files hold the uploaded bundle, and
\* both strings in memory what a read of the two files gave.
StoredMeansActive ==
    answer = "stored" =>
        /\ Active = [cert |-> offered, key |-> offered]
        /\ Readable(ram) /\ ram \in Loads

\* A bundle that fails validation reaches no file, so the active certificate
\* remains what it was.
InvalidNeverWritten == \A p \in Paths : file[p] # Bad

\* A bundle, or why there is none.
Kind(pair) ==
    IF ~Readable(pair) THEN "none" ELSE IF Matched(pair) THEN pair.cert ELSE "torn"

\* Through any failures, rollbacks and restarts, stage is all or nothing: the two
\* files change from one bundle to the next as if they were one, or a write that
\* failed is to blame; and the compiled-in bundle replaces what is stored only at
\* a boot that could read no bundle.  During the promotion the pair that it found
\* counts.
StoreView == INSTANCE StoredCertificate WITH
    Offers <- Bundles \cup {Bad}, BuiltIn <- Local, None <- "none", Torn <- "torn",
    stored <- Kind(IF Promoting THEN found ELSE Active),
    loaded <- Kind(ram),
    faulty <- torn,
    pending <- IF at \in Writes \cup {"validate", "tidy", "reload"} THEN offered
               ELSE "none",
    told <- answer,
    served <- Kind(served)
StoredCertificateSpec == StoreView!Spec

\* Once the power stays on, a boot or an upload ends, after any failures of the
\* file system.
PowerStaysOn == <>[][~PowerLoss]_vars
StageEnds ==
    PowerStaysOn => (at \notin {"ready", "closed"} ~> at \in {"ready", "closed"})
=============================================================================
