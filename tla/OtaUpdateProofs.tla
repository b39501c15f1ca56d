--------------------------- MODULE OtaUpdateProofs ---------------------------
(***************************************************************************)
(* For any number of releases, install tasks and pieces: the status and the *)
(* metadata are guarded by the mutex, at most one install runs, the install *)
(* task reads metadata that does not change under it, and the slot the      *)
(* device runs from stays intact.                                           *)
(***************************************************************************)
EXTENDS ReleasePage, TLAPS

\* The mutex is held exactly where the code holds it.
HttpdHolds ==
    hpc \in {"decide", "writeSha", "writeStatus", "failSet", "statusCopy"}
        <=> mutex = "httpd"

TaskHolds(t) == pc[t] \in {"failSet", "okSet"} <=> mutex = t

MutexOwner == HttpdHolds /\ \A t \in Tasks : TaskHolds(t)

\* From accepting an install to its report the status is Running.
Starting == hpc \in {"spawn", "failTake", "failSet"}

RunningWhileInstalling ==
    /\ \A t \in Tasks : Installing(t) => status = "Running" /\ ~Starting
    /\ Starting => status = "Running"
    /\ hpc \in {"writeSha", "writeStatus"} => status # "Running"

\* URL and digest differ only while the HTTPS task writes them.
MetadataWhole ==
    /\ hpc \in {"take", "decide", "writeSha", "writeStatus"} => offer \in Versions
    /\ hpc = "writeSha" => meta.url = offer
    /\ hpc = "writeStatus" => meta.url = offer /\ meta.sha = offer
    /\ status = "Running" => meta.url = meta.sha /\ meta.url \in Versions

\* The slot not run from is the only one that may not be intact.
RunningIntact == Bootable(running)

IInv ==
    /\ TypeOK
    /\ MutexOwner
    /\ RunningWhileInstalling
    /\ OneInstaller
    /\ MetadataWhole
    /\ MetadataFrozen
    /\ RunningIntact

-----------------------------------------------------------------------------
\* An image received whole is an intact one.
LEMMA WholeIsIntact == \A img \in Images : WellFormed(Whole(img))
BY DEF WellFormed

\* Both slots hold the factory image at the start.
LEMMA InitIInv == Init => IInv
<1> SUFFICES ASSUME Init PROVE IInv
  OBVIOUS
<1>1. Whole("manual") \in Seq(Images)
  BY OtaAssumption DEF Whole, Images
<1>0. Stopped \in [running : BOOLEAN, progress : 0..Chunks]
  <2>1. 0 \in 0..Chunks
    BY OtaAssumption
  <2> QED
    BY <2>1, Zenon DEF Stopped
<1>2. TypeOK
  <2>1. slot \in [Slots -> [pieces : Seq(Images), sealed : BOOLEAN]]
    BY <1>1, Zenon DEF Init
  <2>2. started \in [Tasks -> BOOLEAN] /\ failed \in [Tasks -> BOOLEAN]
    BY Zenon DEF Init
  <2>3. meta \in [url : Releases, sha : Releases] /\ got \in [Tasks -> Seq(Images)]
    BY DEF Init, Releases
  <2>4. sent \in [Tasks -> 0..Chunks] /\ uploaded \in 0..Chunks
    BY OtaAssumption DEF Init
  <2>5. pc \in [Tasks -> TaskPcs] /\ url \in [Tasks -> Releases]
    BY DEF Init, TaskPcs, Releases
  <2>6. update \in [running : BOOLEAN, progress : 0..Chunks]
    BY <1>0, Zenon DEF Init
  <2> QED
    BY <2>1, <2>2, <2>3, <2>4, <2>5, <2>6, Zenon
       DEF Init, TypeOK, Releases, HttpdPcs, Slots
<1>3. RunningIntact
  BY WholeIsIntact DEF Init, RunningIntact, Bootable, Slots, Images
<1>4. MutexOwner /\ RunningWhileInstalling /\ OneInstaller /\ MetadataWhole
      /\ MetadataFrozen
  BY OtaAssumption DEF Init, MutexOwner, HttpdHolds, TaskHolds, Starting,
     RunningWhileInstalling, OneInstaller, MetadataWhole, MetadataFrozen,
     Installing
<1> QED
  BY <1>2, <1>3, <1>4 DEF IInv

-----------------------------------------------------------------------------
UpdateType == [running : BOOLEAN, progress : 0..Chunks]
SlotType == [Slots -> [pieces : Seq(Images), sealed : BOOLEAN]]

\* What the object Update and the flash keep whatever is asked of them.
FlashOK ==
    /\ update \in UpdateType
    /\ slot \in SlotType
    /\ running \in Slots /\ boot \in Slots
    /\ RunningIntact

LEMMA StoppedType == Stopped \in UpdateType
<1>1. 0 \in 0..Chunks
  BY OtaAssumption
<1> QED
  BY <1>1, Zenon DEF Stopped, UpdateType

\* A slot other than the one run from may be written without harm.
LEMMA OtherSlot ==
    ASSUME FlashOK, NEW new \in [pieces : Seq(Images), sealed : BOOLEAN],
           slot' = [slot EXCEPT ![Inactive] = new], running' = running
    PROVE  slot' \in SlotType /\ RunningIntact'
<1>1. Inactive \in Slots /\ Inactive # running /\ running \in Slots
  BY DEF FlashOK, Inactive, Slots
<1>2. slot' \in SlotType
  BY DEF FlashOK, SlotType
<1>3. slot'[running'] = slot[running]
  BY <1>1 DEF FlashOK, SlotType
<1> QED
  BY <1>2, <1>3 DEF FlashOK, RunningIntact, Bootable

\* A call that stops the update or is refused leaves the flash as it is.
LEMMA StopSafe ==
    ASSUME FlashOK, WriteFails \/ Abort \/ EndFails \/ BeginFails
    PROVE  FlashOK'
<1>1. update' \in UpdateType
  BY StoppedType DEF FlashOK, WriteFails, Abort, EndFails, BeginFails
<1>2. UNCHANGED flash
  BY DEF WriteFails, Abort, EndFails, BeginFails, flash
<1> QED
  BY <1>1, <1>2 DEF FlashOK, flash, RunningIntact, Bootable

LEMMA BeginSafe == ASSUME FlashOK, BeginOk PROVE FlashOK'
<1>1. update' \in UpdateType
  <2>1. 0 \in 0..Chunks
    BY OtaAssumption
  <2> QED
    BY <2>1, Zenon DEF BeginOk, UpdateType
<1> QED
  BY <1>1 DEF FlashOK, BeginOk, flash, RunningIntact, Bootable

LEMMA WriteSafe ==
    ASSUME FlashOK, NEW img \in Images, WriteOk(img) PROVE FlashOK'
<1> DEFINE new == [pieces |-> Append(IF update.progress = 0 THEN <<>>
                                     ELSE slot[Inactive].pieces, img),
                   sealed |-> FALSE]
<1>1. new.pieces \in Seq(Images)
  BY DEF FlashOK, SlotType, Inactive, Slots
<1>2. new \in [pieces : Seq(Images), sealed : BOOLEAN]
  BY <1>1, Zenon
<1>3. slot' = [slot EXCEPT ![Inactive] = new] /\ running' = running
      /\ boot' = boot
  BY DEF WriteOk
<1>4. update' \in UpdateType
  <2>1. update.progress + 1 \in 0..Chunks
    BY OtaAssumption DEF WriteOk, FlashOK, UpdateType
  <2> QED
    BY <2>1 DEF WriteOk, FlashOK, UpdateType
<1> HIDE DEF new
<1> QED
  BY <1>2, <1>3, <1>4, OtherSlot DEF FlashOK

LEMMA EndSafe == ASSUME FlashOK, EndOk PROVE FlashOK'
<1> DEFINE new == [slot[Inactive] EXCEPT !.sealed = TRUE]
<1>1. new \in [pieces : Seq(Images), sealed : BOOLEAN]
  BY DEF FlashOK, SlotType, Inactive, Slots
<1>2. slot' = [slot EXCEPT ![Inactive] = new] /\ running' = running
  BY DEF EndOk
<1>3. update' \in UpdateType /\ boot' \in Slots
  BY StoppedType DEF EndOk, Inactive, Slots
<1> HIDE DEF new
<1> QED
  BY <1>1, <1>2, <1>3, OtherSlot DEF FlashOK

-----------------------------------------------------------------------------
\* What an install task downloads is a release of the manifest.
LEMMA DownloadsRelease ==
    ASSUME IInv, NEW t \in Tasks, Installing(t), pc[t] # "init"
    PROVE  url[t] \in Images
BY DEF IInv, RunningWhileInstalling, MetadataWhole, MetadataFrozen, Images

LEMMA FlashInv == IInv => FlashOK
BY DEF IInv, TypeOK, FlashOK, UpdateType, SlotType

\* The types of the object Update and the flash, and the running slot, survive
\* every step.
LEMMA FlashStep == IInv /\ [Next]_vars => FlashOK'
<1> SUFFICES ASSUME IInv, [Next]_vars PROVE FlashOK'
  OBVIOUS
<1>0. FlashOK
  BY FlashInv
<1>1. CASE UNCHANGED <<update, flash>>
  BY <1>0, <1>1 DEF flash, FlashOK, RunningIntact, Bootable
<1>2. CASE UploadBegin \/ UploadWriteFails \/ UploadAbort \/ UploadEnd
  BY <1>0, <1>2, StopSafe, BeginSafe, EndSafe
     DEF UploadBegin, UploadWriteFails, UploadAbort, UploadEnd
<1>3. CASE UploadData
  BY <1>0, <1>3, WriteSafe DEF UploadData, Images
<1>4. ASSUME NEW t \in Tasks, TaskStep(t) PROVE FlashOK'
  <2>1. CASE TaskWrite(t)
    <3>1. url[t] \in Images
      BY <2>1, DownloadsRelease DEF TaskWrite, Installing
    <3> QED
      BY <1>0, <2>1, <3>1, WriteSafe DEF TaskWrite, Images
  <2>2. CASE TaskBegin(t) \/ TaskWriteFails(t) \/ TaskAbort(t)
             \/ TaskAbortLast(t) \/ TaskEnd(t)
    BY <1>0, <2>2, StopSafe, BeginSafe, EndSafe
       DEF TaskBegin, TaskWriteFails, TaskAbort, TaskAbortLast, TaskEnd
  <2>3. CASE ~(TaskWrite(t) \/ TaskBegin(t) \/ TaskWriteFails(t) \/ TaskAbort(t)
               \/ TaskAbortLast(t) \/ TaskEnd(t))
    BY <1>1, <1>4, <2>3 DEF TaskStep, TaskInit, TaskData, TaskVerified,
       TaskGivesUp, TaskTake, TaskFailed, TaskSucceeded
  <2> QED
    BY <2>1, <2>2, <2>3
<1>5. CASE Restart
  <2>1. update' \in UpdateType /\ UNCHANGED <<slot, boot>> /\ running' \in Slots
    <3>1. update' \in UpdateType
      BY <1>5, StoppedType, Zenon DEF Restart
    <3> QED
      BY <1>0, <1>5, <3>1 DEF Restart, FlashOK, Slots
  <2>2. CASE Bootable(boot)
    BY <1>0, <1>5, <2>1, <2>2
       DEF Restart, FlashOK, RunningIntact, Bootable
  <2>3. CASE ~Bootable(boot)
    <3>1. running # boot
      BY <1>0, <2>3 DEF FlashOK, RunningIntact
    <3>2. running' = running
      BY <1>0, <1>5, <2>3, <3>1 DEF Restart, FlashOK, Slots
    <3> QED
      BY <1>0, <2>1, <3>2 DEF FlashOK, RunningIntact, Bootable
  <2> QED
    BY <2>2, <2>3
<1>6. CASE Begin \/ HttpdStep
  BY <1>1, <1>2, <1>3, <1>6 DEF Begin, HttpdStep, Fetch, InstallTake,
     InstallBusy, InstallWriteUrl, InstallWriteSha, InstallWriteStatus, Spawn,
     SpawnFails, SpawnFailTake, SpawnFailSet, StatusTake, StatusCopy,
     UploadLost, UploadReceived
<1> QED
  BY <1>1, <1>4, <1>5, <1>6 DEF Next, vars

-----------------------------------------------------------------------------
(* Types of the control state.                                             *)

HttpdType ==
    /\ status \in {"Idle", "Running", "Succeeded", "Failed"}
    /\ meta \in [url : Releases, sha : Releases]
    /\ mutex \in Tasks \cup {"httpd", "free"}
    /\ hpc \in HttpdPcs /\ offer \in Releases /\ uploaded \in 0..Chunks

TaskType ==
    /\ pc \in [Tasks -> TaskPcs]
    /\ url \in [Tasks -> Releases]
    /\ sent \in [Tasks -> 0..Chunks]
    /\ got \in [Tasks -> Seq(Images)]

FlagType == started \in [Tasks -> BOOLEAN] /\ failed \in [Tasks -> BOOLEAN]

LEMMA TypeParts == TypeOK <=> HttpdType /\ TaskType /\ FlagType
    /\ update \in UpdateType /\ slot \in SlotType /\ running \in Slots
    /\ boot \in Slots
BY Zenon DEF TypeOK, HttpdType, TaskType, FlagType, UpdateType, SlotType

LEMMA NoChunks == 0 \in 0..Chunks
BY OtaAssumption

LEMMA HttpdTypeStep == TypeOK /\ [Next]_vars => HttpdType'
<1> SUFFICES ASSUME HttpdType, [Next]_vars PROVE HttpdType'
  BY TypeParts
<1> USE NoChunks DEF HttpdType, Serve, TakeMutex, GiveMutex, HttpdPcs,
        Releases, server, httpd
<1>1. CASE Begin \/ Fetch
  BY <1>1 DEF Begin, Fetch
<1>2. CASE InstallTake \/ InstallBusy \/ InstallWriteStatus
  BY <1>2 DEF InstallTake, InstallBusy, InstallWriteStatus
<1>3. CASE InstallWriteUrl \/ InstallWriteSha
  BY <1>3 DEF InstallWriteUrl, InstallWriteSha
<1>4. CASE Spawn \/ SpawnFails
  BY <1>4 DEF Spawn, SpawnFails
<1>8. CASE SpawnFailTake \/ SpawnFailSet
  BY <1>8 DEF SpawnFailTake, SpawnFailSet
<1>9. CASE StatusTake \/ StatusCopy
  BY <1>9 DEF StatusTake, StatusCopy
<1>10. CASE UploadBegin \/ UploadWriteFails \/ UploadLost
  BY <1>10 DEF UploadBegin, UploadWriteFails, UploadLost
<1>11. CASE UploadData
  <2>1. uploaded' \in 0..Chunks
    BY <1>11, OtaAssumption DEF UploadData
  <2> QED
    BY <1>11, <2>1 DEF UploadData
<1>12. CASE UploadAbort \/ UploadReceived \/ UploadEnd
  BY <1>12 DEF UploadAbort, UploadReceived, UploadEnd
<1>5. ASSUME NEW t \in Tasks, TaskStep(t) PROVE HttpdType'
  BY <1>5 DEF TaskStep, TaskInit, TaskData, TaskBegin, TaskWrite,
     TaskWriteFails, TaskAbort, TaskVerified, TaskGivesUp, TaskAbortLast,
     TaskEnd, TaskTake, TaskFailed, TaskSucceeded
<1>6. CASE Restart
  BY <1>6 DEF Restart
<1>7. CASE UNCHANGED vars
  BY <1>7 DEF vars
<1> QED
  BY <1>1, <1>2, <1>3, <1>4, <1>5, <1>6, <1>7, <1>8, <1>9, <1>10, <1>11, <1>12
     DEF Next, HttpdStep

LEMMA TaskTypeStep == IInv /\ [Next]_vars => TaskType'
<1> SUFFICES ASSUME IInv, TaskType, HttpdType, [Next]_vars PROVE TaskType'
  BY TypeParts DEF IInv
<1> USE OtaAssumption DEF TaskType, Step, TaskPcs, task
<1>1. CASE UNCHANGED task
  BY <1>1
<1>2. CASE Spawn
  BY <1>2 DEF Spawn
<1>3. ASSUME NEW t \in Tasks, TaskStep(t) PROVE TaskType'
  <2>1. CASE TaskInit(t)
    <3>1. url' \in [Tasks -> Releases] /\ got' \in [Tasks -> Seq(Images)]
      BY <2>1 DEF TaskInit, HttpdType
    <3>2. sent' \in [Tasks -> 0..Chunks] /\ pc' \in [Tasks -> TaskPcs]
      BY <2>1, NoChunks DEF TaskInit
    <3> QED
      BY <3>1, <3>2
  <2>2. CASE TaskData(t)
    BY <2>2 DEF TaskData
  <2>3. CASE TaskWrite(t)
    <3>1. url[t] \in Images
      BY <2>3, DownloadsRelease DEF TaskWrite, Installing
    <3>2. PICK img \in Images : got' = [got EXCEPT ![t] = Append(got[t], img)]
      BY <2>3, <3>1 DEF TaskWrite, Images
    <3>3. got' \in [Tasks -> Seq(Images)]
      <4>1. Append(got[t], img) \in Seq(Images)
        OBVIOUS
      <4> QED
        BY <3>2, <4>1
    <3>4. /\ pc' \in [Tasks -> TaskPcs] /\ UNCHANGED <<url, sent>>
      BY <2>3 DEF TaskWrite
    <3> QED
      BY <3>3, <3>4
  <2>4. CASE TaskFailed(t)
    BY <2>4 DEF TaskFailed, Releases
  <2>5. CASE TaskBegin(t) \/ TaskWriteFails(t) \/ TaskAbort(t)
             \/ TaskVerified(t) \/ TaskGivesUp(t)
    BY <2>5 DEF TaskBegin, TaskWriteFails, TaskAbort, TaskVerified, TaskGivesUp
  <2>6. CASE TaskAbortLast(t) \/ TaskEnd(t) \/ TaskTake(t) \/ TaskSucceeded(t)
    BY <2>6 DEF TaskAbortLast, TaskEnd, TaskTake, TaskSucceeded
  <2> QED
    BY <1>3, <2>1, <2>2, <2>3, <2>4, <2>5, <2>6 DEF TaskStep
<1>4. CASE Restart
  BY <1>4 DEF Restart, Releases
<1>5. CASE (Begin \/ HttpdStep) /\ ~Spawn
  BY <1>1, <1>5 DEF Begin, HttpdStep, Fetch, InstallTake, InstallBusy,
     InstallWriteUrl, InstallWriteSha, InstallWriteStatus, SpawnFails,
     SpawnFailTake, SpawnFailSet, StatusTake, StatusCopy, UploadBegin,
     UploadData, UploadWriteFails, UploadLost, UploadAbort, UploadReceived,
     UploadEnd
<1> QED
  BY <1>1, <1>2, <1>3, <1>4, <1>5 DEF Next, HttpdStep, vars

LEMMA FlagTypeStep == TypeOK /\ [Next]_vars => FlagType'
<1> SUFFICES ASSUME FlagType, [Next]_vars PROVE FlagType'
  BY TypeParts
<1> USE DEF FlagType
<1>1. CASE UNCHANGED <<started, failed>>
  BY <1>1
<1>2. ASSUME NEW t \in Tasks, TaskStep(t) PROVE FlagType'
  <2>1. CASE TaskInit(t) \/ TaskFailed(t) \/ TaskBegin(t) \/ TaskWriteFails(t)
    BY <2>1 DEF TaskInit, TaskFailed, TaskBegin, TaskWriteFails
  <2>2. CASE ~(TaskInit(t) \/ TaskFailed(t) \/ TaskBegin(t) \/ TaskWriteFails(t))
    BY <1>1, <1>2, <2>2 DEF TaskStep, TaskData, TaskWrite, TaskAbort,
       TaskVerified, TaskGivesUp, TaskAbortLast, TaskEnd, TaskTake,
       TaskSucceeded
  <2> QED
    BY <2>1, <2>2
<1>3. CASE Restart
  BY <1>3, Zenon DEF Restart
<1>4. CASE Begin \/ HttpdStep
  BY <1>1, <1>4 DEF task, Begin, HttpdStep, Fetch, InstallTake, InstallBusy,
     InstallWriteUrl, InstallWriteSha, InstallWriteStatus, Spawn, SpawnFails,
     SpawnFailTake, SpawnFailSet, StatusTake, StatusCopy, UploadBegin,
     UploadData, UploadWriteFails, UploadLost, UploadAbort, UploadReceived,
     UploadEnd
<1> QED
  BY <1>1, <1>2, <1>3, <1>4 DEF Next, vars, task

LEMMA TypeStep == IInv /\ [Next]_vars => TypeOK'
<1> SUFFICES ASSUME IInv, [Next]_vars PROVE TypeOK'
  OBVIOUS
<1>1. HttpdType' /\ TaskType' /\ FlagType' /\ FlashOK'
  BY HttpdTypeStep, TaskTypeStep, FlagTypeStep, FlashStep DEF IInv
<1> QED
  BY <1>1, Zenon DEF TypeOK, HttpdType, TaskType, FlagType, FlashOK,
     UpdateType, SlotType

-----------------------------------------------------------------------------
(* The mutex, the status and the metadata.                                 *)

Upload ==
    UploadBegin \/ UploadData \/ UploadWriteFails \/ UploadLost \/ UploadAbort
    \/ UploadReceived \/ UploadEnd

\* An upload touches neither the install status nor its task.
LEMMA UploadApart ==
    Upload => /\ UNCHANGED <<server, task>> /\ offer' \in {offer, NoRelease}
              /\ hpc \in {"uploadBegin", "uploadData", "uploadAbort", "uploadEnd"}
              /\ hpc' \in {"uploadData", "uploadAbort", "uploadEnd", "restart",
                           "idle"}
BY DEF Upload, Serve, UploadBegin, UploadData, UploadWriteFails, UploadLost,
   UploadAbort, UploadReceived, UploadEnd

LEMMA MutexStep == IInv /\ [Next]_vars => MutexOwner'
<1> SUFFICES ASSUME TypeOK, MutexOwner, [Next]_vars PROVE MutexOwner'
  BY DEF IInv
<1> USE OtaAssumption DEF TypeOK, TaskPcs, MutexOwner, HttpdHolds, TaskHolds,
        Serve, TakeMutex, GiveMutex, Step, server, httpd, task
<1>1. CASE Begin \/ Fetch
  BY <1>1 DEF Begin, Fetch
<1>2. CASE InstallTake \/ SpawnFailTake \/ StatusTake
  BY <1>2 DEF InstallTake, SpawnFailTake, StatusTake
<1>3. CASE InstallBusy \/ InstallWriteStatus \/ SpawnFailSet \/ StatusCopy
  BY <1>3 DEF InstallBusy, InstallWriteStatus, SpawnFailSet, StatusCopy
<1>4. CASE InstallWriteUrl \/ InstallWriteSha \/ Spawn \/ SpawnFails
  BY <1>4 DEF InstallWriteUrl, InstallWriteSha, Spawn, SpawnFails
<1>5. CASE Upload
  BY <1>5, UploadApart
<1>6. ASSUME NEW t \in Tasks, TaskStep(t) PROVE MutexOwner'
  <2>1. CASE TaskTake(t)
    BY <2>1 DEF TaskTake
  <2>2. CASE TaskFailed(t) \/ TaskSucceeded(t)
    <3>1. mutex = t /\ mutex' = "free" /\ UNCHANGED hpc
      BY <2>2 DEF TaskFailed, TaskSucceeded
    <3>2. \A u \in Tasks \ {t} : pc'[u] = pc[u]
      BY <2>2 DEF TaskFailed, TaskSucceeded
    <3>3. pc'[t] \in {"none", "restart"}
      BY <2>2 DEF TaskFailed, TaskSucceeded
    <3> QED
      BY <3>1, <3>2, <3>3
  <2>3. CASE TaskInit(t) \/ TaskData(t) \/ TaskBegin(t) \/ TaskWrite(t)
    BY <2>3, ZenonT(40) DEF TaskInit, TaskData, TaskBegin, TaskWrite
  <2>4. CASE TaskWriteFails(t) \/ TaskAbort(t) \/ TaskVerified(t)
             \/ TaskGivesUp(t) \/ TaskAbortLast(t) \/ TaskEnd(t)
    BY <2>4, ZenonT(40) DEF TaskWriteFails, TaskAbort, TaskVerified, TaskGivesUp,
       TaskAbortLast, TaskEnd
  <2> QED
    BY <1>6, <2>1, <2>2, <2>3, <2>4 DEF TaskStep
<1>7. CASE Restart
  BY <1>7 DEF Restart
<1>8. CASE UNCHANGED vars
  BY <1>8 DEF vars
<1> QED
  BY <1>1, <1>2, <1>3, <1>4, <1>5, <1>6, <1>7, <1>8 DEF Next, HttpdStep, Upload

Control ==
    RunningWhileInstalling /\ OneInstaller /\ MetadataWhole /\ MetadataFrozen

\* A step of the HTTPS task other than an upload.
LEMMA ControlHttpd ==
    IInv /\ (Begin \/ HttpdStep) /\ ~Upload => Control'
<1> SUFFICES ASSUME TypeOK, Control, Begin \/ HttpdStep, ~Upload PROVE Control'
  BY DEF IInv, Control
<1> USE OtaAssumption DEF TypeOK, TaskPcs, Control, RunningWhileInstalling,
        OneInstaller, MetadataWhole, MetadataFrozen, Starting, Installing,
        Serve, TakeMutex, GiveMutex, server, httpd, task
<1>1. CASE Begin \/ Fetch \/ InstallTake \/ InstallBusy
  BY <1>1 DEF Begin, Fetch, InstallTake, InstallBusy
<1>2. CASE InstallWriteUrl
  BY <1>2 DEF InstallWriteUrl
<1>3. CASE InstallWriteSha
  BY <1>3 DEF InstallWriteSha
<1>4. CASE InstallWriteStatus
  BY <1>4 DEF InstallWriteStatus
<1>5. CASE Spawn
  BY <1>5, SMTT(20) DEF Spawn
<1>6. CASE SpawnFails \/ SpawnFailTake \/ StatusTake \/ StatusCopy
  BY <1>6 DEF SpawnFails, SpawnFailTake, StatusTake, StatusCopy
<1>7. CASE SpawnFailSet
  BY <1>7 DEF SpawnFailSet
<1> QED
  BY <1>1, <1>2, <1>3, <1>4, <1>5, <1>6, <1>7 DEF HttpdStep, Upload

\* A step of an install task: the others are not installing, and no request is
\* about to start one.
LEMMA ControlTask ==
    ASSUME IInv, NEW t \in Tasks, TaskStep(t) PROVE Control'
<1> USE DEF IInv, TypeOK, TaskPcs, Control, RunningWhileInstalling,
        OneInstaller, MetadataWhole, MetadataFrozen, Starting, Installing,
        TakeMutex, GiveMutex, Step, server, httpd, task
<1>1. CASE TaskInit(t)
  BY <1>1 DEF TaskInit
<1>2. CASE TaskData(t) \/ TaskBegin(t) \/ TaskWrite(t) \/ TaskWriteFails(t)
           \/ TaskAbort(t)
  BY <1>2, ZenonT(40) DEF TaskData, TaskBegin, TaskWrite, TaskWriteFails, TaskAbort
<1>3. CASE TaskVerified(t) \/ TaskGivesUp(t) \/ TaskAbortLast(t) \/ TaskEnd(t)
           \/ TaskTake(t)
  BY <1>3, ZenonT(40) DEF TaskVerified, TaskGivesUp, TaskAbortLast, TaskEnd, TaskTake
<1>4. CASE TaskFailed(t)
  BY <1>4 DEF TaskFailed
<1>5. CASE TaskSucceeded(t)
  BY <1>5, ZenonT(40) DEF TaskSucceeded
<1> QED
  BY <1>1, <1>2, <1>3, <1>4, <1>5 DEF TaskStep

LEMMA ControlStep == IInv /\ [Next]_vars => Control'
<1> SUFFICES ASSUME IInv, [Next]_vars PROVE Control'
  OBVIOUS
<1> USE DEF Control, RunningWhileInstalling, OneInstaller, MetadataWhole,
        MetadataFrozen, Starting, Installing
<1>1. CASE Upload
  BY <1>1, UploadApart DEF IInv, server, task
<1>2. CASE Restart
  BY <1>2 DEF Restart
<1>3. CASE UNCHANGED vars
  BY <1>3 DEF vars, server, httpd, task, IInv
<1> HIDE DEF Control
<1> QED
  BY <1>1, <1>2, <1>3, ControlHttpd, ControlTask DEF Next

-----------------------------------------------------------------------------
\* Whoever leaves the owner's states has stopped the update on the way.
LEMMA OwnedStep == TypeOK /\ UpdateOwned /\ [Next]_vars => UpdateOwned'
<1> SUFFICES ASSUME TypeOK, UpdateOwned, [Next]_vars, update'.running
             PROVE  UpdateOwned'
  BY DEF UpdateOwned
<1> USE DEF UpdateOwned, Serve, Step, server, httpd, task, flash
<1>1. ~Stopped.running
  BY DEF Stopped
<1>2. CASE Begin
  BY <1>2 DEF Begin
<1>3. CASE Upload
  BY <1>1, <1>3 DEF Upload, UploadBegin, UploadData, UploadWriteFails, UploadLost,
     UploadAbort, UploadReceived, UploadEnd, BeginOk, BeginFails, WriteOk,
     WriteFails, Abort, EndOk, EndFails
<1>4. CASE Fetch \/ InstallTake \/ InstallBusy \/ InstallWriteUrl \/ InstallWriteSha
           \/ InstallWriteStatus \/ SpawnFails \/ SpawnFailTake
           \/ SpawnFailSet \/ StatusTake \/ StatusCopy
  BY <1>4 DEF Fetch, InstallTake, InstallBusy, InstallWriteUrl, InstallWriteSha,
     InstallWriteStatus, SpawnFails, SpawnFailTake, SpawnFailSet,
     StatusTake, StatusCopy
<1>5. CASE Spawn
  BY <1>5 DEF Spawn, TypeOK
<1>6. ASSUME NEW t \in Tasks, TaskStep(t) PROVE UpdateOwned'
  <2>1. CASE TaskData(t) \/ TaskVerified(t)
    BY <2>1 DEF TaskData, TaskVerified, TypeOK
  <2>2. CASE TaskGivesUp(t)
    BY <2>2 DEF TaskGivesUp, TypeOK
  <2>3. CASE TaskBegin(t)
    BY <2>3 DEF TaskBegin, BeginOk, BeginFails, TypeOK
  <2>4. CASE TaskWrite(t)
    BY <2>4 DEF TaskWrite, WriteOk, TypeOK
  <2>5. CASE TaskWriteFails(t) \/ TaskAbort(t) \/ TaskAbortLast(t) \/ TaskEnd(t)
    BY <1>1, <2>5 DEF TaskWriteFails, TaskAbort, TaskAbortLast, TaskEnd,
       WriteFails, Abort, EndOk, EndFails
  <2>6. CASE TaskInit(t)
    BY <2>6 DEF TaskInit, TypeOK
  <2>7. CASE TaskTake(t) \/ TaskFailed(t) \/ TaskSucceeded(t)
    BY <2>7 DEF TaskTake, TaskFailed, TaskSucceeded, TypeOK
  <2> QED
    BY <1>6, <2>1, <2>2, <2>3, <2>4, <2>5, <2>6, <2>7 DEF TaskStep
<1>7. CASE Restart
  BY <1>1, <1>7 DEF Restart
<1>8. CASE UNCHANGED vars
  BY <1>8 DEF vars
<1> QED
  BY <1>2, <1>3, <1>4, <1>5, <1>6, <1>7, <1>8 DEF Next, HttpdStep, Upload

-----------------------------------------------------------------------------
(* Where the pieces in the inactive slot come from.                        *)

\* The images of which pieces were written since the update began.
Seen == IF update.running /\ update.progress > 0
        THEN {slot[Inactive].pieces[i] : i \in 1..Len(slot[Inactive].pieces)}
        ELSE {}

Uploading == hpc \in {"uploadData", "uploadEnd"}

\* A task that goes on to stop or end the update it began.
Owner(t) ==
    started[t] /\ pc[t] \in {"data", "write", "abort", "abortLast", "end"}

\* The slot has the pieces counted, and those an upload has not written make
\* the count higher than its own.
Counted ==
    /\ update.running /\ update.progress > 0 =>
           Len(slot[Inactive].pieces) = update.progress
    /\ hpc = "uploadEnd" => uploaded = Chunks
    /\ hpc \in {"idle", "uploadBegin"} => uploaded = 0
    /\ Uploading /\ update.running =>
           /\ update.progress >= uploaded
           /\ update.progress = uploaded => Seen \subseteq {"manual"}

\* An update begun by an upload can be stopped by a task, which then began one
\* before and begins no other.
NotBegunAgain ==
    /\ \A t \in Tasks :
           pc[t] \in {"write", "abort", "abortLast", "end"} => started[t]
    /\ Uploading /\ ~update.running =>
           \A t \in Tasks : Installing(t) =>
               /\ pc[t] \notin {"init", "begin"}
               /\ pc[t] = "data" => started[t]

\* What is not of the release was written by a task that will not verify it.
Blamed ==
    /\ "other" \in Seen => \E t \in Tasks :
           Owner(t) /\ \E i \in 1..Len(got[t]) : got[t][i] = "other"
    /\ \A t \in Tasks : pc[t] = "end" => got[t] = Whole(meta.sha)

\* Every release on its way is newer than the image that runs.
OffersNewer ==
    /\ hpc \in {"take", "decide", "writeSha", "writeStatus"} => Newer(offer)
    /\ status = "Running" => Newer(meta.url)
    /\ \A v \in Seen \cap Versions : Newer(v)
    /\ boot = Inactive /\ slot[boot].sealed =>
           \A v \in Versions : slot[boot].pieces[1] = v => Newer(v)

NothingForeign == \A s \in Slots : slot[s].sealed => slot[s].pieces # Whole("other")

Provenance ==
    Counted /\ NotBegunAgain /\ Blamed /\ OffersNewer /\ NothingForeign

LEMMA StoppedSeen == update' = Stopped => Seen' = {}
BY DEF Stopped, Seen

LEMMA BeginSeen == BeginOk => Seen' = {} /\ update'.running /\ update'.progress = 0
BY DEF BeginOk, Seen

LEMMA SameSeen == UNCHANGED <<update, flash>> =>
    Seen' = Seen /\ Inactive' = Inactive /\ \A v : Newer(v)' = Newer(v)
BY DEF flash, Seen, Inactive, Newer

\* A piece written is added to what was there, or is the first.
LEMMA WriteSeen ==
    ASSUME FlashOK, Counted, NEW img \in Images, WriteOk(img)
    PROVE  /\ update.running /\ update'.running
           /\ update'.progress = update.progress + 1 /\ update.progress \in Nat
           /\ Inactive' = Inactive /\ UNCHANGED <<boot, running>>
           /\ Len(slot'[Inactive].pieces) = update'.progress
           /\ Seen' \subseteq Seen \cup {img}
           /\ ~slot'[Inactive].sealed
           /\ \A s \in Slots : s # Inactive => slot'[s] = slot[s]
           /\ \A v : Newer(v)' = Newer(v)
<1> DEFINE old == IF update.progress = 0 THEN <<>> ELSE slot[Inactive].pieces
<1>1. /\ Inactive \in Slots /\ Inactive # running /\ running \in Slots
      /\ slot \in SlotType /\ update \in UpdateType
  BY DEF FlashOK, Inactive, Slots
<1>2. /\ update.running /\ update'.running /\ update.progress \in Nat
      /\ update'.progress = update.progress + 1
      /\ UNCHANGED <<boot, running>>
  BY <1>1, OtaAssumption DEF WriteOk, UpdateType
<1>3. old \in Seq(Images) /\ Len(old) = update.progress
  BY <1>1, <1>2 DEF Counted, SlotType
<1>4. /\ slot'[Inactive].pieces = Append(old, img) /\ ~slot'[Inactive].sealed
      /\ \A s \in Slots : s # Inactive => slot'[s] = slot[s]
  BY <1>1 DEF WriteOk, SlotType
<1>5. Inactive' = Inactive
  BY <1>2 DEF Inactive
<1>6. \A v : Newer(v)' = Newer(v)
  BY <1>1, <1>2, <1>4 DEF Newer
<1>7. \A i \in 1..Len(old) : old[i] \in Seen
  BY <1>2, <1>3 DEF Seen
<1> HIDE DEF old
<1>8. Len(Append(old, img)) = Len(old) + 1
      /\ \A i \in 1..Len(Append(old, img)) :
             Append(old, img)[i] = IF i <= Len(old) THEN old[i] ELSE img
  BY <1>3
<1>9. Seen' \subseteq Seen \cup {img}
  <2>1. Seen' = {Append(old, img)[i] : i \in 1..Len(Append(old, img))}
    <3>1. update'.running /\ update'.progress > 0
      BY <1>2
    <3>2. slot'[Inactive'].pieces = Append(old, img)
      BY <1>4, <1>5
    <3> QED
      BY <3>1, <3>2, Zenon DEF Seen
  <2> QED
    BY <2>1, <1>3, <1>7, <1>8
<1> QED
  BY <1>2, <1>3, <1>4, <1>5, <1>6, <1>8, <1>9

\* What is sealed and selected is one image, all of whose pieces were written
\* since the update began.
LEMMA EndSeen ==
    ASSUME FlashOK, Counted, EndOk
    PROVE  /\ UNCHANGED running /\ Inactive' = Inactive /\ boot' = Inactive
           /\ update' = Stopped /\ update.running /\ update.progress = Chunks
           /\ \A s \in Slots : s # Inactive => slot'[s] = slot[s]
           /\ \A v : Newer(v)' = Newer(v)
           /\ \E img \in Seen : /\ slot'[Inactive].pieces = Whole(img)
                                /\ slot'[Inactive].pieces[1] = img
<1>1. /\ Inactive \in Slots /\ Inactive # running /\ running \in Slots
      /\ slot \in SlotType
  BY DEF FlashOK, Inactive, Slots
<1>2. PICK img \in Images : slot[Inactive].pieces = Whole(img)
  BY DEF EndOk, WellFormed
<1>3. 1 \in 1..Chunks /\ Len(slot[Inactive].pieces) = Chunks
  BY <1>2, OtaAssumption DEF Whole, EndOk, Counted
<1>4. slot[Inactive].pieces[1] = img
  BY <1>2, <1>3 DEF Whole
<1>5. img \in Seen
  BY <1>3, <1>4, OtaAssumption DEF EndOk, Seen
<1>6. /\ slot'[Inactive].pieces = slot[Inactive].pieces
      /\ \A s \in Slots : s # Inactive => slot'[s] = slot[s]
  BY <1>1 DEF EndOk, SlotType
<1>7. Inactive' = Inactive /\ \A v : Newer(v)' = Newer(v)
  BY <1>1, <1>6 DEF EndOk, Inactive, Newer
<1> QED
  BY <1>1, <1>2, <1>4, <1>5, <1>6, <1>7 DEF EndOk

LEMMA WholeDiffers == \A img : img # "other" => Whole(img) # Whole("other")
<1>1. 1 \in 1..Chunks
  BY OtaAssumption
<1> QED
  BY <1>1 DEF Whole

\* A step of the HTTPS task other than an upload.
LEMMA ProvenanceHttpd ==
    ASSUME IInv, Provenance, Begin \/ HttpdStep, ~Upload
    PROVE  Provenance'
<1> USE DEF IInv, TypeOK, Serve, server, httpd, task, flash
<1>0. /\ Seen' = Seen /\ Inactive' = Inactive /\ \A v : Newer(v)' = Newer(v)
      /\ UNCHANGED <<update, slot, running, boot, url, sent, got, started, failed>>
      /\ ~Uploading
  BY SameSeen DEF Uploading, Begin, HttpdStep, Upload, Fetch, InstallTake,
     InstallBusy, InstallWriteUrl, InstallWriteSha, InstallWriteStatus, Spawn,
     SpawnFails, SpawnFailTake, SpawnFailSet, StatusTake, StatusCopy
<1>1. ~Uploading'
  BY DEF Uploading, Begin, HttpdStep, Upload, Fetch, InstallTake,
     InstallBusy, InstallWriteUrl, InstallWriteSha, InstallWriteStatus, Spawn,
     SpawnFails, SpawnFailTake, SpawnFailSet, StatusTake, StatusCopy
<1>2. Counted' /\ NothingForeign'
  <2>1. hpc' \in {"idle", "uploadBegin"} => uploaded' = 0
    BY DEF Provenance, Counted, Begin, HttpdStep, Upload, Fetch, InstallTake,
       InstallBusy, InstallWriteUrl, InstallWriteSha, InstallWriteStatus, Spawn,
       SpawnFails, SpawnFailTake, SpawnFailSet, StatusTake, StatusCopy
  <2> QED
    BY <2>1, <1>0, <1>1 DEF Provenance, Counted, NothingForeign, Uploading
<1>3. \A t \in Tasks : pc'[t] = pc[t] \/ (pc'[t] = "init" /\ pc[t] = "none")
  <2>1. CASE Spawn
    <3>1. PICK u \in Tasks : pc[u] = "none" /\ pc' = [pc EXCEPT ![u] = "init"]
      BY <2>1 DEF Spawn
    <3> QED
      BY <3>1
  <2>2. CASE ~Spawn
    <3>1. UNCHANGED pc
      BY <2>2 DEF Begin, HttpdStep, Upload, Fetch, InstallTake, InstallBusy,
       InstallWriteUrl, InstallWriteSha, InstallWriteStatus, SpawnFails,
       SpawnFailTake, SpawnFailSet, StatusTake, StatusCopy
    <3> QED
      BY <3>1
  <2> QED
    BY <2>1, <2>2
<1>4. NotBegunAgain'
  BY <1>0, <1>1, <1>3 DEF Provenance, NotBegunAgain
<1>5. (\E t \in Tasks : pc[t] = "end") => UNCHANGED meta
  <2>1. (\E t \in Tasks : pc[t] = "end") => status = "Running"
    BY DEF RunningWhileInstalling, Installing
  <2> QED
    BY <2>1 DEF RunningWhileInstalling, Begin, HttpdStep, Upload, Fetch,
       InstallTake, InstallBusy, InstallWriteUrl, InstallWriteSha,
       InstallWriteStatus, Spawn, SpawnFails, SpawnFailTake, SpawnFailSet,
       StatusTake, StatusCopy
<1>6. Blamed'
  BY <1>0, <1>3, <1>5, ZenonT(40) DEF Provenance, Blamed, Owner
<1>7. OffersNewer'
  <2> USE <1>0 DEF Provenance, OffersNewer
  <2>1. CASE Begin
    BY <2>1 DEF Begin
  <2>2. CASE Fetch
    BY <2>2 DEF Fetch
  <2>3. CASE InstallTake \/ InstallBusy
    BY <2>3 DEF InstallTake, InstallBusy
  <2>4. CASE InstallWriteUrl \/ InstallWriteSha
    BY <2>4 DEF InstallWriteUrl, InstallWriteSha, RunningWhileInstalling
  <2>5. CASE InstallWriteStatus
    BY <2>5 DEF InstallWriteStatus, MetadataWhole
  <2>6. CASE Spawn \/ SpawnFails \/ SpawnFailTake \/ SpawnFailSet
             \/ StatusTake \/ StatusCopy
    BY <2>6 DEF Spawn, SpawnFails, SpawnFailTake, SpawnFailSet, StatusTake,
       StatusCopy
  <2> QED
    BY <2>1, <2>2, <2>3, <2>4, <2>5, <2>6 DEF HttpdStep, Upload
<1> QED
  BY <1>2, <1>4, <1>6, <1>7 DEF Provenance

\* A call of an upload.
LEMMA ProvenanceUpload ==
    ASSUME IInv, Provenance, Upload
    PROVE  Provenance'
<1> USE DEF IInv, TypeOK, Serve, server, task, flash
<1>0. FlashOK /\ UNCHANGED <<server, task>> /\ NoRelease \notin Versions
  BY FlashInv, UploadApart, OtaAssumption
<1>1. hpc' \notin {"take", "decide", "writeSha", "writeStatus"}
  BY DEF Upload, UploadBegin, UploadData, UploadWriteFails, UploadLost,
     UploadAbort, UploadReceived, UploadEnd
<1>2. ASSUME UNCHANGED <<update, flash>>, NotBegunAgain', Counted' PROVE Provenance'
  BY <1>0, <1>1, <1>2, SameSeen
     DEF Provenance, Blamed, OffersNewer, NothingForeign, Owner
<1>3. ASSUME update' = Stopped, UNCHANGED flash, NotBegunAgain', Counted'
      PROVE  Provenance'
  <2>1. Seen' = {} /\ Inactive' = Inactive /\ \A v : Newer(v)' = Newer(v)
    BY <1>3, StoppedSeen DEF Inactive, Newer
  <2> QED
    BY <2>1, <1>0, <1>1, <1>3
       DEF Provenance, Blamed, OffersNewer, NothingForeign, Owner
<1>4. CASE UploadBegin
  <2>1. CASE BeginOk
    <3>1. /\ Seen' = {} /\ update'.running /\ update'.progress = 0
          /\ hpc' = "uploadData" /\ uploaded' = 0 /\ UNCHANGED flash
      BY <1>4, <2>1, BeginSeen
         DEF UploadBegin, Provenance, Counted, BeginOk, BeginFails
    <3>2. Inactive' = Inactive /\ \A v : Newer(v)' = Newer(v)
      BY <3>1 DEF Inactive, Newer
    <3>3. Counted' /\ NotBegunAgain'
      BY <3>1, <1>0 DEF Provenance, Counted, NotBegunAgain, Uploading
    <3> QED
      BY <3>1, <3>2, <3>3, <1>0, <1>1
         DEF Provenance, Blamed, OffersNewer, NothingForeign, Owner
  <2>2. CASE ~BeginOk
    <3>1. BeginFails /\ hpc' = "idle" /\ uploaded' = 0
      BY <1>4, <2>2 DEF UploadBegin
    <3>2. UNCHANGED <<update, flash>> /\ Seen' = Seen /\ Inactive' = Inactive
      BY <3>1, SameSeen DEF BeginFails
    <3>3. Counted' /\ NotBegunAgain'
      BY <3>1, <3>2, <1>0 DEF Provenance, Counted, NotBegunAgain, Uploading
    <3> QED
      BY <3>2, <3>3, <1>2
  <2> QED
    BY <2>1, <2>2
<1>5. CASE UploadData
  <2>0. hpc = "uploadData" /\ hpc' = "uploadData" /\ uploaded' = uploaded + 1
        /\ WriteOk("manual") /\ "manual" \in Images
    BY <1>5 DEF UploadData, Images
  <2>1. /\ update.running /\ update'.running
        /\ update'.progress = update.progress + 1 /\ update.progress \in Nat
        /\ Inactive' = Inactive /\ UNCHANGED <<boot, running>>
        /\ Len(slot'[Inactive].pieces) = update'.progress
        /\ Seen' \subseteq Seen \cup {"manual"}
        /\ ~slot'[Inactive].sealed
        /\ \A s \in Slots : s # Inactive => slot'[s] = slot[s]
        /\ \A v : Newer(v)' = Newer(v)
    BY <2>0, <1>0, WriteSeen DEF Provenance
  <2>2. Counted'
    BY <2>0, <2>1 DEF Provenance, Counted, Uploading
  <2>3. NotBegunAgain'
    BY <2>1, <1>0 DEF Provenance, NotBegunAgain
  <2>4. Blamed'
    BY <2>1, <1>0 DEF Provenance, Blamed, Owner
  <2>5. OffersNewer'
    BY <2>1, <1>0, <1>1, OtaAssumption DEF Provenance, OffersNewer
  <2>6. NothingForeign'
    BY <2>1 DEF Provenance, NothingForeign
  <2> QED
    BY <2>2, <2>3, <2>4, <2>5, <2>6 DEF Provenance
<1>6. CASE UploadEnd
  <2>1. CASE EndOk
    <3>1. /\ UNCHANGED running /\ Inactive' = Inactive /\ boot' = Inactive
          /\ update' = Stopped /\ update.running /\ update.progress = Chunks
          /\ \A s \in Slots : s # Inactive => slot'[s] = slot[s]
          /\ \A v : Newer(v)' = Newer(v)
      BY <1>0, <2>1, EndSeen DEF Provenance
    <3>2. PICK img \in Seen : /\ slot'[Inactive].pieces = Whole(img)
                              /\ slot'[Inactive].pieces[1] = img
      BY <1>0, <2>1, EndSeen DEF Provenance
    <3>3. img = "manual"
      BY <3>1, <3>2, <1>6 DEF Provenance, Counted, Uploading, UploadEnd
    <3>4. /\ Seen' = {} /\ ~update'.running /\ ~Uploading'
          /\ hpc' \in {"restart", "idle"} /\ (hpc' = "idle" => uploaded' = 0)
      <4>1. Seen' = {} /\ ~update'.running
        BY <3>1, StoppedSeen DEF Stopped
      <4>2. hpc' \in {"restart", "idle"} /\ (hpc' = "idle" => uploaded' = 0)
        BY <1>6 DEF UploadEnd
      <4> QED
        BY <4>1, <4>2 DEF Uploading
    <3>5. Counted' /\ NotBegunAgain' /\ Blamed'
      BY <3>4, <1>0
         DEF Provenance, Counted, NotBegunAgain, Blamed, Uploading, Owner
    <3>6. OffersNewer'
      BY <3>1, <3>2, <3>3, <3>4, <1>0, <1>1, OtaAssumption
         DEF Provenance, OffersNewer
    <3>7. NothingForeign'
      BY <3>1, <3>2, <3>3, WholeDiffers DEF Provenance, NothingForeign
    <3> QED
      BY <3>5, <3>6, <3>7 DEF Provenance
  <2>2. CASE ~EndOk
    <3>1. update' = Stopped /\ UNCHANGED flash /\ hpc' = "idle" /\ uploaded' = 0
      BY <1>6, <2>2 DEF UploadEnd, EndFails
    <3>2. Counted' /\ NotBegunAgain'
      BY <3>1, <1>0
         DEF Provenance, Counted, NotBegunAgain, Uploading, Stopped
    <3> QED
      BY <3>1, <3>2, <1>3
  <2> QED
    BY <2>1, <2>2
<1>7. CASE UploadWriteFails \/ UploadAbort
  <2>1. update' = Stopped /\ UNCHANGED flash /\ ~Uploading' /\ hpc' # "uploadEnd"
    BY <1>7 DEF UploadWriteFails, UploadAbort, WriteFails, Abort, Uploading
  <2>2. hpc' = "idle" => uploaded' = 0
    BY <1>7 DEF UploadWriteFails, UploadAbort
  <2>3. hpc' # "uploadBegin"
    BY <1>7 DEF UploadWriteFails, UploadAbort
  <2> QED
    BY <2>1, <2>2, <2>3, <1>0, <1>3
       DEF Counted, NotBegunAgain, Provenance, Stopped
<1>8. CASE UploadLost \/ UploadReceived
  <2>1. UNCHANGED <<update, flash>> /\ Seen' = Seen /\ Inactive' = Inactive
    BY <1>8, SameSeen DEF UploadLost, UploadReceived
  <2>2. CASE UploadLost
    <3>1. Counted' /\ NotBegunAgain'
      BY <2>1, <2>2, <1>0
         DEF Provenance, Counted, NotBegunAgain, Uploading, UploadLost
    <3> QED
      BY <2>1, <3>1, <1>2
  <2>3. CASE UploadReceived
    <3>1. Uploading /\ hpc' = "uploadEnd" /\ uploaded' = Chunks /\ uploaded = Chunks
      BY <2>3 DEF UploadReceived, Uploading
    <3>2. Counted'
      BY <2>1, <3>1, <1>0 DEF Provenance, Counted, Uploading
    <3>3. NotBegunAgain'
      BY <2>1, <3>1, <1>0 DEF Provenance, NotBegunAgain, Installing
    <3> QED
      BY <2>1, <3>2, <3>3, <1>2
  <2> QED
    BY <1>8, <2>2, <2>3
<1> QED
  BY <1>4, <1>5, <1>6, <1>7, <1>8 DEF Upload

\* A step of an install task.
LEMMA ProvenanceTask ==
    ASSUME IInv, Provenance, NEW t \in Tasks, TaskStep(t)
    PROVE  Provenance'
<1> USE DEF Step, server, httpd
<1>0. /\ FlashOK /\ TypeOK /\ OneInstaller /\ NoRelease \notin Versions
      /\ Counted /\ NotBegunAgain /\ Blamed /\ OffersNewer /\ NothingForeign
  BY FlashInv, OtaAssumption DEF IInv, Provenance
<1> USE DEF TypeOK
<1>1. ASSUME UNCHANGED <<update, flash, hpc, offer, uploaded, meta>>,
             status' \in {status, "Failed", "Succeeded"},
             NotBegunAgain', Blamed'
      PROVE  Provenance'
  <2>1. /\ Seen' = Seen /\ Inactive' = Inactive /\ \A v : Newer(v)' = Newer(v)
        /\ UNCHANGED <<slot, running, boot>>
    BY <1>1, SameSeen DEF flash
  <2>2. Counted' /\ NothingForeign'
    BY <1>0, <1>1, <2>1 DEF Counted, NothingForeign, Uploading
  <2>3. OffersNewer'
    BY <1>0, <1>1, <2>1 DEF OffersNewer
  <2> QED
    BY <1>1, <2>2, <2>3 DEF Provenance
<1>2. ASSUME update' = Stopped, UNCHANGED <<flash, hpc, offer, uploaded, meta, status>>,
             NotBegunAgain', \A u \in Tasks : pc'[u] = "end" => got'[u] = Whole(meta.sha)
      PROVE  Provenance'
  <2>1. /\ Seen' = {} /\ Inactive' = Inactive /\ \A v : Newer(v)' = Newer(v)
        /\ UNCHANGED <<slot, running, boot>> /\ ~update'.running
    BY <1>2, StoppedSeen DEF flash, Inactive, Newer, Stopped
  <2>2. Counted' /\ NothingForeign' /\ Blamed'
    BY <1>0, <1>2, <2>1 DEF Counted, NothingForeign, Uploading, Blamed
  <2>3. OffersNewer'
    BY <1>0, <1>2, <2>1 DEF OffersNewer
  <2> QED
    BY <1>2, <2>2, <2>3 DEF Provenance
<1>3. CASE TaskInit(t)
  <2>1. NotBegunAgain'
    BY <1>0, <1>3 DEF TaskInit, NotBegunAgain, Installing, Uploading
  <2>2. Blamed'
    <3>0. pc' = [pc EXCEPT ![t] = "data"] \/ pc' = [pc EXCEPT ![t] = "failTake"]
      BY <1>3 DEF TaskInit
    <3>1. Seen' = Seen
      <4>1. UNCHANGED <<update, flash>>
        BY <1>3 DEF TaskInit
      <4> QED
        BY <4>1, SameSeen
    <3>2. \A u \in Tasks : u # t => pc'[u] = pc[u] /\ got'[u] = got[u]
                                    /\ started'[u] = started[u]
      BY <1>0, <1>3, <3>0 DEF TaskInit
    <3>3. pc[t] = "init" /\ pc'[t] # "end" /\ UNCHANGED meta
      BY <1>0, <1>3, <3>0 DEF TaskInit
    <3>4. \A u \in Tasks : Owner(u) => Owner(u)' /\ got'[u] = got[u]
      BY <3>2, <3>3 DEF Owner
    <3>5. \A u \in Tasks : pc'[u] = "end" => pc[u] = "end" /\ got'[u] = got[u]
      BY <3>2, <3>3
    <3>6. ASSUME "other" \in Seen'
          PROVE  \E u \in Tasks : /\ Owner(u)'
                                  /\ \E i \in 1..Len(got'[u]) : got'[u][i] = "other"
      <4>1. PICK u \in Tasks :
                Owner(u) /\ \E i \in 1..Len(got[u]) : got[u][i] = "other"
        BY <1>0, <3>1, <3>6 DEF Blamed
      <4>2. Owner(u)' /\ got'[u] = got[u]
        BY <3>4, <4>1
      <4> QED
        BY <4>1, <4>2
    <3>7. \A u \in Tasks : pc'[u] = "end" => got'[u] = Whole(meta'.sha)
      BY <1>0, <3>1, <3>3, <3>5 DEF Blamed
    <3> QED
      BY <3>6, <3>7 DEF Blamed, Whole
  <2> QED
    BY <1>1, <1>3, <2>1, <2>2 DEF TaskInit
<1>4. CASE TaskData(t) \/ TaskVerified(t) \/ TaskGivesUp(t)
  <2>1. NotBegunAgain'
    BY <1>0, <1>4, ZenonT(40)
       DEF TaskData, TaskVerified, Verified, TaskGivesUp, NotBegunAgain, Installing,
           Uploading
  <2>2. Blamed'
    <3>1. Seen' = Seen /\ UNCHANGED <<got, started, meta>>
      BY <1>4, SameSeen DEF TaskData, TaskVerified, TaskGivesUp
    <3>2. \A u \in Tasks : Owner(u) => Owner(u)'
      BY <1>4, <3>1, <1>0 DEF Owner, TaskData, TaskVerified, TaskGivesUp
    <3>3. \A u \in Tasks : pc'[u] = "end" => pc[u] = "end" \/ got[u] = Whole(meta.sha)
      BY <1>4, <1>0 DEF TaskData, TaskVerified, TaskGivesUp, Verified
    <3> QED
      BY <1>0, <3>1, <3>2, <3>3 DEF Blamed
  <2> QED
    BY <1>1, <1>4, <2>1, <2>2 DEF TaskData, TaskVerified, TaskGivesUp
<1>5. CASE TaskTake(t) \/ TaskFailed(t) \/ TaskSucceeded(t)
  <2>1. NotBegunAgain'
    BY <1>0, <1>5, ZenonT(40)
       DEF TaskTake, TaskFailed, TaskSucceeded, NotBegunAgain, Installing, Uploading
  <2>2. Blamed'
    <3>1. Seen' = Seen /\ UNCHANGED meta
      BY <1>5, SameSeen DEF TaskTake, TaskFailed, TaskSucceeded
    <3>2. \A u \in Tasks : u # t => pc'[u] = pc[u] /\ got'[u] = got[u]
                                    /\ started'[u] = started[u]
      BY <1>0, <1>5 DEF TaskTake, TaskFailed, TaskSucceeded
    <3>3. pc[t] \in {"failTake", "okTake", "failSet", "okSet"} /\ pc'[t] # "end"
      BY <1>5, <1>0 DEF TaskTake, TaskFailed, TaskSucceeded
    <3>4. \A u \in Tasks : Owner(u) => Owner(u)' /\ got'[u] = got[u]
      BY <3>2, <3>3 DEF Owner
    <3>5. \A u \in Tasks : pc'[u] = "end" => pc[u] = "end" /\ got'[u] = got[u]
      BY <3>2, <3>3
    <3>6. ASSUME "other" \in Seen'
          PROVE  \E u \in Tasks : /\ Owner(u)'
                                  /\ \E i \in 1..Len(got'[u]) : got'[u][i] = "other"
      <4>1. PICK u \in Tasks :
                Owner(u) /\ \E i \in 1..Len(got[u]) : got[u][i] = "other"
        BY <1>0, <3>1, <3>6 DEF Blamed
      <4>2. Owner(u)' /\ got'[u] = got[u]
        BY <3>4, <4>1
      <4> QED
        BY <4>1, <4>2
    <3>7. \A u \in Tasks : pc'[u] = "end" => got'[u] = Whole(meta'.sha)
      BY <1>0, <3>1, <3>3, <3>5 DEF Blamed
    <3> QED
      BY <3>6, <3>7 DEF Blamed, Whole
  <2> QED
    BY <1>1, <1>5, <2>1, <2>2 DEF TaskTake, TaskFailed, TaskSucceeded
<1>6. CASE TaskBegin(t)
  <2>0. pc[t] = "begin" /\ Installing(t) /\ UNCHANGED <<hpc, offer, uploaded, meta, status, got>>
    BY <1>6 DEF TaskBegin, Installing
  <2>1. CASE BeginOk /\ started' = [started EXCEPT ![t] = TRUE] /\ Step(t, "write")
    <3>1. /\ Seen' = {} /\ update'.running /\ update'.progress = 0 /\ ~update.running
          /\ UNCHANGED flash
      BY <2>1, BeginSeen DEF BeginOk
    <3>2. Inactive' = Inactive /\ (\A v : Newer(v)' = Newer(v)) /\ ~Uploading
      BY <3>1, <2>0, <1>0 DEF flash, Inactive, Newer, NotBegunAgain
    <3>3. Counted' /\ NothingForeign'
      BY <3>1, <3>2, <2>0, <1>0 DEF flash, Counted, NothingForeign, Uploading
    <3>4. NotBegunAgain'
      BY <3>1, <2>1, <1>0 DEF NotBegunAgain
    <3>5. Blamed'
      BY <3>1, <2>0, <2>1, <1>0 DEF Blamed
    <3>6. OffersNewer'
      BY <3>1, <3>2, <2>0, <1>0 DEF flash, OffersNewer
    <3> QED
      BY <3>3, <3>4, <3>5, <3>6 DEF Provenance
  <2>2. CASE BeginFails /\ Step(t, "data") /\ UNCHANGED started
    <3>1. NotBegunAgain'
      BY <2>0, <2>2, <1>0 DEF BeginFails, NotBegunAgain, Installing, Uploading
    <3>2. Blamed'
      <4>1. Seen' = Seen
        BY <2>2, SameSeen DEF BeginFails
      <4> QED
        BY <4>1, <2>0, <2>2, <1>0 DEF Blamed, Owner
    <3> QED
      BY <3>1, <3>2, <2>0, <2>2, <1>1 DEF BeginFails
  <2> QED
    BY <1>6, <2>1, <2>2 DEF TaskBegin
<1>7. CASE TaskWrite(t)
  <2>0. PICK img \in {url[t], "other"} :
            WriteOk(img) /\ got' = [got EXCEPT ![t] = Append(@, img)]
    BY <1>7 DEF TaskWrite
  <2>1. /\ pc[t] = "write" /\ pc' = [pc EXCEPT ![t] = "data"] /\ started[t]
        /\ UNCHANGED <<hpc, offer, uploaded, status, meta, started>>
    BY <1>7, <1>0 DEF TaskWrite, NotBegunAgain
  <2>2. img \in Images /\ (img \in Versions => Newer(img))
    <3>1. url[t] \in Images
      BY <2>1, DownloadsRelease DEF Installing
    <3>2. Newer(url[t])
      BY <2>1, <1>0
         DEF IInv, MetadataFrozen, RunningWhileInstalling, Installing, OffersNewer
    <3> QED
      BY <3>1, <3>2, OtaAssumption DEF Images
  <2>3. /\ update.running /\ update'.running
        /\ update'.progress = update.progress + 1 /\ update.progress \in Nat
        /\ Inactive' = Inactive /\ UNCHANGED <<boot, running>>
        /\ Len(slot'[Inactive].pieces) = update'.progress
        /\ Seen' \subseteq Seen \cup {img}
        /\ ~slot'[Inactive].sealed
        /\ \A s \in Slots : s # Inactive => slot'[s] = slot[s]
        /\ \A v : Newer(v)' = Newer(v)
    BY <2>0, <2>2, <1>0, WriteSeen
  <2>4. Counted'
    BY <2>1, <2>3, <1>0 DEF Counted, Uploading
  <2>5. NotBegunAgain'
    BY <2>1, <2>3, <1>0 DEF NotBegunAgain
  <2>6. Blamed'
    <3>1. Len(got'[t]) = Len(got[t]) + 1 /\ got'[t][Len(got[t]) + 1] = img
          /\ Len(got[t]) \in Nat /\ \A i \in 1..Len(got[t]) : got'[t][i] = got[t][i]
      BY <2>0, <2>2, <1>0
    <3>2. \A u \in Tasks : u # t => got'[u] = got[u] /\ pc'[u] = pc[u]
      BY <2>0, <2>1, <1>0
    <3>3. pc'[t] = "data" /\ started'[t]
      BY <2>1, <1>0
    <3>4. ASSUME "other" \in Seen'
          PROVE  \E u \in Tasks : /\ Owner(u)'
                                  /\ \E i \in 1..Len(got'[u]) : got'[u][i] = "other"
      <4>1. CASE img = "other"
        BY <4>1, <3>1, <3>3 DEF Owner
      <4>2. CASE img # "other"
        <5>1. PICK u \in Tasks :
                  Owner(u) /\ \E i \in 1..Len(got[u]) : got[u][i] = "other"
          BY <4>2, <3>4, <2>3, <1>0 DEF Blamed
        <5>2. Owner(u)'
          BY <5>1, <3>2, <3>3, <2>1 DEF Owner
        <5>3. \E i \in 1..Len(got'[u]) : got'[u][i] = "other"
          BY <5>1, <3>1, <3>2
        <5> QED
          BY <5>2, <5>3
      <4> QED
        BY <4>1, <4>2
    <3>5. \A u \in Tasks : pc'[u] = "end" => got'[u] = Whole(meta'.sha)
      BY <3>2, <3>3, <2>1, <1>0 DEF Blamed
    <3> QED
      BY <3>4, <3>5 DEF Blamed, Whole
  <2>7. OffersNewer'
    BY <2>1, <2>2, <2>3, <1>0 DEF OffersNewer
  <2>8. NothingForeign'
    BY <2>3, <1>0 DEF NothingForeign
  <2> QED
    BY <2>4, <2>5, <2>6, <2>7, <2>8 DEF Provenance
<1>8. CASE TaskWriteFails(t) \/ TaskAbort(t) \/ TaskAbortLast(t)
  <2>1. /\ update' = Stopped
        /\ UNCHANGED <<flash, hpc, offer, uploaded, meta, status, got, started>>
    BY <1>8 DEF TaskWriteFails, TaskAbort, TaskAbortLast, WriteFails, Abort
  <2>2. /\ Installing(t) /\ started[t] /\ pc'[t] \in {"abort", "data", "failTake"}
        /\ \A u \in Tasks : u # t => pc'[u] = pc[u]
    BY <1>8, <1>0
       DEF TaskWriteFails, TaskAbort, TaskAbortLast, Installing, NotBegunAgain
  <2>3. NotBegunAgain'
    BY <2>1, <2>2, <1>0 DEF NotBegunAgain, OneInstaller, Installing
  <2>4. \A u \in Tasks : pc'[u] = "end" => got'[u] = Whole(meta.sha)
    BY <2>1, <2>2, <1>0 DEF Blamed
  <2> QED
    BY <1>2, <2>1, <2>3, <2>4
<1>9. CASE TaskEnd(t)
  <2>0. /\ pc[t] = "end" /\ Installing(t) /\ started[t] /\ got[t] = Whole(meta.sha)
        /\ UNCHANGED <<hpc, offer, uploaded, meta, status, got, started>>
        /\ pc'[t] \in {"okTake", "failTake"}
        /\ \A u \in Tasks : u # t => pc'[u] = pc[u]
    BY <1>9, <1>0 DEF TaskEnd, Installing, NotBegunAgain, Blamed
  <2>1. update' = Stopped
    BY <1>9 DEF TaskEnd, EndOk, EndFails
  <2>2. NotBegunAgain'
    BY <2>0, <1>0 DEF NotBegunAgain, OneInstaller, Installing
  <2>3. \A u \in Tasks : pc'[u] = "end" => got'[u] = Whole(meta.sha)
    BY <2>0, <1>0 DEF Blamed
  <2>4. CASE EndOk
    <3>1. /\ UNCHANGED running /\ Inactive' = Inactive /\ boot' = Inactive
          /\ \A s \in Slots : s # Inactive => slot'[s] = slot[s]
          /\ \A v : Newer(v)' = Newer(v)
      BY <1>0, <2>4, EndSeen
    <3>2. PICK img \in Seen : /\ slot'[Inactive].pieces = Whole(img)
                              /\ slot'[Inactive].pieces[1] = img
      BY <1>0, <2>4, EndSeen
    <3>3. img # "other"
      <4>1. meta.sha # "other"
        BY <2>0, OtaAssumption DEF IInv, RunningWhileInstalling, MetadataWhole
      <4>2. \A i \in 1..Len(got[t]) : got[t][i] # "other"
        <5>1. Len(got[t]) = Chunks
          BY <2>0, OtaAssumption DEF Whole
        <5> QED
          BY <5>1, <2>0, <4>1 DEF Whole
      <4>3. \A u \in Tasks : Owner(u) => u = t
        BY <2>0, <1>0 DEF Owner, OneInstaller, Installing
      <4> QED
        BY <4>2, <4>3, <3>2, <1>0 DEF Blamed
    <3>4. Seen' = {} /\ ~update'.running
      BY <2>1, StoppedSeen DEF Stopped
    <3>5. Counted' /\ Blamed'
      BY <3>4, <2>0, <2>3, <1>0 DEF Counted, Blamed, Uploading
    <3>6. OffersNewer'
      BY <3>1, <3>2, <3>4, <2>0, <1>0 DEF OffersNewer
    <3>7. NothingForeign'
      BY <3>1, <3>2, <3>3, <1>0, WholeDiffers DEF NothingForeign
    <3> QED
      BY <2>2, <3>5, <3>6, <3>7 DEF Provenance
  <2>5. CASE ~EndOk
    <3>1. UNCHANGED flash
      BY <1>9, <2>5 DEF TaskEnd, EndFails
    <3> QED
      BY <3>1, <2>0, <2>1, <2>2, <2>3, <1>2
  <2> QED
    BY <2>4, <2>5
<1> QED
  BY <1>3, <1>4, <1>5, <1>6, <1>7, <1>8, <1>9 DEF TaskStep

LEMMA InitProvenance == Init => Provenance
<1> SUFFICES ASSUME Init PROVE Provenance
  OBVIOUS
<1>1. Seen = {}
  BY DEF Init, Seen, Stopped
<1>2. Counted /\ NotBegunAgain /\ Blamed
  BY <1>1 DEF Init, Counted, NotBegunAgain, Blamed, Uploading, Stopped, Installing
<1>3. OffersNewer
  BY <1>1 DEF Init, OffersNewer, Inactive
<1>4. NothingForeign
  BY WholeDiffers DEF Init, NothingForeign
<1> QED
  BY <1>2, <1>3, <1>4 DEF Provenance

\* After a restart nothing is on its way; a slot that could not be booted was
\* not the one that ran.
LEMMA ProvenanceRestart == IInv /\ Provenance /\ Restart => Provenance'
<1> SUFFICES ASSUME IInv, Provenance, Restart PROVE Provenance'
  OBVIOUS
<1>1. Seen' = {} /\ ~update'.running
  BY StoppedSeen DEF Restart, Stopped
<1>2. Counted' /\ NotBegunAgain' /\ Blamed' /\ NothingForeign'
  BY <1>1 DEF Restart, Provenance, Counted, NotBegunAgain, Blamed, NothingForeign,
     Uploading, Installing
<1>3. OffersNewer'
  <2>1. boot' = boot /\ slot' = slot /\ hpc' = "idle" /\ status' = "Idle"
    BY DEF Restart
  <2>2. CASE Bootable(boot)
    <3>1. boot' # Inactive'
      BY <2>1, <2>2 DEF Restart, Inactive
    <3> QED
      BY <1>1, <2>1, <3>1 DEF OffersNewer
  <2>3. CASE ~Bootable(boot)
    <3>1. running' = running
      BY <2>3 DEF Restart, IInv, TypeOK, Slots, RunningIntact
    <3>2. Inactive' = Inactive /\ \A v : Newer(v)' = Newer(v)
      BY <2>1, <3>1 DEF Inactive, Newer
    <3> QED
      BY <1>1, <2>1, <3>2 DEF OffersNewer, Provenance
  <2> QED
    BY <2>2, <2>3
<1> QED
  BY <1>2, <1>3 DEF Provenance

LEMMA ProvenanceStep == IInv /\ Provenance /\ [Next]_vars => Provenance'
<1> SUFFICES ASSUME IInv, Provenance, [Next]_vars PROVE Provenance'
  OBVIOUS
<1>1. CASE UNCHANGED vars
  <2>1. Seen' = Seen /\ Inactive' = Inactive /\ \A v : Newer(v)' = Newer(v)
    BY <1>1, SameSeen DEF vars
  <2>2. UNCHANGED <<server, httpd, task, update, slot, boot>>
    BY <1>1 DEF vars, flash
  <2>3. Counted'
    BY <2>1, <2>2 DEF httpd, Provenance, Counted, Uploading
  <2>4. NotBegunAgain'
    BY <2>2 DEF httpd, task, Provenance, NotBegunAgain, Uploading, Installing
  <2>5. Blamed'
    <3>1. ASSUME "other" \in Seen'
          PROVE  \E u \in Tasks : Owner(u)' /\ \E i \in 1..Len(got'[u]) : got'[u][i] = "other"
      <4>1. PICK u \in Tasks : Owner(u) /\ \E i \in 1..Len(got[u]) : got[u][i] = "other"
        BY <2>1, <3>1 DEF Provenance, Blamed
      <4>2. Owner(u)' /\ got' = got
        BY <2>2, <4>1 DEF task, Owner
      <4> QED
        BY <4>1, <4>2
    <3>2. \A t \in Tasks : pc'[t] = "end" => got'[t] = Whole(meta'.sha)
      BY <2>2 DEF server, task, Provenance, Blamed, Whole
    <3> QED
      BY <3>1, <3>2 DEF Blamed, Whole
  <2>6. OffersNewer'
    BY <2>1, <2>2 DEF server, httpd, Provenance, OffersNewer
  <2>7. NothingForeign'
    BY <2>2 DEF Provenance, NothingForeign, Whole
  <2> QED
    BY <2>3, <2>4, <2>5, <2>6, <2>7 DEF Provenance
<1> QED
  BY <1>1, ProvenanceHttpd, ProvenanceUpload, ProvenanceTask, ProvenanceRestart
     DEF Next, HttpdStep, Upload

\* compareSemver decides the order of versions: its sign is that of the first part
\* that differs, and it is zero for equal versions only.
THEOREM CompareSemverOrders ==
    \A a, b \in Nat \X Nat \X Nat :
        /\ CompareSemver(a, b) > 0 <=> Precedes(b, a)
        /\ CompareSemver(a, b) < 0 <=> Precedes(a, b)
        /\ CompareSemver(a, b) = 0 <=> a = b
<1> SUFFICES ASSUME NEW a \in Nat \X Nat \X Nat, NEW b \in Nat \X Nat \X Nat
             PROVE  /\ CompareSemver(a, b) > 0 <=> Precedes(b, a)
                    /\ CompareSemver(a, b) < 0 <=> Precedes(a, b)
                    /\ CompareSemver(a, b) = 0 <=> a = b
  OBVIOUS
<1>1. \A v \in Nat \X Nat \X Nat :
          v = <<v[1], v[2], v[3]>> /\ v[1] \in Nat /\ v[2] \in Nat /\ v[3] \in Nat
  OBVIOUS
<1>2. a[1] \in Nat /\ a[2] \in Nat /\ a[3] \in Nat
      /\ b[1] \in Nat /\ b[2] \in Nat /\ b[3] \in Nat
  BY <1>1
<1>3. a = b <=> a[1] = b[1] /\ a[2] = b[2] /\ a[3] = b[3]
  BY <1>1
<1>4. ASSUME NEW u, NEW v
      PROVE  Precedes(u, v) <=> \/ u[1] < v[1]
                                \/ u[1] = v[1] /\ u[2] < v[2]
                                \/ u[1] = v[1] /\ u[2] = v[2] /\ u[3] < v[3]
  <2> DEFINE First(i) == u[i] < v[i] /\ \A k \in 1..(i-1) : u[k] = v[k]
  <2>1. Precedes(u, v) <=> First(1) \/ First(2) \/ First(3)
    <3>1. \A i : i \in 1..3 <=> i = 1 \/ i = 2 \/ i = 3
      OBVIOUS
    <3>2. Precedes(u, v) <=> \E i \in 1..3 : First(i)
      BY DEF Precedes
    <3> HIDE DEF First
    <3> QED
      BY <3>1, <3>2, Zenon
  <2>2. First(1) <=> u[1] < v[1]
    OBVIOUS
  <2>3. First(2) <=> u[1] = v[1] /\ u[2] < v[2]
    OBVIOUS
  <2>4. First(3) <=> u[1] = v[1] /\ u[2] = v[2] /\ u[3] < v[3]
    <3>1. \A k : k \in 1..(3-1) <=> k = 1 \/ k = 2
      OBVIOUS
    <3> QED
      BY <3>1
  <2> HIDE DEF First
  <2> QED
    BY <2>1, <2>2, <2>3, <2>4, Zenon
<1>5. CompareSemver(a, b) > 0 <=> Precedes(b, a)
  <2>1. CompareSemver(a, b) > 0 <=> \/ b[1] < a[1]
                                    \/ b[1] = a[1] /\ b[2] < a[2]
                                    \/ b[1] = a[1] /\ b[2] = a[2] /\ b[3] < a[3]
    BY <1>2 DEF CompareSemver
  <2> QED
    BY <1>4, <2>1, Zenon
<1>6. CompareSemver(a, b) < 0 <=> Precedes(a, b)
  <2>1. CompareSemver(a, b) < 0 <=> \/ a[1] < b[1]
                                    \/ a[1] = b[1] /\ a[2] < b[2]
                                    \/ a[1] = b[1] /\ a[2] = b[2] /\ a[3] < b[3]
    BY <1>2 DEF CompareSemver
  <2> QED
    BY <1>4, <2>1, Zenon
<1>7. CompareSemver(a, b) = 0 <=> a = b
  BY <1>2, <1>3 DEF CompareSemver
<1> QED
  BY <1>5, <1>6, <1>7

\* A release that passes the check is newer than the image that runs.
LEMMA NewerPrecedes ==
    ASSUME TypeOK, RunningIntact, NEW v \in Versions, Newer(v)
    PROVE  Precedes(Semver[slot[running].pieces[1]], Semver[v])
<1>1. PICK img \in Images : slot[running].pieces = Whole(img)
  BY DEF RunningIntact, Bootable, WellFormed
<1>2. slot[running].pieces[1] = img
  BY <1>1, OtaAssumption DEF Whole
<1>3. Semver[v] \in Nat \X Nat \X Nat /\ Semver[img] \in Nat \X Nat \X Nat
  BY OtaAssumption DEF Images
<1>4. CompareSemver(Semver[v], Semver[img]) > 0
  BY <1>2 DEF Newer
<1> QED
  BY <1>2, <1>3, <1>4, CompareSemverOrders

\* Only a restart changes the running slot, and only to a selected one.
LEMMA UpgradeStep ==
    ASSUME IInv, Provenance, [Next]_vars, running' # running,
           NEW v \in Versions, slot[running'].pieces[1] = v
    PROVE  Newer(v)
<1>1. Restart
  <2>1. \A t \in Tasks : ~TaskStep(t)
    BY DEF TaskStep, TaskInit, TaskData, TaskBegin, TaskWrite,
       TaskWriteFails, TaskAbort, TaskVerified, TaskGivesUp, TaskAbortLast, TaskEnd,
       TaskTake, TaskFailed, TaskSucceeded, BeginOk, BeginFails, WriteOk, WriteFails,
       Abort, EndOk, EndFails, flash
  <2>2. ~Upload
    BY DEF Upload, UploadBegin, UploadData, UploadWriteFails, UploadLost, UploadAbort,
       UploadReceived, UploadEnd, BeginOk, BeginFails, WriteOk, WriteFails, Abort,
       EndOk, EndFails, flash
  <2>3. Upload \/ ~(Begin \/ HttpdStep)
    BY DEF Begin, HttpdStep, Upload, Fetch, InstallTake, InstallBusy, InstallWriteUrl,
       InstallWriteSha, InstallWriteStatus, Spawn, SpawnFails, SpawnFailTake,
       SpawnFailSet, StatusTake, StatusCopy, flash
  <2> QED
    BY <2>1, <2>2, <2>3 DEF Next, vars, flash
<1>2. Bootable(boot) /\ running' = boot /\ boot = Inactive
  BY <1>1 DEF Restart, IInv, TypeOK, Slots, RunningIntact, Inactive
<1> QED
  BY <1>2 DEF Provenance, OffersNewer, Bootable

-----------------------------------------------------------------------------
(* What was reported as installed.                                         *)

\* Update.end seals only what esp_image_verify accepts, and a write unseals.
SealedIsWhole == \A s \in Slots : slot[s].sealed => WellFormed(slot[s].pieces)

\* A task that ended the update, up to the restart it then makes.
Ended(t) == pc[t] \in {"okTake", "okSet", "restart"}

\* The slot it selected stays selected: no other can be written or selected.
EndedSelects == \A t \in Tasks : Ended(t) => boot = Inactive

\* The slot not run from is being written: it counts for nothing until its end.
Erases ==
    /\ slot' = [slot EXCEPT ![Inactive] = [pieces |-> slot'[Inactive].pieces,
                                           sealed |-> FALSE]]
    /\ UNCHANGED <<running, boot>>

LEMMA WriteErases ==
    ASSUME TypeOK, NEW img, WriteOk(img) PROVE Erases
<1>1. Inactive \in Slots /\ slot \in SlotType
  BY DEF TypeOK, Inactive, Slots, SlotType
<1> QED
  BY <1>1 DEF WriteOk, Erases, SlotType

\* The four ways in which a step may touch the flash.
LEMMA FlashMoves ==
    ASSUME TypeOK, [Next]_vars
    PROVE  UNCHANGED flash \/ Erases \/ EndOk \/ Restart
<1>1. CASE UNCHANGED vars
  BY <1>1 DEF vars
<1>2. CASE Upload
  <2>1. CASE UploadData
    BY <2>1, WriteErases DEF UploadData
  <2>2. CASE ~UploadData
    BY <1>2, <2>2 DEF Upload, UploadBegin, UploadWriteFails, UploadLost,
       UploadAbort, UploadReceived, UploadEnd, BeginOk, BeginFails, WriteFails,
       Abort, EndFails
  <2> QED
    BY <2>1, <2>2
<1>3. CASE (Begin \/ HttpdStep) /\ ~Upload
  BY <1>3 DEF Begin, HttpdStep, Upload, Fetch, InstallTake, InstallBusy,
     InstallWriteUrl, InstallWriteSha, InstallWriteStatus, Spawn, SpawnFails,
     SpawnFailTake, SpawnFailSet, StatusTake, StatusCopy
<1>4. ASSUME NEW t \in Tasks, TaskStep(t) PROVE UNCHANGED flash \/ Erases \/ EndOk
  <2>1. CASE TaskWrite(t)
    BY <2>1, WriteErases DEF TaskWrite
  <2>2. CASE ~TaskWrite(t)
    BY <1>4, <2>2 DEF TaskStep, TaskInit, TaskData, TaskBegin, TaskWriteFails,
       TaskAbort, TaskVerified, TaskGivesUp, TaskAbortLast, TaskEnd, TaskTake,
       TaskFailed, TaskSucceeded, BeginOk, BeginFails, WriteFails, Abort, EndFails
  <2> QED
    BY <2>1, <2>2
<1> QED
  BY <1>1, <1>2, <1>3, <1>4 DEF Next

LEMMA SealedStep == TypeOK /\ SealedIsWhole /\ [Next]_vars => SealedIsWhole'
<1> SUFFICES ASSUME TypeOK, SealedIsWhole, [Next]_vars, NEW s \in Slots, slot'[s].sealed
             PROVE  WellFormed(slot'[s].pieces)
  BY DEF SealedIsWhole, WellFormed, Whole
<1>0. slot \in SlotType /\ Inactive \in Slots
  BY DEF TypeOK, SlotType, Inactive, Slots
<1>1. CASE UNCHANGED flash \/ Restart
  BY <1>1 DEF flash, Restart, SealedIsWhole
<1>2. CASE Erases
  <2>1. s # Inactive
    BY <1>0, <1>2 DEF Erases, SlotType
  <2>2. slot'[s] = slot[s]
    BY <1>0, <1>2, <2>1 DEF Erases, SlotType
  <2> QED
    BY <2>2 DEF SealedIsWhole
<1>3. CASE EndOk
  BY <1>0, <1>3 DEF EndOk, SlotType, SealedIsWhole
<1> QED
  BY <1>1, <1>2, <1>3, FlashMoves

\* Only Update.end brings a task there, and only a restart brings it back.
LEMMA EndedComes ==
    ASSUME TypeOK, [Next]_vars, NEW t \in Tasks, Ended(t)', ~EndOk
    PROVE  Ended(t) /\ ~Restart
<1>0. pc \in [Tasks -> TaskPcs]
  BY DEF TypeOK
<1>1. ~Restart
  BY DEF Restart, Ended
<1>2. CASE UNCHANGED pc
  BY <1>1, <1>2 DEF Ended
<1>3. ASSUME NEW u \in Tasks, TaskStep(u) PROVE Ended(t)
  BY <1>0, <1>3 DEF Ended, Step, TaskStep, TaskInit, TaskData, TaskBegin, TaskWrite,
     TaskWriteFails, TaskAbort, TaskVerified, TaskGivesUp, TaskAbortLast, TaskEnd,
     TaskTake, TaskFailed, TaskSucceeded
<1>4. CASE Spawn
  BY <1>0, <1>1, <1>4 DEF Spawn, Ended
<1>5. CASE (Begin \/ HttpdStep) /\ ~Spawn
  <2>1. UNCHANGED pc
    BY <1>5 DEF Begin, HttpdStep, Fetch, InstallTake, InstallBusy, InstallWriteUrl,
       InstallWriteSha, InstallWriteStatus, SpawnFails, SpawnFailTake, SpawnFailSet,
       StatusTake, StatusCopy, UploadBegin, UploadData, UploadWriteFails, UploadLost,
       UploadAbort, UploadReceived, UploadEnd, task
  <2> QED
    BY <1>2, <2>1
<1> QED
  BY <1>1, <1>2, <1>3, <1>4, <1>5 DEF Next, vars, task

LEMMA EndedStep == TypeOK /\ EndedSelects /\ [Next]_vars => EndedSelects'
<1> SUFFICES ASSUME TypeOK, EndedSelects, [Next]_vars, NEW t \in Tasks, Ended(t)'
             PROVE  boot' = Inactive'
  BY DEF EndedSelects, Ended
<1>1. CASE EndOk
  BY <1>1 DEF EndOk, Inactive
<1>2. CASE ~EndOk
  <2>1. boot = Inactive /\ (UNCHANGED flash \/ Erases)
    BY <1>2, EndedComes, FlashMoves DEF EndedSelects
  <2> QED
    BY <2>1 DEF flash, Erases, Inactive
<1> QED
  BY <1>1, <1>2

-----------------------------------------------------------------------------
(* Refinement.  Firmware sees the image that runs, the one that would boot   *)
(* now and the release whose install is accepted.                            *)

Runs == slot[running].pieces[1]
NextImage == IF Bootable(boot) THEN slot[boot].pieces[1] ELSE slot[running].pieces[1]
Accepted == IF status = "Running" THEN meta.url ELSE NoRelease
Upgrades ==
    {p \in Images \X Versions : Precedes(Semver[p[1]], Semver[p[2]])}

\* A release of which a piece was written is the one that a task, which has not
\* reported, installs: whoever leaves has stopped the update.
ReleasePiecesOwned ==
    \A v \in Seen \cap Versions : \E t \in Tasks : Owner(t) /\ url[t] = v

LEMMA PiecesOwnedStep ==
    IInv /\ Provenance /\ ReleasePiecesOwned /\ [Next]_vars => ReleasePiecesOwned'
<1> SUFFICES ASSUME IInv, Provenance, ReleasePiecesOwned, [Next]_vars
             PROVE  ReleasePiecesOwned'
  OBVIOUS
<1>0. TypeOK /\ FlashOK /\ Counted /\ NotBegunAgain
  BY FlashInv DEF IInv, Provenance
<1>1. CASE update' = Stopped \/ BeginOk
  BY <1>1, StoppedSeen, BeginSeen DEF ReleasePiecesOwned
<1>2. ASSUME UNCHANGED <<update, flash>>,
             \A u \in Tasks : Owner(u) => Owner(u)' /\ url'[u] = url[u]
      PROVE  ReleasePiecesOwned'
  BY <1>2, SameSeen DEF ReleasePiecesOwned
<1>3. CASE UNCHANGED vars
  BY <1>2, <1>3 DEF vars, task, Owner
<1>4. CASE Upload
  <2>1. \A u \in Tasks : Owner(u) => Owner(u)' /\ url'[u] = url[u]
    BY <1>4, UploadApart DEF task, Owner
  <2>2. CASE UploadData
    <3>1. WriteOk("manual") /\ "manual" \in Images /\ "manual" \notin Versions
      BY <2>2, OtaAssumption DEF UploadData, Images
    <3>2. Seen' \subseteq Seen \cup {"manual"}
      BY <1>0, <3>1, WriteSeen
    <3> QED
      BY <2>1, <3>1, <3>2 DEF ReleasePiecesOwned
  <2>3. CASE ~UploadData
    BY <1>1, <1>2, <1>4, <2>1, <2>3 DEF Upload, UploadBegin, UploadWriteFails,
       UploadLost, UploadAbort, UploadReceived, UploadEnd, BeginFails, WriteFails,
       Abort, EndOk, EndFails
  <2> QED
    BY <2>2, <2>3
<1>5. CASE (Begin \/ HttpdStep) /\ ~Upload
  <2>1. UNCHANGED <<update, flash, url, started>>
    BY <1>5 DEF Begin, HttpdStep, Upload, Fetch, InstallTake, InstallBusy,
       InstallWriteUrl, InstallWriteSha, InstallWriteStatus, Spawn, SpawnFails,
       SpawnFailTake, SpawnFailSet, StatusTake, StatusCopy, task
  <2>2. CASE Spawn
    <3>1. \A u \in Tasks : pc[u] # "none" => pc'[u] = pc[u]
      BY <1>0, <2>2 DEF Spawn, TypeOK
    <3> QED
      BY <1>2, <2>1, <3>1 DEF Owner
  <2>3. CASE ~Spawn
    <3>1. UNCHANGED pc
      BY <1>5, <2>3 DEF Begin, HttpdStep, Upload, Fetch, InstallTake, InstallBusy,
         InstallWriteUrl, InstallWriteSha, InstallWriteStatus, SpawnFails,
         SpawnFailTake, SpawnFailSet, StatusTake, StatusCopy, task
    <3> QED
      BY <1>2, <2>1, <3>1 DEF Owner
  <2> QED
    BY <2>2, <2>3
<1>6. ASSUME NEW t \in Tasks, TaskStep(t) PROVE ReleasePiecesOwned'
  <2>0. \A u \in Tasks : u # t => pc'[u] = pc[u] /\ started'[u] = started[u]
                                  /\ url'[u] = url[u]
    BY <1>0, <1>6 DEF TypeOK, Step, TaskStep, TaskInit, TaskData, TaskBegin, TaskWrite,
       TaskWriteFails, TaskAbort, TaskVerified, TaskGivesUp, TaskAbortLast,
       TaskEnd, TaskTake, TaskFailed, TaskSucceeded
  <2>1. CASE TaskWrite(t)
    <3>1. PICK img \in {url[t], "other"} : WriteOk(img)
      BY <2>1 DEF TaskWrite
    <3>2. img \in Images /\ "other" \notin Versions
      BY <2>1, <3>1, DownloadsRelease, OtaAssumption DEF TaskWrite, Installing, Images
    <3>3. Seen' \subseteq Seen \cup {img}
      BY <1>0, <3>1, <3>2, WriteSeen
    <3>4. started[t] /\ pc'[t] = "data" /\ UNCHANGED <<started, url>>
      BY <1>0, <2>1 DEF TaskWrite, Step, TypeOK, NotBegunAgain
    <3>5. Owner(t)' /\ \A u \in Tasks : Owner(u) => Owner(u)' /\ url'[u] = url[u]
      BY <2>0, <3>4 DEF Owner
    <3>6. ASSUME NEW v \in Seen' \cap Versions
          PROVE  \E u \in Tasks : Owner(u)' /\ url'[u] = v
      <4>1. CASE v = url[t]
        BY <4>1, <3>4, <3>5
      <4>2. CASE v # url[t]
        BY <4>2, <3>1, <3>2, <3>3, <3>5, <3>6 DEF ReleasePiecesOwned
      <4> QED
        BY <4>1, <4>2
    <3> QED
      BY <3>6 DEF ReleasePiecesOwned
  <2>2. CASE TaskInit(t) \/ TaskTake(t) \/ TaskFailed(t) \/ TaskSucceeded(t)
             \/ (TaskBegin(t) /\ ~BeginOk)
    <3>1. ~Owner(t)
      BY <2>2 DEF Owner, TaskInit, TaskTake, TaskFailed, TaskSucceeded, TaskBegin
    <3>2. UNCHANGED <<update, flash>>
      BY <2>2 DEF TaskInit, TaskTake, TaskFailed, TaskSucceeded, TaskBegin, BeginFails
    <3> QED
      BY <1>2, <2>0, <3>1, <3>2 DEF Owner
  <2>3. CASE TaskData(t) \/ TaskVerified(t) \/ TaskGivesUp(t)
    <3>1. UNCHANGED <<update, flash, url, started>>
      BY <2>3 DEF TaskData, TaskVerified, TaskGivesUp
    <3>2. Owner(t) => Owner(t)'
      BY <1>0, <2>3, <3>1 DEF TypeOK, Owner, Step, TaskData, TaskVerified, TaskGivesUp
    <3> QED
      BY <1>2, <2>0, <3>1, <3>2 DEF Owner
  <2>4. CASE TaskWriteFails(t) \/ TaskAbort(t) \/ TaskAbortLast(t) \/ TaskEnd(t)
             \/ (TaskBegin(t) /\ BeginOk)
    BY <1>1, <2>4 DEF TaskWriteFails, TaskAbort, TaskAbortLast, TaskEnd, WriteFails,
       Abort, EndOk, EndFails
  <2> QED
    BY <1>6, <2>1, <2>2, <2>3, <2>4 DEF TaskStep
<1>7. CASE Restart
  BY <1>1, <1>7 DEF Restart
<1> QED
  BY <1>3, <1>4, <1>5, <1>6, <1>7 DEF Next

\* What Firmware sees of the device, step by step.
LEMMA ViewStep ==
    ASSUME \/ UNCHANGED <<Runs, NextImage, Accepted>>
           \/ \E v \in Versions : /\ Accepted = NoRelease /\ Accepted' = v
                                  /\ <<Runs, v>> \in Upgrades
                                  /\ UNCHANGED <<Runs, NextImage>>
           \/ \E img \in Versions \cup {"manual"} :
                  /\ img \in {"manual", Accepted} \ {NoRelease}
                  /\ NextImage' = img /\ UNCHANGED <<Runs, Accepted>>
           \/ NextImage' = Runs /\ UNCHANGED <<Runs, Accepted>>
           \/ /\ Accepted # NoRelease /\ Accepted' = NoRelease
              /\ UNCHANGED <<Runs, NextImage>>
           \/ Runs' = NextImage /\ Accepted' = NoRelease /\ UNCHANGED NextImage
    PROVE  [FirmwareView!Next]_(FirmwareView!vars)
BY DEF FirmwareView!Next, FirmwareView!vars, FirmwareView!Accept,
   FirmwareView!Select, FirmwareView!Discard, FirmwareView!Report,
   FirmwareView!Boot, Runs, NextImage, Accepted, Upgrades

\* The image that runs is one the device can hold.
LEMMA RunsImage ==
    ASSUME IInv PROVE Runs \in Images /\ slot[running].pieces = Whole(Runs)
<1>1. PICK img \in Images : slot[running].pieces = Whole(img)
  BY DEF IInv, RunningIntact, Bootable, WellFormed
<1>2. Runs = img
  BY <1>1, OtaAssumption DEF Runs, Whole
<1> QED
  BY <1>1, <1>2

\* A piece written leaves the device with the image it runs.
LEMMA WriteView ==
    ASSUME IInv, Provenance, NEW img \in Images, WriteOk(img), UNCHANGED server
    PROVE  [FirmwareView!Next]_(FirmwareView!vars)
<1>0. FlashOK /\ Counted /\ running \in Slots /\ boot \in Slots /\ Inactive # running
  BY FlashInv DEF Provenance, IInv, TypeOK, Inactive, Slots
<1>1. /\ UNCHANGED <<boot, running>> /\ ~slot'[Inactive].sealed
      /\ slot'[running] = slot[running]
  BY <1>0, WriteSeen
<1>2. UNCHANGED Runs /\ NextImage' = Runs
  <2>1. CASE boot = running
    BY <1>1, <2>1 DEF Runs, NextImage
  <2>2. CASE boot # running
    <3>1. boot' = Inactive
      BY <1>0, <1>1, <2>2 DEF Inactive, Slots
    <3> QED
      BY <1>1, <3>1 DEF Runs, NextImage, Bootable
  <2> QED
    BY <2>1, <2>2
<1>3. UNCHANGED Accepted
  BY DEF server, Accepted
<1> QED
  BY <1>2, <1>3, ViewStep

\* A verified image is selected: it must be an upload or the accepted release.
LEMMA EndView ==
    ASSUME IInv, Provenance, EndOk, UNCHANGED server,
           \A img \in Seen : img \in {"manual", Accepted} \ {NoRelease}
    PROVE  [FirmwareView!Next]_(FirmwareView!vars)
<1>0. FlashOK /\ Counted /\ running \in Slots /\ Inactive # running /\ Inactive \in Slots
      /\ slot \in SlotType
  BY FlashInv DEF Provenance, IInv, TypeOK, Inactive, Slots, FlashOK
<1>1. PICK img \in Seen : /\ slot'[Inactive].pieces = Whole(img)
                          /\ slot'[Inactive].pieces[1] = img
  BY <1>0, EndSeen
<1>2. /\ UNCHANGED running /\ boot' = Inactive
      /\ slot'[running] = slot[running]
  BY <1>0, EndSeen
<1>3. slot'[Inactive].sealed
  BY <1>0 DEF EndOk, SlotType
<1>4. UNCHANGED Runs /\ UNCHANGED Accepted
  BY <1>2 DEF Runs, Accepted, server
<1>5. img \in Versions \cup {"manual"}
  <2>1. Accepted \in Versions \cup {NoRelease}
    BY DEF Accepted, IInv, MetadataWhole
  <2> QED
    BY <2>1, <1>1
<1>6. NextImage' = img
  <2>1. Bootable(boot)'
    BY <1>1, <1>2, <1>3, <1>5, WholeIsIntact DEF Bootable, Images
  <2> QED
    BY <2>1, <1>1, <1>2 DEF NextImage
<1> QED
  BY <1>1, <1>4, <1>5, <1>6, ViewStep

LEMMA TaskView ==
    ASSUME IInv, Provenance, ReleasePiecesOwned, NEW t \in Tasks, TaskStep(t)
    PROVE  [FirmwareView!Next]_(FirmwareView!vars)
<1>0. NoRelease \notin Versions /\ "other" \notin Versions
  BY OtaAssumption
<1>1. CASE TaskWrite(t)
  <2>1. PICK img \in {url[t], "other"} : WriteOk(img)
    BY <1>1 DEF TaskWrite
  <2>2. img \in Images
    BY <1>1, <2>1, DownloadsRelease DEF TaskWrite, Installing, Images
  <2> QED
    BY <1>1, <2>1, <2>2, WriteView DEF TaskWrite
<1>2. CASE TaskEnd(t) /\ EndOk
  <2>1. /\ Installing(t) /\ started[t] /\ got[t] = Whole(meta.sha) /\ status = "Running"
        /\ meta.sha = meta.url /\ meta.url \in Versions /\ url[t] = meta.url
        /\ UNCHANGED server
    BY <1>2 DEF TaskEnd, Provenance, NotBegunAgain, Blamed, Installing, IInv,
       RunningWhileInstalling, MetadataWhole, MetadataFrozen
  <2>2. \A u \in Tasks : Owner(u) => u = t
    BY <2>1 DEF Owner, IInv, OneInstaller, Installing
  <2>3. \A i \in 1..Len(got[t]) : got[t][i] # "other"
    <3>1. Len(got[t]) = Chunks
      BY <2>1, OtaAssumption DEF Whole
    <3>2. \A i \in 1..Chunks : got[t][i] = meta.sha
      BY <2>1 DEF Whole
    <3>3. meta.sha # "other"
      BY <2>1, OtaAssumption
    <3> QED
      BY <3>1, <3>2, <3>3
  <2>4. "other" \notin Seen
    BY <2>2, <2>3 DEF Provenance, Blamed
  <2>5. \A v \in Seen \cap Versions : v = meta.url
    BY <2>1, <2>2 DEF ReleasePiecesOwned
  <2>6. Seen \subseteq Images
    <3>1. FlashOK /\ Inactive \in Slots
      BY FlashInv DEF Inactive, Slots
    <3>2. slot[Inactive].pieces \in Seq(Images)
      BY <3>1 DEF FlashOK, SlotType
    <3> QED
      BY <3>2 DEF Seen
  <2>7. \A img \in Seen : img \in {"manual", Accepted} \ {NoRelease}
    BY <1>0, <2>1, <2>4, <2>5, <2>6 DEF Images, Accepted, NoRelease
  <2> QED
    BY <1>2, <2>1, <2>7, EndView
<1>3. CASE TaskFailed(t) \/ TaskSucceeded(t)
  <2>1. /\ status = "Running" /\ meta.url \in Versions /\ status' # "Running"
        /\ UNCHANGED flash
    BY <1>3 DEF TaskFailed, TaskSucceeded, IInv, RunningWhileInstalling, Installing,
       MetadataWhole
  <2>2. UNCHANGED <<Runs, NextImage>>
    BY <2>1 DEF flash, Runs, NextImage, Bootable
  <2>3. Accepted # NoRelease /\ Accepted' = NoRelease
    BY <1>0, <2>1 DEF Accepted
  <2> QED
    BY <2>2, <2>3, ViewStep
<1>4. CASE UNCHANGED <<server, flash>> \/ (UNCHANGED <<status, meta, flash>>)
  <2>1. UNCHANGED <<Runs, NextImage, Accepted>>
    BY <1>4 DEF server, flash, Runs, NextImage, Bootable, Accepted
  <2> QED
    BY <2>1, ViewStep
<1>5. CASE TaskInit(t) \/ TaskData(t) \/ TaskBegin(t) \/ TaskWriteFails(t)
           \/ TaskAbort(t) \/ TaskVerified(t) \/ TaskGivesUp(t) \/ TaskAbortLast(t)
           \/ TaskTake(t) \/ (TaskEnd(t) /\ ~EndOk)
  BY <1>4, <1>5 DEF TaskInit, TaskData, TaskBegin, TaskWriteFails, TaskAbort,
     TaskVerified, TaskGivesUp, TaskAbortLast, TaskTake, TaskEnd, BeginOk,
     BeginFails, WriteFails, Abort, EndFails
<1> QED
  BY <1>1, <1>2, <1>3, <1>5 DEF TaskStep

LEMMA HttpdView ==
    ASSUME IInv, Provenance, Begin \/ HttpdStep
    PROVE  [FirmwareView!Next]_(FirmwareView!vars)
<1>0. NoRelease \notin Versions
  BY OtaAssumption
<1>1. CASE UploadData
  <2>1. WriteOk("manual") /\ UNCHANGED server /\ "manual" \in Images
    BY <1>1 DEF UploadData, Images
  <2> QED
    BY <2>1, WriteView
<1>2. CASE UploadEnd /\ EndOk
  <2>1. UNCHANGED server /\ hpc = "uploadEnd"
    BY <1>2 DEF UploadEnd
  <2>2. Seen \subseteq {"manual"}
    BY <1>2, <2>1 DEF EndOk, Provenance, Counted, Uploading
  <2>3. \A img \in Seen : img \in {"manual", Accepted} \ {NoRelease}
    BY <2>2 DEF NoRelease
  <2> QED
    BY <1>2, <2>1, <2>3, EndView
<1>3. CASE InstallWriteStatus
  <2>1. /\ status # "Running" /\ status' = "Running" /\ meta' = meta
        /\ meta.url = offer /\ offer \in Versions /\ Newer(offer) /\ UNCHANGED flash
    BY <1>3 DEF InstallWriteStatus, IInv, MetadataWhole, RunningWhileInstalling,
       Provenance, OffersNewer
  <2>2. UNCHANGED <<Runs, NextImage>> /\ Accepted = NoRelease /\ Accepted' = offer
    BY <2>1 DEF flash, Runs, NextImage, Bootable, Accepted
  <2>3. <<Runs, offer>> \in Upgrades
    BY <2>1, NewerPrecedes, RunsImage DEF Upgrades, IInv, RunningIntact, Runs
  <2> QED
    BY <2>1, <2>2, <2>3, ViewStep
<1>4. CASE SpawnFailSet
  <2>1. /\ status = "Running" /\ meta.url \in Versions /\ status' # "Running"
        /\ UNCHANGED flash
    BY <1>4 DEF SpawnFailSet, IInv, RunningWhileInstalling, Starting, MetadataWhole
  <2>2. UNCHANGED <<Runs, NextImage>> /\ Accepted # NoRelease /\ Accepted' = NoRelease
    BY <1>0, <2>1 DEF flash, Runs, NextImage, Bootable, Accepted
  <2> QED
    BY <2>2, ViewStep
<1>5. ASSUME UNCHANGED flash, UNCHANGED status, UNCHANGED meta \/ status # "Running"
      PROVE  [FirmwareView!Next]_(FirmwareView!vars)
  <2>1. UNCHANGED <<Runs, NextImage, Accepted>>
    BY <1>5 DEF flash, Runs, NextImage, Bootable, Accepted
  <2> QED
    BY <2>1, ViewStep
<1>6. CASE Upload /\ ~UploadData /\ ~(UploadEnd /\ EndOk)
  <2>1. UNCHANGED <<server, flash>>
    BY <1>6 DEF Upload, UploadBegin, UploadWriteFails, UploadLost, UploadAbort,
       UploadReceived, UploadEnd, BeginOk, BeginFails, WriteFails, Abort, EndFails
  <2> QED
    BY <2>1, <1>5 DEF server
<1>7. CASE ~Upload /\ ~InstallWriteStatus /\ ~SpawnFailSet
  <2>1. UNCHANGED <<status, flash>> /\ (UNCHANGED meta \/ status # "Running")
    BY <1>7 DEF server, Begin, HttpdStep, Upload, Fetch, InstallTake, InstallBusy,
       InstallWriteUrl, InstallWriteSha, Spawn, SpawnFails, SpawnFailTake,
       StatusTake, StatusCopy, IInv, RunningWhileInstalling
  <2> QED
    BY <2>1, <1>5
<1> QED
  BY <1>1, <1>2, <1>3, <1>4, <1>6, <1>7 DEF Upload

LEMMA RestartView ==
    ASSUME IInv, Restart PROVE [FirmwareView!Next]_(FirmwareView!vars)
<1>1. /\ running \in Slots /\ boot \in Slots /\ Bootable(running)
      /\ UNCHANGED <<slot, boot>> /\ status' = "Idle"
      /\ running' = IF Bootable(boot) THEN boot ELSE IF boot = "A" THEN "B" ELSE "A"
  BY DEF IInv, TypeOK, RunningIntact, Restart
<1>2. Bootable(boot)' = Bootable(boot)
  BY <1>1 DEF Bootable
<1>3. ~Bootable(boot) => running' = running
  BY <1>1 DEF Slots
<1>4. Runs' = NextImage /\ NextImage' = NextImage /\ Accepted' = NoRelease
  BY <1>1, <1>2, <1>3 DEF Runs, NextImage, Accepted
<1> QED
  BY <1>4, ViewStep

-----------------------------------------------------------------------------
\* Every reachable state satisfies the inductive invariant.
THEOREM Invariance == Spec => []IInv
<1>1. IInv /\ [Next]_vars => IInv'
  BY TypeStep, MutexStep, ControlStep, FlashStep
     DEF IInv, Control, FlashOK
<1> QED
  BY InitIInv, <1>1, PTL DEF Spec

\* Type correctness of installs, uploads and the flash, for every value of the constants.
THEOREM TypeCorrect == Spec => []TypeOK
BY Invariance, PTL DEF IInv

\* One release install at a time (installOtaHttps answers 409 to a second).
THEOREM OneInstallerHolds == Spec => []OneInstaller
BY Invariance, PTL DEF IInv

\* The URL and digest an install task reads without the mutex do not change
\* under it (releaseInstallTask, installOtaHttps).
THEOREM MetadataFrozenHolds == Spec => []MetadataFrozen
BY Invariance, PTL DEF IInv

\* The shared Update object is never left running by nobody, so no failed
\* install or upload blocks the next one (handleHttpsUpdate, installReleaseUpdate).
THEOREM UpdateOwnedHolds == Spec => []UpdateOwned
<1>1. Init => UpdateOwned
  BY DEF Init, UpdateOwned, Stopped
<1> QED
  BY <1>1, OwnedStep, TypeCorrect, PTL DEF Spec

\* Where the pieces in the inactive slot came from is known at every moment.
THEOREM ProvenanceHolds == Spec => []Provenance
BY InitProvenance, ProvenanceStep, Invariance, PTL DEF Spec

\* An image that the server sent instead of the release is never selected, although
\* tasks and uploads share the one Update object (installReleaseUpdate).
THEOREM NeverSelectsUnverifiedHolds == Spec => []NeverSelectsUnverified
<1>1. IInv /\ Provenance => NeverSelectsUnverified
  BY DEF IInv, TypeOK, Provenance, NothingForeign, NeverSelectsUnverified
<1> QED
  BY <1>1, Invariance, ProvenanceHolds, PTL

\* A device boots into a release only if it is newer than the image that ran
\* (checkReleaseUpdate, compareSemver), for any versions of the releases.
THEOREM NoDowngradeHolds == Spec => NoDowngrade
<1>1. IInv /\ Provenance /\ [Next]_vars =>
          [\A v \in Versions :
               running' # running /\ slot[running'].pieces[1] = v =>
                   Precedes(Semver[slot[running].pieces[1]], Semver[v])]_vars
  BY UpgradeStep, NewerPrecedes DEF IInv, RunningIntact
<1> QED
  BY <1>1, Invariance, ProvenanceHolds, PTL DEF Spec, NoDowngrade

\* Between its report and its restart a finished install stays selected, whole or
\* erased by another (setReleaseInstallStatus, ESP.restart of releaseInstallTask).
THEOREM InstalledOrErasedHolds == Spec => []InstalledOrErased
<1>1. Init => SealedIsWhole /\ EndedSelects
  BY WholeIsIntact DEF Init, SealedIsWhole, EndedSelects, Ended, Images
<1>2. TypeOK /\ SealedIsWhole /\ EndedSelects => InstalledOrErased
  BY DEF TypeOK, SealedIsWhole, EndedSelects, Ended, InstalledOrErased, Bootable
<1> QED
  BY <1>1, <1>2, SealedStep, EndedStep, TypeCorrect, PTL DEF Spec

\* Tasks, uploads, slots and restarts together implement Firmware: the device
\* boots what it ran, an upload or the release it accepted (Update.end of
\* installReleaseUpdate and handleHttpsUpdate), for any releases and versions.
THEOREM ImplementsFirmware == Spec => FirmwareSpec
<1>1. Init => FirmwareView!Init
  <2>1. ASSUME Init PROVE FirmwareView!Init
    <3>1. \A s \in Slots : slot[s].pieces[1] = "manual"
      BY <2>1, OtaAssumption DEF Init, Whole
    <3>2. running \in Slots /\ boot \in Slots /\ status = "Idle"
      BY <2>1 DEF Init, Slots
    <3> QED
      BY <3>1, <3>2 DEF FirmwareView!Init
  <2> QED
    BY <2>1
<1>2. Init => ReleasePiecesOwned
  BY DEF Init, ReleasePiecesOwned, Seen, Stopped
<1>3. Spec => []ReleasePiecesOwned
  BY <1>2, PiecesOwnedStep, Invariance, ProvenanceHolds, PTL DEF Spec
<1>4. IInv /\ Provenance /\ ReleasePiecesOwned /\ [Next]_vars =>
          [FirmwareView!Next]_(FirmwareView!vars)
  <2> SUFFICES ASSUME IInv, Provenance, ReleasePiecesOwned, [Next]_vars
               PROVE  [FirmwareView!Next]_(FirmwareView!vars)
    OBVIOUS
  <2>1. CASE UNCHANGED vars
    <3>1. UNCHANGED <<Runs, NextImage, Accepted>>
      BY <2>1 DEF vars, server, flash, Runs, NextImage, Bootable, Accepted
    <3> QED
      BY <3>1, ViewStep
  <2> QED
    BY <2>1, HttpdView, TaskView, RestartView DEF Next
<1> QED
  BY <1>1, <1>3, <1>4, Invariance, ProvenanceHolds, PTL
     DEF Spec, FirmwareSpec, FirmwareView!Spec

-----------------------------------------------------------------------------
(* The administration page beside the device.                              *)

\* A task that reported success waits for its restart, and nothing but a restart
\* or another install takes the report back.
SuccessRestarts == status = "Succeeded" => \E t \in Tasks : pc[t] = "restart"

LEMMA SuccessStep == TypeOK /\ SuccessRestarts /\ [Next]_vars => SuccessRestarts'
<1> SUFFICES ASSUME TypeOK, SuccessRestarts, [Next]_vars, status' = "Succeeded"
             PROVE  \E t \in Tasks : pc'[t] = "restart"
  BY DEF SuccessRestarts
<1> USE DEF TypeOK, SuccessRestarts, Step, server, task
<1>1. CASE UNCHANGED <<status, pc>>
  BY <1>1
<1>2. CASE Spawn
  BY <1>2 DEF Spawn
<1>3. ASSUME NEW t \in Tasks, TaskStep(t) PROVE \E u \in Tasks : pc'[u] = "restart"
  <2>1. CASE TaskSucceeded(t)
    BY <2>1 DEF TaskSucceeded
  <2>2. CASE ~TaskSucceeded(t)
    <3>1. UNCHANGED status /\ pc[t] # "restart"
      BY <1>3, <2>2 DEF TaskStep, TaskInit, TaskData, TaskBegin, TaskWrite,
         TaskWriteFails, TaskAbort, TaskVerified, TaskGivesUp, TaskAbortLast,
         TaskEnd, TaskTake, TaskFailed
    <3>2. \A u \in Tasks : u # t => pc'[u] = pc[u]
      BY <1>3, <2>2 DEF TaskStep, TaskInit, TaskData, TaskBegin, TaskWrite,
         TaskWriteFails, TaskAbort, TaskVerified, TaskGivesUp, TaskAbortLast,
         TaskEnd, TaskTake, TaskFailed
    <3> QED
      BY <3>1, <3>2
  <2> QED
    BY <2>1, <2>2
<1>4. CASE (Begin \/ HttpdStep) /\ ~Spawn
  BY <1>1, <1>4, UploadApart DEF Begin, HttpdStep, Upload, Fetch, InstallTake,
     InstallBusy, InstallWriteUrl, InstallWriteSha, InstallWriteStatus, SpawnFails,
     SpawnFailTake, SpawnFailSet, StatusTake, StatusCopy
<1>5. CASE Restart
  BY <1>5 DEF Restart
<1> QED
  BY <1>1, <1>2, <1>3, <1>4, <1>5 DEF Next, HttpdStep, vars

\* The page adds nothing to what the device does: each of its steps is a step of
\* the device or leaves it as it is.
LEMMA PageStep == [PageNext]_allVars => [Next]_vars
<1> SUFFICES ASSUME [PageNext]_allVars PROVE [Next]_vars
  OBVIOUS
<1>1. CASE UNCHANGED vars
  BY <1>1
<1>2. CASE Check \/ Checked \/ Confirm \/ Poll \/ Reload \/ Refuse \/ Lose
  BY <1>1, <1>2 DEF Check, Checked, Confirm, Poll, Reload, Refuse, Lose
<1>3. CASE Take
  BY <1>3 DEF Take, Begin, Next
<1>4. CASE OtherRequest \/ ServeStep \/ InstallTaskStep \/ RestartDevice
  BY <1>4 DEF OtherRequest, ServeStep, InstallTaskStep, RestartDevice, Next
<1> QED
  BY <1>1, <1>2, <1>3, <1>4 DEF PageNext, allVars

\* What a handler that ends can tell the page is the status it copied.
LEMMA SaysStep ==
    ASSUME SuccessRestarts, EndedSelects, PageNext, page' = "done", page # "done"
    PROVE  \E t \in Tasks : pc[t] = "restart" /\ boot = Inactive
<1>1. ServeStep /\ Reply = "done"
  BY DEF PageNext, Check, Checked, Confirm, Poll, Reload, Take, Refuse, Lose,
     OtherRequest, ServeStep, InstallTaskStep, RestartDevice, pageVars
<1>2. status = "Succeeded"
  BY <1>1 DEF Reply
<1> QED
  BY <1>2 DEF SuccessRestarts, EndedSelects, Ended

\* The device behind the page does what it does for any client, so what is proved
\* of installs, uploads and the flash holds whatever the page does (AdminPage.h).
THEOREM PageImplementsOta == PageSpec => Spec
BY PageStep, PTL DEF PageSpec, Spec, PageInit

\* "Update installed. Restarting..." is said only while an install task is in its
\* delay before the restart and its slot is the one selected (installOta of
\* AdminPage.h), however answers are lost.
THEOREM SaysInstalledHolds == PageSpec => SaysInstalled
<1>1. Init => SuccessRestarts /\ EndedSelects
  BY DEF Init, SuccessRestarts, EndedSelects, Ended
<1>2. Spec => [](SuccessRestarts /\ EndedSelects)
  BY <1>1, SuccessStep, EndedStep, TypeCorrect, PTL DEF Spec
<1>3. SuccessRestarts /\ EndedSelects /\ [PageNext]_allVars =>
          [page' = "done" /\ page # "done" =>
               \E t \in Tasks : pc[t] = "restart" /\ boot = Inactive]_allVars
  BY SaysStep
<1> QED
  BY <1>2, <1>3, PageImplementsOta, PTL DEF PageSpec, SaysInstalled

\* The HTTPS task answers the page only while the script waits for that answer.
PageType ==
    /\ page \in PageStates /\ otaVersion \in Releases
    /\ csrf \in BOOLEAN /\ client \in {"page", "other", "none"}
    /\ client = "page" => Asking /\ hpc # "idle"

LEMMA PageTypeStep == PageType /\ [PageNext]_allVars => PageType'
<1> SUFFICES ASSUME PageType, [PageNext]_allVars PROVE PageType'
  OBVIOUS
<1> USE DEF PageType, PageStates, Asking, Releases
<1>1. CASE Check \/ Checked \/ Confirm \/ Poll \/ Reload
  BY <1>1 DEF Check, Checked, Confirm, Poll, Reload, vars, httpd
<1>2. CASE Take
  BY <1>2 DEF Take
<1>3. CASE Refuse \/ Lose
  BY <1>3 DEF Refuse, Lose, vars, httpd
<1>4. CASE OtherRequest
  BY <1>4 DEF OtherRequest
<1>5. CASE ServeStep
  BY <1>5 DEF ServeStep, Reply
<1>6. CASE InstallTaskStep
  <2>1. UNCHANGED httpd
    BY <1>6 DEF InstallTaskStep, TaskStep, TaskInit, TaskData, TaskBegin, TaskWrite,
       TaskWriteFails, TaskAbort, TaskVerified, TaskGivesUp, TaskAbortLast, TaskEnd,
       TaskTake, TaskFailed, TaskSucceeded
  <2> QED
    BY <1>6, <2>1 DEF InstallTaskStep, pageVars, httpd
<1>7. CASE RestartDevice
  BY <1>7 DEF RestartDevice, Restart
<1>8. CASE UNCHANGED allVars
  BY <1>8 DEF allVars, pageVars, vars, httpd
<1> QED
  BY <1>1, <1>2, <1>3, <1>4, <1>5, <1>6, <1>7, <1>8 DEF PageNext

\* Type correctness of the page beside the device: in particular no answer reaches a
\* script that is not waiting for one (installOta of AdminPage.h).
THEOREM PageTypeCorrect == PageSpec => []PageTypeOK
<1>1. PageInit => PageType
  BY DEF PageInit, PageType, PageStates, Releases
<1>2. PageSpec => []PageType
  BY <1>1, PageTypeStep, PTL DEF PageSpec
<1>3. PageType /\ TypeOK => PageTypeOK
  BY DEF PageType, PageTypeOK
<1> QED
  BY <1>2, <1>3, PageImplementsOta, TypeCorrect, PTL
=============================================================================
