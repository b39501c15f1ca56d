---------------------- MODULE TlsCertificateStoreProofs ----------------------
(***************************************************************************)
(* For any set of bundles: the active files are halves of one bundle unless *)
(* their promotion was torn, "stored" means both halves are active, and a   *)
(* rejected bundle reaches no file.                                         *)
(***************************************************************************)
EXTENDS TlsCertificateStore, TLAPS

Whole == Matched(Active) \/ ~Readable(Active)

\* The promotion has touched an active file.
Touched == Promoting /\ ~(at = "activeCert" /\ ~open)

WholeUnlessTouched == ~torn /\ ~Touched => Whole

\* What stage knows of the bundle at each of its steps.
StageState ==
    /\ open => at \in Writes
    /\ at = "validate" => offered \in Bundles \cup {Bad}
    /\ at \in Writes \cup {"tidy", "reload"} => offered \in Bundles
    /\ at = "activeKey" => file["activeCert"] = offered
    /\ at \in {"tidy", "reload"} =>
          ~torn /\ Active = [cert |-> offered, key |-> offered]
    /\ at \in {"rollbackCert", "rollbackKey"} => torn
    /\ answer = "stored" => at = "ready"

PreviousGood == previous.cert # Bad /\ previous.key # Bad

IInv ==
    /\ TypeOK
    /\ WholeUnlessTouched
    /\ StageState
    /\ PreviousGood
    /\ StoredMeansActive
    /\ InvalidNeverWritten

-----------------------------------------------------------------------------
\* The invariant implies the property the runs check.
LEMMA WholeIsPair == IInv => PairUnlessTorn
BY DEF IInv, WholeUnlessTouched, Touched, PairUnlessTorn, Whole

LEMMA InitIInv == Init => IInv
<1> SUFFICES ASSUME Init PROVE IInv
  OBVIOUS
<1>1. file \in [Paths -> Contents]
  BY DEF Init, Contents
<1>2. NoPair \in Pairs
  BY DEF NoPair, Pairs, Contents
<1>3. open \in BOOLEAN /\ torn \in BOOLEAN
  BY Zenon DEF Init
<1>4. TypeOK
  BY <1>1, <1>2, <1>3 DEF Init, TypeOK, Steps
<1>5. WholeUnlessTouched /\ StageState /\ StoredMeansActive
  BY DEF Init, WholeUnlessTouched, StageState, StoredMeansActive, Whole,
     Matched, Readable, Active, Paths, Writes, Unread
<1>6. PreviousGood /\ InvalidNeverWritten
  BY BundlesAssumption DEF Init, PreviousGood, InvalidNeverWritten, NoPair, Bad
<1> QED
  BY <1>4, <1>5, <1>6 DEF IInv

-----------------------------------------------------------------------------
\* A write aims at one of the four files.
LEMMA TargetPath == \A w \in Writes : Target(w) \in Paths
BY DEF Target, Writes, Paths

\* What is printed is a bundle that passed, or what was read before.
LEMMA TextGood ==
    ASSUME IInv, at \in Writes
    PROVE  Text(at) \in Contents /\ Text(at) # Bad
BY BundlesAssumption DEF IInv, TypeOK, StageState, PreviousGood, Text, Contents,
   Pairs

\* What a read of the active files can give: of each file what it holds, a part
\* of it or nothing, and nothing of a file that has no contents.
LEMMA LoadsKnown ==
    ASSUME file \in [Paths -> Contents], NEW pair \in Loads
    PROVE  /\ pair \in Pairs
           /\ pair.cert \in {Active.cert, "missing", "partial"}
           /\ pair.key \in {Active.key, "missing", "partial"}
           /\ Readable(pair) => Readable(Active)
<1>1. /\ pair = [cert |-> pair.cert, key |-> pair.key]
      /\ pair.cert \in Reads(file["activeCert"])
      /\ pair.key \in Reads(file["activeKey"])
  BY DEF Loads
<1>2. \A c \in Contents :
        Reads(c) \subseteq Contents /\ Reads(c) \subseteq {c, "missing", "partial"}
  BY DEF Reads, Contents
<1>3. \A c : c \in Unread => Reads(c) = {"missing"}
  BY DEF Reads
<1>4. file["activeCert"] \in Contents /\ file["activeKey"] \in Contents
  BY DEF Paths
<1>5. pair.cert \in Contents /\ pair.key \in Contents
  BY <1>1, <1>2, <1>4
<1>6. pair \in Pairs
  BY <1>1, <1>5 DEF Pairs
<1>7. Readable(pair) => Readable(Active)
  BY <1>1, <1>3 DEF Readable, Active, Unread
<1> QED
  BY <1>1, <1>2, <1>4, <1>6, <1>7 DEF Active

LEMMA NoPairIsPair == NoPair \in Pairs /\ ~Readable(NoPair)
BY DEF NoPair, Pairs, Contents, Readable, Unread

LEMMA ActivePair == TypeOK => Active \in Pairs
BY DEF TypeOK, Active, Pairs, Paths

\* The types are kept.
LEMMA TypeStep == IInv /\ [Next]_vars => TypeOK'
<1> SUFFICES ASSUME IInv, [Next]_vars PROVE TypeOK'
  OBVIOUS
<1>0. TypeOK
  BY DEF IInv
<1> USE DEF Go, Fail, Steps, before
<1>a. ASSUME NEW f, WriteFailed(at, f)
      PROVE  torn' \in BOOLEAN /\ at' \in Steps
             /\ answer' \in {"none", "stored", "rejected"}
  <2>1. torn' \in BOOLEAN
    BY <1>a, Zenon DEF WriteFailed
  <2>2. at' \in Steps
    BY <1>a DEF WriteFailed, Writes
  <2>3. answer' \in {"none", "stored", "rejected"}
    BY <1>0, <1>a DEF WriteFailed, TypeOK
  <2> QED
    BY <2>1, <2>2, <2>3
<1>1. CASE OpenFile
  BY <1>0, <1>1 DEF OpenFile, TypeOK, Contents
<1>2. CASE OpenFails
  <2>1. file' \in [Paths -> Contents]
    BY <1>0, <1>2 DEF OpenFails, WriteFailed, TypeOK, Contents
  <2>2. torn' \in BOOLEAN /\ at' \in Steps
        /\ answer' \in {"none", "stored", "rejected"}
    BY <1>2, <1>a DEF OpenFails
  <2> QED
    BY <1>0, <1>2, <2>1, <2>2, Zenon DEF OpenFails, TypeOK
<1>3. CASE PrintFile
  <2>1. Text(at) \in Contents
    BY <1>3, TextGood DEF PrintFile
  <2>2. file' \in [Paths -> Contents]
    BY <1>0, <1>3, <2>1 DEF PrintFile, TypeOK
  <2>6. at' \in Steps
    BY <1>3 DEF PrintFile, Written, Writes, Paths
  <2>7. answer' \in {"none", "stored", "rejected"}
    BY <1>0, <1>3 DEF PrintFile, Written, TypeOK
  <2>4. previous' \in Pairs /\ found' \in Pairs
    <3>1. CASE UNCHANGED before
      BY <1>0, <3>1 DEF TypeOK
    <3>2. CASE ReadPrevious
      <4>1. found' \in Pairs
        BY <1>0, <3>2, ActivePair DEF ReadPrevious
      <4>2. PICK pair \in Loads : previous' = IF Readable(pair) THEN pair ELSE NoPair
        BY <3>2 DEF ReadPrevious
      <4>3. pair \in Pairs
        BY <1>0, <4>2, LoadsKnown DEF TypeOK
      <4> QED
        BY <4>1, <4>2, <4>3, NoPairIsPair
    <3> QED
      BY <1>3, <3>1, <3>2 DEF PrintFile, Written
  <2>5. torn' \in BOOLEAN /\ open' \in BOOLEAN
    BY <1>3, Zenon DEF PrintFile
  <2> QED
    BY <1>0, <1>3, <2>2, <2>4, <2>5, <2>6, <2>7, Zenon DEF PrintFile, TypeOK
<1>4. CASE PrintFails
  <2>1. PICK rest \in {"empty", "partial"} :
            WriteFailed(at, [file EXCEPT ![Target(at)] = rest])
    BY <1>4 DEF PrintFails
  <2>2. [file EXCEPT ![Target(at)] = rest] \in [Paths -> Contents]
    BY <1>0, <2>1 DEF TypeOK, Contents
  <2>3. file' \in [Paths -> Contents]
    BY <2>1, <2>2 DEF WriteFailed, Contents
  <2> QED
    BY <1>0, <1>4, <1>a, <2>1, <2>3, Zenon DEF PrintFails, TypeOK
<1>5. CASE Validate \/ StartHttps
  <2>1. at' \in Steps
    BY <1>5 DEF Validate, StartHttps, Writes, Paths
  <2>2. answer' \in {"none", "stored", "rejected"}
    BY <1>0, <1>5 DEF Validate, StartHttps, TypeOK
  <2>3. served' \in Pairs
    BY <1>0, <1>5 DEF Validate, StartHttps, TypeOK
  <2> QED
    BY <1>0, <1>5, <2>1, <2>2, <2>3 DEF Validate, StartHttps, TypeOK
<1>11. CASE Mount
  BY <1>0, <1>11 DEF Mount, TypeOK, Contents
<1>6. CASE Tidy
  BY <1>0, <1>6 DEF Tidy, TypeOK, Contents
<1>7. CASE Reload \/ Load
  <2>1. ram' \in Pairs
    BY <1>0, <1>7, LoadsKnown DEF Reload, Load, TypeOK
  <2> QED
    BY <1>0, <1>7, <2>1, NoPairIsPair, BundlesAssumption DEF Reload, Load, TypeOK
<1>8. CASE Upload
  BY <1>0, <1>8, NoPairIsPair DEF Upload, TypeOK
<1>9. CASE PowerLoss
  BY <1>0, <1>9, NoPairIsPair DEF PowerLoss, TypeOK, Contents
<1>10. CASE UNCHANGED vars
  BY <1>0, <1>10 DEF vars, TypeOK
<1> QED
  BY <1>1, <1>2, <1>3, <1>4, <1>5, <1>6, <1>7, <1>8, <1>9, <1>10,
     <1>11 DEF Next, StoreStep

-----------------------------------------------------------------------------
\* What a failed write leaves behind: no new contents, except in the file it
\* was about.
LEMMA FailedLeaves ==
    ASSUME NEW f \in [Paths -> Contents], at \in Writes, WriteFailed(at, f)
    PROVE  \A p \in Paths : file'[p] \in {f[p], "missing"}
BY DEF WriteFailed, Contents

\* A failed write of a staged file leaves the active ones alone.
LEMMA FailedKeepsActive ==
    ASSUME NEW f \in [Paths -> Contents], at \in Writes, WriteFailed(at, f)
    PROVE  /\ file'["activeCert"] = f["activeCert"]
           /\ file'["activeKey"] = f["activeKey"]
BY DEF WriteFailed, Paths

\* A rejected bundle reaches no file and is not read back.
LEMMA InvalidStep ==
    IInv /\ [Next]_vars => InvalidNeverWritten' /\ PreviousGood'
<1> SUFFICES ASSUME IInv, [Next]_vars PROVE InvalidNeverWritten' /\ PreviousGood'
  OBVIOUS
<1> USE DEF InvalidNeverWritten, PreviousGood, Bad, before
<1>0. /\ file \in [Paths -> Contents]
      /\ \A p \in Paths : file[p] # Bad
      /\ previous.cert # Bad /\ previous.key # Bad
  BY DEF IInv, TypeOK
<1>1. CASE UNCHANGED <<file, previous>>
  BY <1>0, <1>1
<1>2. CASE OpenFile
  BY <1>0, <1>2 DEF OpenFile
<1>3. CASE OpenFails
  BY <1>0, <1>3, FailedLeaves DEF OpenFails
<1>4. CASE PrintFile
  <2>1. \A p \in Paths : file'[p] # Bad
    BY <1>0, <1>4, TextGood DEF PrintFile
  <2>2. previous'.cert # Bad /\ previous'.key # Bad
    <3>1. CASE UNCHANGED before
      BY <1>0, <3>1
    <3>2. CASE ReadPrevious
      <4>1. PICK pair \in Loads : previous' = IF Readable(pair) THEN pair ELSE NoPair
        BY <3>2 DEF ReadPrevious
      <4>2. pair.cert # Bad /\ pair.key # Bad
        BY <1>0, <4>1, LoadsKnown DEF Active, Paths
      <4> QED
        BY <4>1, <4>2 DEF NoPair
    <3> QED
      BY <1>4, <3>1, <3>2 DEF PrintFile, Written
  <2> QED
    BY <2>1, <2>2
<1>5. CASE PrintFails
  <2>1. PICK rest \in {"empty", "partial"} :
            WriteFailed(at, [file EXCEPT ![Target(at)] = rest])
    BY <1>5 DEF PrintFails
  <2>2. [file EXCEPT ![Target(at)] = rest] \in [Paths -> Contents]
    BY <1>0 DEF Contents
  <2> QED
    BY <1>0, <1>5, <2>1, <2>2, FailedLeaves DEF PrintFails
<1>6. CASE Tidy \/ Mount
  BY <1>0, <1>6 DEF Tidy, Mount
<1>7. CASE Reload \/ Upload
  BY <1>0, <1>7 DEF Reload, Upload, NoPair
<1>8. CASE PowerLoss
  BY <1>0, <1>8 DEF PowerLoss, NoPair
<1> QED
  BY <1>1, <1>2, <1>3, <1>4, <1>5, <1>6, <1>7, <1>8
     DEF Next, StoreStep, Validate, Load, StartHttps, vars

-----------------------------------------------------------------------------
\* The steps of stage know what they have written so far, and an active pair
\* is torn only by a failure or a power loss in its promotion.
Known == WholeUnlessTouched /\ StageState /\ StoredMeansActive

LEMMA WriteStep ==
    IInv /\ (OpenFile \/ OpenFails \/ PrintFile \/ PrintFails) => Known'
<1> SUFFICES ASSUME IInv, OpenFile \/ OpenFails \/ PrintFile \/ PrintFails
             PROVE  Known'
  OBVIOUS
<1> USE DEF Known, WholeUnlessTouched, StageState, StoredMeansActive, Touched,
        Promoting, Go, Fail, Writes, Paths
<1>0. /\ file \in [Paths -> Contents] /\ at \in Writes
      /\ WholeUnlessTouched /\ StageState
  BY DEF IInv, TypeOK, OpenFile, OpenFails, PrintFile, PrintFails
<1>1. CASE OpenFile
  BY <1>0, <1>1 DEF OpenFile, Target, Whole, Matched, Readable, Active
<1>2. ASSUME NEW f \in [Paths -> Contents], WriteFailed(at, f),
             UNCHANGED offered, open' = FALSE,
             ~TouchesActive(at) => f["activeCert"] = file["activeCert"]
                                   /\ f["activeKey"] = file["activeKey"]
      PROVE  Known'
  <2>1. CASE TouchesActive(at)
    <3>1. torn'
      BY <1>2, <2>1 DEF WriteFailed
    <3>2. at' \in {"ready", "closed", "rollbackCert", "rollbackKey"}
          /\ answer' # "stored"
      BY <1>0, <1>2, <2>1 DEF WriteFailed, TouchesActive, Target
    <3>3. at' \in Writes => offered' \in Bundles
      BY <1>0, <1>2
    <3> QED
      BY <1>2, <3>1, <3>2, <3>3
  <2>2. CASE ~TouchesActive(at)
    <3>1. at \in {"stagedCert", "stagedKey"}
      BY <1>0, <2>2 DEF TouchesActive, Target
    <3>2. at' \in {"ready", "closed"} /\ answer' # "stored"
      BY <1>0, <1>2, <3>1 DEF WriteFailed
    <3>3. Active' = Active /\ torn' = (torn \/ FALSE)
      BY <1>0, <1>2, <2>2, FailedKeepsActive DEF Active, WriteFailed
    <3>4. ~torn => Whole
      BY <1>0, <3>1
    <3> QED
      BY <1>2, <3>2, <3>3, <3>4 DEF Whole
  <2> QED
    BY <2>1, <2>2
<1>3. CASE OpenFails
  <2>1. open' = FALSE /\ UNCHANGED offered
    BY <1>3 DEF OpenFails
  <2> QED
    BY <1>0, <1>2, <1>3, <2>1 DEF OpenFails
<1>4. CASE PrintFails
  <2>1. PICK rest \in {"empty", "partial"} :
            WriteFailed(at, [file EXCEPT ![Target(at)] = rest])
    BY <1>4 DEF PrintFails
  <2>2. [file EXCEPT ![Target(at)] = rest] \in [Paths -> Contents]
    BY <1>0 DEF Contents
  <2>3. ~TouchesActive(at) => Target(at) \notin {"activeCert", "activeKey"}
    BY DEF TouchesActive
  <2> QED
    BY <1>0, <1>2, <1>4, <2>1, <2>2, <2>3 DEF PrintFails
<1>5. CASE PrintFile
  <2> USE DEF PrintFile, Written, Target, Text, Active
  <2>1. CASE at = "stagedCert" \/ at = "stagedKey"
    BY <1>0, <1>5, <2>1 DEF Whole, Matched, Readable, RolledBack
  <2>2. CASE at = "activeCert"
    BY <1>0, <1>5, <2>2
  <2>3. CASE at = "activeKey"
    BY <1>0, <1>5, <2>3 DEF Whole, Matched
  <2>4. CASE at = "rollbackCert"
    BY <1>0, <1>5, <2>4 DEF RolledBack
  <2>5. CASE at = "rollbackKey"
    BY <1>0, <1>5, <2>5 DEF RolledBack, Whole, Matched
  <2> QED
    BY <1>0, <2>1, <2>2, <2>3, <2>4, <2>5
<1> QED
  BY <1>1, <1>3, <1>4, <1>5

LEMMA KnownStep == IInv /\ [Next]_vars => Known'
<1> SUFFICES ASSUME IInv, [Next]_vars PROVE Known'
  OBVIOUS
<1>0. file \in [Paths -> Contents] /\ Known
  BY DEF IInv, TypeOK, Known
<1> USE DEF Known, WholeUnlessTouched, StageState, StoredMeansActive, Touched,
        Promoting, Go, Fail, Writes, Paths, Active, Whole
<1>1. CASE Validate
  BY <1>0, <1>1 DEF Validate, IInv, TypeOK
<1>2. CASE Tidy
  BY <1>0, <1>2 DEF Tidy
<1>3. CASE Reload
  BY <1>0, <1>3 DEF Reload, Loads
<1>4. CASE Mount
  BY <1>0, <1>4 DEF Mount, Readable, Unread
<1>5. CASE Load \/ StartHttps \/ Upload
  BY <1>0, <1>5, BundlesAssumption DEF Load, StartHttps, Upload
<1>6. CASE PowerLoss
  <2>1. at' = "mount" /\ open' = FALSE /\ answer' = "none"
    BY <1>6 DEF PowerLoss
  <2>2. ~torn' => ~torn /\ ~Touched
    BY <1>6 DEF PowerLoss
  <2>3. ~Touched => Active' = Active
    BY <1>0, <1>6 DEF PowerLoss, Target
  <2> QED
    BY <1>0, <2>1, <2>2, <2>3 DEF Readable, Matched
<1>7. CASE UNCHANGED vars
  BY <1>0, <1>7 DEF vars, Readable, Matched, Loads
<1> HIDE DEF Known
<1> QED
  BY <1>1, <1>2, <1>3, <1>4, <1>5, <1>6, <1>7, WriteStep DEF Next, StoreStep

-----------------------------------------------------------------------------
(* Refinement.  StoredCertificate sees one bundle where stage has two files  *)
(* and the pair it found.                                                    *)

Stored == Kind(IF Promoting THEN found ELSE Active)
Pending ==
    IF at \in Writes \cup {"validate", "tidy", "reload"} THEN offered ELSE "none"

\* What a promotion can have made of the pair it found.
Between(pair) ==
    /\ pair.cert \in {found.cert, offered, "empty", "partial"}
    /\ pair.key \in {found.key, "empty", "partial"}

\* A promotion or rollback works on the pair that was active; what was read of it
\* before is that pair or a part of it.
PromotionKnown ==
    /\ Promoting => Between(Active)
    /\ Promoting /\ Readable(previous) =>
           /\ previous.cert \in {found.cert, "partial"}
           /\ previous.key \in {found.key, "partial"}
    /\ at = "activeCert" /\ ~open => found = Active
    /\ at \in {"rollbackCert", "rollbackKey"} => Readable(previous)

\* A boot has served and answered nothing, and starts the server with a pair it read.
BootKnown ==
    /\ at \in {"mount", "load", "start"} => caller = "boot"
    /\ caller = "boot" /\ at \notin {"ready", "closed"} =>
           served = NoPair /\ answer = "none"
    /\ at = "start" => Readable(ram)
    /\ at = "ready" \/ caller = "upload" => Readable(served)

\* What a promotion that goes wrong leaves is the bundle that was stored, or none,
\* or the new one where none was stored.
LEMMA Remains ==
    ASSUME NEW pair, Between(pair)
    PROVE  Kind(pair) \in {"none", "torn"} \cup
               {IF Kind(found) \in Bundles THEN Kind(found) ELSE offered}
<1>1. CASE ~Matched(pair) \/ ~Readable(pair)
  BY <1>1 DEF Kind
<1>2. CASE Matched(pair) /\ Readable(pair)
  <2>1. pair.cert = pair.key /\ pair.cert \in Bundles /\ Kind(pair) = pair.cert
    BY <1>2 DEF Kind, Matched
  <2>2. pair.key = found.key /\ pair.cert \in {found.cert, offered}
    BY <2>1, BundlesAssumption DEF Between
  <2>3. Kind(found) \in Bundles => Kind(found) = found.key
    BY BundlesAssumption DEF Kind, Matched
  <2>4. pair.cert = found.cert => Kind(found) \in Bundles
    BY <2>1, <2>2, BundlesAssumption DEF Kind, Matched, Readable, Unread
  <2> QED
    BY <2>1, <2>2, <2>3, <2>4
<1> QED
  BY <1>1, <1>2

\* Truncated, partly printed or, but for the key, printed: the pair stays between
\* the old and the new one.
LEMMA BetweenKept ==
    ASSUME file \in [Paths -> Contents], Promoting, PromotionKnown,
           NEW text \in {"empty", "partial"} \cup
                        (IF at = "activeKey" THEN {} ELSE {Text(at)}),
           file' = [file EXCEPT ![Target(at)] = text]
    PROVE  Between(Active')
BY DEF PromotionKnown, Between, Active, Promoting, Target, Text, Paths

LEMMA PromotionStep == IInv /\ PromotionKnown /\ [Next]_vars => PromotionKnown'
<1> SUFFICES ASSUME IInv, PromotionKnown, [Next]_vars PROVE PromotionKnown'
  OBVIOUS
<1>0. file \in [Paths -> Contents]
  BY DEF IInv, TypeOK
<1>1. CASE UNCHANGED vars
  <2>1. Active' = Active /\ UNCHANGED <<at, open, previous, found, offered>>
    BY <1>1 DEF vars, before, Active
  <2> QED
    BY <2>1 DEF PromotionKnown, Promoting, Between, Readable
<1>2. CASE ~Promoting'
  BY <1>2 DEF PromotionKnown, Promoting
<1>3. CASE OpenFile /\ Promoting'
  <2>1. Promoting /\ UNCHANGED <<at, previous, found, offered>> /\ open'
    BY <1>3 DEF OpenFile, before, Promoting
  <2>2. Between(Active')
    BY <1>0, <1>3, <2>1, BetweenKept DEF OpenFile
  <2> QED
    BY <2>1, <2>2 DEF PromotionKnown, Between, Readable
<1>4. ASSUME NEW f, WriteFailed(at, f), at \in Writes, Promoting',
             UNCHANGED <<before, offered>>,
             f = file \/ \E rest \in {"empty", "partial"} :
                            f = [file EXCEPT ![Target(at)] = rest]
      PROVE  PromotionKnown'
  <2>1. Promoting /\ at' \in {"rollbackCert", "rollbackKey"} /\ Readable(previous)
        /\ file' = f
    BY <1>4 DEF WriteFailed, Promoting, Go, Fail, PromotionKnown, HadPrevious
  <2>2. Between(Active')
    <3>1. CASE file' = file
      BY <2>1, <3>1 DEF PromotionKnown, Active
    <3>2. CASE file' # file
      BY <1>0, <1>4, <2>1, <3>2, BetweenKept
    <3> QED
      BY <3>1, <3>2
  <2> QED
    BY <1>4, <2>1, <2>2 DEF PromotionKnown, Between, Readable, before
<1>5. CASE OpenFails /\ Promoting'
  BY <1>4, <1>5 DEF OpenFails
<1>6. CASE PrintFails /\ Promoting'
  BY <1>4, <1>6 DEF PrintFails
<1>7. CASE PrintFile /\ Promoting'
  <2>1. CASE at = "stagedKey"
    <3>1. Active' = Active /\ at' = "activeCert" /\ ReadPrevious
      BY <1>0, <1>7, <2>1 DEF PrintFile, Written, Go, Active, Target, Paths
    <3>2. PICK pair \in Loads : previous' = IF Readable(pair) THEN pair ELSE NoPair
      BY <3>1 DEF ReadPrevious
    <3>3. found' = Active'
      BY <3>1 DEF ReadPrevious
    <3>4. Readable(pair) => pair.cert \in {Active.cert, "partial"}
                           /\ pair.key \in {Active.key, "partial"}
      BY <1>0, <3>2, LoadsKnown DEF Readable, Unread
    <3>5. Readable(previous)' => previous' = pair /\ Readable(pair)
      BY <3>2, NoPairIsPair DEF Readable
    <3> QED
      BY <3>1, <3>3, <3>4, <3>5 DEF PromotionKnown, Between
  <2>2. CASE at # "stagedKey"
    <3>1. Promoting /\ at # "activeKey" /\ UNCHANGED <<previous, found, offered>>
          /\ at' \in {"activeKey", "rollbackKey"}
          /\ (at' = "rollbackKey" => Readable(previous))
      BY <1>7, <2>2 DEF PrintFile, Written, Go, Fail, Promoting, PromotionKnown,
         before
    <3>2. Between(Active')
      BY <1>0, <1>7, <3>1, BetweenKept DEF PrintFile
    <3> QED
      BY <3>1, <3>2 DEF PromotionKnown, Between, Readable
  <2> QED
    BY <2>1, <2>2
<1> QED
  BY <1>1, <1>2, <1>3, <1>5, <1>6, <1>7 DEF Next, StoreStep, Validate, Tidy, Reload,
     Mount, Load, StartHttps, Upload, PowerLoss, Go, Fail, Promoting

LEMMA BootStep == IInv /\ BootKnown /\ [Next]_vars => BootKnown'
<1> SUFFICES ASSUME IInv, BootKnown, [Next]_vars PROVE BootKnown'
  OBVIOUS
<1> USE DEF BootKnown, Go, Fail
<1>0. caller \in {"boot", "upload"}
  BY DEF IInv, TypeOK
<1>1. CASE UNCHANGED vars
  BY <1>1 DEF vars, Readable
<1>2. CASE OpenFile
  BY <1>0, <1>2 DEF OpenFile, Readable, Writes, Paths
<1>3. ASSUME NEW f, WriteFailed(at, f), at \in Writes, UNCHANGED <<caller, served>>
      PROVE  BootKnown'
  BY <1>0, <1>3 DEF WriteFailed, Readable, Writes, Paths
<1>4. CASE OpenFails \/ PrintFails
  BY <1>3, <1>4 DEF OpenFails, PrintFails
<1>5. CASE PrintFile
  BY <1>0, <1>5 DEF PrintFile, Written, Readable, Writes, Paths
<1>6. CASE Validate \/ Tidy \/ Mount \/ Upload
  BY <1>0, <1>6 DEF Validate, Tidy, Mount, Upload, Readable
<1>7. CASE Reload
  BY <1>0, <1>7 DEF Reload, Readable
<1>8. CASE Load
  BY <1>0, <1>8 DEF Load, Readable
<1>9. CASE StartHttps
  BY <1>0, <1>9 DEF StartHttps, Readable
<1>10. CASE PowerLoss
  BY <1>10 DEF PowerLoss
<1> QED
  BY <1>1, <1>2, <1>4, <1>5, <1>6, <1>7, <1>8, <1>9, <1>10 DEF Next, StoreStep

\* What StoredCertificate sees of the store, step by step.
Given == IF Stored = "none" THEN {"none"} ELSE {Stored, "none", "torn"}

Damaged ==
    /\ Pending # "none" /\ torn' = TRUE
    /\ Stored' \in {"none", "torn"} \cup {IF Stored \in Bundles THEN Stored ELSE Pending}

LEMMA ViewStep ==
    ASSUME
        \/ UNCHANGED <<Stored, Kind(ram), torn, Pending, answer, Kind(served)>>
        \/ /\ \E b \in Bundles \cup {Bad} : Pending' = b
           /\ Pending = "none" /\ Kind(served) # "none" /\ answer' = "none"
           /\ UNCHANGED <<Stored, Kind(ram), torn, Kind(served)>>
        \/ /\ Pending = "none" /\ Kind(served) = "none"
           /\ Kind(ram)' \in Given
           /\ Pending' = IF Kind(ram)' = "none" THEN Local ELSE "none"
           /\ UNCHANGED <<Stored, torn, answer, Kind(served)>>
        \/ /\ Pending \in Bundles /\ Stored' = Pending /\ torn' = FALSE
           /\ UNCHANGED <<Kind(ram), Pending, answer, Kind(served)>>
        \/ /\ Pending \in Bundles /\ Stored = Pending /\ ~torn
           /\ Kind(ram)' \in Given /\ Pending' = "none"
           /\ answer' \in {answer, IF Kind(ram)' = "none" THEN "rejected" ELSE "stored"}
           /\ UNCHANGED <<Stored, torn, Kind(served)>>
        \/ /\ Pending # "none" /\ Pending' = "none" /\ answer' \in {answer, "rejected"}
           /\ torn' \in IF Stored \in Bundles THEN {torn, FALSE} ELSE {torn}
           /\ UNCHANGED <<Stored, Kind(ram), Kind(served)>>
        \/ /\ Damaged /\ Pending' \in {Pending, "none"}
           /\ answer' \in {answer, "rejected"} /\ UNCHANGED <<Kind(ram), Kind(served)>>
        \/ /\ Kind(served) = "none" /\ Pending = "none" /\ Stored' = "none"
           /\ UNCHANGED <<Kind(ram), torn, Pending, answer, Kind(served)>>
        \/ /\ Kind(served) = "none" /\ Pending = "none" /\ Kind(ram) # "none"
           /\ Kind(served)' = Kind(ram)
           /\ UNCHANGED <<Stored, Kind(ram), torn, Pending, answer>>
        \/ /\ Damaged \/ UNCHANGED <<Stored, torn>>
           /\ Kind(ram)' = "none" /\ Pending' = "none" /\ answer' = "none"
           /\ Kind(served)' = "none"
    PROVE  [StoreView!Next]_(StoreView!vars)
BY ZenonT(40) DEF StoreView!Next, StoreView!vars, StoreView!Ask, StoreView!Load,
   StoreView!Store, StoreView!Confirm, StoreView!Refuse, StoreView!Damage,
   StoreView!Fault, StoreView!Format, StoreView!Serve, StoreView!Restart,
   StoreView!Readings, Stored, Pending, Damaged, Given

\* A read gives the bundle that is stored, something torn or nothing.
LEMMA KindOfLoad ==
    ASSUME file \in [Paths -> Contents], ~Promoting, NEW pair \in Loads
    PROVE  Kind(pair) \in Given /\ (Kind(pair) = "none" <=> ~Readable(pair))
<1>1. Stored = Kind(Active)
  BY DEF Stored
<1>2. Kind(pair) = "none" <=> ~Readable(pair)
  BY BundlesAssumption DEF Kind, Matched
<1>3. CASE ~Readable(pair)
  BY <1>2, <1>3 DEF Given
<1>4. CASE Readable(pair)
  <2>1. Readable(Active) /\ Stored # "none"
    BY <1>1, <1>4, LoadsKnown, BundlesAssumption DEF Kind, Matched
  <2>2. CASE ~Matched(pair)
    BY <1>4, <2>1, <2>2 DEF Given, Kind
  <2>3. CASE Matched(pair)
    <3>1. pair.cert = Active.cert /\ pair.key = Active.key
      BY <2>3, LoadsKnown, BundlesAssumption DEF Matched
    <3> QED
      BY <1>1, <1>4, <2>1, <2>3, <3>1 DEF Kind, Matched, Given
  <2> QED
    BY <2>2, <2>3
<1> QED
  BY <1>2, <1>3, <1>4

\* A bundle is being stored.
LEMMA PendingBundle ==
    ASSUME IInv, at \in Writes \cup {"tidy", "reload"}
    PROVE  Pending = offered /\ offered \in Bundles /\ offered # "none"
BY BundlesAssumption DEF IInv, StageState, Pending

\* A write that fails: before the promotion nothing is lost, during it the pair
\* remains as it was, is lost or torn.
LEMMA FailView ==
    ASSUME IInv, PromotionKnown, NEW f, at \in Writes, WriteFailed(at, f),
           UNCHANGED <<ram, before, offered, served>>,
           f = file \/ \E rest \in {"empty", "partial"} :
                          f = [file EXCEPT ![Target(at)] = rest]
    PROVE  [StoreView!Next]_(StoreView!vars)
<1>0. file \in [Paths -> Contents] /\ f \in [Paths -> Contents]
  BY DEF IInv, TypeOK, Contents
<1>1. /\ Pending = offered /\ offered \in Bundles /\ offered # "none"
      /\ torn \in BOOLEAN /\ UNCHANGED <<Kind(served), Kind(ram)>> /\ UNCHANGED found
  BY PendingBundle DEF IInv, TypeOK, Kind, Readable, Matched, before
<1>2. CASE at \in {"stagedCert", "stagedKey"}
  <2>1. at' \in {"closed", "ready"} /\ answer' \in {answer, "rejected"}
        /\ UNCHANGED torn
    BY <1>1, <1>2 DEF WriteFailed, Fail, TouchesActive, Target
  <2>2. UNCHANGED Active
    BY <1>0, <1>2, FailedKeepsActive DEF Active, Target, Paths
  <2>3. UNCHANGED Stored
    BY <1>2, <2>1, <2>2 DEF Stored, Promoting, Kind, Readable, Matched
  <2>4. Pending' = "none"
    BY <2>1 DEF Pending, Writes, Paths
  <2> QED
    BY <1>1, <2>1, <2>3, <2>4, ViewStep
<1>3. CASE at \notin {"stagedCert", "stagedKey"}
  <2>1. Promoting /\ torn' = TRUE /\ file' = f /\ answer' \in {answer, "rejected"}
    BY <1>0, <1>3 DEF WriteFailed, Go, Fail, TouchesActive, Target, Promoting, Writes,
       Paths
  <2>2. CASE Promoting'
    <3>1. UNCHANGED Stored
      BY <1>1, <2>1, <2>2 DEF Stored, Kind, Readable, Matched
    <3>2. Stored \in {"none", "torn"} \cup Bundles
      BY <2>1 DEF Stored, Kind, Matched
    <3>3. UNCHANGED Pending
      BY <1>1, <2>2 DEF Promoting, Pending, Writes, Paths
    <3> QED
      BY <1>1, <2>1, <3>1, <3>2, <3>3, ViewStep DEF Damaged
  <2>3. CASE ~Promoting'
    <3>1. at' \in {"closed", "ready"}
      BY <1>3, <2>3 DEF WriteFailed, Go, Fail, Promoting, Writes, Paths
    <3>2. Between(Active')
      <4>1. CASE file' = file
        BY <2>1, <4>1 DEF PromotionKnown, Active
      <4>2. CASE file' # file
        BY <1>0, <2>1, <4>2, BetweenKept
      <4> QED
        BY <4>1, <4>2
    <3>3. Stored' = Kind(Active') /\ Stored = Kind(found)
      BY <2>1, <2>3 DEF Stored, Kind, Readable, Matched
    <3>4. Stored' \in {"none", "torn"} \cup
                          {IF Stored \in Bundles THEN Stored ELSE offered}
      BY <3>2, <3>3, Remains
    <3>5. Pending' = "none"
      BY <3>1 DEF Pending, Writes, Paths
    <3> QED
      BY <1>1, <2>1, <3>4, <3>5, ViewStep DEF Damaged
  <2> QED
    BY <2>2, <2>3
<1> QED
  BY <1>2, <1>3

\* A write that succeeds: the last one of the promotion stores the bundle, the
\* last one of a rollback brings the previous one back.
LEMMA PrintView ==
    ASSUME IInv, PromotionKnown, PrintFile
    PROVE  [StoreView!Next]_(StoreView!vars)
<1>0. file \in [Paths -> Contents] /\ at \in Writes
  BY DEF IInv, TypeOK, PrintFile
<1>1. /\ Pending = offered /\ offered \in Bundles /\ offered # "none"
      /\ torn \in BOOLEAN /\ UNCHANGED <<offered, Kind(served), Kind(ram)>>
  BY <1>0, PendingBundle DEF PrintFile, IInv, TypeOK, Kind, Readable, Matched
<1>2. CASE at \in {"stagedCert", "stagedKey", "activeCert", "rollbackCert"}
  <2>1. /\ at' \in Writes /\ answer' = answer
        /\ at' \in Paths <=> at \in Paths
    BY <1>2 DEF PrintFile, Written, Go, Writes, Paths
  <2>2. UNCHANGED <<torn, Pending>>
    BY <1>1, <1>2, <2>1 DEF PrintFile, RolledBack, Pending
  <2>3. UNCHANGED Stored
    <3>1. CASE at = "stagedCert"
      <4>1. Active' = Active /\ ~Promoting /\ ~Promoting'
        BY <1>0, <1>2, <3>1 DEF PrintFile, Written, Go, Active, Target, Promoting, Paths
      <4> QED
        BY <4>1 DEF Stored, Kind, Readable, Matched
    <3>2. CASE at = "stagedKey"
      <4>1. ~Promoting /\ Promoting' /\ found' = Active
        BY <1>0, <1>2, <3>2 DEF PrintFile, Written, Go, ReadPrevious, Promoting
      <4> QED
        BY <4>1 DEF Stored, Kind, Readable, Matched
    <3>3. CASE at \in {"activeCert", "rollbackCert"}
      <4>1. UNCHANGED found /\ Promoting /\ Promoting'
        BY <1>2, <3>3 DEF PrintFile, Written, Go, Promoting, before
      <4> QED
        BY <4>1 DEF Stored, Kind, Readable, Matched
    <3> QED
      BY <1>2, <3>1, <3>2, <3>3
  <2> QED
    BY <1>1, <2>1, <2>2, <2>3, ViewStep
<1>3. CASE at = "activeKey"
  <2>1. /\ at' = "tidy" /\ answer' = answer /\ torn' = FALSE
        /\ Active' = [cert |-> offered, key |-> offered]
    BY <1>0, <1>3 DEF PrintFile, Written, Go, Active, Target, Text, Paths, IInv, StageState
  <2>2. Stored' = offered
    <3>1. ~Promoting'
      BY <2>1 DEF Promoting
    <3> QED
      BY <1>1, <2>1, <3>1, BundlesAssumption DEF Stored, Kind, Readable, Matched, Unread
  <2>3. Pending' = offered
    BY <1>1, <2>1 DEF Pending
  <2> QED
    BY <1>1, <2>1, <2>2, <2>3, ViewStep
<1>4. CASE at = "rollbackKey"
  <2>1. /\ at' \in {"closed", "ready"} /\ answer' \in {answer, "rejected"} /\ torn
        /\ torn' = ~RolledBack /\ Promoting /\ ~Promoting'
    BY <1>1, <1>4 DEF PrintFile, Written, Fail, Promoting, IInv, StageState
  <2>2. Pending' = "none"
    BY <2>1 DEF Pending, Writes, Paths
  <2>3. Stored' = Kind(Active') /\ Stored = Kind(found)
    BY <2>1 DEF Stored, Kind, Readable, Matched
  <2>4. CASE RolledBack
    <3>1. Active'.cert = previous.cert /\ Active'.key = previous.key
          /\ Matched(previous) /\ Readable(previous)
      BY <1>0, <1>4, <2>4 DEF PrintFile, RolledBack, Active, Target, Text, Paths,
         PromotionKnown
    <3>2. found.cert = previous.cert /\ found.key = previous.key
      BY <2>1, <3>1, BundlesAssumption DEF PromotionKnown, Matched
    <3>3. Stored' = previous.cert /\ Stored = previous.cert /\ Stored \in Bundles
      BY <2>3, <3>1, <3>2 DEF Kind, Readable, Matched
    <3> QED
      BY <1>1, <2>1, <2>2, <2>4, <3>3, ViewStep
  <2>5. CASE ~RolledBack
    <3>1. Between(Active')
      BY <1>0, <1>4, <2>1, BetweenKept DEF PrintFile
    <3>2. Stored' \in {"none", "torn"} \cup
                          {IF Stored \in Bundles THEN Stored ELSE offered}
      BY <2>3, <3>1, Remains
    <3> QED
      BY <1>1, <2>1, <2>2, <2>5, <3>2, ViewStep DEF Damaged
  <2> QED
    BY <2>4, <2>5
<1> QED
  BY <1>0, <1>2, <1>3, <1>4 DEF Writes, Paths

\* Power is lost: what the next boot finds is decided by the files alone.
LEMMA PowerView ==
    ASSUME IInv, PromotionKnown, PowerLoss
    PROVE  [StoreView!Next]_(StoreView!vars)
<1>0. file \in [Paths -> Contents] /\ StageState
  BY DEF IInv, TypeOK
<1>1. /\ Pending' = "none" /\ answer' = "none" /\ Kind(served)' = "none"
      /\ Kind(ram)' = "none" /\ ~Promoting'
  BY DEF PowerLoss, Pending, Promoting, Kind, NoPair, Readable, Unread, Writes, Paths
<1>2. Stored' = Kind(Active')
  BY <1>1 DEF Stored, Kind, Readable, Matched
<1>3. CASE ~Touched
  <2>1. UNCHANGED Active /\ UNCHANGED torn
    BY <1>0, <1>3 DEF PowerLoss, Touched, Promoting, Active, Target, StageState, Writes,
       Paths, IInv, TypeOK
  <2>2. Stored = Kind(Active)
    BY <1>3 DEF Touched, PromotionKnown, Stored
  <2> QED
    BY <1>1, <1>2, <2>1, <2>2, ViewStep
<1>4. CASE Touched
  <2>1. Promoting /\ torn' = TRUE /\ Stored = Kind(found)
    BY <1>4 DEF PowerLoss, Touched, Promoting, Stored
  <2>2. Pending = offered /\ offered # "none"
    BY <2>1, PendingBundle DEF Promoting, Writes, Paths
  <2>3. Between(Active')
    <3>1. CASE open
      BY <1>0, <2>1, <3>1, BetweenKept DEF PowerLoss
    <3>2. CASE ~open
      BY <2>1, <3>2 DEF PowerLoss, PromotionKnown, Active
    <3> QED
      BY <3>1, <3>2
  <2>4. Stored' \in {"none", "torn"} \cup
                        {IF Stored \in Bundles THEN Stored ELSE Pending}
    BY <1>2, <2>1, <2>2, <2>3, Remains
  <2> QED
    BY <1>1, <2>1, <2>2, <2>4, ViewStep DEF Damaged
<1> QED
  BY <1>3, <1>4

LEMMA StepView ==
    IInv /\ PromotionKnown /\ BootKnown /\ [Next]_vars =>
        [StoreView!Next]_(StoreView!vars)
<1> SUFFICES ASSUME IInv, PromotionKnown, BootKnown, [Next]_vars
             PROVE  [StoreView!Next]_(StoreView!vars)
  OBVIOUS
<1> USE DEF Go, Fail
<1>0. /\ file \in [Paths -> Contents] /\ torn \in BOOLEAN
      /\ caller \in {"boot", "upload"} /\ StageState
  BY DEF IInv, TypeOK
<1>a. Kind(served) = "none" <=> ~Readable(served)
  BY BundlesAssumption DEF Kind, Matched
<1>1. CASE UNCHANGED vars
  <2>1. UNCHANGED <<Stored, Kind(ram), torn, Pending, answer, Kind(served)>>
    BY <1>1 DEF vars, before, Stored, Pending, Kind, Readable, Matched, Promoting, Active
  <2> QED
    BY <2>1, ViewStep
<1>2. CASE OpenFile
  <2>1. UNCHANGED <<Kind(ram), torn, Pending, answer, Kind(served)>>
    BY <1>2 DEF OpenFile, Pending, Kind, Readable, Matched
  <2>2. CASE Promoting
    <3>1. UNCHANGED Stored
      BY <1>2, <2>2 DEF OpenFile, before, Stored, Promoting, Kind, Readable, Matched
    <3> QED
      BY <2>1, <3>1, ViewStep
  <2>3. CASE ~Promoting
    <3>1. UNCHANGED Active /\ UNCHANGED at
      BY <1>0, <1>2, <2>3 DEF OpenFile, Promoting, Active, Target, Writes, Paths
    <3>2. UNCHANGED Stored
      BY <2>3, <3>1 DEF Stored, Promoting, Kind, Readable, Matched
    <3> QED
      BY <2>1, <3>2, ViewStep
  <2> QED
    BY <2>2, <2>3
<1>3. CASE OpenFails
  BY <1>3, FailView DEF OpenFails
<1>4. CASE PrintFails
  BY <1>4, FailView DEF PrintFails
<1>5. CASE PrintFile
  BY <1>5, PrintView
<1>6. ASSUME ~Promoting, ~Promoting', UNCHANGED Active PROVE UNCHANGED Stored
  BY <1>6 DEF Stored, Kind, Readable, Matched
<1>7. CASE Validate
  <2>1. UNCHANGED <<Kind(ram), torn, Kind(served)>> /\ Pending = offered /\ offered # "none"
    BY <1>0, <1>7, BundlesAssumption
       DEF Validate, Kind, Readable, Matched, Pending, StageState, Bad
  <2>2. UNCHANGED Stored
    BY <1>6, <1>7 DEF Validate, Promoting, Active
  <2>3. CASE offered = Bad /\ Fail
    <3>1. Pending' = "none" /\ answer' \in {answer, "rejected"}
      BY <2>3 DEF Pending, Writes, Paths
    <3> QED
      BY <1>0, <2>1, <2>2, <3>1, ViewStep
  <2>4. CASE Go("stagedCert")
    <3>1. UNCHANGED <<Pending, answer>>
      BY <1>7, <2>1, <2>4 DEF Validate, Pending, Writes, Paths
    <3> QED
      BY <2>1, <2>2, <3>1, ViewStep
  <2> QED
    BY <1>7, <2>3, <2>4 DEF Validate
<1>8. CASE Tidy
  <2>1. UNCHANGED <<Kind(ram), torn, Pending, answer, Kind(served)>>
    BY <1>8 DEF Tidy, Kind, Readable, Matched, Pending
  <2>2. UNCHANGED Stored
    BY <1>0, <1>6, <1>8 DEF Tidy, Promoting, Active, Paths
  <2> QED
    BY <2>1, <2>2, ViewStep
<1>9. CASE Reload
  <2>1. /\ Pending = offered /\ offered \in Bundles /\ offered # "none" /\ ~torn
        /\ Active = [cert |-> offered, key |-> offered] /\ ~Promoting
    BY <1>0, <1>9, PendingBundle DEF Reload, StageState, Promoting
  <2>2. Stored = offered
    BY <2>1, BundlesAssumption DEF Stored, Kind, Readable, Matched, Unread
  <2>3. UNCHANGED Stored
    BY <1>6, <1>9 DEF Reload, Promoting, Active
  <2>4. UNCHANGED <<torn, Kind(served)>>
    BY <1>9 DEF Reload, Kind, Readable, Matched
  <2>5. Kind(ram)' \in Given /\ (Kind(ram)' = "none" <=> ~Readable(ram'))
    BY <1>0, <1>9, <2>1, KindOfLoad DEF Reload, Kind, Readable, Matched
  <2>6. Pending' = "none"
    BY <1>9 DEF Reload, Pending, Writes, Paths
  <2>7. answer' \in {answer, IF Kind(ram)' = "none" THEN "rejected" ELSE "stored"}
    BY <1>9, <2>5 DEF Reload
  <2> QED
    BY <2>1, <2>2, <2>3, <2>4, <2>5, <2>6, <2>7, ViewStep
<1>10. CASE Mount
  <2>1. UNCHANGED <<Kind(ram), torn, answer, Kind(served)>> /\ Kind(served) = "none"
    BY <1>0, <1>10 DEF Mount, BootKnown, Kind, Readable, Matched, NoPair, Unread
  <2>2. Pending = "none" /\ Pending' = "none" /\ ~Promoting /\ ~Promoting'
    BY <1>10 DEF Mount, Pending, Promoting, Writes, Paths
  <2>3. CASE UNCHANGED file
    <3>1. UNCHANGED Stored
      BY <1>6, <2>2, <2>3 DEF Active
    <3> QED
      BY <2>1, <2>2, <3>1, ViewStep
  <2>4. CASE file' = [p \in Paths |-> "missing"]
    <3>1. Stored' = "none"
      BY <2>2, <2>4 DEF Stored, Kind, Readable, Unread, Active, Paths
    <3> QED
      BY <2>1, <2>2, <3>1, ViewStep
  <2> QED
    BY <1>10, <2>3, <2>4 DEF Mount
<1>11. CASE Load
  <2>1. UNCHANGED <<torn, answer, Kind(served)>> /\ Kind(served) = "none"
    BY <1>0, <1>11 DEF Load, BootKnown, Kind, Readable, Matched, NoPair, Unread
  <2>2. Pending = "none" /\ ~Promoting /\ ~Promoting'
    BY <1>11 DEF Load, Pending, Promoting, Writes, Paths
  <2>3. UNCHANGED Stored
    BY <1>6, <1>11, <2>2 DEF Load, Active
  <2>4. Kind(ram)' \in Given /\ (Kind(ram)' = "none" <=> ~Readable(ram'))
    BY <1>0, <1>11, <2>2, KindOfLoad DEF Load, Kind, Readable, Matched
  <2>5. Pending' = IF Kind(ram)' = "none" THEN Local ELSE "none"
    BY <1>11, <2>4 DEF Load, Pending, Writes, Paths
  <2> QED
    BY <2>1, <2>2, <2>3, <2>4, <2>5, ViewStep
<1>12. CASE StartHttps
  <2>1. /\ UNCHANGED <<Kind(ram), torn, answer>> /\ Kind(served) = "none"
        /\ Pending = "none" /\ Pending' = "none" /\ ~Promoting /\ ~Promoting'
        /\ Readable(ram) /\ UNCHANGED Active
    BY <1>0, <1>12 DEF StartHttps, BootKnown, Kind, Readable, Matched, NoPair, Unread,
       Pending, Promoting, Writes, Paths, Active
  <2>2. UNCHANGED Stored
    BY <1>6, <2>1
  <2>3. Kind(ram) # "none"
    BY <2>1, BundlesAssumption DEF Kind, Matched
  <2>4. Kind(served)' = Kind(served) \/ Kind(served)' = Kind(ram)
    BY <1>12 DEF StartHttps, Kind, Readable, Matched
  <2> QED
    BY <2>1, <2>2, <2>3, <2>4, ViewStep
<1>13. CASE Upload
  <2>1. UNCHANGED <<Kind(ram), torn, Kind(served)>> /\ answer' = "none" /\ Kind(served) # "none"
    BY <1>13, <1>a DEF Upload, BootKnown, Kind, Readable, Matched
  <2>2. Pending = "none" /\ Pending' = offered' /\ ~Promoting /\ ~Promoting'
    BY <1>13 DEF Upload, Pending, Promoting, Writes, Paths
  <2>3. UNCHANGED Stored
    BY <1>6, <1>13, <2>2 DEF Upload, Active
  <2>4. offered' \in Bundles \cup {Bad}
    BY <1>13 DEF Upload
  <2> QED
    BY <2>1, <2>2, <2>3, <2>4, ViewStep
<1>14. CASE PowerLoss
  BY <1>14, PowerView
<1> QED
  BY <1>1, <1>2, <1>3, <1>4, <1>5, <1>7, <1>8, <1>9, <1>10, <1>11, <1>12, <1>13,
     <1>14 DEF Next, StoreStep

-----------------------------------------------------------------------------
\* Every reachable state satisfies the inductive invariant.
THEOREM Invariance == Spec => []IInv
<1>1. IInv /\ [Next]_vars => IInv'
  BY TypeStep, InvalidStep, KnownStep DEF IInv, Known
<1> QED
  BY InitIInv, <1>1, PTL DEF Spec

\* Type correctness of the certificate files and their callers, for every value of the constants.
THEOREM TypeCorrect == Spec => []TypeOK
BY Invariance, PTL DEF IInv

\* The active files are the halves of one bundle or unreadable unless a write
\* of one failed or was cut short (TlsCertificateStore::stage).
THEOREM PairUnlessTornHolds == Spec => []PairUnlessTorn
BY Invariance, WholeIsPair, PTL

\* "Certificate stored and activated" is true of both files and of memory.
THEOREM StoredMeansActiveHolds == Spec => []StoredMeansActive
BY Invariance, PTL DEF IInv

\* A bundle that fails validateBundle reaches no file.
THEOREM InvalidNeverWrittenHolds == Spec => []InvalidNeverWritten
BY Invariance, PTL DEF IInv

\* Through every failure, rollback and power loss the two files are one bundle
\* that is stored or not (stage, startHttpsServer and updateTlsCertificate
\* implement StoredCertificate), for any set of bundles.
THEOREM ImplementsStoredCertificate == Spec => StoredCertificateSpec
<1>1. Init => StoreView!Init
  <2> SUFFICES ASSUME Init PROVE StoreView!Init
    OBVIOUS
  <2>1. PICK old \in Bundles \cup {"missing"} : Active = [cert |-> old, key |-> old]
    BY DEF Init, Active, Paths
  <2>2. Kind(Active) \in Bundles \cup {"none"}
    BY <2>1, BundlesAssumption DEF Kind, Readable, Matched, Unread
  <2>3. Kind(served) = "none" /\ Kind(ram) = "none" /\ ~Promoting
    BY DEF Init, Kind, Readable, Unread, NoPair, Promoting
  <2>4. at \notin Writes \cup {"validate", "tidy", "reload"}
    BY DEF Init, Writes, Paths
  <2> QED
    BY <2>2, <2>3, <2>4 DEF Init, StoreView!Init
<1>2. Init => PromotionKnown /\ BootKnown
  BY DEF Init, PromotionKnown, BootKnown, Promoting
<1>3. Spec => []PromotionKnown
  BY <1>2, PromotionStep, Invariance, PTL DEF Spec
<1>4. Spec => []BootKnown
  BY <1>2, BootStep, Invariance, PTL DEF Spec
<1> QED
  BY <1>1, <1>3, <1>4, StepView, Invariance, PTL
     DEF Spec, StoredCertificateSpec, StoreView!Spec
=============================================================================
