------------------------ MODULE WifiProvisioningProofs ------------------------
(***************************************************************************)
(* For any set of networks: what the last answer said is what the flash    *)
(* holds, entries of two forms meet only after a failure, and the device   *)
(* runs on the settings it told it had saved.                              *)
(***************************************************************************)
EXTENDS WifiProvisioning, TLAPS

\* What the locals of a handler say about the entries it has written.
Written ==
    /\ at # "idle" => mode \in {"normal", "portal"}
    /\ at \in {"load", "loadLegacy", "open", "ssid", "password", "legacy",
               "answer"} => form \in Forms
    /\ at \in {"password", "legacy", "answer", "erase"} => told = "nothing"
    /\ at \in {"password", "legacy", "answer"} /\ ssidSaved => nvs.ssid = form
    /\ at \in {"legacy", "answer"} =>
         /\ passwordSaved /\ form \notin Open => nvs.password = form
         /\ ~torn => nvs = Pair(form)

\* A boot has read nothing, or what the last answer said.
ReadAsTold ==
    mode \in {"legacy", "connect", "normal"} /\ at # "restart" =>
        /\ told \in Forms =>
              /\ settings.ssid \in {Empty, told}
              /\ told \notin Open => settings.password \in {Empty, told}
        /\ told = "erased" => settings.ssid = Empty

OnNetwork == mode = "normal" => settings.ssid # Empty

IInv ==
    /\ TypeOK
    /\ Written
    /\ StoredAsTold
    /\ PairFromOneForm
    /\ ReadAsTold
    /\ OnNetwork

LEMMA PairType == \A f \in Forms \cup {Empty} : Pair(f) \in Pairs
BY DEF Pair, Pairs

LEMMA InitIInv == Init => IInv
<1> SUFFICES ASSUME Init PROVE IInv
  OBVIOUS
<1>1. nvs \in Pairs /\ settings \in Pairs
  BY PairType DEF Init
<1>2. ssidSaved \in BOOLEAN /\ passwordSaved \in BOOLEAN /\ torn \in BOOLEAN
  BY Zenon DEF Init
<1>3. TypeOK
  BY <1>1, <1>2 DEF Init, TypeOK, Modes, Steps, FirstMode
<1>4. StoredAsTold /\ PairFromOneForm /\ Written /\ ReadAsTold /\ OnNetwork
  BY FormsAssumption DEF Init, StoredAsTold, PairFromOneForm, Written,
     ReadAsTold, OnNetwork, Pair, FirstMode
<1> QED
  BY <1>3, <1>4 DEF IInv

-----------------------------------------------------------------------------
\* Types and ranges.
LEMMA TypeStep == IInv /\ [Next]_vars => TypeOK'
<1> SUFFICES ASSUME TypeOK, Written, [Next]_vars PROVE TypeOK'
  BY DEF IInv
<1> USE DEF TypeOK, Modes, Steps, boot, request
<1>1. nvs' \in Pairs
  <2>1. CASE SaveSsid \/ SavePassword
    BY <2>1 DEF SaveSsid, SavePassword, Written, Pairs
  <2>2. CASE Erase
    BY <2>2 DEF Erase, Pairs
  <2>3. CASE ~(SaveSsid \/ SavePassword \/ Erase)
    BY <2>3 DEF Next, BootStep, HandlerStep, PanelReady, PanelTimeout, BootLoad, BootLegacy, Connect,
       StartPortal, PortalFails, PowerLoss, Reboot, Restart, Submit, FormLoad,
       FormLegacy, SaveRefused, SaveOpen, SaveLegacy, SaveAnswer, Reset,
       ClearRefused, ClearBegin, EraseFails, Erased, vars
  <2> QED
    BY <2>1, <2>2, <2>3
<1>2. CASE BootLoad \/ BootLegacy \/ Connect \/ StartPortal \/ PanelReady
           \/ PanelTimeout
  <2>1. CASE BootLoad
    <3>1. settings' \in Pairs
      BY <2>1 DEF BootLoad, Pairs
    <3> QED
      BY <1>1, <2>1, <3>1 DEF BootLoad
  <2>2. CASE ~BootLoad
    BY <1>1, <1>2, <2>2 DEF BootLegacy, Connect, StartPortal, PanelReady,
       PanelTimeout
  <2> QED
    BY <2>1, <2>2
<1>3. CASE PowerLoss \/ PortalFails \/ Restart
  <2>1. ssidSaved' \in BOOLEAN /\ passwordSaved' \in BOOLEAN
    BY <1>3, Zenon DEF PowerLoss, PortalFails, Restart, Reboot, NoRequest
  <2>2. torn' \in BOOLEAN
    BY <1>3, Zenon DEF PowerLoss, PortalFails, Restart, Reboot
  <2>3. UNCHANGED <<nvs, legacy, told>> /\ at' \in Steps /\ mode' \in Modes
        /\ settings' \in Pairs /\ form' = Empty
    BY <1>3, PairType DEF PowerLoss, PortalFails, Restart, Reboot, NoRequest,
       FirstMode
  <2> QED
    BY <1>1, <2>1, <2>2, <2>3
<1>4. CASE Submit \/ FormLoad \/ FormLegacy \/ SaveOpen \/ SaveLegacy \/ Reset
           \/ ClearBegin
  <2>1. UNCHANGED <<nvs, settings, mode, ssidSaved, passwordSaved, torn>>
        /\ legacy' \in BOOLEAN /\ at' \in Steps /\ form' \in Forms \cup {Empty}
    BY <1>4 DEF Submit, FormLoad, FormLegacy, SaveOpen, SaveLegacy, Reset,
       ClearBegin
  <2>2. told' \in {told, "nothing"}
    BY <1>4 DEF Submit, FormLoad, FormLegacy, SaveOpen, SaveLegacy, Reset,
       ClearBegin
  <2> QED
    BY <2>1, <2>2
<1>5. CASE SaveRefused \/ ClearRefused \/ EraseFails
  <2>1. ssidSaved' \in BOOLEAN /\ passwordSaved' \in BOOLEAN
    BY <1>5, Zenon DEF SaveRefused, ClearRefused, EraseFails, NoRequest
  <2>2. torn' \in BOOLEAN
    BY <1>5, Zenon DEF SaveRefused, ClearRefused, EraseFails
  <2>3. UNCHANGED <<nvs, legacy, mode, settings>> /\ at' = "idle"
        /\ form' = Empty /\ told' \in {told, "refused"}
    BY <1>5 DEF SaveRefused, ClearRefused, EraseFails, NoRequest
  <2> QED
    BY <2>1, <2>2, <2>3
<1>6. CASE SaveSsid \/ SavePassword
  <2>1. ssidSaved' \in BOOLEAN /\ passwordSaved' \in BOOLEAN
    <3>1. (form \in Open) \in BOOLEAN
      OBVIOUS
    <3>2. CASE SaveSsid
      BY <3>2, Zenon DEF SaveSsid
    <3>3. CASE SavePassword
      <4>1. passwordSaved' \in {TRUE, (form \in Open)} /\ ssidSaved' = ssidSaved
        BY <3>3, Zenon DEF SavePassword
      <4> QED
        BY <3>1, <4>1, Zenon
    <3> QED
      BY <1>6, <3>2, <3>3
  <2>2. torn' \in BOOLEAN
    BY <1>6, Zenon DEF SaveSsid, SavePassword
  <2>3. UNCHANGED <<legacy, mode, settings, form>> /\ at' \in Steps
        /\ told' \in {told, "nothing"}
    BY <1>6 DEF SaveSsid, SavePassword
  <2> QED
    BY <1>1, <2>1, <2>2, <2>3
<1>7. CASE SaveAnswer
  <2>1. ssidSaved' \in BOOLEAN /\ passwordSaved' \in BOOLEAN
    BY <1>7, Zenon DEF SaveAnswer, NoRequest
  <2>2. UNCHANGED <<nvs, legacy, mode, settings, torn>> /\ at' \in Steps
        /\ form' \in {form, Empty} /\ told' \in Forms \cup {"refused"}
    BY <1>7 DEF SaveAnswer, NoRequest, Written
  <2> QED
    BY <2>1, <2>2
<1>8. CASE Erase
  <2>1. legacy' \in BOOLEAN
    BY <1>8, Zenon DEF Erase
  <2> QED
    BY <1>1, <1>8, <2>1 DEF Erase
<1>9. CASE Erased
  <2>1. torn' \in BOOLEAN
    BY <1>9, Zenon DEF Erased
  <2> QED
    BY <1>9, <2>1 DEF Erased
<1>10. CASE UNCHANGED vars
  BY <1>10 DEF vars
<1> QED
  BY <1>2, <1>3, <1>4, <1>5, <1>6, <1>7, <1>8, <1>9, <1>10
     DEF Next, BootStep, HandlerStep

-----------------------------------------------------------------------------
Truth == Written /\ StoredAsTold /\ PairFromOneForm /\ ReadAsTold /\ OnNetwork

\* Every step keeps what handlers, answers and boots say of the entries.
LEMMA TruthStep == IInv /\ [Next]_vars => Truth'
<1> SUFFICES ASSUME IInv, [Next]_vars PROVE Truth'
  OBVIOUS
<1> USE FormsAssumption DEF IInv, Truth, TypeOK, Modes, Steps, Pairs, Pair,
        Written, StoredAsTold, PairFromOneForm, ReadAsTold, OnNetwork, boot,
        request, NoRequest
<1>1. CASE BootLoad \/ PanelReady \/ PanelTimeout
  BY <1>1 DEF BootLoad, PanelReady, PanelTimeout
<1>2. CASE BootLegacy \/ Connect \/ StartPortal
  <2>1. at = "idle"
    BY <1>2 DEF BootLegacy, Connect, StartPortal
  <2>2. CASE BootLegacy
    <3>1. ~legacy => ~legacy'
      BY <2>2, Zenon DEF BootLegacy
    <3>2. mode = "legacy" /\ mode' = "connect"
          /\ UNCHANGED <<nvs, settings, request, told, torn>>
      BY <2>2 DEF BootLegacy
    <3> QED
      BY <2>1, <3>1, <3>2
  <2>3. CASE Connect
    BY <2>1, <2>3 DEF Connect
  <2>4. CASE StartPortal
    BY <2>1, <2>4 DEF StartPortal
  <2> QED
    BY <1>2, <2>2, <2>3, <2>4
<1>3. CASE PowerLoss \/ PortalFails \/ Restart
  <2>1. Reboot
    BY <1>3 DEF PowerLoss, PortalFails, Restart
  <2> QED
    BY <2>1 DEF Reboot, FirstMode
<1>4. CASE Submit \/ FormLoad \/ FormLegacy \/ SaveOpen \/ SaveRefused
  <2>1. CASE Submit \/ FormLoad
    BY <2>1 DEF Submit, FormLoad
  <2>2. CASE FormLegacy
    <3>1. ~legacy => ~legacy'
      BY <2>2, Zenon DEF FormLegacy
    <3>2. at = "loadLegacy" /\ at' = "open"
          /\ UNCHANGED <<nvs, boot, form, ssidSaved, passwordSaved, told, torn>>
      BY <2>2 DEF FormLegacy
    <3> QED
      BY <3>1, <3>2
  <2>3. CASE SaveOpen \/ SaveRefused
    BY <2>3 DEF SaveOpen, SaveRefused
  <2> QED
    BY <1>4, <2>1, <2>2, <2>3
<1>5. CASE SaveSsid
  BY <1>5 DEF SaveSsid
<1>6. CASE SavePassword
  BY <1>6 DEF SavePassword
<1>7. CASE SaveLegacy
  BY <1>7 DEF SaveLegacy
<1>8. CASE SaveAnswer
  BY <1>8 DEF SaveAnswer
<1>9. CASE Reset \/ ClearRefused \/ ClearBegin \/ EraseFails
  BY <1>9 DEF Reset, ClearRefused, ClearBegin, EraseFails
<1>10. CASE Erase
  BY <1>10 DEF Erase
<1>11. CASE Erased
  BY <1>11 DEF Erased
<1>12. CASE UNCHANGED vars
  BY <1>12 DEF vars
<1> QED
  BY <1>1, <1>2, <1>3, <1>4, <1>5, <1>6, <1>7, <1>8, <1>9, <1>10, <1>11, <1>12
     DEF Next, BootStep, HandlerStep

-----------------------------------------------------------------------------
\* Every reachable state satisfies the inductive invariant.
THEOREM Invariance == Spec => []IInv
<1>1. IInv /\ [Next]_vars => IInv'
  BY TypeStep, TruthStep DEF IInv, Truth
<1> QED
  BY InitIInv, <1>1, PTL DEF Spec

\* Type correctness of boot, forms and entries, for every set of networks.
THEOREM TypeCorrect == Spec => []TypeOK
BY Invariance, PTL DEF IInv

\* ConfigStore::save and clear: what the last answer said is in the flash,
\* through restarts.
THEOREM StoredAsToldHolds == Spec => []StoredAsTold
BY Invariance, PTL DEF IInv

\* ConfigStore::save: network and password are of one form unless a write
\* failed or was cut off.
THEOREM PairFromOneFormHolds == Spec => []PairFromOneForm
BY Invariance, PTL DEF IInv

\* Application::begin: normal mode runs on the settings that were reported.
THEOREM RunsAsToldHolds == Spec => []RunsAsTold
<1>1. IInv => RunsAsTold
  BY DEF IInv, RunsAsTold, ReadAsTold, OnNetwork
<1> QED
  BY Invariance, <1>1, PTL
=============================================================================
