---------------------------- MODULE WifiScanProofs ----------------------------
(***************************************************************************)
(* For any networks, readings and length of the list: the list of a scan   *)
(* has each network once with its best reading, misses only networks no    *)
(* stronger than those it has, and is shown in order.  The first two need  *)
(* each other: a network that comes back to a full list was weaker before. *)
(***************************************************************************)
EXTENDS WifiScan, TLAPS

\* The places handled by the sort are in order and above the others.
Sorted(list, n) ==
    \A i \in 1..n : \A j \in DOMAIN list : i <= j => list[i].rssi >= list[j].rssi

SortedSoFar ==
    /\ Sorted(networks, first)
    /\ phase = "scan" => first = 0
    /\ phase = "idle" => first = Len(networks)

IInv == TypeOK /\ BestReadings /\ StrongestKept /\ SortedSoFar

-----------------------------------------------------------------------------
\* Strengths are integers, and so comparable.
LEMMA ReadingStrength == \A r \in Readings : r.rssi \in Int /\ r.ssid \in Names
BY ScanAssumption DEF Readings

\* A place of a list can be overwritten.
LEMMA Overwritten ==
    ASSUME NEW list \in Seq(Readings), NEW w \in DOMAIN list, NEW r \in Readings
    PROVE  /\ [list EXCEPT ![w] = r] \in Seq(Readings)
           /\ Len([list EXCEPT ![w] = r]) = Len(list)
           /\ DOMAIN [list EXCEPT ![w] = r] = DOMAIN list
           /\ \A i \in DOMAIN list :
                  [list EXCEPT ![w] = r][i] = IF i = w THEN r ELSE list[i]
OBVIOUS

\* The list starts empty.
LEMMA InitIInv == Init => IInv
<1> SUFFICES ASSUME Init PROVE IInv
  OBVIOUS
<1>1. TypeOK
  BY ScanAssumption DEF Init, TypeOK
<1>2. BestReadings /\ StrongestKept /\ SortedSoFar
  BY DEF Init, BestReadings, StrongestKept, SortedSoFar, Sorted, Places
<1> QED
  BY <1>1, <1>2 DEF IInv

\* A new scan forgets the last one.
LEMMA ScanStep == IInv /\ Scan => IInv'
<1> SUFFICES ASSUME IInv, Scan PROVE IInv'
  OBVIOUS
<1>1. TypeOK'
  BY ScanAssumption DEF IInv, Scan, TypeOK
<1>2. (BestReadings /\ StrongestKept /\ SortedSoFar)'
  BY DEF Scan, BestReadings, StrongestKept, SortedSoFar, Sorted, Places
<1> QED
  BY <1>1, <1>2 DEF IInv

\* A reading handled: its network is added, or its entry gets stronger, or the
\* list has it or only stronger ones.
LEMMA HearStep == IInv /\ Hear => IInv'
<1> SUFFICES ASSUME IInv, Hear PROVE IInv'
  OBVIOUS
<1> USE DEF IInv, Hear, NextReading
<1> PICK r \in Readings :
       /\ heard' = heard \cup {r}
       /\ \/ \E i \in Places : Merge(r, i) \/ Replace(r, i)
          \/ Add(r)
  OBVIOUS
<1>0. /\ networks \in Seq(Readings) /\ Len(networks) \in Nat
      /\ Places = 1..Len(networks)
      /\ Len(networks) <= MaxResults /\ MaxResults \in Nat
      /\ \A i \in Places : networks[i] \in Readings
      /\ heard \subseteq Readings
  BY ScanAssumption DEF TypeOK, Places
<1>1. CASE Add(r)
  <2>1. /\ networks' \in Seq(Readings) /\ Len(networks') = Len(networks) + 1
        /\ Places' = 1..(Len(networks) + 1)
        /\ \A i \in Places : networks'[i] = networks[i]
        /\ networks'[Len(networks) + 1] = r
    BY <1>0, <1>1 DEF Add, Places
  <2>2. TypeOK'
    BY <2>1, <1>0, <1>1, ScanAssumption DEF TypeOK, Add, Readings
  <2>3. BestReadings'
    <3>1. \A q \in heard : q.ssid # r.ssid
      BY <1>0, <1>1, ReadingStrength DEF Add, StrongestKept, Listed
    <3> QED
      BY <3>1, <2>1, <1>0, <1>1, ReadingStrength DEF Add, BestReadings, Listed
  <2>4. StrongestKept'
    <3>1. \A q \in heard : \E i \in Places : networks[i].ssid = q.ssid
      BY <1>0, <1>1 DEF Add, StrongestKept, Listed
    <3>2. \A q \in heard' : \E i \in Places' : networks'[i].ssid = q.ssid
      BY <3>1, <2>1, <1>0
    <3> QED
      BY <3>2 DEF StrongestKept, Listed
  <2> QED
    BY <2>1, <2>2, <2>3, <2>4, <1>1 DEF SortedSoFar, Sorted, Add
<1>2. ASSUME NEW w \in Places, Merge(r, w) PROVE IInv'
  <2>1. CASE r.rssi > networks[w].rssi
    <3>1. /\ networks' \in Seq(Readings) /\ Len(networks') = Len(networks)
          /\ Places' = Places
          /\ \A i \in Places : networks'[i] = IF i = w THEN r ELSE networks[i]
      BY <1>0, <1>2, <2>1, Overwritten DEF Merge, Places
    <3>2. TypeOK'
      BY <3>1, <1>0 DEF TypeOK
    <3>3. BestReadings'
      BY <3>1, <2>1, <1>0, <1>2, ReadingStrength DEF Merge, BestReadings
    <3>4. \A q \in Readings : Listed(q)' <=> Listed(q)
      BY <3>1, <1>0, <1>2 DEF Merge, Listed
    <3>5. StrongestKept'
      <4>1. Listed(r)
        BY <1>2 DEF Merge, Listed
      <4>2. \A i \in Places : networks'[i].rssi >= networks[i].rssi
        BY <3>1, <2>1, <1>0, ReadingStrength
      <4> SUFFICES ASSUME NEW q \in heard', ~Listed(q)'
                   PROVE  /\ Len(networks') = MaxResults
                          /\ \A i \in Places : networks'[i].rssi >= q.rssi
        BY <3>1 DEF StrongestKept
      <4>3. q \in heard /\ ~Listed(q)
        BY <4>1, <3>4, <1>0
      <4>4. Len(networks) = MaxResults /\ \A i \in Places : networks[i].rssi >= q.rssi
        BY <4>3 DEF StrongestKept
      <4> QED
        BY <4>2, <4>3, <4>4, <3>1, <1>0, ReadingStrength
    <3> QED
      BY <3>1, <3>2, <3>3, <3>5 DEF SortedSoFar, Sorted
  <2>2. CASE ~(r.rssi > networks[w].rssi)
    <3>1. UNCHANGED networks /\ Listed(r)
      BY <1>2, <2>2 DEF Merge, Listed
    <3>2. BestReadings'
      BY <3>1, <2>2, <1>0, <1>2, ReadingStrength DEF Merge, BestReadings, Places
    <3>3. TypeOK' /\ SortedSoFar'
      BY <3>1, <1>0 DEF TypeOK, SortedSoFar, Sorted
    <3>4. StrongestKept'
      BY <3>1, <1>0 DEF StrongestKept, Listed, Places
    <3> QED
      BY <3>2, <3>3, <3>4
  <2> QED
    BY <2>1, <2>2
<1>3. ASSUME NEW w \in Places, Replace(r, w) PROVE IInv'
  <2>0. \A q \in heard : q.ssid = r.ssid => q.rssi <= networks[w].rssi
    BY <1>0, <1>3, ReadingStrength DEF Replace, StrongestKept, Listed
  <2>1. CASE r.rssi > networks[w].rssi
    <3>1. /\ networks' \in Seq(Readings) /\ Len(networks') = Len(networks)
          /\ Places' = Places
          /\ \A i \in Places : networks'[i] = IF i = w THEN r ELSE networks[i]
      BY <1>0, <1>3, <2>1, Overwritten DEF Replace, Places
    <3>2. TypeOK'
      BY <3>1, <1>0 DEF TypeOK
    <3>3. BestReadings'
      BY <3>1, <2>0, <2>1, <1>0, <1>3, ReadingStrength
         DEF Replace, BestReadings, Listed
    <3>4. \A i \in Places : networks'[i].rssi >= networks[w].rssi
      BY <3>1, <2>1, <1>0, <1>3, ReadingStrength DEF Replace, Weakest
    <3>5. \A q \in heard' : q.ssid # r.ssid /\ ~Listed(q)' =>
              q.rssi <= networks[w].rssi
      <4> SUFFICES ASSUME NEW q \in heard', q.ssid # r.ssid, ~Listed(q)'
                   PROVE  q.rssi <= networks[w].rssi
        OBVIOUS
      <4>0. q \in heard /\ q \in Readings
        BY <1>0
      <4>1. CASE Listed(q)
        <5>1. networks[w].ssid = q.ssid
          BY <4>1, <3>1 DEF Listed
        <5> QED
          BY <5>1, <4>0 DEF BestReadings
      <4>2. CASE ~Listed(q)
        BY <4>2, <4>0, <1>0, ReadingStrength DEF StrongestKept
      <4> QED
        BY <4>1, <4>2
    <3>6. Listed(r)' /\ \A q \in heard' : q.ssid = r.ssid => Listed(q)'
      BY <3>1, <1>0, <1>3 DEF Listed
    <3>7. StrongestKept'
      BY <3>1, <3>4, <3>5, <3>6, <1>0, <1>3, ReadingStrength
         DEF Replace, StrongestKept
    <3> QED
      BY <3>1, <3>2, <3>3, <3>7 DEF SortedSoFar, Sorted
  <2>2. CASE ~(r.rssi > networks[w].rssi)
    <3>1. UNCHANGED networks
      BY <1>3, <2>2 DEF Replace
    <3>2. TypeOK' /\ BestReadings' /\ SortedSoFar'
      BY <3>1, <1>0, <1>3, SMTT(20)
         DEF TypeOK, BestReadings, Replace, Listed, Places, SortedSoFar, Sorted
    <3>3. /\ Len(networks) = MaxResults
          /\ \A i \in Places : networks[i].rssi >= r.rssi
      <4>1. \A i \in Places : networks[i] \in Readings
        BY <1>0
      <4> QED
        BY <4>1, <2>2, <1>0, <1>3, ReadingStrength DEF Replace, Weakest
    <3>4. StrongestKept
      BY DEF IInv
    <3>5. \A q : Listed(q)' <=> Listed(q)
      BY <3>1 DEF Listed, Places
    <3>6. StrongestKept'
      BY <3>1, <3>3, <3>4, <3>5, <1>0 DEF StrongestKept, Places
    <3> QED
      BY <3>2, <3>6
  <2> QED
    BY <2>1, <2>2
<1> QED
  BY <1>1, <1>2, <1>3

\* A place of the sort fixed: the strongest of the rest is swapped to it.
LEMMA SelectStep == IInv /\ Select => IInv'
<1> SUFFICES ASSUME IInv, Select PROVE IInv'
  OBVIOUS
<1> DEFINE f == first + 1
<1> PICK s \in f..Len(networks) :
       /\ Strongest(f, s)
       /\ networks' = [networks EXCEPT ![f] = networks[s], ![s] = networks[f]]
  BY DEF Select
<1> DEFINE move == [i \in Places |-> IF i = f THEN s ELSE IF i = s THEN f ELSE i]
<1>0. /\ networks \in Seq(Readings) /\ Len(networks) \in Nat
      /\ Places = 1..Len(networks) /\ first \in Nat /\ f \in Places /\ s \in Places
      /\ \A i \in Places : networks[i] \in Readings
      /\ heard' = heard /\ heard \subseteq Readings /\ first' = f
      /\ phase' = "sort"
  BY DEF IInv, TypeOK, Places, Select
<1>1. /\ networks' \in Seq(Readings) /\ Len(networks') = Len(networks)
      /\ Places' = Places
      /\ \A i \in Places : networks'[i] = networks[move[i]]
  BY <1>0 DEF Places
<1>2. /\ \A i \in Places : move[i] \in Places /\ move[move[i]] = i
      /\ \A i \in Places : i < f => move[i] = i
      /\ \A i \in Places : i >= f => move[i] >= f
      /\ move[f] = s
  BY <1>0
<1> HIDE DEF move
<1>3. TypeOK'
  BY <1>0, <1>1 DEF IInv, TypeOK, Select
<1>4. BestReadings'
  <2> SUFFICES ASSUME NEW i \in Places
               PROVE  /\ networks'[i] \in heard
                      /\ \A r \in heard : r.ssid = networks'[i].ssid =>
                             r.rssi <= networks'[i].rssi
                      /\ \A j \in Places :
                             networks'[j].ssid = networks'[i].ssid => i = j
    BY <1>0, <1>1, SMTT(20) DEF BestReadings
  <2>1. networks'[i] = networks[move[i]] /\ move[i] \in Places
    BY <1>1, <1>2
  <2>2. \A j \in Places : networks'[j].ssid = networks'[i].ssid => i = j
    <3> SUFFICES ASSUME NEW j \in Places, networks'[j].ssid = networks'[i].ssid
                 PROVE  i = j
      OBVIOUS
    <3>1. networks'[j] = networks[move[j]] /\ move[j] \in Places
      BY <1>1, <1>2
    <3>2. move[i] = move[j]
      BY <2>1, <3>1 DEF IInv, BestReadings
    <3> QED
      BY <3>2, <1>2
  <2> QED
    BY <2>1, <2>2 DEF IInv, BestReadings
<1>5. StrongestKept'
  <2>1. \A q \in heard : Listed(q)' <=> Listed(q)
    BY <1>0, <1>1, <1>2 DEF Listed
  <2> QED
    BY <2>1, <1>0, <1>1, <1>2 DEF IInv, StrongestKept
<1>6. SortedSoFar'
  <2> SUFFICES ASSUME NEW i \in 1..f, NEW j \in Places, i <= j
               PROVE  networks'[i].rssi >= networks'[j].rssi
    BY <1>0, <1>1 DEF SortedSoFar, Sorted, Places
  <2>1. CASE i <= first
    BY <2>1, <1>0, <1>1, <1>2 DEF IInv, SortedSoFar, Sorted, Places
  <2>2. CASE i = f
    BY <2>2, <1>0, <1>1, <1>2 DEF Strongest
  <2> QED
    BY <2>1, <2>2, <1>0
<1> QED
  BY <1>3, <1>4, <1>5, <1>6 DEF IInv

\* Every step keeps the invariant.
LEMMA NextIInv == IInv /\ [Next]_vars => IInv'
<1> SUFFICES ASSUME IInv, [Next]_vars PROVE IInv'
  OBVIOUS
<1>1. CASE Scan
  BY <1>1, ScanStep
<1>2. CASE Hear
  BY <1>2, HearStep
<1>3. CASE Select
  BY <1>3, SelectStep
<1>4. ASSUME UNCHANGED <<networks, heard, first, found>>, TypeOK', SortedSoFar'
      PROVE  IInv'
  BY <1>4 DEF IInv, BestReadings, StrongestKept, Listed, Places
<1>5. CASE Skip
  BY <1>4, <1>5 DEF Skip, NextReading, IInv, TypeOK, SortedSoFar, Sorted
<1>6. CASE StartSort
  BY <1>4, <1>6 DEF StartSort, IInv, TypeOK, SortedSoFar, Sorted
<1>7. CASE Answer
  BY <1>4, <1>7 DEF Answer, IInv, TypeOK, SortedSoFar, Sorted
<1>8. CASE UNCHANGED vars
  BY <1>4, <1>8 DEF vars, IInv, TypeOK, SortedSoFar, Sorted
<1> QED
  BY <1>1, <1>2, <1>3, <1>5, <1>6, <1>7, <1>8 DEF Next

\* The invariant holds in every reachable state.
THEOREM Invariant == Spec => []IInv
BY InitIInv, NextIInv, PTL DEF Spec

\* Scans, readings and the list are well typed.
THEOREM TypeCorrect == Spec => []TypeOK
<1>1. IInv => TypeOK
  BY DEF IInv
<1> QED
  BY <1>1, Invariant, PTL

\* WifiScan::toJson lists a network once, as it was heard best, for every
\* length of the list.
THEOREM BestReadingsHolds == Spec => []BestReadings
<1>1. IInv => BestReadings
  BY DEF IInv
<1> QED
  BY <1>1, Invariant, PTL

\* It leaves out only networks that are no stronger than those of a full list.
THEOREM StrongestKeptHolds == Spec => []StrongestKept
<1>1. IInv => StrongestKept
  BY DEF IInv
<1> QED
  BY <1>1, Invariant, PTL

\* The list it sends is in order.
THEOREM StrongestFirstHolds == Spec => []StrongestFirst
<1>1. IInv => StrongestFirst
  BY DEF IInv, TypeOK, SortedSoFar, Sorted, StrongestFirst, Places
<1> QED
  BY <1>1, Invariant, PTL
=============================================================================
