------------------------------- MODULE WifiScan -------------------------------
(***************************************************************************)
(* WifiScan::toJson, the list of networks both Wi-Fi forms offer.  A radio *)
(* scan hears the same network many times, from several access points; the *)
(* list has each network once, with its strongest reading, keeps the       *)
(* strongest networks when it is full, and shows the strongest first.      *)
(*                                                                         *)
(* A step handles one reading, or fixes one place of the list.             *)
(***************************************************************************)
EXTENDS Integers, Sequences

CONSTANTS
    Names,      \* network names that may be listed, white space trimmed
    Strengths,  \* RSSI values
    MaxResults, \* DeviceConfig::maxScanResults
    MaxFound    \* bound: readings of one scan

ASSUME ScanAssumption ==
    /\ Strengths \subseteq Int
    /\ MaxResults \in Nat \ {0}
    /\ MaxFound \in Nat

VARIABLES
    phase,      \* "idle", or the loop of toJson that runs
    found,      \* readings of this scan
    index,      \* how many of them have been handled
    networks,   \* the list
    first,      \* places of the list that are in order
    heard       \* history: the readings that may be listed

vars == <<phase, found, index, networks, first, heard>>

Readings == [ssid : Names, rssi : Strengths, secure : BOOLEAN]

TypeOK ==
    /\ phase \in {"idle", "scan", "sort"}
    /\ found \in 0..MaxFound /\ index \in 0..found
    /\ networks \in Seq(Readings) /\ Len(networks) <= MaxResults
    /\ first \in 0..Len(networks)
    /\ heard \subseteq Readings

Places == DOMAIN networks

-----------------------------------------------------------------------------
(* The readings, one by one.                                               *)

\* WiFi.scanNetworks; a scan that failed has no readings.
Scan ==
    /\ phase = "idle"
    /\ phase' = "scan" /\ found' \in 0..MaxFound
    /\ index' = 0 /\ networks' = <<>> /\ first' = 0 /\ heard' = {}

NextReading ==
    /\ phase = "scan" /\ index < found
    /\ index' = index + 1
    /\ UNCHANGED <<phase, found, first>>

\* No name, the setup network of an InkAds device, or an impossible channel.
Skip == NextReading /\ UNCHANGED <<networks, heard>>

\* Mutant: the latest reading wins.
Merge_Latest(r, i) ==
    /\ networks[i].ssid = r.ssid
    /\ networks' = [networks EXCEPT ![i] = r]

\* The network is listed already: the stronger reading stays.
Merge(r, i) ==
    /\ networks[i].ssid = r.ssid
    /\ networks' = IF r.rssi > networks[i].rssi
                   THEN [networks EXCEPT ![i] = r] ELSE networks

Listed(r) == \E i \in Places : networks[i].ssid = r.ssid

Add(r) ==
    /\ ~Listed(r) /\ Len(networks) < MaxResults
    /\ networks' = Append(networks, r)

\* The first of the weakest networks.
Weakest(w) ==
    /\ \A i \in Places : networks[w].rssi <= networks[i].rssi
    /\ \A i \in 1..(w-1) : networks[w].rssi < networks[i].rssi

\* Mutant: a full list takes no more networks.
Replace_Never(r, w) ==
    /\ ~Listed(r) /\ Len(networks) = MaxResults
    /\ Weakest(w)
    /\ UNCHANGED networks

\* The list is full: the weakest network goes if the new one is stronger.
Replace(r, w) ==
    /\ ~Listed(r) /\ Len(networks) = MaxResults
    /\ Weakest(w)
    /\ networks' = IF r.rssi > networks[w].rssi
                   THEN [networks EXCEPT ![w] = r] ELSE networks

Hear ==
    /\ NextReading
    /\ \E r \in Readings :
        /\ heard' = heard \cup {r}
        /\ \/ \E i \in Places : Merge(r, i) \/ Replace(r, i)
           \/ Add(r)

-----------------------------------------------------------------------------
(* The selection sort and the answer.                                      *)

StartSort ==
    /\ phase = "scan" /\ index = found
    /\ phase' = "sort"
    /\ UNCHANGED <<found, index, networks, first, heard>>

\* The first of the strongest networks from place f on.
Strongest(f, s) ==
    /\ \A i \in f..Len(networks) : networks[s].rssi >= networks[i].rssi
    /\ \A i \in f..(s-1) : networks[s].rssi > networks[i].rssi

\* Mutant: the neighbour is compared, as in a single pass of a bubble sort.
Select_Neighbour ==
    /\ phase = "sort" /\ first < Len(networks)
    /\ \E s \in {first + 1, first + 2} \cap Places :
        /\ \A i \in {first + 1, first + 2} \cap Places :
               networks[s].rssi >= networks[i].rssi
        /\ networks' = [networks EXCEPT ![first + 1] = networks[s],
                                        ![s] = networks[first + 1]]
    /\ first' = first + 1
    /\ UNCHANGED <<phase, found, index, heard>>

Select ==
    /\ phase = "sort" /\ first < Len(networks)
    /\ \E s \in (first + 1)..Len(networks) :
        /\ Strongest(first + 1, s)
        /\ networks' = [networks EXCEPT ![first + 1] = networks[s],
                                        ![s] = networks[first + 1]]
    /\ first' = first + 1
    /\ UNCHANGED <<phase, found, index, heard>>

\* The list is sent and shown.
Answer ==
    /\ phase = "sort" /\ first = Len(networks)
    /\ phase' = "idle"
    /\ UNCHANGED <<found, index, networks, first, heard>>

-----------------------------------------------------------------------------
Init ==
    /\ phase = "idle" /\ found = 0 /\ index = 0
    /\ networks = <<>> /\ first = 0 /\ heard = {}

Next == Scan \/ Skip \/ Hear \/ StartSort \/ Select \/ Answer

Spec == Init /\ [][Next]_vars

-----------------------------------------------------------------------------
(* Properties.                                                             *)

\* No network is listed twice, and each is listed as it was heard best.
BestReadings ==
    \A i \in Places :
        /\ networks[i] \in heard
        /\ \A r \in heard :
               r.ssid = networks[i].ssid => r.rssi <= networks[i].rssi
        /\ \A j \in Places : networks[j].ssid = networks[i].ssid => i = j

\* A network is left out only for a full list of networks that are as strong,
\* in whatever order the readings come, also when it was listed and pushed out
\* before.
StrongestKept ==
    \A r \in heard : ~Listed(r) =>
        /\ Len(networks) = MaxResults
        /\ \A i \in Places : networks[i].rssi >= r.rssi

\* What the pages show has the strongest network first.
StrongestFirst ==
    phase = "idle" => \A i, j \in Places :
                          i <= j => networks[i].rssi >= networks[j].rssi
=============================================================================
