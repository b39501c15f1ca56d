--------------------------- MODULE StoredCertificate ---------------------------
(***************************************************************************)
(* What the certificate store promises, with no files, pairs or steps of    *)
(* stage: storing a bundle is all or nothing unless writing it fails or is  *)
(* cut short, "stored" is said of a bundle that is stored, the bundle that  *)
(* is compiled in is stored only at a boot that read none, and a server     *)
(* serves what was read.  A read may give nothing, or something torn, of    *)
(* what is stored.                                                          *)
(***************************************************************************)
CONSTANTS
    Bundles,    \* certificate and key that fit each other
    Offers,     \* whatever an administrator uploads: some are not in Bundles
    BuiltIn,    \* the bundle compiled in, or None
    None,       \* no bundle can be read
    Torn        \* what is read is not one bundle

VARIABLES
    stored,     \* what the flash holds: a bundle, None or Torn
    loaded,     \* what was read of it last
    faulty,     \* a write went wrong and was not made good since
    pending,    \* the bundle being stored, or None
    told,       \* the last answer: "none", "stored" or "rejected"
    served      \* what the running server was started with, or None

vars == <<stored, loaded, faulty, pending, told, served>>

Init ==
    /\ stored \in Bundles \cup {None} /\ loaded = None /\ faulty = FALSE
    /\ pending = None /\ told = "none" /\ served = None

Readings == IF stored = None THEN {None} ELSE {stored, None, Torn}

\* A boot reads what is stored; only when it reads nothing does it go on to
\* store the bundle compiled in.
Load ==
    /\ pending = None /\ served = None
    /\ loaded' \in Readings
    /\ pending' = IF loaded' = None THEN BuiltIn ELSE None
    /\ UNCHANGED <<stored, faulty, told, served>>

Ask(b) ==
    /\ pending = None /\ served # None
    /\ pending' = b /\ told' = "none"
    /\ UNCHANGED <<stored, loaded, faulty, served>>

Store ==
    /\ pending \in Bundles
    /\ stored' = pending /\ faulty' = FALSE
    /\ UNCHANGED <<loaded, pending, told, served>>

\* Stored and read back; an administrator is answered, a boot answers nobody.
Confirm ==
    /\ pending \in Bundles /\ stored = pending /\ ~faulty
    /\ loaded' \in Readings
    /\ pending' = None
    /\ told' \in {told, IF loaded' = None THEN "rejected" ELSE "stored"}
    /\ UNCHANGED <<stored, faulty, served>>

\* Not stored: what was stored still is, or is again.
Refuse ==
    /\ pending # None
    /\ pending' = None /\ told' \in {told, "rejected"}
    /\ faulty' \in IF stored \in Bundles THEN {faulty, FALSE} ELSE {faulty}
    /\ UNCHANGED <<stored, loaded, served>>

\* The one way to lose a bundle; it leaves no other bundle in its place.
Damage ==
    /\ pending # None
    /\ faulty' = TRUE
    /\ stored' \in {None, Torn} \cup {IF stored \in Bundles THEN stored ELSE pending}

Fault ==
    /\ Damage
    /\ pending' \in {pending, None} /\ told' \in {told, "rejected"}
    /\ UNCHANGED <<loaded, served>>

\* A file system that cannot be mounted at a boot is formatted.
Format ==
    /\ served = None /\ pending = None
    /\ stored' = None
    /\ UNCHANGED <<loaded, faulty, pending, told, served>>

\* Nothing looks whether what was read is one bundle.
Serve ==
    /\ served = None /\ pending = None /\ loaded # None
    /\ served' = loaded
    /\ UNCHANGED <<stored, loaded, faulty, pending, told>>

\* At any moment.
Restart ==
    /\ Damage \/ UNCHANGED <<stored, faulty>>
    /\ loaded' = None /\ pending' = None /\ told' = "none" /\ served' = None

Next ==
    \/ Load \/ Store \/ Confirm \/ Refuse \/ Fault \/ Format \/ Serve \/ Restart
    \/ \E b \in Offers : Ask(b)

Spec == Init /\ [][Next]_vars
=============================================================================
