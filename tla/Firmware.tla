------------------------------- MODULE Firmware -------------------------------
(***************************************************************************)
(* What firmware updates promise, with no tasks, pieces or slots: the image *)
(* the device boots next is the one it runs, one an administrator uploaded  *)
(* or the release being installed, which is newer than the one it runs.     *)
(***************************************************************************)
CONSTANTS
    Releases,   \* the releases a manifest may name
    Upload,     \* an uploaded image: not an element of Releases
    NoRelease,  \* no release: not an element of Releases
    Upgrades    \* the pairs of an image and a release newer than it

VARIABLES
    runs,       \* the image the device runs
    next,       \* the image the next boot runs
    accepted    \* the release being installed, or NoRelease

vars == <<runs, next, accepted>>

Init == runs = Upload /\ next = Upload /\ accepted = NoRelease

\* One install at a time, of a release newer than what runs.
Accept(v) ==
    /\ accepted = NoRelease
    /\ <<runs, v>> \in Upgrades
    /\ accepted' = v
    /\ UNCHANGED <<runs, next>>

\* Only the release that was accepted, while it is being installed, or an upload.
Select(img) ==
    /\ img \in {Upload, accepted} \ {NoRelease}
    /\ next' = img
    /\ UNCHANGED <<runs, accepted>>

\* An image that was selected is being overwritten: the device stays with its own.
Discard ==
    /\ next' = runs
    /\ UNCHANGED <<runs, accepted>>

\* With or without success.
Report ==
    /\ accepted # NoRelease
    /\ accepted' = NoRelease
    /\ UNCHANGED <<runs, next>>

\* At any moment: power may fail.
Boot ==
    /\ runs' = next
    /\ accepted' = NoRelease
    /\ UNCHANGED next

Next ==
    \/ Discard \/ Report \/ Boot
    \/ \E v \in Releases : Accept(v)
    \/ \E img \in Releases \cup {Upload} : Select(img)

Spec == Init /\ [][Next]_vars
=============================================================================
