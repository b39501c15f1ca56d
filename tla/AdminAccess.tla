----------------------------- MODULE AdminAccess -----------------------------
(***************************************************************************)
(* What administrator sign-in promises, with no tasks, calls or states of  *)
(* the flow: a session is granted only to a user who holds the role and    *)
(* approved a device code, an approval grants one session at most, and a   *)
(* session ends once and for all.                                          *)
(***************************************************************************)
CONSTANTS
    Codes,      \* device codes, each approved by at most one user
    NoCode      \* no device code: not an element of Codes


VARIABLES
    admitted,   \* the codes approved by a user with the administrator role
    granted,    \* the codes that have granted a session
    session     \* the code whose session is open, or NoCode

vars == <<admitted, granted, session>>

Init == admitted = {} /\ granted = {} /\ session = NoCode

Admit(c) ==
    /\ c \notin admitted
    /\ admitted' = admitted \cup {c}
    /\ UNCHANGED <<granted, session>>

\* A session replaces the one that is open: the device keeps one.
Grant(c) ==
    /\ c \in admitted \ granted
    /\ granted' = granted \cup {c}
    /\ session' = c
    /\ UNCHANGED admitted

\* Sign-out, expiry or restart.
End ==
    /\ session # NoCode
    /\ session' = NoCode
    /\ UNCHANGED <<admitted, granted>>

Next == End \/ \E c \in Codes : Admit(c) \/ Grant(c)

Spec == Init /\ [][Next]_vars
=============================================================================
