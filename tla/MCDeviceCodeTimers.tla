-------------------------- MODULE MCDeviceCodeTimers --------------------------
(* Three turns of a short word: a code can be issued anywhere before, at and *)
(* after a wrap, and outlive one.                                            *)
EXTENDS DeviceCodeTimers
=============================================================================
