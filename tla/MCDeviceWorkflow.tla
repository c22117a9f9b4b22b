--------------------------- MODULE MCDeviceWorkflow ---------------------------
(* Instances of DeviceWorkflow for TLC. *)
EXTENDS DeviceWorkflow, TLC

CONSTANTS s1, s2, u1, d1

MCOwner == d1 :> u1

\* Sessions are used up in order.  A session is never unused again and the
\* specification treats all of them alike, so this only renames them.
SessionsInOrder == phase[s2] # "NONE" => phase[s1] # "NONE"
===============================================================================
