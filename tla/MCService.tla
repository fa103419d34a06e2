----------------------------- MODULE MCService ------------------------------
(* Two requests: enough for one to store over what the other has stored, and *)
(* for one to act while main shuts down.  Two keys are a rotation.           *)
EXTENDS Service

CONSTANTS q1, q2, k1, k2
=============================================================================
