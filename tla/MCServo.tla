------------------------------- MODULE MCServo -------------------------------
(***************************************************************************)
(* Instances of the servo core for TLC: values that a configuration file   *)
(* cannot write down.                                                      *)
(***************************************************************************)
EXTENDS ServoSafety

(* A trajectory asks for twice the brake's limit, for the slowest speed    *)
(* that is still above it, or for three times the limit, from where a ramp *)
(* in steps of 2 ends in a step that is not whole.                         *)
OneWay == {2}
Far    == {3}
Slowly == {1}

NoTorque == {0}
=============================================================================
