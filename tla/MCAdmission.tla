----------------------------- MODULE MCAdmission -----------------------------
(* Constants for model checking Admission.                                  *)
EXTENDS Admission
=============================================================================
