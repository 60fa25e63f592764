----------------------------- MODULE MCAuditLog -----------------------------
(* Instances of AuditLog for TLC. *)
EXTENDS AuditLog

\* A clock that can step back.
TwoReadings == {1, 2}
=============================================================================
