---------------------------- MODULE MCAuditLog ----------------------------
(* Small instances of AuditLog for TLC.                                    *)
EXTENDS AuditLog, TLC

CONSTANTS r1, r2, r3

ThreeRequests == {r1, r2, r3}
AllSinks == <<"console", "postgres", "splunk">>
=============================================================================
