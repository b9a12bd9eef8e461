---------------------------- MODULE MCExporterAuth ----------------------------
(* Instances of ExporterAuth for TLC. *)
EXTENDS ExporterAuth

CONSTANTS k1, k2

File(v, k) == [valid |-> v, secret |-> k, endpoint |-> None]

\* A good configuration, one with another secret, and one that cannot be used.
MCConfigFiles == {File(TRUE, k1), File(TRUE, k2), File(FALSE, k1)}
=============================================================================
