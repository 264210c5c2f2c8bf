--------------------------- MODULE MCHostedEndpoint ---------------------------
(* Messages for HostedEndpoint: good has an identity of its own, and bad   *)
(* is not authenticated.                                                   *)
EXTENDS HostedEndpoint

CONSTANTS good, bad, i1, i2

MCIdOf == [m \in Message |-> IF m = bad THEN i2 ELSE i1]
=============================================================================
