-------------------------- MODULE MCEndpointRates --------------------------
(* A small instance of EndpointRates whose scans may be cut off. *)
EXTENDS EndpointRates

CONSTANTS t1
OneTarget == <<t1>>
OwnKey(t) == t

=============================================================================
