-------------------------- MODULE MCStatusApiClient --------------------------
(* A finite instance of StatusApiClient for TLC. *)
EXTENDS StatusApiClient

(* The codes at both ends of every class the client tells apart. *)
MCCodes == {199, 200, 299, 300, 399, 400, 499, 500, 599, 600}
=============================================================================
