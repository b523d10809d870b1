----------------------------- MODULE Identifiers -----------------------------
(* The identities that registry, pool and server share.  An id.ID is the     *)
(* SHA-256 of a client's certificate, so distinct clients are distinct IDs.  *)

CONSTANTS
    Clients,     \* client identifiers (id.ID)
    NoClient     \* stands for "no identifier found"

ASSUME ClientAssumption == NoClient \notin Clients

==============================================================================
