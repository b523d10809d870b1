---------------------------- MODULE HostDirectory ----------------------------
(***************************************************************************)
(* What the registry promises to the users of the tunnel server: a         *)
(* directory that maps every public host name to at most one client.  A    *)
(* client takes all the names of a session in one step, only names nobody  *)
(* holds, and only while it holds none; it gives all of them back in one   *)
(* step.  A name therefore never passes from one client to another without *)
(* having been free, and no name of a finished session is left behind.     *)
(***************************************************************************)

CONSTANTS Clients, HostNames, NoClient

VARIABLE owner    \* owner[h]: the client that serves host name h

HeldBy(c) == { h \in HostNames : owner[h] = c }

DInit == owner = [h \in HostNames |-> NoClient]

Claim(c, H) ==
    /\ HeldBy(c) = {}
    /\ \A h \in H : owner[h] = NoClient
    /\ owner' = [h \in HostNames |-> IF h \in H THEN c ELSE owner[h]]

Release(c) ==
    owner' = [h \in HostNames |-> IF owner[h] = c THEN NoClient ELSE owner[h]]

DNext == \E c \in Clients : \/ \E H \in SUBSET HostNames : Claim(c, H)
                            \/ Release(c)

DSpec == DInit /\ [][DNext]_owner

==============================================================================
