------------------------------- MODULE Registry -------------------------------
(***************************************************************************)
(* registry.go: which clients may connect, what each connected client has  *)
(* registered, and which client serves a public host name.                 *)
(*                                                                         *)
(* Every method runs under registry.mu, so each is one action.  A map      *)
(* entry that is missing is the item Absent; voidRegistryItem, the shared  *)
(* pointer that marks a subscribed client with nothing registered, is      *)
(* Void; any other *RegistryItem is an item of kind "item", which `set`    *)
(* and `clear` tell from Void by its identity and not by its contents.     *)
(* A host string is a name with or without a port (Ports has a member for  *)
(* "no port"); hosts is keyed by the name alone.                           *)
(***************************************************************************)
EXTENDS Identifiers

CONSTANTS
    HostNames,   \* host names without their port
    Ports,       \* what may follow a host name, "no port" included
    Listeners    \* net.Listener values an item can hold

VARIABLES
    items,       \* registry.items
    hosts        \* registry.hosts

registryVars == <<items, hosts>>

HostPorts == [host : HostNames, port : Ports]

Absent == [kind |-> "absent", hosts |-> {}, listeners |-> {}]
Void   == [kind |-> "void",   hosts |-> {}, listeners |-> {}]

NewItem(H, L) == [kind |-> "item", hosts |-> H, listeners |-> L]

Items == {Absent, Void}
           \cup [kind : {"item"}, hosts : SUBSET HostPorts, listeners : SUBSET Listeners]

trimPort(hp) == hp.host

Keys(H) == { trimPort(hp) : hp \in H }

-----------------------------------------------------------------------------
(* The methods of registry.                                                *)

IsSubscribed(c) == items[c] # Absent

\* The client that serves a host; NoClient where the code returns !ok.
Subscriber(hp) == hosts[trimPort(hp)]

Subscribe(c) ==
    /\ items' = [items EXCEPT ![c] = IF items[c] = Absent THEN Void ELSE items[c]]
    /\ UNCHANGED hosts

\* delete(r.hosts, trimPort(h)) for every host h of a set
DeleteHosts(H) ==
    hosts' = [h \in HostNames |-> IF h \in Keys(H) THEN NoClient ELSE hosts[h]]

RegistryUnsubscribe(c) ==
    /\ items' = [items EXCEPT ![c] = Absent]
    /\ DeleteHosts(items[c].hosts)

\* Faults: `set` without its test for occupied hosts, and without the one
\* against overwriting an item.
CanSetUnchecked(c, H) == items[c] = Void

CanSetOverwrite(c, H) ==
    /\ items[c] # Absent
    /\ \A hp \in H : hosts[trimPort(hp)] = NoClient

\* The three tests of `set`; it returns an error and changes nothing if one fails.
CanSet(c, H) ==
    /\ items[c] = Void
    /\ \A hp \in H : hosts[trimPort(hp)] = NoClient

set(c, H, L) ==
    /\ CanSet(c, H)
    /\ items' = [items EXCEPT ![c] = NewItem(H, L)]
    /\ hosts' = [h \in HostNames |-> IF h \in Keys(H) THEN c ELSE hosts[h]]

\* Faults: `clear` that empties the item in place, and one that forgets the hosts.
clearInPlace(c) ==
    /\ items' = [items EXCEPT ![c].kind = "void"]
    /\ DeleteHosts(items[c].hosts)

clearKeepsHosts(c) ==
    /\ items' = [items EXCEPT ![c] = IF items[c] = Absent THEN Absent ELSE Void]
    /\ UNCHANGED hosts

clear(c) ==
    IF items[c] \in {Absent, Void}
    THEN UNCHANGED registryVars
    ELSE /\ items' = [items EXCEPT ![c] = Void]
         /\ DeleteHosts(items[c].hosts)

-----------------------------------------------------------------------------
(* The registry on its own, its methods called in any order.               *)

RInit == /\ items = [c \in Clients |-> Absent]
         /\ hosts = [h \in HostNames |-> NoClient]

RNext == \E c \in Clients :
            \/ Subscribe(c)
            \/ RegistryUnsubscribe(c)
            \/ clear(c)
            \/ \E H \in SUBSET HostPorts, L \in SUBSET Listeners : set(c, H, L)

RSpec == RInit /\ [][RNext]_registryVars

-----------------------------------------------------------------------------
\* items and hosts are maps of the types registry.go declares.
RegistryTypeOK == /\ items \in [Clients -> Items]
                  /\ hosts \in [HostNames -> Clients \cup {NoClient}]

\* The two maps agree: a host name leads to a client exactly when that
\* client's registered item lists the name, with whatever port.  `clear` and
\* `Unsubscribe` delete host entries without looking at their owner, so this is
\* what keeps them from deleting another client's routes.
RegistryConsistent ==
    \A h \in HostNames, c \in Clients : hosts[h] = c <=> h \in Keys(items[c].hosts)

Directory == INSTANCE HostDirectory WITH owner <- hosts

\* The registry implements the directory of host names.
ImplementsDirectory == Directory!DSpec

==============================================================================
