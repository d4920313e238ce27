----------------------------- MODULE PortLeases -----------------------------
(***************************************************************************)
(* What the registry of ports promises: a port is leased to at most one    *)
(* session, each session is given its leases in one go, once, and a leased *)
(* port becomes free only when its holder gives up all it holds.  A lease  *)
(* may be lost: its holder is gone and the port is never free again.       *)
(***************************************************************************)
EXTENDS Naturals

CONSTANTS Port, Holder, Free, Lost

VARIABLES
    lease,      \* the holder of each port, or Free, or Lost
    served      \* the sessions that have been given their leases

leaseVars == <<lease, served>>

LeaseInit == lease = [p \in Port |-> Free] /\ served = {}

Grant(h, ps) ==
    /\ h \notin served
    /\ \A p \in ps : lease[p] = Free
    /\ lease' = [p \in Port |-> IF p \in ps THEN h ELSE lease[p]]
    /\ served' = served \cup {h}

\* The holder's leases all end together, as free ports or as lost ones.
GiveUp(h, as) ==
    /\ h \in served
    /\ lease' = [p \in Port |-> IF lease[p] = h THEN as ELSE lease[p]]
    /\ UNCHANGED served

LeaseNext ==
    \E h \in Holder :
        \/ \E ps \in SUBSET Port : Grant(h, ps)
        \/ \E as \in {Free, Lost} : GiveUp(h, as)

LeaseSpec == LeaseInit /\ [][LeaseNext]_leaseVars
=============================================================================
