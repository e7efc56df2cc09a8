-------------------------- MODULE MCNodeStateSync --------------------------
(* One cluster, its sessions, and a machine bound to it. *)
EXTENDS NodeStateSync

\* A machine bound over a reconnect, one bound twice, or capacity that changes.
BoundOnce == [ binds |-> 1, changes |-> 0, sessions |-> 2, faults |-> 1, demand |-> FALSE ]
BoundTwice == [ binds |-> 2, changes |-> 0, sessions |-> 1, faults |-> 0, demand |-> FALSE ]
Changing == [ binds |-> 0, changes |-> 3, sessions |-> 3, faults |-> 1, demand |-> TRUE ]

Cases == { BoundOnce, BoundTwice, Changing }

=============================================================================
