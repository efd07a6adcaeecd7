----------------------------- MODULE MCService -----------------------------
(***************************************************************************)
(* Instances of SDMCompService for TLC: which command is of which kind,    *)
(* and the symmetry of threads that play the same role.                    *)
(***************************************************************************)
EXTENDS SDMCompService, TLC

CONSTANTS k1, k2, k3, k4, k5, k6    \* packets

\* A kind for each packet, so that a set of packets is a choice of kinds.
Kind == (k1 :> "backlight") @@ (k2 :> "backlight") @@ (k3 :> "properties")
        @@ (k4 :> "extension") @@ (k5 :> "demura") @@ (k6 :> "config")
PacketKind == [c \in Cmd |-> Kind[c]]

Symmetry ==
    Permutations(Client) \cup Permutations(Listener) \cup Permutations(Drain)

=============================================================================
