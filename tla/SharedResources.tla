--------------------------- MODULE SharedResources ---------------------------
(***************************************************************************)
(* What the library promises of the things its clients share: each is made *)
(* for the first client that asks for it, is there as long as one client   *)
(* has it, and goes with the last.                                         *)
(***************************************************************************)
CONSTANTS Thing, User

VARIABLES
    present,    \* the things there are
    users       \* the users of each

resourceVars == <<present, users>>

Init == present = {} /\ users = [t \in Thing |-> {}]

Acquire(u, t) ==
    /\ u \notin users[t]
    /\ users' = [users EXCEPT ![t] = @ \cup {u}]
    /\ present' = present \cup {t}

Release(u, t) ==
    /\ u \in users[t]
    /\ users' = [users EXCEPT ![t] = @ \ {u}]
    /\ present' = IF users[t] = {u} THEN present \ {t} ELSE present

Next == \E u \in User, t \in Thing : Acquire(u, t) \/ Release(u, t)

Spec == Init /\ [][Next]_resourceVars
=============================================================================
