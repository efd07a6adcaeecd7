------------------------------ MODULE MCDemura ------------------------------
(* Small instances of SDMCompDemura.                                       *)
EXTENDS SDMCompDemura

Says(k, v) == [key |-> k, value |-> v]

\* On by the first line about it, off by the first.
MCFiles ==
    {<<Says(NoKey, 0), Says(Demura, 1), Says(Demura, 0)>>,
     <<Says(Demura, 0), Says(Demura, 1)>>}
=============================================================================
