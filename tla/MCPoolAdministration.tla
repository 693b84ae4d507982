------------------------ MODULE MCPoolAdministration ------------------------
(***************************************************************************)
(* The administration of the pool on a small instance.  A list of seats is *)
(* a set of records, which a configuration file cannot write.              *)
(***************************************************************************)
EXTENDS PoolAdministration

CONSTANTS
    First, Second  \* two of the accounts

Seat(n, g) == [seat |-> n, guardian |-> g]

\* Two guardians, and one guardian on two seats.
SomeLists == {{Seat(1, First), Seat(2, Second)}, {Seat(1, First), Seat(2, First)}}

SomeCandidates == {Owner, First}
=============================================================================
