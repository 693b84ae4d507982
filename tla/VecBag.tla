------------------------------- MODULE VecBag -------------------------------
(***************************************************************************)
(* The contracts keep id lists as soroban Vec<u128> values that are only   *)
(* ever extended with push_back and shortened by removing the FIRST        *)
(* occurrence of an id: UserPolicies and ActiveProducts of the policy      *)
(* engine, PendingClaims of the claims processor.  Where the order of such *)
(* a list decides nothing, the list is modelled by how often each id       *)
(* occurs in it.  An id that was pushed twice therefore survives one       *)
(* removal, as it does in the code.                                        *)
(***************************************************************************)
EXTENDS Integers

\* The empty list over the ids in S.
EmptyVec(S) == [x \in S |-> 0]

\* Vec::push_back.
Push(vec, x) == [vec EXCEPT ![x] = @ + 1]

\* The scan for the first index and the removal at it; absent ids change nothing.
RemoveFirst(vec, x) == [vec EXCEPT ![x] = IF @ > 0 THEN @ - 1 ELSE 0]

=============================================================================
