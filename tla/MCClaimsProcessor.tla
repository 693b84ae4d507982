-------------------------- MODULE MCClaimsProcessor --------------------------
(***************************************************************************)
(* The three contracts on small instances.  The settings of the windows    *)
(* and the installment plans are records, which a configuration file       *)
(* cannot write down.                                                      *)
(***************************************************************************)
EXTENDS ClaimsProcessor, TLC

OneSetting == {[deadline |-> 1, dispute |-> 1, escalation |-> 1]}

TwoSettings == OneSetting \cup {[deadline |-> 0, dispute |-> 2, escalation |-> 2]}

NoPlans == {}

OnePlan == {[each |-> 2, count |-> 2, interval |-> 1]}

\* The customers are interchangeable: no definition singles one out.
UserSymmetry == Permutations(Users)

=============================================================================
