---------------------- MODULE PoolAdministrationProofs ----------------------
(***************************************************************************)
(* What holds of the pool's administration for every set of accounts, of   *)
(* guardian lists and of timelocks: the committee is sound, and a guardian *)
(* leaves it only by the approvals of others.                              *)
(***************************************************************************)
EXTENDS PoolAdministration, FiniteSetTheorems, TLAPS

CommitteeInv ==
    /\ IsFiniteSet(guardians) /\ guardians \subseteq [seat: Nat, guardian: Accounts]
    /\ threshold \in Nat /\ threshold <= Cardinality(guardians)
    /\ removal = [guardian |-> removal.guardian, approvals |-> removal.approvals]
    /\ removal # NoRemoval =>
          /\ removal.guardian \in Members(guardians)
          /\ removal.approvals \subseteq Members(guardians) \ {removal.guardian}

\* A change that waits has an address to arm.
HandoverInv ==
    /\ admin \in Accounts
    /\ nominee \in Accounts \cup {None}
    /\ wait \in 0 .. TransferTimelock
    /\ nominee = None => wait = 0
    /\ change = [new |-> change.new, approvals |-> change.approvals]
    /\ change # NoChange => change.new \in Accounts

RequestOK ==
    /\ request = [amount |-> request.amount, left |-> request.left, executed |-> request.executed]
    /\ request.left \in 0 .. WithdrawalTimelock

ParametersOK ==
    /\ parameters = [state |-> parameters.state, split |-> parameters.split, left |-> parameters.left]
    /\ parameters.left \in 0 .. ParameterTimelock

TimelockInv == RequestOK /\ ParametersOK

IInv == CommitteeInv /\ HandoverInv /\ TimelockInv

-----------------------------------------------------------------------------
LEMMA InitOK == ASSUME AdministrationAssumption, Init PROVE IInv
<1>1. CommitteeInv
  <2>1. IsFiniteSet(guardians) /\ Cardinality(guardians) = 0
    BY FS_EmptySet DEF Init
  <2> QED BY <2>1 DEF Init, CommitteeInv, NoRemoval
<1>2. HandoverInv
  BY DEF AdministrationAssumption, Init, HandoverInv, NoChange
<1>3. TimelockInv
  BY DEF AdministrationAssumption, Init, TimelockInv, RequestOK, ParametersOK, NoRequest, NoParameters
<1> QED BY <1>1, <1>2, <1>3 DEF IInv

-----------------------------------------------------------------------------
(* The guardians. *)

\* A guardian leaves by the approvals of others, and enough stay.
LeaveApproved ==
    \A g \in Members(guardians) \ Members(guardians') :
        /\ removal.guardian = g
        /\ \E h \in Members(guardians) \ {g} :
              /\ removal.approvals \cup {h} \subseteq Members(guardians) \ {g}
              /\ Cardinality(removal.approvals \cup {h}) >= threshold
        /\ Cardinality(guardians') >= MinGuardians

LEMMA SetGuardiansKeeps ==
    ASSUME AdministrationAssumption, CommitteeInv, NEW list \in Lists, NEW t \in Thresholds,
           SetGuardians(list, t)
    PROVE  CommitteeInv' /\ LeaveApproved
<1>1. IsFiniteSet(list) /\ list \subseteq [seat: Nat, guardian: Accounts] /\ t \in Nat
  BY DEF AdministrationAssumption
<1>2. guardians' = list /\ threshold' = t /\ t <= Cardinality(list) /\ removal' = removal
  BY DEF SetGuardians, Configure
<1>3. Members(guardians) \subseteq Members(guardians')
  BY <1>2 DEF SetGuardians
<1>4. CommitteeInv'
  BY <1>1, <1>2, <1>3 DEF CommitteeInv, NoRemoval
<1>5. LeaveApproved
  BY <1>3 DEF LeaveApproved
<1> QED BY <1>4, <1>5

LEMMA ProposeRemovalKeeps ==
    ASSUME CommitteeInv, NEW g \in Accounts, ProposeRemoveGuardian(g)
    PROVE  CommitteeInv' /\ LeaveApproved
<1>1. removal' = [guardian |-> g, approvals |-> {}] /\ g \in Members(guardians)
  BY DEF ProposeRemoveGuardian
<1>2. UNCHANGED <<guardians, threshold>>
  BY DEF ProposeRemoveGuardian
<1>3. Members(guardians') = Members(guardians)
  BY <1>2 DEF Members
<1>4. CommitteeInv'
  BY <1>1, <1>2, <1>3 DEF CommitteeInv
<1>5. LeaveApproved
  BY <1>3 DEF LeaveApproved
<1> QED BY <1>4, <1>5

LEMMA ApproveRemovalKeeps ==
    ASSUME CommitteeInv, AdministrationAssumption, NEW g \in Accounts, ApproveRemoveGuardian(g)
    PROVE  CommitteeInv' /\ LeaveApproved
<1> DEFINE approved == removal.approvals \cup {g}
           rest == {e \in guardians : e.guardian # removal.guardian}
<1>1. /\ removal # NoRemoval /\ g \in Members(guardians) /\ g # removal.guardian
      /\ \/ /\ Cardinality(approved) >= threshold
            /\ Cardinality(rest) >= MinGuardians
            /\ removal' = NoRemoval
            /\ guardians' = rest
            /\ threshold' = Capped(threshold, rest)
         \/ /\ removal' = [removal EXCEPT !.approvals = approved]
            /\ UNCHANGED <<guardians, threshold>>
  BY DEF ApproveRemoveGuardian, CountRemoval
<1>2. /\ removal.guardian \in Members(guardians)
      /\ approved \subseteq Members(guardians) \ {removal.guardian}
  BY <1>1 DEF CommitteeInv
<1>3. IsFiniteSet(rest) /\ rest \subseteq [seat: Nat, guardian: Accounts] /\ Cardinality(rest) \in Nat
  <2>1. rest \subseteq guardians
    OBVIOUS
  <2>2. IsFiniteSet(guardians) /\ guardians \subseteq [seat: Nat, guardian: Accounts]
    BY DEF CommitteeInv
  <2>3. IsFiniteSet(rest)
    BY <2>1, <2>2, FS_Subset
  <2>4. Cardinality(rest) \in Nat
    BY <2>3, FS_CardinalityType
  <2> QED BY <2>1, <2>2, <2>3, <2>4
<1>4. CASE Cardinality(approved) >= threshold /\ Cardinality(rest) >= MinGuardians /\
           removal' = NoRemoval /\ guardians' = rest /\ threshold' = Capped(threshold, rest)
  <2>1. threshold' \in Nat /\ threshold' <= Cardinality(rest)
    <3>1. threshold \in Nat
      BY DEF CommitteeInv
    <3> HIDE DEF rest
    <3> QED BY <1>3, <1>4, <3>1 DEF Capped
  <2>2. CommitteeInv'
    <3> HIDE DEF rest
    <3> QED BY <1>3, <1>4, <2>1 DEF CommitteeInv, NoRemoval
  <2>3. ASSUME NEW h \in Members(guardians) \ Members(guardians')
        PROVE  h = removal.guardian
    <3>1. PICK e \in guardians : h = e.guardian
      BY DEF Members
    <3>2. e \notin rest
      BY <1>4, <3>1 DEF Members
    <3> QED BY <3>1, <3>2
  <2>4. LeaveApproved
    <3>1. g \in Members(guardians) \ {removal.guardian}
      BY <1>1
    <3>2. Cardinality(removal.approvals \cup {g}) >= threshold
      BY <1>4
    <3>3. Cardinality(guardians') >= MinGuardians
      BY <1>4
    <3> QED BY <1>2, <2>3, <3>1, <3>2, <3>3 DEF LeaveApproved
  <2> QED BY <2>2, <2>4
<1>5. CASE removal' = [removal EXCEPT !.approvals = approved] /\ UNCHANGED <<guardians, threshold>>
  <2>1. Members(guardians') = Members(guardians)
    BY <1>5 DEF Members
  <2>2. removal' = [guardian |-> removal.guardian, approvals |-> approved]
    BY <1>5 DEF CommitteeInv
  <2>3. CommitteeInv'
    <3> HIDE DEF approved
    <3> QED BY <1>2, <1>5, <2>1, <2>2 DEF CommitteeInv
  <2>4. LeaveApproved
    BY <2>1 DEF LeaveApproved
  <2> QED BY <2>3, <2>4
<1> QED BY <1>1, <1>4, <1>5

LEMMA CancelRemovalKeeps ==
    ASSUME CommitteeInv, CancelPendingGuardianRemoval
    PROVE  CommitteeInv' /\ LeaveApproved
BY DEF CancelPendingGuardianRemoval, CommitteeInv, NoRemoval, LeaveApproved, Members

LEMMA GuardiansUntouched ==
    ASSUME CommitteeInv, UNCHANGED guardianVars
    PROVE  CommitteeInv' /\ LeaveApproved
BY DEF CommitteeInv, guardianVars, Members, NoRemoval, LeaveApproved

LEMMA CommitteeStep ==
    ASSUME AdministrationAssumption, CommitteeInv, [Next]_vars
    PROVE  CommitteeInv' /\ LeaveApproved
<1>1. CASE Committee
  <2>1. ASSUME NEW list \in Lists, NEW t \in Thresholds, SetGuardians(list, t)
        PROVE  CommitteeInv' /\ LeaveApproved
    BY <2>1, SetGuardiansKeeps
  <2>2. ASSUME NEW g \in Accounts, ProposeRemoveGuardian(g)
        PROVE  CommitteeInv' /\ LeaveApproved
    BY <2>2, ProposeRemovalKeeps
  <2>3. ASSUME NEW g \in Accounts, ApproveRemoveGuardian(g)
        PROVE  CommitteeInv' /\ LeaveApproved
    BY <2>3, ApproveRemovalKeeps
  <2>4. CASE CancelPendingGuardianRemoval
    BY <2>4, CancelRemovalKeeps
  <2> QED BY <1>1, <2>1, <2>2, <2>3, <2>4 DEF Committee
<1>2. CASE Upgrading \/ Handover \/ Withdrawing \/ Setting \/ Tick \/ UNCHANGED vars
  <2>1. UNCHANGED guardianVars
    <3>1. CASE Upgrading
      BY <3>1 DEF Upgrading, Upgrade, ApproveUpgrade, CancelPendingUpgrade
    <3>2. CASE Handover
      BY <3>2 DEF Handover, ProposeNewAdmin, Propose, ApproveAdminChange, AcceptAdmin
    <3>3. CASE Withdrawing
      BY <3>3 DEF Withdrawing, RequestAdminWithdrawal, ApproveAdminWithdrawal,
                  ExecuteAdminWithdrawal, CancelAdminWithdrawal
    <3>4. CASE Setting
      BY <3>4 DEF Setting, ProposeParameterChange, ExecuteParameterChange,
                  CancelParameterChange, UpdatePremiumSplit
    <3>5. CASE Tick \/ UNCHANGED vars
      BY <3>5 DEF Tick, vars
    <3> QED BY <1>2, <3>1, <3>2, <3>3, <3>4, <3>5
  <2> QED BY <2>1, GuardiansUntouched
<1> QED BY <1>1, <1>2 DEF Next

-----------------------------------------------------------------------------
(* The handover. *)

LEMMA HandoverUntouched ==
    ASSUME HandoverInv, UNCHANGED transferVars
    PROVE  HandoverInv'
BY DEF HandoverInv, transferVars, NoChange

LEMMA ProposeKeeps ==
    ASSUME AdministrationAssumption, HandoverInv, NEW a \in Candidates, ProposeNewAdmin(a)
    PROVE  HandoverInv'
<1>1. a \in Accounts /\ TransferTimelock \in Nat /\ None \notin Accounts
  BY DEF AdministrationAssumption
<1>2. admin' = admin
  BY DEF ProposeNewAdmin, Propose
<1>3. CASE nominee' = a /\ wait' = TransferTimelock /\ UNCHANGED change
  BY <1>1, <1>2, <1>3 DEF HandoverInv, NoChange
<1>4. CASE change' = [new |-> a, approvals |-> {}] /\ UNCHANGED <<nominee, wait>>
  BY <1>1, <1>2, <1>4 DEF HandoverInv, NoChange
<1> QED BY <1>3, <1>4 DEF ProposeNewAdmin, Propose

LEMMA ApproveChangeKeeps ==
    ASSUME AdministrationAssumption, HandoverInv, NEW g \in Accounts, ApproveAdminChange(g)
    PROVE  HandoverInv'
<1> DEFINE approved == change.approvals \cup {g}
<1>1. TransferTimelock \in Nat /\ None \notin Accounts
  BY DEF AdministrationAssumption
<1>2. change.new \in Accounts /\ admin' = admin
  BY DEF ApproveAdminChange, HandoverInv
<1>3. CASE /\ change' = NoChange /\ nominee' = change.new
           /\ wait' = IF nominee = None THEN TransferTimelock ELSE wait
  <2>1. wait' \in 0 .. TransferTimelock
    BY <1>1, <1>3 DEF HandoverInv
  <2> QED BY <1>1, <1>2, <1>3, <2>1 DEF HandoverInv, NoChange
<1>4. CASE change' = [change EXCEPT !.approvals = approved] /\ UNCHANGED <<nominee, wait>>
  <2>1. change' = [new |-> change.new, approvals |-> approved]
    BY <1>4 DEF HandoverInv
  <2> QED BY <1>2, <1>4, <2>1 DEF HandoverInv
<1> QED BY <1>3, <1>4 DEF ApproveAdminChange

LEMMA AcceptKeeps ==
    ASSUME HandoverInv, AcceptAdmin
    PROVE  HandoverInv'
BY DEF HandoverInv, AcceptAdmin, NoChange

LEMMA TickHandover ==
    ASSUME AdministrationAssumption, HandoverInv, Tick
    PROVE  HandoverInv'
<1>1. wait' \in 0 .. TransferTimelock /\ (wait = 0 => wait' = 0)
  BY DEF AdministrationAssumption, HandoverInv, Tick, Sooner
<1>2. UNCHANGED <<admin, nominee, change>>
  BY DEF Tick
<1> QED BY <1>1, <1>2 DEF HandoverInv, NoChange

LEMMA HandoverStep ==
    ASSUME AdministrationAssumption, HandoverInv, [Next]_vars
    PROVE  HandoverInv'
<1>1. CASE Handover
  BY <1>1, ProposeKeeps, ApproveChangeKeeps, AcceptKeeps DEF Handover
<1>2. CASE Tick
  BY <1>2, TickHandover
<1>3. CASE Committee \/ Upgrading \/ Withdrawing \/ Setting \/ UNCHANGED vars
  <2>1. UNCHANGED transferVars
    <3>1. CASE Committee
      BY <3>1 DEF Committee, SetGuardians, Configure, ProposeRemoveGuardian,
                  ApproveRemoveGuardian, CountRemoval, CancelPendingGuardianRemoval
    <3>2. CASE Upgrading
      BY <3>2 DEF Upgrading, Upgrade, ApproveUpgrade, CancelPendingUpgrade
    <3>3. CASE Withdrawing
      BY <3>3 DEF Withdrawing, RequestAdminWithdrawal, ApproveAdminWithdrawal,
                  ExecuteAdminWithdrawal, CancelAdminWithdrawal
    <3>4. CASE Setting
      BY <3>4 DEF Setting, ProposeParameterChange, ExecuteParameterChange,
                  CancelParameterChange, UpdatePremiumSplit
    <3>5. CASE UNCHANGED vars
      BY <3>5 DEF vars
    <3> QED BY <1>3, <3>1, <3>2, <3>3, <3>4, <3>5
  <2> QED BY <2>1, HandoverUntouched
<1> QED BY <1>1, <1>2, <1>3 DEF Next

-----------------------------------------------------------------------------
(* The other timelocks. *)

LEMMA TimelocksUntouched ==
    ASSUME TimelockInv, UNCHANGED <<request, parameters>>
    PROVE  TimelockInv'
BY DEF TimelockInv, RequestOK, ParametersOK

LEMMA WithdrawingKeeps ==
    ASSUME AdministrationAssumption, TimelockInv, Withdrawing
    PROVE  TimelockInv'
<1>1. parameters' = parameters
  BY DEF Withdrawing, RequestAdminWithdrawal, ApproveAdminWithdrawal,
         ExecuteAdminWithdrawal, CancelAdminWithdrawal, parameterVars
<1>2. WithdrawalTimelock \in Nat
  BY DEF AdministrationAssumption
<1>3. \/ \E amount \in Amounts :
            request' = [amount |-> amount, left |-> WithdrawalTimelock, executed |-> FALSE]
      \/ request' = [request EXCEPT !.executed = TRUE]
      \/ request' = NoRequest
      \/ request' = request
  BY DEF Withdrawing, RequestAdminWithdrawal, ApproveAdminWithdrawal,
         ExecuteAdminWithdrawal, CancelAdminWithdrawal
<1>4. RequestOK'
  <2>1. ASSUME NEW amount \in Amounts,
               request' = [amount |-> amount, left |-> WithdrawalTimelock, executed |-> FALSE]
        PROVE  RequestOK'
    BY <1>2, <2>1 DEF RequestOK
  <2>2. CASE request' = [request EXCEPT !.executed = TRUE]
    <3>1. request' = [amount |-> request.amount, left |-> request.left, executed |-> TRUE]
      BY <2>2 DEF TimelockInv, RequestOK, ParametersOK
    <3> QED BY <3>1 DEF TimelockInv, RequestOK, ParametersOK
  <2>3. CASE request' = NoRequest
    BY <1>2, <2>3 DEF RequestOK, NoRequest
  <2>4. CASE request' = request
    BY <2>4 DEF TimelockInv, RequestOK, ParametersOK
  <2> QED BY <1>3, <2>1, <2>2, <2>3, <2>4
<1> QED BY <1>1, <1>4 DEF TimelockInv, RequestOK, ParametersOK

LEMMA SettingKeeps ==
    ASSUME AdministrationAssumption, TimelockInv, Setting
    PROVE  TimelockInv'
<1>1. request' = request
  BY DEF Setting, ProposeParameterChange, ExecuteParameterChange, CancelParameterChange,
         UpdatePremiumSplit, withdrawalVars
<1>2. ParameterTimelock \in Nat
  BY DEF AdministrationAssumption
<1>3. \/ \E s \in Splits :
            parameters' = [state |-> "filed", split |-> s, left |-> ParameterTimelock]
      \/ parameters' = [parameters EXCEPT !.state = "executed"]
      \/ parameters' = NoParameters
      \/ parameters' = parameters
  BY DEF Setting, ProposeParameterChange, ExecuteParameterChange, CancelParameterChange,
         UpdatePremiumSplit
<1>4. ParametersOK'
  <2>1. ASSUME NEW s \in Splits,
               parameters' = [state |-> "filed", split |-> s, left |-> ParameterTimelock]
        PROVE  ParametersOK'
    BY <1>2, <2>1 DEF ParametersOK
  <2>2. CASE parameters' = [parameters EXCEPT !.state = "executed"]
    <3>1. parameters' = [state |-> "executed", split |-> parameters.split, left |-> parameters.left]
      BY <2>2 DEF TimelockInv, RequestOK, ParametersOK
    <3> QED BY <3>1 DEF TimelockInv, RequestOK, ParametersOK
  <2>3. CASE parameters' = NoParameters
    BY <1>2, <2>3 DEF ParametersOK, NoParameters
  <2>4. CASE parameters' = parameters
    BY <2>4 DEF TimelockInv, RequestOK, ParametersOK
  <2> QED BY <1>3, <2>1, <2>2, <2>3, <2>4
<1> QED BY <1>1, <1>4 DEF TimelockInv, RequestOK, ParametersOK

LEMMA TickTimelocks ==
    ASSUME AdministrationAssumption, TimelockInv, Tick
    PROVE  TimelockInv'
<1>1. WithdrawalTimelock \in Nat /\ ParameterTimelock \in Nat
  BY DEF AdministrationAssumption
<1>2. /\ Sooner(request.left) \in 0 .. WithdrawalTimelock
      /\ Sooner(parameters.left) \in 0 .. ParameterTimelock
  BY <1>1 DEF TimelockInv, RequestOK, ParametersOK, Sooner
<1>3. request' = [amount |-> request.amount, left |-> Sooner(request.left),
                  executed |-> request.executed]
  BY DEF Tick, TimelockInv, RequestOK, ParametersOK
<1>4. parameters' = [state |-> parameters.state, split |-> parameters.split,
                     left |-> Sooner(parameters.left)]
  BY DEF Tick, TimelockInv, RequestOK, ParametersOK
<1> QED BY <1>2, <1>3, <1>4 DEF TimelockInv, RequestOK, ParametersOK

LEMMA TimelockStep ==
    ASSUME AdministrationAssumption, TimelockInv, [Next]_vars
    PROVE  TimelockInv'
<1>1. CASE Withdrawing
  BY <1>1, WithdrawingKeeps
<1>2. CASE Setting
  BY <1>2, SettingKeeps
<1>3. CASE Tick
  BY <1>3, TickTimelocks
<1>4. CASE Committee \/ Upgrading \/ Handover \/ UNCHANGED vars
  <2>1. UNCHANGED <<request, parameters>>
    <3>1. CASE Committee
      BY <3>1 DEF Committee, SetGuardians, Configure, ProposeRemoveGuardian, ApproveRemoveGuardian,
                  CountRemoval, CancelPendingGuardianRemoval, withdrawalVars, parameterVars
    <3>2. CASE Upgrading
      BY <3>2 DEF Upgrading, Upgrade, ApproveUpgrade, CancelPendingUpgrade,
                  withdrawalVars, parameterVars
    <3>3. CASE Handover
      BY <3>3 DEF Handover, ProposeNewAdmin, Propose, ApproveAdminChange, AcceptAdmin,
                  withdrawalVars, parameterVars
    <3>4. CASE UNCHANGED vars
      BY <3>4 DEF vars, withdrawalVars, parameterVars
    <3> QED BY <1>4, <3>1, <3>2, <3>3, <3>4
  <2> QED BY <2>1, TimelocksUntouched
<1> QED BY <1>1, <1>2, <1>3, <1>4 DEF Next

-----------------------------------------------------------------------------
LEMMA StepOK ==
    ASSUME AdministrationAssumption, IInv, [Next]_vars
    PROVE  IInv' /\ LeaveApproved
BY CommitteeStep, HandoverStep, TimelockStep DEF IInv

\* set_guardians, propose_remove_guardian, approve_remove_guardian, propose_new_admin,
\* approve_admin_change: the threshold can always be met by the list, a removal that waits
\* is approved by others on the list only, and no wait is longer than its timelock.
THEOREM CommitteeIsSound == ASSUME AdministrationAssumption PROVE Spec => []CommitteeSound
<1>1. Init => IInv
  BY InitOK
<1>2. IInv /\ [Next]_vars => IInv'
  BY StepOK
<1>3. IInv => CommitteeSound
  BY DEF IInv, CommitteeInv, HandoverInv, TimelockInv, RequestOK, ParametersOK, CommitteeSound
<1> QED BY <1>1, <1>2, <1>3, PTL DEF Spec

\* set_guardians and approve_remove_guardian: nobody leaves the list unless the threshold
\* was met by others who sit on it, and MIN_GUARDIANS seats stay.
THEOREM GuardiansAreHeld == ASSUME AdministrationAssumption PROVE Spec => GuardiansHold
<1>1. Init => IInv
  BY InitOK
<1>2. IInv /\ [Next]_vars => IInv' /\ LeaveApproved
  BY StepOK
<1>3. LeaveApproved => [\A g \in Members(guardians) \ Members(guardians') :
          /\ removal.guardian = g
          /\ \E h \in Members(guardians) \ {g} :
                /\ removal.approvals \cup {h} \subseteq Members(guardians) \ {g}
                /\ Cardinality(removal.approvals \cup {h}) >= threshold
          /\ Cardinality(guardians') >= MinGuardians]_vars
  BY DEF LeaveApproved
<1> QED BY <1>1, <1>2, <1>3, PTL DEF Spec, GuardiansHold
=============================================================================
