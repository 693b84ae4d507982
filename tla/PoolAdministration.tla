------------------------- MODULE PoolAdministration -------------------------
(***************************************************************************)
(* Who decides about the risk pool: its admin, the guardians who approve   *)
(* upgrades, handovers and removals from their own list, and the timelocks *)
(* of handovers, withdrawals and parameter changes.                        *)
(*                                                                         *)
(* A deadline is kept as the time left to it, so the ledger's time needs   *)
(* no bound.  Abstracted: the wasm of an upgrade (a guardian approves the  *)
(* pending one); what a withdrawal moves is AdminWithdrawal of PoolShares. *)
(***************************************************************************)
EXTENDS Integers, FiniteSets

CONSTANTS
    Accounts,           \* addresses
    Owner,              \* the admin at the start
    None,               \* no address
    Candidates,         \* addresses that may be proposed as admin
    Lists,              \* guardian lists the admin may set: sets of [seat, guardian]
    Thresholds,         \* approval thresholds the admin may set
    MinGuardians,       \* MIN_GUARDIANS
    Versions,           \* versions an upgrade may bring
    Amounts,            \* amounts the admin may ask for
    Liquidities,        \* what the pool may have unlocked
    Splits,             \* premium splits the admin may choose
    FirstSplit,         \* the split at the start
    TransferTimelock,   \* ADMIN_TRANSFER_TIMELOCK
    WithdrawalTimelock, \* TIMELOCK_SECONDS
    ParameterTimelock,  \* PARAMETER_TIMELOCK_SECONDS
    MaxApprovals        \* bound: approvals counted for a withdrawal

ASSUME AdministrationAssumption ==
    /\ Owner \in Accounts /\ None \notin Accounts
    /\ Candidates \subseteq Accounts
    /\ \A list \in Lists : IsFiniteSet(list) /\ list \subseteq [seat: Nat, guardian: Accounts]
    /\ Thresholds \subseteq Nat
    /\ MinGuardians \in Nat \ {0}
    /\ Versions \subseteq Nat \ {0}
    /\ Amounts \subseteq Nat \ {0} /\ Liquidities \subseteq Nat
    /\ FirstSplit \in Splits
    /\ TransferTimelock \in Nat /\ WithdrawalTimelock \in Nat /\ ParameterTimelock \in Nat
    /\ MaxApprovals \in Nat

VARIABLES
    admin,      \* Admin
    nominee,    \* PendingAdmin
    wait,       \* time left to PendingAdminSince + ADMIN_TRANSFER_TIMELOCK
    change,     \* PendingAdminChange
    guardians,  \* Guardians, as a set of [seat, guardian]: an address may sit twice
    threshold,  \* GuardianThreshold
    removal,    \* PendingGuardianRemoval
    pending,    \* PendingUpgrade
    version,    \* Version
    request,    \* AdminWithdrawalRequest
    approvals,  \* AdminWithdrawalApprovals
    parameters, \* PendingParameterChange
    split       \* PremiumSplit

transferVars == <<admin, nominee, wait, change>>
guardianVars == <<guardians, threshold, removal>>
upgradeVars == <<pending, version>>
withdrawalVars == <<request, approvals>>
parameterVars == <<parameters, split>>
vars == <<transferVars, guardianVars, upgradeVars, withdrawalVars, parameterVars>>

NoChange == [new |-> None, approvals |-> {}]
NoRemoval == [guardian |-> None, approvals |-> {}]
NoUpgrade == [version |-> 0, approvals |-> {}]
NoRequest == [amount |-> 0, left |-> 0, executed |-> FALSE]
NoParameters == [state |-> "none", split |-> FirstSplit, left |-> 0]

Members(list) == {e.guardian : e \in list}

Init ==
    /\ admin = Owner
    /\ nominee = None
    /\ wait = 0
    /\ change = NoChange
    /\ guardians = {}
    /\ threshold = 0
    /\ removal = NoRemoval
    /\ pending = NoUpgrade
    /\ version = 1
    /\ request = NoRequest
    /\ approvals = 0
    /\ parameters = NoParameters
    /\ split = FirstSplit

-----------------------------------------------------------------------------
(* The guardians. *)

Configure(list, t) ==
    /\ guardians' = list
    /\ threshold' = t
    /\ UNCHANGED <<removal, transferVars, upgradeVars, withdrawalVars, parameterVars>>

\* A bug: the list may be any.
SetAnyGuardians(list, t) == t <= Cardinality(list) /\ Configure(list, t)

\* A guardian who sits on the list leaves it by a removal only.
SetGuardians(list, t) ==
    /\ t <= Cardinality(list)
    /\ Members(guardians) \subseteq Members(list)
    /\ Configure(list, t)

ProposeRemoveGuardian(g) ==
    /\ threshold > 0
    /\ g \in Members(guardians)
    /\ Cardinality(guardians) > MinGuardians
    /\ removal = NoRemoval
    /\ removal' = [guardian |-> g, approvals |-> {}]
    /\ UNCHANGED <<guardians, threshold, transferVars, upgradeVars, withdrawalVars, parameterVars>>

\* A threshold above the length of the list is lowered to it.
Capped(t, list) == IF t > Cardinality(list) THEN Cardinality(list) ELSE t

\* With enough approvals the guardian leaves all of its seats.
CountRemoval(g) ==
    LET approved == removal.approvals \cup {g}
        rest == {e \in guardians : e.guardian # removal.guardian}
    IN  /\ removal # NoRemoval
        /\ g \in Members(guardians)
        /\ g \notin removal.approvals
        /\ \/ /\ Cardinality(approved) >= threshold
              /\ Cardinality(rest) >= MinGuardians
              /\ removal' = NoRemoval
              /\ guardians' = rest
              /\ threshold' = Capped(threshold, rest)
           \/ /\ Cardinality(approved) < threshold
              /\ removal' = [removal EXCEPT !.approvals = approved]
              /\ UNCHANGED <<guardians, threshold>>
        /\ UNCHANGED <<transferVars, upgradeVars, withdrawalVars, parameterVars>>

\* A bug: the guardian who is to leave may approve it.
ApproveAnyRemoval(g) == CountRemoval(g)

ApproveRemoveGuardian(g) == g # removal.guardian /\ CountRemoval(g)

CancelPendingGuardianRemoval ==
    /\ removal # NoRemoval
    /\ removal' = NoRemoval
    /\ UNCHANGED <<guardians, threshold, transferVars, upgradeVars, withdrawalVars, parameterVars>>

-----------------------------------------------------------------------------
(* Upgrades. *)

\* Without a threshold at once, whatever upgrade is still pending.
Upgrade(v) ==
    /\ v > version
    /\ IF threshold = 0 THEN version' = v /\ UNCHANGED pending
       ELSE pending' = [version |-> v, approvals |-> {}] /\ UNCHANGED version
    /\ UNCHANGED <<transferVars, guardianVars, withdrawalVars, parameterVars>>

\* Approvals stay when their guardian leaves, and the version is not compared again.
ApproveUpgrade(g) ==
    LET approved == pending.approvals \cup {g}
    IN  /\ pending # NoUpgrade
        /\ g \in Members(guardians) \ pending.approvals
        /\ IF Cardinality(approved) >= threshold
           THEN version' = pending.version /\ pending' = NoUpgrade
           ELSE pending' = [pending EXCEPT !.approvals = approved] /\ UNCHANGED version
        /\ UNCHANGED <<transferVars, guardianVars, withdrawalVars, parameterVars>>

CancelPendingUpgrade ==
    /\ pending # NoUpgrade
    /\ pending' = NoUpgrade
    /\ UNCHANGED <<version, transferVars, guardianVars, withdrawalVars, parameterVars>>

-----------------------------------------------------------------------------
(* The handover. *)

\* With a threshold a proposal replaces the one before, approvals included.
Propose(a) ==
    /\ IF threshold = 0 THEN nominee' = a /\ wait' = TransferTimelock /\ UNCHANGED change
       ELSE change' = [new |-> a, approvals |-> {}] /\ UNCHANGED <<nominee, wait>>
    /\ UNCHANGED <<admin, guardianVars, upgradeVars, withdrawalVars, parameterVars>>

\* A bug: a proposal may be made again while it waits.
ProposeAgain(a) == Propose(a)

ProposeNewAdmin(a) == nominee = None /\ Propose(a)

\* A change that was proposed under a threshold may be approved after another
\* nominee was armed without one: it takes the place and what is left of the wait.
ApproveAdminChange(g) ==
    LET approved == change.approvals \cup {g}
    IN  /\ change # NoChange
        /\ g \in Members(guardians) \ change.approvals
        /\ IF Cardinality(approved) >= threshold
           THEN /\ change' = NoChange
                /\ nominee' = change.new
                /\ wait' = IF nominee = None THEN TransferTimelock ELSE wait
           ELSE change' = [change EXCEPT !.approvals = approved] /\ UNCHANGED <<nominee, wait>>
        /\ UNCHANGED <<admin, guardianVars, upgradeVars, withdrawalVars, parameterVars>>

\* By the nominee; nobody can cancel what is armed.
AcceptAdmin ==
    /\ nominee # None
    /\ wait = 0
    /\ admin' = nominee
    /\ nominee' = None
    /\ UNCHANGED <<wait, change, guardianVars, upgradeVars, withdrawalVars, parameterVars>>

-----------------------------------------------------------------------------
(* Withdrawals. *)

RequestAdminWithdrawal(amount, available) ==
    /\ amount <= available
    /\ request = NoRequest
    /\ guardians # {} => threshold > 0
    /\ request' = [amount |-> amount, left |-> WithdrawalTimelock, executed |-> FALSE]
    /\ approvals' = 0
    /\ UNCHANGED <<transferVars, guardianVars, upgradeVars, parameterVars>>

\* Counted even without a request, and any number of times.
ApproveAdminWithdrawal(g) ==
    /\ g \in Members(guardians)
    /\ approvals < MaxApprovals
    /\ approvals' = approvals + 1
    /\ UNCHANGED <<request, transferVars, guardianVars, upgradeVars, parameterVars>>

\* An executed request stays until it is cancelled.
ExecuteAdminWithdrawal(available) ==
    /\ request # NoRequest /\ ~request.executed
    /\ threshold > 0 => approvals >= threshold
    /\ request.left = 0
    /\ request.amount <= available
    /\ request' = [request EXCEPT !.executed = TRUE]
    /\ UNCHANGED <<approvals, transferVars, guardianVars, upgradeVars, parameterVars>>

CancelAdminWithdrawal ==
    /\ request # NoRequest
    /\ request' = NoRequest
    /\ UNCHANGED <<approvals, transferVars, guardianVars, upgradeVars, parameterVars>>

-----------------------------------------------------------------------------
(* Parameters. *)

ProposeParameterChange(s) ==
    /\ parameters = NoParameters
    /\ parameters' = [state |-> "filed", split |-> s, left |-> ParameterTimelock]
    /\ UNCHANGED <<split, transferVars, guardianVars, upgradeVars, withdrawalVars>>

ExecuteParameterChange ==
    /\ parameters.state = "filed"
    /\ parameters.left = 0
    /\ parameters' = [parameters EXCEPT !.state = "executed"]
    /\ split' = parameters.split
    /\ UNCHANGED <<transferVars, guardianVars, upgradeVars, withdrawalVars>>

CancelParameterChange ==
    /\ parameters # NoParameters
    /\ parameters' = NoParameters
    /\ UNCHANGED <<split, transferVars, guardianVars, upgradeVars, withdrawalVars>>

\* The same change at once.
UpdatePremiumSplit(s) ==
    /\ split' = s
    /\ UNCHANGED <<parameters, transferVars, guardianVars, upgradeVars, withdrawalVars>>

-----------------------------------------------------------------------------
Sooner(left) == IF left > 0 THEN left - 1 ELSE 0

Tick ==
    /\ wait' = Sooner(wait)
    /\ request' = [request EXCEPT !.left = Sooner(@)]
    /\ parameters' = [parameters EXCEPT !.left = Sooner(@)]
    /\ UNCHANGED <<admin, nominee, change, guardianVars, upgradeVars, approvals, split>>

Committee ==
    \/ \E list \in Lists, t \in Thresholds : SetGuardians(list, t)
    \/ \E g \in Accounts : ProposeRemoveGuardian(g) \/ ApproveRemoveGuardian(g)
    \/ CancelPendingGuardianRemoval

Upgrading ==
    \/ \E v \in Versions : Upgrade(v)
    \/ \E g \in Accounts : ApproveUpgrade(g)
    \/ CancelPendingUpgrade

Handover ==
    \/ \E a \in Candidates : ProposeNewAdmin(a)
    \/ \E g \in Accounts : ApproveAdminChange(g)
    \/ AcceptAdmin

Withdrawing ==
    \/ \E available \in Liquidities :
          \/ \E amount \in Amounts : RequestAdminWithdrawal(amount, available)
          \/ ExecuteAdminWithdrawal(available)
    \/ \E g \in Accounts : ApproveAdminWithdrawal(g)
    \/ CancelAdminWithdrawal

Setting ==
    \/ \E s \in Splits : ProposeParameterChange(s) \/ UpdatePremiumSplit(s)
    \/ ExecuteParameterChange
    \/ CancelParameterChange

Next == Committee \/ Upgrading \/ Handover \/ Withdrawing \/ Setting \/ Tick

Spec == Init /\ [][Next]_vars

\* Time passes, and a nominee who may accept does.
FairSpec == Spec /\ WF_vars(Tick) /\ WF_vars(AcceptAdmin)

-----------------------------------------------------------------------------
\* The threshold can be met by the list whatever is set or removed; who approved a
\* removal that waits still sits on the list and is not to leave it; and every wait is
\* one that set_guardians, propose_new_admin or a request began.
CommitteeSound ==
    /\ threshold \in Nat /\ threshold <= Cardinality(guardians)
    /\ removal # NoRemoval =>
          /\ removal.guardian \in Members(guardians)
          /\ removal.approvals \subseteq Members(guardians) \ {removal.guardian}
    /\ admin \in Accounts
    /\ nominee \in Accounts \cup {None}
    /\ wait \in 0 .. TransferTimelock
    /\ nominee = None => wait = 0
    /\ request.left \in 0 .. WithdrawalTimelock
    /\ parameters.left \in 0 .. ParameterTimelock

\* "Admin alone cannot drop an existing guardian" (set_guardians, issue #774): whoever
\* leaves the list was proposed, the threshold was met by others who all still sit on
\* it, and enough of them stay - through every order of new lists, thresholds and
\* proposals.
GuardiansHold ==
    [][\A g \in Members(guardians) \ Members(guardians') :
          /\ removal.guardian = g
          /\ \E h \in Members(guardians) \ {g} :
                /\ removal.approvals \cup {h} \subseteq Members(guardians) \ {g}
                /\ Cardinality(removal.approvals \cup {h}) >= threshold
          /\ Cardinality(guardians') >= MinGuardians]_vars

\* An armed transfer ends with a new admin: neither a proposal nor an approval that
\* comes late can "keep a transfer perpetually un-acceptable" (issue #457).
TransferCompletes == nominee # None ~> nominee = None
=============================================================================
