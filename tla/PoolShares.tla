----------------------------- MODULE PoolShares -----------------------------
(***************************************************************************)
(* The liquidity of the risk pool: shares and what they are worth, the     *)
(* premiums that accrue to them, the exit queue with its sweep, emergency  *)
(* withdrawals, liquidations, reinsurance and the admin's transfers, beside *)
(* the capital locks of PoolLocks.                                         *)
(*                                                                         *)
(* Abstracted: AccumulatedPremium, AccumulatedBackstop, yield_claimed and  *)
(* timestamps, which only queries read; an LP's NFT, which exists once its *)
(* address has a slot.  A matured admin withdrawal is one action here; its *)
(* request and timelock are in PoolAdministration.                         *)
(***************************************************************************)
EXTENDS PoolLocks, Sequences, SequencesExt

CONSTANTS
    Providers,        \* addresses that may provide liquidity
    DepositAmounts,   \* amounts an LP may deposit: multiples of MIN_DEPOSIT
    ShareAmounts,     \* numbers of shares an LP may withdraw, queue or transfer
    Premiums,         \* amounts handed to receive_premium
    Draws,            \* amounts the admin may send or withdraw
    Recoveries,       \* amounts a reinsurer may report or pay
    Terms,            \* reinsurance terms the admin may set
    Splits,           \* premium splits the admin may set
    InitialSplit,     \* DEFAULT_PREMIUM_*_BPS
    DepositCaps,      \* max_total_deposited values the admin may set
    InitialCap,       \* MAX_TOTAL_DEPOSITED
    ExitDelays,       \* delays the admin may set, up to MAX_EXIT_DELAY
    SharePrecision,   \* 1_000_000_000: shares per stroop of the first deposit
    AccPrecision,     \* 1_000_000_000_000: scale of AccumulatedPerShare
    BurnShares,       \* 1_000: never held by anybody
    MinShares,        \* MIN_SHARES
    MaxScan,          \* MAX_AUTO_EXIT_SCAN
    MaxTime,          \* bound: the last ledger timestamp
    MaxActs           \* bound: transactions

SplitRecords == {s \in [lp: 0..FullBps, treasury: 0..FullBps, backstop: 0..FullBps] :
                   s.lp + s.treasury + s.backstop = FullBps}

ASSUME SharesAssumption ==
    /\ IsFiniteSet(Providers)
    /\ DepositAmounts \subseteq Nat \ {0}
    /\ ShareAmounts \subseteq Nat \ {0}
    /\ Premiums \subseteq Nat \ {0}
    /\ Draws \subseteq Nat \ {0}
    /\ Recoveries \subseteq Nat
    /\ Terms \subseteq [active: BOOLEAN, attachment: Nat, limit: Nat]
    /\ Splits \cup {InitialSplit} \subseteq SplitRecords
    /\ DepositCaps \cup {InitialCap} \subseteq Nat \ {0}
    /\ ExitDelays \subseteq Nat
    /\ SharePrecision \in Nat \ {0} /\ AccPrecision \in Nat \ {0}
    /\ BurnShares \in Nat \ {0} /\ MinShares \in Nat \ {0} /\ MaxScan \in Nat \ {0}
    /\ MaxTime \in Nat /\ MaxActs \in Nat

VARIABLES
    totalShares,  \* TotalShares
    position,     \* LpPosition(provider)
    exit,         \* ExitReq(provider)
    queued,       \* QueuedExitShares
    balance,      \* the pool's USDC
    slack,        \* not in the code: how far the books may exceed the balance
    seized,       \* not in the code: what liquidations took off totalDeposited
    perShare,     \* AccumulatedPerShare
    slots,        \* LpAddress(0 ..)
    cursor,       \* ExitCursor
    maxDeposited, \* Capacity.max_total_deposited
    exitDelay,    \* ExitDelay
    split,        \* PremiumSplit
    terms,        \* Reinsurance
    recovered,    \* ReinsuranceRecovered
    clock,        \* env.ledger().timestamp()
    acts          \* how many of the MaxActs were used

bookVars == <<totalShares, position, exit, queued, balance, slack, seized>>
queueVars == <<slots, cursor>>
settingVars == <<maxDeposited, exitDelay, split, terms>>
shareVars == <<bookVars, perShare, queueVars, settingVars, recovered, clock, acts>>
vars == <<lockVars, shareVars>>

NoPosition == [open |-> FALSE, shares |-> 0, deposited |-> 0, debt |-> 0]
NoExit == [shares |-> 0, due |-> 0]
NoTerms == [active |-> FALSE, attachment |-> 0, limit |-> 0]

Init ==
    /\ LockInit
    /\ totalShares = 0
    /\ position = [l \in Providers |-> NoPosition]
    /\ exit = [l \in Providers |-> NoExit]
    /\ queued = 0
    /\ balance = totalDeposited
    /\ slack = 0
    /\ seized = 0
    /\ perShare = 0
    /\ slots = <<>>
    /\ cursor = 0
    /\ maxDeposited = InitialCap
    /\ exitDelay = 0
    /\ split = InitialSplit
    /\ terms = NoTerms
    /\ recovered = 0
    /\ clock = 0
    /\ acts = 0

-----------------------------------------------------------------------------
(* The books: what one settlement changes, as a record, because a sweep     *)
(* makes several settlements in one transaction.                            *)

Books == [deposited |-> totalDeposited, shares |-> totalShares, position |-> position,
          exit |-> exit, queued |-> queued, balance |-> balance, slack |-> slack,
          seized |-> seized]

\* A transfer that the balance does not cover reverts the transaction.
Become(b) ==
    /\ b.balance >= 0
    /\ totalDeposited' = b.deposited
    /\ totalShares' = b.shares
    /\ position' = b.position
    /\ exit' = b.exit
    /\ queued' = b.queued
    /\ balance' = b.balance
    /\ slack' = b.slack
    /\ seized' = b.seized

Lower(a, b) == IF a <= b THEN a ELSE b
NotNegative(a) == IF a >= 0 THEN a ELSE 0

\* Division of i128: towards zero.
Quotient(a, b) == IF a >= 0 THEN a \div b ELSE -((-a) \div b)

Available(b) == b.deposited - totalLocked
Worth(b, shares) == (shares * b.deposited) \div b.shares

Accrued(shares) == (perShare * shares) \div AccPrecision

\* settle_yield; negative for a position that was liquidated.
Owed(b, l) == Accrued(b.position[l].shares) - b.position[l].debt

\* A bug: the debt stays, and new shares earn what accrued before them.
RepositionKeepsDebt(b, l, shares, deposited) ==
    [b EXCEPT !.position[l] = [open |-> TRUE, shares |-> shares, deposited |-> deposited,
                               debt |-> b.position[l].debt],
              !.slack = @ + 1]

\* The debt is rounded down, in the LP's favour.
Reposition(b, l, shares, deposited) ==
    [b EXCEPT !.position[l] = [open |-> TRUE, shares |-> shares, deposited |-> deposited,
                               debt |-> Accrued(shares)],
              !.slack = @ + 1]

Paid(b, amount) == [b EXCEPT !.balance = @ - amount]

Withdrawable(b, l, shares) ==
    /\ b.position[l].open
    /\ shares <= b.position[l].shares
    /\ Worth(b, shares) \in 1 .. Available(b)

\* The shares are burned at their worth; what is owed in yield is not part of it.
Redeemed(b, l, shares) ==
    LET moved == Reposition(b, l, b.position[l].shares - shares,
                            b.position[l].deposited - Worth(b, shares))
    IN  [moved EXCEPT !.deposited = @ - Worth(b, shares),
                      !.shares = @ - shares]

\* withdraw_inner
Withdrawn(b, l, shares) ==
    Paid(Redeemed(b, l, shares), Worth(b, shares) + NotNegative(Owed(b, l)))

\* clear_exit_reservation
Unreserved(b, l) ==
    [b EXCEPT !.exit[l] = NoExit, !.queued = NotNegative(@ - b.exit[l].shares)]

\* One slot of sweep_expired_exits, past the LP whose call started it.  Nothing
\* tests the balance here.
SlotSettled(b, l, skip) ==
    LET shares == Lower(b.exit[l].shares, b.position[l].shares)
        due == l \notin skip /\ b.exit[l] # NoExit /\ clock >= b.exit[l].due
    IN
    CASE due /\ shares = 0 -> Unreserved(b, l)
      [] due /\ shares > 0 /\ Withdrawable(b, l, shares) ->
           Withdrawn(Unreserved(b, l), l, shares)
      [] OTHER -> b

SweepIdle == slots = <<>> \/ poolStatus = "Paused"

\* How many slots a sweep looks at, and the provider in the k-th of them, counted
\* from the rotating cursor.
ScanLength(max) == Lower(max, Len(slots))
Scanned(k) == slots[((cursor + k - 1) % Len(slots)) + 1]

\* The books after the first k of these slots, for k up to the last.
Swept(skip, max) ==
    LET after[k \in 0 .. ScanLength(max)] ==
          IF k = 0 THEN Books ELSE SlotSettled(after[k - 1], Scanned(k), skip)
    IN  IF SweepIdle THEN Books ELSE after[ScanLength(max)]

MoveCursor(max) ==
    cursor' = IF SweepIdle THEN cursor ELSE (cursor + ScanLength(max)) % Len(slots)

\* Not in the code: counts the transactions the bound MaxActs is on.
Act == acts < MaxActs /\ acts' = acts + 1

\* A transaction that changes no lock, setting or premium.
LedgerStep ==
    /\ Act
    /\ UNCHANGED <<lock, totalLocked, maxUtilization, poolStatus, perShare, settingVars,
                   recovered, clock>>

-----------------------------------------------------------------------------
(* Liquidity providers. *)

\* A new LP gets a slot and an NFT; an LP that was removed still has both, and
\* minting a second NFT reverts.
Enlist(b, l) ==
    IF b.position[l].open THEN UNCHANGED slots
    ELSE /\ \A k \in DOMAIN slots : slots[k] # l
         /\ slots' = Append(slots, l)

\* A bug: shares are rounded up.
MintedRoundedUp(b, amount) ==
    IF b.shares = 0 THEN amount * SharePrecision - BurnShares
    ELSE (amount * b.shares + b.deposited - 1) \div b.deposited

\* The first depositor gives up BurnShares; later ones get what the worth of a
\* share says.
Minted(b, amount) ==
    IF b.shares = 0 THEN amount * SharePrecision - BurnShares
    ELSE (amount * b.shares) \div b.deposited

BelowUtilization(b) ==
    (IF b.deposited > 0 THEN (totalLocked * FullBps) \div b.deposited ELSE 0) < maxUtilization

Deposited(b, l, amount, minted) ==
    LET burned == IF b.shares = 0 THEN BurnShares ELSE 0
        moved == Reposition(b, l, b.position[l].shares + minted,
                            b.position[l].deposited + amount)
    IN  [moved EXCEPT !.deposited = @ + amount,
                      !.shares = @ + minted + burned,
                      !.balance = @ + amount]

\* deposit and deposit_with_token.  With compounding the settled yield is neither
\* paid nor turned into shares.
Deposit(l, amount, compound) ==
    LET b == Swept({l}, MaxScan)
        after == Deposited(b, l, amount, Minted(b, amount))
    IN
    /\ poolStatus = "Active"
    /\ b.deposited + amount <= maxDeposited
    /\ BelowUtilization(b)
    /\ b.shares > 0 => b.deposited > 0
    /\ Minted(b, amount) >= MinShares
    /\ b.balance >= 0
    /\ Become(Paid(after, IF compound THEN 0 ELSE NotNegative(Owed(b, l))))
    /\ Enlist(b, l)
    /\ MoveCursor(MaxScan)
    /\ LedgerStep

\* withdraw: whether or not the same shares wait in the exit queue.
Withdraw(l, shares) ==
    LET b == Swept({l}, MaxScan) IN
    /\ poolStatus # "Paused"
    /\ Withdrawable(b, l, shares)
    /\ Become(Withdrawn(b, l, shares))
    /\ MoveCursor(MaxScan)
    /\ LedgerStep
    /\ UNCHANGED slots

\* emergency_withdraw, with the admin: in any status.  A negative yield is taken
\* off the payment.
EmergencyWithdraw(l, shares) ==
    LET payment == Worth(Books, shares) + Owed(Books, l) IN
    /\ Withdrawable(Books, l, shares)
    /\ payment >= 0
    /\ Become(Paid(Redeemed(Books, l, shares), payment))
    /\ LedgerStep
    /\ UNCHANGED queueVars

\* transfer_position and transfer_shares: both sides' yields are paid out.
TransferPosition(from, to, shares) ==
    LET sender == position[from]
        amount == Quotient(shares * sender.deposited, sender.shares)
        left == Reposition(Books, from, sender.shares - shares, sender.deposited - amount)
        moved == Reposition(left, to, position[to].shares + shares,
                            position[to].deposited + amount)
    IN
    /\ from # to
    /\ poolStatus = "Active"
    /\ sender.open /\ shares <= sender.shares
    /\ amount # 0
    /\ Become(Paid(moved, NotNegative(Owed(Books, from)) + NotNegative(Owed(Books, to))))
    /\ Enlist(Books, to)
    /\ LedgerStep
    /\ UNCHANGED cursor

ClaimYield(l) ==
    /\ position[l].open
    /\ Owed(Books, l) > 0
    /\ Become([Paid(Books, Owed(Books, l)) EXCEPT
                 !.position[l].debt = Accrued(position[l].shares)])
    /\ LedgerStep
    /\ UNCHANGED queueVars

-----------------------------------------------------------------------------
(* The exit queue. *)

\* A second request adds to the first and keeps its time.
RequestExit(l, shares) ==
    LET b == Swept({l}, MaxScan)
        total == b.exit[l].shares + shares
        due == IF b.exit[l] = NoExit THEN clock + exitDelay ELSE b.exit[l].due
    IN
    /\ poolStatus # "Paused"
    /\ b.position[l].open
    /\ total <= b.position[l].shares
    /\ Become([b EXCEPT !.exit[l] = [shares |-> total, due |-> due],
                        !.queued = @ + shares])
    /\ MoveCursor(MaxScan)
    /\ LedgerStep
    /\ UNCHANGED slots

ClaimExit(l) ==
    LET b == Unreserved(Books, l) IN
    /\ exit[l] # NoExit
    /\ clock >= exit[l].due
    /\ poolStatus # "Paused"
    /\ Withdrawable(b, l, exit[l].shares)
    /\ Become(Withdrawn(b, l, exit[l].shares))
    /\ LedgerStep
    /\ UNCHANGED queueVars

\* A bug: the reservation is dropped from the queue and not from the total.
CancelExitKeepsQueued(l) ==
    /\ exit[l] # NoExit
    /\ Become([Books EXCEPT !.exit[l] = NoExit])
    /\ LedgerStep
    /\ UNCHANGED queueVars

CancelExit(l) ==
    /\ exit[l] # NoExit
    /\ Become(Unreserved(Books, l))
    /\ LedgerStep
    /\ UNCHANGED queueVars

\* process_expired_exits, by anybody.
ProcessExpiredExits(max) ==
    /\ ~SweepIdle
    /\ Become(Swept({}, max))
    /\ MoveCursor(max)
    /\ LedgerStep
    /\ UNCHANGED slots

-----------------------------------------------------------------------------
(* Premiums, liquidation, reinsurance and the admin. *)

\* A transaction that moves money and no share.
MoneyStep(deposited, money, excess) ==
    /\ money >= 0
    /\ totalDeposited' = deposited
    /\ balance' = money
    /\ slack' = slack + excess
    /\ UNCHANGED <<totalShares, position, exit, queued, seized, queueVars,
                   lock, totalLocked, maxUtilization, poolStatus, settingVars, clock>>
    /\ Act

\* receive_premium, from any caller.  The LPs' part accrues to all shares, those
\* nobody holds included.
ReceivePremium(amount) ==
    LET part(bps) == (amount * bps) \div FullBps
        gain == (part(split.lp) * AccPrecision) \div totalShares
    IN
    /\ perShare' = perShare + (IF totalShares > 0 THEN gain ELSE 0)
    /\ MoneyStep(totalDeposited,
                 balance + amount - part(split.treasury) - part(split.backstop), 0)
    /\ UNCHANGED recovered

\* send_premium_to_treasury, send_premium_to_backstop: any amount the balance covers,
\* at once, off no book and whatever is locked.
SendPremium(amount) ==
    /\ MoneyStep(totalDeposited, balance - amount, amount)
    /\ UNCHANGED <<perShare, recovered>>

\* send_premium_to_reinsurer: the same, once a reinsurer is named.
SendPremiumToReinsurer(amount) ==
    /\ terms # NoTerms
    /\ MoneyStep(totalDeposited, balance - amount, amount)
    /\ UNCHANGED <<perShare, recovered>>

\* A bug: what is locked is not held back.
AdminWithdrawalUnchecked(amount) ==
    /\ amount <= totalDeposited
    /\ MoneyStep(totalDeposited - amount, balance - amount, 0)
    /\ UNCHANGED <<perShare, recovered>>

\* execute_admin_withdrawal of a request that matured.
AdminWithdrawal(amount) ==
    /\ amount <= Available(Books)
    /\ MoneyStep(totalDeposited - amount, balance - amount, 0)
    /\ UNCHANGED <<perShare, recovered>>

\* request_reinsurance_recovery: the reinsurer's report is clamped and believed;
\* what it pays is its own affair.
RecoverReinsurance(loss, report, paid) ==
    LET asked == Lower(loss - terms.attachment, NotNegative(terms.limit - recovered))
        credited == Lower(report, asked)
    IN
    /\ terms.active
    /\ asked > 0
    /\ recovered' = recovered + credited
    /\ MoneyStep(totalDeposited + credited, balance + paid, NotNegative(credited - paid))
    /\ UNCHANGED perShare

\* get_collateralization_ratio; a negative one wraps to a huge u32.
Ratio(l) ==
    LET shares == position[l].shares IN
    Quotient(Quotient(shares * Available(Books), totalShares) * FullBps,
             (shares * totalLocked) \div totalShares)

\* liquidate_position: the shares are seized and their worth leaves the total; the
\* debt, the reservation and the NFT stay as they were.
LiquidatePosition(l) ==
    LET pos == position[l]
        taken == (pos.shares * (FullBps - Ratio(l))) \div FullBps
        worth == Worth(Books, taken)
    IN
    /\ pos.shares > 0
    /\ pos.shares * totalLocked >= totalShares
    /\ Ratio(l) \in 0 .. FullBps - 1
    /\ taken > 0
    /\ Become([Books EXCEPT
                 !.position[l] = IF taken = pos.shares THEN NoPosition
                                 ELSE [pos EXCEPT !.shares = @ - taken,
                                                  !.deposited = @ - worth],
                 !.shares = @ - taken,
                 !.deposited = @ - worth,
                 !.seized = @ + worth])
    /\ LedgerStep
    /\ UNCHANGED queueVars

\* A setting of the admin, or the lock ledger: no money and no share moves.
QuietStep == Act /\ UNCHANGED <<bookVars, perShare, queueVars, recovered, clock>>

SetLimits(cap, bps) ==
    /\ maxDeposited' = cap
    /\ maxUtilization' = bps
    /\ QuietStep
    /\ UNCHANGED <<lock, totalLocked, totalDeposited, poolStatus, exitDelay, split, terms>>

SetExitDelay(delay) ==
    /\ exitDelay' = delay
    /\ QuietStep
    /\ UNCHANGED <<lockVars, maxDeposited, split, terms>>

\* update_premium_split, or execute_parameter_change after its timelock.
SetSplit(new) ==
    /\ split' = new
    /\ QuietStep
    /\ UNCHANGED <<lockVars, maxDeposited, exitDelay, terms>>

\* What was recovered under other terms still counts against the new limit.
SetReinsurance(new) ==
    /\ terms' = new
    /\ QuietStep
    /\ UNCHANGED <<lockVars, maxDeposited, exitDelay, split>>

SetReinsuranceActive(active) ==
    /\ terms # NoTerms
    /\ terms' = [terms EXCEPT !.active = active]
    /\ QuietStep
    /\ UNCHANGED <<lockVars, maxDeposited, exitDelay, split>>

LockStep ==
    /\ \/ \E i \in LockIds, amount \in LockAmounts : LockForPolicy(i, amount)
       \/ \E i \in LockIds : Release(i)
       \/ \E s \in {"Active", "Paused", "WindingDown"} : SetPoolStatus(s)
    /\ QuietStep
    /\ UNCHANGED settingVars

Tick ==
    /\ clock < MaxTime
    /\ clock' = clock + 1
    /\ UNCHANGED <<lockVars, bookVars, perShare, queueVars, settingVars, recovered, acts>>

ProviderStep(l) ==
    \/ \E amount \in DepositAmounts, compound \in BOOLEAN : Deposit(l, amount, compound)
    \/ \E shares \in ShareAmounts :
         \/ Withdraw(l, shares) \/ EmergencyWithdraw(l, shares) \/ RequestExit(l, shares)
         \/ \E to \in Providers : TransferPosition(l, to, shares)
    \/ ClaimYield(l) \/ ClaimExit(l) \/ CancelExit(l) \/ LiquidatePosition(l)

Next ==
    \/ \E l \in Providers : ProviderStep(l)
    \/ \E max \in 1 .. MaxScan : ProcessExpiredExits(max)
    \/ \E amount \in Premiums : ReceivePremium(amount)
    \/ \E amount \in Draws :
         SendPremium(amount) \/ SendPremiumToReinsurer(amount) \/ AdminWithdrawal(amount)
    \/ \E loss \in LockAmounts, report, paid \in Recoveries :
         RecoverReinsurance(loss, report, paid)
    \/ \E cap \in DepositCaps, bps \in UtilizationCaps : SetLimits(cap, bps)
    \/ \E delay \in ExitDelays : SetExitDelay(delay)
    \/ \E new \in Splits : SetSplit(new)
    \/ \E new \in Terms : SetReinsurance(new)
    \/ \E active \in BOOLEAN : SetReinsuranceActive(active)
    \/ LockStep
    \/ Tick

Spec == Init /\ [][Next]_vars

-----------------------------------------------------------------------------
(* Properties. *)

\* Deposits, withdrawals, transfers, exits and liquidations rewrite a position and
\* two totals: the shares of all LPs and those nobody holds are all the shares
\* there are, and the reserved total is what the requests say.
SharesExact ==
    /\ totalShares = SumFunctionOnSet([l \in Providers |-> position[l].shares], Providers)
                       + (IF totalShares > 0 THEN BurnShares ELSE 0)
    /\ queued = SumFunctionOnSet([l \in Providers |-> exit[l].shares], Providers)

\* Behind every lock there is capital: on the books the deposits, or what liquidations
\* wrote off them, and in the balance the USDC itself.  No exit, sweep, liquidation or
\* withdrawal of the admin takes it, but the off-book payments that slack counts do:
\* send_premium_* asks nothing of the locks.
LocksCovered ==
    /\ totalLocked <= totalDeposited + seized
    /\ totalLocked <= balance + slack

\* What a position is owed in yield, in units of 1 / AccPrecision.
Entitled(pos) == NotNegative(perShare * pos.shares - AccPrecision * pos.debt)

\* The USDC covers the deposits, what was seized and all yield accrued, up to the slack:
\* what send_premium_* sent away off the books, what a reinsurer reported and did not
\* pay, and one unit per rounding of a debt.
Solvent ==
    AccPrecision * (balance + slack) >=
        AccPrecision * (totalDeposited + seized)
          + SumFunctionOnSet([l \in Providers |-> Entitled(position[l])], Providers)

\* No deposit, withdrawal, exit, transfer or liquidation of one LP lowers what a share
\* of another is worth, and the release for a paid claim does not either, whatever the
\* head of the crate says of it; only the admin's withdrawal does.
PriceKept ==
    [][totalShares > 0 =>
         \/ totalDeposited' * totalShares >= totalDeposited * totalShares'
         \/ \E amount \in Draws : AdminWithdrawal(amount)]_vars
=============================================================================
