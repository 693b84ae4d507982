----------------------------- MODULE Governance -----------------------------
(***************************************************************************)
(* The governance DAO: proposals with their deposits, votes with the       *)
(* tokens they lock, the guard against open duplicates, and execution.     *)
(* Every entry point is one ledger transaction.                            *)
(*                                                                         *)
(* Abstracted: titles and analyses; a proposal's (target, function, args)  *)
(* is a content; the called target either reverts or reports how much it   *)
(* completed, and of what it does only a call of a governance token's      *)
(* transfer or approve is followed, as that spends what the DAO holds (a   *)
(* burn is a transfer, allowances do not expire).  finalize_batch is a run *)
(* of finalize steps.  Proposals are numbered from 1.                      *)
(***************************************************************************)
EXTENDS VotingPower

CONSTANTS
    Contents,         \* what proposals may do: target, function and arguments
    Hashes,           \* SHA-256 values
    HashesOf,         \* the hashes a content may get, in one call or another
    Calls,            \* what executing a content does with tokens of the DAO
    Tokens,           \* governance tokens the DAO may ever work with
    Distributions,    \* how the holders may hold a token the DAO turns to
    SelfTargeting,    \* the contents that call the DAO itself
    Upgrades,         \* the contents propose_upgrade can build
    Thresholds,       \* deposits the admin may ask for with set_proposal_threshold
    Multipliers,      \* escalations the admin may set with set_impact_multipliers
    MaxProposals,     \* bound: proposals ever created
    CastChoices,      \* bound: the choices voters make, of VoteChoices
    MaxActs,          \* bound: everything but creating, voting, settling and time
    InitialConfig,    \* DaoConfig at initialize
    Configs,          \* configurations the admin may change to
    DecayChoices,     \* settings the admin may choose with set_quorum_decay
    FinalizeDelay,    \* FINALIZE_DELAY
    ReclaimTimeout,   \* DEPOSIT_RECLAIM_TIMEOUT
    ExecutionWindow,  \* the seven days after the finalize delay
    ExecutionBps      \* completion a target may report

VoteChoices == {"For", "Against", "Abstain"}

ConfigRecords == [token: Tokens, threshold: Nat, supply: Nat, quorum: QuorumSettings, majority: Nat,
                  voting: Nat \ {0}, timelock: Nat, discussion: Nat, cap: Nat]

CallRecords == [method: {"transfer", "approve", "other"}, token: Tokens, to: Holders, amount: Nat]

Kinds == {"standard", "selfTarget", "upgrade"}

ASSUME GovernanceAssumption ==
    /\ HashesOf \in [Contents -> SUBSET Hashes]
    /\ Calls \in [Contents -> CallRecords]
    /\ IsFiniteSet(Tokens)
    /\ Distributions \subseteq [Holders -> Nat]
    /\ SelfTargeting \subseteq Contents
    /\ Upgrades \subseteq Contents
    /\ Thresholds \subseteq Nat \ {0}
    /\ Multipliers \subseteq [Kinds -> Nat]
    /\ MaxProposals \in Nat
    /\ CastChoices \subseteq VoteChoices
    /\ MaxActs \in Nat
    /\ InitialConfig \in ConfigRecords
    /\ Configs \subseteq ConfigRecords
    /\ DecayChoices \subseteq DecaySettings
    /\ FinalizeDelay \in Nat
    /\ ReclaimTimeout \in Nat
    /\ ExecutionWindow \in Nat
    /\ ExecutionBps \subseteq 0 .. FullBps

VARIABLES
    proposal,   \* Proposal(id) records
    guard,      \* ActiveProposalHash(hash): the id found there, or NoId
    vote,       \* VoteRecord(id, voter)
    swept,      \* DelegatedVote(id, delegator) marks
    locked,     \* LockedBalance(id, voter)
    treasury,   \* the DAO's own balance of each governance token
    allowance,  \* what a holder may draw of a token of the DAO: approve
    spent,      \* not in the code: what executed proposals took of these tokens
    config,     \* Config
    escalation, \* ImpactMultipliers, in bps of each kind of proposal
    decay,      \* QuorumDecay
    history,    \* Participation.recent_bps
    acts        \* how many of the MaxActs were used

adminVars == <<config, escalation, decay>>
settingVars == <<adminVars, acts>>
ballotVars == <<vote, swept, locked>>
callVars == <<allowance, spent>>
vars == <<powerVars, proposal, guard, ballotVars, treasury, callVars, settingVars, history>>

Ids == 1 .. MaxProposals
NoId == 0
NoProposal == [status |-> "None"]
NoVote == [weight |-> 0]

Open == {"Discussion", "Active"}
Statuses == Open \cup {"Passed", "Failed", "Executed", "Cancelled", "Expired"}

Init ==
    /\ PowerInit
    /\ proposal = [p \in Ids |-> NoProposal]
    /\ guard = [h \in Hashes |-> NoId]
    /\ vote = [pv \in Ids \X Holders |-> NoVote]
    /\ swept = {}
    /\ locked = [pv \in Ids \X Holders |-> 0]
    /\ treasury = [t \in Tokens |-> 0]
    /\ allowance = [th \in Tokens \X Holders |-> 0]
    /\ spent = 0
    /\ config = InitialConfig
    /\ escalation = [k \in Kinds |-> FullBps]
    /\ decay = NoDecay
    /\ history = <<>>
    /\ acts = 0

Exists(p) == proposal[p].status # "None"
HasVoted(p, v) == vote[<<p, v>>] # NoVote
IsOpen(p) == proposal[p].status \in Open

\* Not in the code: counts the calls the bound MaxActs is on.
Act == acts < MaxActs /\ acts' = acts + 1

\* Transfers of the governance token in use between a caller and the DAO.
Pay(to, amount) == [balance EXCEPT ![to] = @ + amount]

TakeIn(amount) == treasury' = [treasury EXCEPT ![config.token] = @ + amount]

PayOut(to, amount) ==
    /\ treasury[config.token] >= amount
    /\ treasury' = [treasury EXCEPT ![config.token] = @ - amount]
    /\ balance' = Pay(to, amount)

-----------------------------------------------------------------------------
(* Proposals. *)

EffectiveThreshold(kind) == (config.threshold * escalation[kind]) \div FullBps

\* A bug: the guard holds only while the older proposal is being discussed.
UnguardedOnceActive(h) == guard[h] # NoId => proposal[guard[h]].status # "Discussion"

Unguarded(h) == guard[h] # NoId => ~IsOpen(guard[h])

\* What create_proposal and propose_upgrade do alike.  proposal_content_hash hashes
\* the payloads of the Vals: of an argument that is a host object, or of a long
\* function name, that is a handle, which differs from call to call.
Submit(proposer, c, deposit, p) ==
    LET end == now + config.discussion + config.voting IN
    /\ ~Exists(p) /\ \A q \in 1 .. p - 1 : Exists(q)
    /\ balance[proposer] >= deposit
    /\ proposal' = [proposal EXCEPT ![p] =
                      [proposer |-> proposer, content |-> c, deposit |-> deposit,
                       status |-> IF config.discussion > 0 THEN "Discussion" ELSE "Active",
                       votes |-> [x \in VoteChoices |-> 0], created |-> now, end |-> end,
                       executionTime |-> 0,
                       deadline |-> end + FinalizeDelay + ExecutionWindow,
                       supply |-> config.supply, vetoed |-> FALSE]]
    /\ \E h \in HashesOf[c] : Unguarded(h) /\ guard' = [guard EXCEPT ![h] = p]
    /\ balance' = [balance EXCEPT ![proposer] = @ - deposit]
    /\ TakeIn(deposit)
    /\ UNCHANGED <<now, delegationVars, weightVars, ballotVars, callVars, settingVars, history>>

\* create_proposal and create_proposal_from_template: nothing keeps an upgrade from
\* being put as a standard call.
CreateProposal(proposer, c, p) ==
    Submit(proposer, c,
           EffectiveThreshold(IF c \in SelfTargeting THEN "selfTarget" ELSE "standard"), p)

ProposeUpgrade(proposer, c, p) ==
    /\ c \in Upgrades
    /\ Submit(proposer, c, EffectiveThreshold("upgrade"), p)

StartVoting(p) ==
    /\ proposal[p].status = "Discussion"
    /\ config.discussion > 0
    /\ now >= proposal[p].created + config.discussion
    /\ proposal' = [proposal EXCEPT ![p].status = "Active"]
    /\ UNCHANGED <<powerVars, guard, ballotVars, treasury, callVars, settingVars, history>>

\* clear_proposal_hash: the hash is taken again, and the entry goes whatever
\* proposal it names by now.
ClearHash(c) == \E h \in HashesOf[c] : guard' = [guard EXCEPT ![h] = NoId]

\* The proposal leaves Active or Discussion without passing: its deposit goes back.
Resolve(p, status) ==
    /\ proposal' = [proposal EXCEPT ![p].status = status]
    /\ ClearHash(proposal[p].content)
    /\ PayOut(proposal[p].proposer, proposal[p].deposit)

\* cancel, by the admin.
Cancel(p) ==
    /\ IsOpen(p)
    /\ Resolve(p, "Cancelled")
    /\ Act
    /\ UNCHANGED <<now, delegationVars, weightVars, ballotVars, callVars, adminVars, history>>

\* A guardian's veto: any proposal that is not Executed, whatever its status.
Veto(p) ==
    /\ Exists(p)
    /\ proposal[p].status # "Executed"
    /\ ~proposal[p].vetoed
    /\ proposal' = [proposal EXCEPT ![p].vetoed = TRUE]
    /\ Act
    /\ UNCHANGED <<powerVars, guard, ballotVars, treasury, callVars, adminVars, history>>

-----------------------------------------------------------------------------
(* Votes. *)

CappedBalance(v) ==
    IF config.cap > 0 THEN Least(balance[v], config.cap) ELSE balance[v]

\* The delegators collect_delegated_weight counts for p and marks.
Sweepable(p, v) == {d \in delegators[v] : balance[d] > 0 /\ <<p, d>> \notin swept}

DelegatedWeight(p, v) ==
    SumFunctionOnSet([d \in Holders |-> TimeWeighted(d, balance[d])], Sweepable(p, v))

Weight(p, v) == TimeWeighted(v, CappedBalance(v)) + DelegatedWeight(p, v)

MayVote(p, v) ==
    /\ proposal[p].status = "Active"
    /\ now <= proposal[p].end
    /\ ~HasVoted(p, v)
    /\ <<p, v>> \notin swept
    /\ Weight(p, v) > 0

\* A bug: every proposal of a batch records the lock.
BatchLock(p, first, amount) == amount

\* The tokens are taken once; only the first proposal of a batch records them.
Lock(p, first, amount) == IF p = first THEN amount ELSE 0

\* vote (ps = {p}) and vote_batch (first is proposal_ids[0]).
CastVotes(v, ps, first, choice) ==
    /\ first \in ps
    /\ delegateOf[v] = NoOne
    /\ balance[v] > 0
    /\ \A p \in ps : MayVote(p, v)
    /\ proposal' = [p \in Ids |->
                      IF p \in ps
                      THEN [proposal[p] EXCEPT !.votes[choice] = @ + Weight(p, v)]
                      ELSE proposal[p]]
    /\ vote' = [pv \in DOMAIN vote |->
                  IF pv[1] \in ps /\ pv[2] = v
                  THEN [choice |-> choice, weight |-> Weight(pv[1], v)]
                  ELSE vote[pv]]
    /\ swept' = swept \cup UNION {{p} \X Sweepable(p, v) : p \in ps}
    /\ locked' = [pv \in DOMAIN locked |->
                    IF pv[1] \in ps /\ pv[2] = v
                    THEN Lock(pv[1], first, CappedBalance(v))
                    ELSE locked[pv]]
    /\ balance' = [balance EXCEPT ![v] = @ - CappedBalance(v)]
    /\ TakeIn(CappedBalance(v))
    /\ UNCHANGED <<now, delegationVars, weightVars, guard, callVars, settingVars, history>>

\* A bug: only votes that were finalized release their tokens.
WithdrawTokensFinalized(v, p) ==
    /\ proposal[p].status \in {"Passed", "Failed", "Executed"}
    /\ locked[<<p, v>>] > 0
    /\ locked' = [locked EXCEPT ![<<p, v>>] = 0]
    /\ PayOut(v, locked[<<p, v>>])
    /\ UNCHANGED <<now, delegationVars, weightVars, proposal, guard, vote, swept,
                   callVars, settingVars, history>>

\* A bug: the lock stays on the books.
WithdrawTokensTwice(v, p) ==
    /\ Exists(p)
    /\ proposal[p].status # "Active"
    /\ locked[<<p, v>>] > 0
    /\ PayOut(v, locked[<<p, v>>])
    /\ UNCHANGED <<now, delegationVars, weightVars, proposal, guard, ballotVars,
                   callVars, settingVars, history>>

\* withdraw_tokens, in the token in use by now; without a lock of its own the call
\* changes nothing or panics.
WithdrawTokens(v, p) ==
    /\ Exists(p)
    /\ proposal[p].status # "Active"
    /\ locked[<<p, v>>] > 0
    /\ locked' = [locked EXCEPT ![<<p, v>>] = 0]
    /\ PayOut(v, locked[<<p, v>>])
    /\ UNCHANGED <<now, delegationVars, weightVars, proposal, guard, vote, swept,
                   callVars, settingVars, history>>

-----------------------------------------------------------------------------
(* Settlement and execution. *)

TotalVotes(p) == proposal[p].votes.For + proposal[p].votes.Against
                   + proposal[p].votes.Abstain

Outcome(p) ==
    IF Passes(proposal[p].votes, proposal[p].supply,
              EffectiveQuorum(config.quorum, decay, history), config.majority)
    THEN "Passed" ELSE "Failed"

RecordParticipation(p) ==
    history' = Recorded(history, decay, TotalVotes(p), proposal[p].supply)

\* finalize: a passed proposal keeps its deposit in escrow.
Finalize(p) ==
    /\ proposal[p].status = "Active"
    /\ now > proposal[p].end + FinalizeDelay
    /\ \/ Outcome(p) = "Failed" /\ Resolve(p, "Failed")
       \/ /\ Outcome(p) = "Passed"
          /\ proposal' = [proposal EXCEPT ![p].status = "Passed",
                                          ![p].executionTime = now + config.timelock]
          /\ ClearHash(proposal[p].content)
          /\ UNCHANGED <<balance, treasury>>
    /\ RecordParticipation(p)
    /\ UNCHANGED <<now, delegationVars, weightVars, ballotVars, callVars, settingVars>>

\* reclaim_deposit: Failed whatever the tally says.
ReclaimDeposit(p) ==
    /\ proposal[p].status = "Active"
    /\ now > proposal[p].end + ReclaimTimeout
    /\ Resolve(p, "Failed")
    /\ RecordParticipation(p)
    /\ UNCHANGED <<now, delegationVars, weightVars, ballotVars, callVars, settingVars>>

MayExecute(p) ==
    /\ proposal[p].status = "Passed"
    /\ ~proposal[p].vetoed
    /\ now >= proposal[p].executionTime

\* execute past the deadline: the deposit stays withheld.
ExpireExecution(p) ==
    /\ MayExecute(p)
    /\ now > proposal[p].deadline
    /\ proposal' = [proposal EXCEPT ![p].status = "Expired"]
    /\ ClearHash(proposal[p].content)
    /\ UNCHANGED <<powerVars, ballotVars, treasury, callVars, settingVars, history>>

\* What the call takes of the DAO's tokens at once, and who gets it.
Moved(call) == IF call.method = "transfer" THEN call.amount ELSE 0

Received(t, h, amount) == IF t = config.token THEN Pay(h, amount) ELSE balance

Approved(call) ==
    IF call.method = "approve"
    THEN [allowance EXCEPT ![<<call.token, call.to>>] = call.amount]
    ELSE allowance

\* execute and execute_proposal: the call may be one of a governance token, in the
\* DAO's name; then the target reports bps, and the proposer gets that share of the
\* deposit back.  The guard is left as it is.
Execute(p, bps) ==
    LET call == Calls[proposal[p].content]
        refund == (proposal[p].deposit * bps) \div FullBps
        left == [treasury EXCEPT ![call.token] = @ - Moved(call)]
    IN  /\ MayExecute(p)
        /\ now <= proposal[p].deadline
        /\ treasury[call.token] >= Moved(call)
        /\ left[config.token] >= refund
        /\ proposal' = [proposal EXCEPT ![p].status = "Executed"]
        /\ treasury' = [left EXCEPT ![config.token] = @ - refund]
        /\ balance' = [Received(call.token, call.to, Moved(call))
                         EXCEPT ![proposal[p].proposer] = @ + refund]
        /\ spent' = spent + Moved(call)
        /\ allowance' = Approved(call)
        /\ UNCHANGED <<now, delegationVars, weightVars, guard, ballotVars, settingVars, history>>

\* Whom an executed proposal approved draws on the DAO's tokens: transfer_from.
DrawAllowance(t, h, amount) ==
    /\ amount \in 1 .. allowance[<<t, h>>]
    /\ treasury[t] >= amount
    /\ treasury' = [treasury EXCEPT ![t] = @ - amount]
    /\ balance' = Received(t, h, amount)
    /\ spent' = spent + amount
    /\ allowance' = [allowance EXCEPT ![<<t, h>>] = @ - amount]
    /\ UNCHANGED <<now, delegationVars, weightVars, proposal, guard, ballotVars,
                   settingVars, history>>

-----------------------------------------------------------------------------
(* The admin's settings. *)

AdminStep ==
    /\ Act
    /\ UNCHANGED <<powerVars, proposal, guard, ballotVars, treasury, callVars, history>>

\* The governance token may be another from here on; nothing of the decay is looked
\* at, and nothing of the locks and deposits.
UpdateConfig(new) ==
    /\ config' = new
    /\ \/ new.token = config.token /\ UNCHANGED balance
       \/ new.token # config.token /\ balance' \in Distributions
    /\ Act
    /\ UNCHANGED <<now, delegationVars, weightVars, proposal, guard, ballotVars, treasury,
                   callVars, escalation, decay, history>>

SetProposalThreshold(amount) ==
    /\ config' = [config EXCEPT !.threshold = amount]
    /\ AdminStep
    /\ UNCHANGED <<escalation, decay>>

SetImpactMultipliers(multipliers) ==
    /\ \A k \in Kinds : multipliers[k] \in FullBps .. 10 * FullBps
    /\ escalation' = multipliers
    /\ AdminStep
    /\ UNCHANGED <<config, decay>>

SetQuorumDecay(setting) ==
    /\ DecayAllowed(setting, config.quorum)
    /\ decay' = StoredDecay(setting)
    /\ AdminStep
    /\ UNCHANGED <<config, escalation>>

\* prune_participation_history, by anybody: the oldest turnouts go.
PruneParticipationHistory(max) ==
    LET kept == Least(Len(history), Least(max, MaxWindow)) IN
    /\ history' = SubSeq(history, Len(history) - kept + 1, Len(history))
    /\ Act
    /\ UNCHANGED <<powerVars, proposal, guard, ballotVars, treasury, callVars, adminVars>>

Clock ==
    /\ Tick
    /\ UNCHANGED <<proposal, guard, ballotVars, treasury, callVars, settingVars, history>>

\* The holders and their weights; nothing of the DAO's own books changes.
PowerStep ==
    /\ \/ \E h, g \in Holders : SendTokens(h, g) \/ Delegate(h, g)
       \/ \E h \in Holders : RevokeDelegation(h) \/ CheckpointVotingPower(h)
       \/ \E w \in TimeWeights : SetTimeWeight(w)
    /\ Act
    /\ UNCHANGED <<proposal, guard, ballotVars, treasury, callVars, adminVars, history>>

ProposalStep(p) ==
    \/ \E h \in Holders, c \in Contents :
         CreateProposal(h, c, p) \/ ProposeUpgrade(h, c, p)
    \/ StartVoting(p) \/ Cancel(p) \/ Veto(p)
    \/ \E v \in Holders : WithdrawTokens(v, p)
    \/ Finalize(p) \/ ReclaimDeposit(p)
    \/ ExpireExecution(p) \/ \E bps \in ExecutionBps : Execute(p, bps)

Next ==
    \/ Clock
    \/ PowerStep
    \/ \E p \in Ids : ProposalStep(p)
    \/ \E v \in Holders, ps \in SUBSET Ids, p \in Ids, x \in CastChoices :
         CastVotes(v, ps, p, x)
    \/ \E t \in Tokens, h \in Holders : \E amount \in 1 .. allowance[<<t, h>>] :
         DrawAllowance(t, h, amount)
    \/ \E max \in 0 .. MaxWindow : PruneParticipationHistory(max)
    \/ \E new \in Configs : UpdateConfig(new)
    \/ \E amount \in Thresholds : SetProposalThreshold(amount)
    \/ \E multipliers \in Multipliers : SetImpactMultipliers(multipliers)
    \/ \E setting \in DecayChoices : SetQuorumDecay(setting)

\* Time passes; a proposer asks for the deposit of a proposal nobody finalizes,
\* and a voter for the tokens of a vote that is over.
Fairness ==
    /\ WF_vars(Clock)
    /\ \A p \in Ids : WF_vars(ReclaimDeposit(p))
    /\ \A p \in Ids, v \in Holders : WF_vars(WithdrawTokens(v, p))

Spec == Init /\ [][Next]_vars /\ Fairness

-----------------------------------------------------------------------------
(* Properties. *)

LockedTotal == SumFunctionOnSet(locked, Ids \X Holders)
Refundable == {p \in Ids : proposal[p].status \in Open \cup {"Passed"}}
HeldDeposits == SumFunctionOnSet([p \in Refundable |-> proposal[p].deposit], Refundable)

TokensHeld == SumFunctionOnSet(treasury, Tokens)

\* The DAO pays nobody twice and loses no token: what it may yet have to return, the
\* locks of all votes and the deposits that can still be refunded, it holds in one
\* governance token or another, except for what executed proposals took out of its
\* custody.  (Nothing keeps it in the token that withdraw_tokens and finalize pay
\* with once update_config named a new one.)
CustodyCovers == TokensHeld + spent >= LockedTotal + HeldDeposits

\* A tally is what its vote records say, and on a proposal nobody voted on
\* through delegation or in a batch it never outweighs the tokens locked for
\* it: tokens that voted cannot be moved to another address to vote again.
TallyBacked ==
    \A p \in Ids : Exists(p) =>
        /\ \A x \in VoteChoices :
             proposal[p].votes[x] =
               SumFunctionOnSet([v \in Holders |-> vote[<<p, v>>].weight],
                                {v \in Holders : HasVoted(p, v) /\ vote[<<p, v>>].choice = x})
        /\ (/\ proposal[p].status = "Active"
            /\ \A v \in Holders : <<p, v>> \notin swept
            /\ \A v \in Holders : HasVoted(p, v) => locked[<<p, v>>] > 0)
           => TotalVotes(p) <= SumFunctionOnSet([v \in Holders |-> locked[<<p, v>>]], Holders)

\* Who delegated and whose list a holder is on agree, and nobody who delegated
\* has delegators: no chain and no cycle can form.
DelegationSound ==
    /\ \A h \in Holders : delegators[h] = {d \in Holders : delegateOf[d] = h}
    /\ \A h \in Holders : delegateOf[h] # NoOne => delegators[h] = {}

\* The contents whose hash is the same in every call and no other content's: a
\* function name and arguments that fit into their Vals.
Immediate == {c \in Contents : \E h \in HashesOf[c] :
                 /\ HashesOf[c] = {h}
                 /\ \A d \in Contents \ {c} : h \notin HashesOf[d]}

\* An open proposal with immediate arguments is the one its guard names, unless an
\* earlier proposal with that content passed, ran past its deadline and took the
\* entry with it; only then can a duplicate open beside it.  (With an address or
\* another object among the arguments nothing of the kind holds.)
GuardLostOnlyToExpiry ==
    \A p \in Ids : IsOpen(p) /\ proposal[p].content \in Immediate =>
        \/ \A h \in HashesOf[proposal[p].content] : guard[h] = p
        \/ \E r \in Ids : /\ proposal[r].status = "Expired"
                          /\ proposal[r].content = proposal[p].content

\* vote_batch: the tokens "are custodied by the DAO for the duration of any
\* still-active proposal".
BatchTokensStayLocked ==
    \A p \in Ids, v \in Holders :
        proposal[p].status = "Active" /\ HasVoted(p, v) =>
            \E q \in Ids : locked[<<q, v>>] > 0

\* What executed proposals and a new governance token leave the DAO to pay with no
\* longer covers what it has to return.
Short == treasury[config.token] < LockedTotal + HeldDeposits

\* Tokens locked by a vote come back to the voter, even if nobody ever finalizes
\* the proposal, unless the DAO falls short.  (For proposals whose windows end before
\* the last timestamp.)
LocksComeBack ==
    \A p \in Ids, v \in Holders :
        (locked[<<p, v>>] > 0 /\ proposal[p].end + ReclaimTimeout < MaxTime)
            ~> (locked[<<p, v>>] = 0 \/ Short)
=============================================================================
