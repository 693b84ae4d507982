-------------------------- MODULE GovernanceProofs --------------------------
(***************************************************************************)
(* What holds of the governance DAO for every finite set of holders and    *)
(* every choice of contents and settings: delegation, the guard against    *)
(* duplicates, the quorum, the custody of tokens and the tallies.          *)
(***************************************************************************)
EXTENDS Governance, SumTheorems, TLAPS

\* The records the guard argument looks at, without the numbers in them.
RecordsOK ==
    /\ proposal = [p \in Ids |-> proposal[p]]
    /\ \A p \in Ids : {"status", "content"} \subseteq DOMAIN proposal[p] \/ ~Exists(p)
    /\ \A p \in Ids : Exists(p) => proposal[p].content \in Contents
    /\ guard \in [Hashes -> Ids \cup {NoId}]

GuardInv == RecordsOK /\ GuardLostOnlyToExpiry

DelegationInv ==
    /\ delegateOf \in [Holders -> Holders \cup {NoOne}]
    /\ delegators \in [Holders -> SUBSET Holders]
    /\ DelegationSound

-----------------------------------------------------------------------------
(* Delegation. *)

LEMMA DelegationInit == ASSUME PowerAssumption PROVE Init => DelegationInv
BY DEF PowerAssumption, Init, PowerInit, DelegationInv, DelegationSound

LEMMA DelegateKeeps ==
    ASSUME PowerAssumption, DelegationInv, NEW from \in Holders, NEW to \in Holders,
           Delegate(from, to)
    PROVE  DelegationInv'
<1>1. /\ from # to /\ delegateOf[to] = NoOne /\ delegators[from] = {}
      /\ delegateOf' = [delegateOf EXCEPT ![from] = to]
  BY DEF Delegate
<1>2. /\ delegateOf' \in [Holders -> Holders \cup {NoOne}]
      /\ delegators' \in [Holders -> SUBSET Holders]
  BY DEF Delegate, DelegationInv
<1>3. ASSUME NEW h \in Holders
      PROVE  delegators'[h] = {d \in Holders : delegateOf'[d] = h}
  <2>1. CASE h = to
    BY <2>1, NoOne \notin Holders DEF Delegate, DelegationInv, DelegationSound
  <2>2. CASE h # to /\ h = delegateOf[from]
    BY <2>2 DEF Delegate, DelegationInv, DelegationSound
  <2>3. CASE h # to /\ h # delegateOf[from]
    BY <2>3 DEF Delegate, DelegationInv, DelegationSound
  <2> QED BY <2>1, <2>2, <2>3
<1>4. ASSUME NEW h \in Holders, delegateOf'[h] # NoOne
      PROVE  delegators'[h] = {}
  <2>1. \A d \in Holders : delegateOf'[d] # h
    <3>1. h # to
      BY <1>1, <1>4 DEF DelegationInv
    <3>2. delegators[h] = {}
      BY <1>1, <1>4 DEF DelegationInv, DelegationSound
    <3> QED BY <1>1, <3>1, <3>2 DEF DelegationInv, DelegationSound
  <2> QED BY <1>3, <2>1
<1> QED BY <1>2, <1>3, <1>4 DEF DelegationInv, DelegationSound

LEMMA RevokeKeeps ==
    ASSUME PowerAssumption, DelegationInv, NEW from \in Holders, RevokeDelegation(from)
    PROVE  DelegationInv'
<1>1. delegateOf[from] \in Holders
  BY DEF RevokeDelegation, DelegationInv
<1>2. /\ delegateOf' \in [Holders -> Holders \cup {NoOne}]
      /\ delegators' \in [Holders -> SUBSET Holders]
  BY <1>1 DEF RevokeDelegation, DelegationInv
<1>3. ASSUME NEW h \in Holders
      PROVE  delegators'[h] = {d \in Holders : delegateOf'[d] = h}
  <2>1. CASE h = delegateOf[from]
    BY <1>1, <2>1, NoOne \notin Holders DEF RevokeDelegation, DelegationInv, DelegationSound, PowerAssumption
  <2>2. CASE h # delegateOf[from]
    BY <1>1, <2>2, NoOne \notin Holders DEF RevokeDelegation, DelegationInv, DelegationSound, PowerAssumption
  <2> QED BY <2>1, <2>2
<1>4. ASSUME NEW h \in Holders, delegateOf'[h] # NoOne
      PROVE  delegators'[h] = {}
  <2>1. delegators[h] = {}
    BY <1>4 DEF RevokeDelegation, DelegationInv, DelegationSound
  <2> QED BY <1>1, <2>1 DEF RevokeDelegation, DelegationInv
<1> QED BY <1>2, <1>3, <1>4 DEF DelegationInv, DelegationSound

LEMMA DelegationStep ==
    ASSUME PowerAssumption, DelegationInv, [Next]_vars PROVE DelegationInv'
<1>1. CASE UNCHANGED delegationVars
  BY <1>1 DEF delegationVars, DelegationInv, DelegationSound
<1>2. CASE \E h, g \in Holders : Delegate(h, g)
  BY <1>2, DelegateKeeps
<1>3. CASE \E h \in Holders : RevokeDelegation(h)
  BY <1>3, RevokeKeeps
<1>4. \/ UNCHANGED delegationVars
      \/ \E h, g \in Holders : Delegate(h, g)
      \/ \E h \in Holders : RevokeDelegation(h)
  <2>1. CASE PowerStep
    BY <2>1 DEF PowerStep, SendTokens, CheckpointVotingPower, SetTimeWeight
  <2>2. ASSUME NEW p \in Ids, ProposalStep(p) PROVE UNCHANGED delegationVars
    <3>1. CASE \E h \in Holders, c \in Contents : CreateProposal(h, c, p) \/ ProposeUpgrade(h, c, p)
      BY <3>1 DEF CreateProposal, ProposeUpgrade, Submit
    <3>2. CASE StartVoting(p) \/ Cancel(p) \/ Veto(p) \/ ExpireExecution(p)
      BY <3>2 DEF StartVoting, Cancel, Veto, ExpireExecution, powerVars
    <3>3. CASE (\E v \in Holders : WithdrawTokens(v, p)) \/ Finalize(p) \/ ReclaimDeposit(p)
      BY <3>3 DEF WithdrawTokens, Finalize, ReclaimDeposit
    <3>4. CASE \E bps \in ExecutionBps : Execute(p, bps)
      BY <3>4 DEF Execute
    <3> QED BY <2>2, <3>1, <3>2, <3>3, <3>4 DEF ProposalStep
  <2>3. ASSUME NEW v \in Holders, NEW ps, NEW p, NEW x, CastVotes(v, ps, p, x)
        PROVE  UNCHANGED delegationVars
    BY <2>3 DEF CastVotes
  <2>4. CASE \/ Clock
             \/ \E t \in Tokens, h \in Holders : \E amount \in 1 .. allowance[<<t, h>>] :
                  DrawAllowance(t, h, amount)
             \/ \E max \in 0 .. MaxWindow : PruneParticipationHistory(max)
    BY <2>4 DEF Clock, Tick, DrawAllowance, PruneParticipationHistory, powerVars
  <2>5. ASSUME NEW c, \/ UpdateConfig(c) \/ SetQuorumDecay(c)
                    \/ SetProposalThreshold(c) \/ SetImpactMultipliers(c)
        PROVE UNCHANGED delegationVars
    BY <2>5 DEF UpdateConfig, SetProposalThreshold, SetImpactMultipliers, SetQuorumDecay,
       AdminStep, powerVars
  <2>6. CASE UNCHANGED vars
    BY <2>6 DEF vars, powerVars
  <2> QED BY <2>1, <2>2, <2>3, <2>4, <2>5, <2>6 DEF Next
<1> QED BY <1>1, <1>2, <1>3, <1>4

\* Lists and pointers of delegations always agree, and nobody who delegated has
\* delegators, however delegations are re-pointed and revoked: delegate and
\* revoke_delegation leave no stale entry and no chain.
THEOREM DelegationIsSound == ASSUME PowerAssumption PROVE Spec => []DelegationSound
<1>1. DelegationInv => DelegationSound
  BY DEF DelegationInv
<1> QED BY <1>1, DelegationInit, DelegationStep, PTL DEF Spec

-----------------------------------------------------------------------------
(* The guard against duplicates. *)

\* What a step may do to the open proposals and their guards.  Expired proposals
\* stay, contents stay, and an open proposal that was open before keeps its entry
\* or finds an expired namesake.
Kept(p) == Exists(p) => Exists(p)' /\ proposal'[p].content = proposal[p].content
ExpiredKept(p) == proposal[p].status = "Expired" => proposal'[p].status = "Expired"

LEMMA HashesTyped == ASSUME GovernanceAssumption, NEW c \in Contents PROVE HashesOf[c] \subseteq Hashes
BY DEF GovernanceAssumption

\* The hash of an immediate content is nobody else's.
LEMMA ImmediateHash ==
    ASSUME NEW c \in Immediate, NEW d \in Contents, NEW h \in HashesOf[c]
    PROVE  /\ HashesOf[c] = {h}
           /\ h \in HashesOf[d] => d = c
BY DEF Immediate

\* What the guard property says of an open proposal.
Named(p) == \A h \in HashesOf[proposal[p].content] : guard[h] = p
Namesake(p) == \E r \in Ids : /\ proposal[r].status = "Expired"
                              /\ proposal[r].content = proposal[p].content

\* A step that only changes fields other than content, moves no proposal into an
\* open status from outside and leaves the guards alone keeps the invariant.
LEMMA QuietStep ==
    ASSUME GuardInv, guard' = guard, RecordsOK',
           \A p \in Ids : Kept(p) /\ ExpiredKept(p),
           \A p \in Ids : IsOpen(p)' => IsOpen(p)
    PROVE  GuardInv'
<1>1. ASSUME NEW p \in Ids, IsOpen(p)', proposal'[p].content \in Immediate
      PROVE  Named(p)' \/ Namesake(p)'
  <2>1. IsOpen(p) /\ Exists(p)
    BY <1>1 DEF IsOpen, Open, Exists
  <2>2. proposal'[p].content = proposal[p].content
    BY <2>1 DEF Kept
  <2>3. CASE Named(p)
    BY <2>2, <2>3 DEF Named
  <2>4. CASE Namesake(p)
    BY <2>2, <2>4 DEF Namesake, Kept, ExpiredKept, Exists
  <2> QED BY <1>1, <2>1, <2>2, <2>3, <2>4 DEF GuardInv, GuardLostOnlyToExpiry, Named, Namesake
<1> QED BY <1>1 DEF GuardInv, GuardLostOnlyToExpiry, Named, Namesake

\* A step that takes p out of the open statuses (or leaves it out), clears an
\* entry of its content and changes no other proposal keeps the invariant,
\* provided p was open, or is Expired now.
LEMMA ClearingStep ==
    ASSUME GovernanceAssumption, GuardInv, NEW p \in Ids, Exists(p), RecordsOK',
           ClearHash(proposal[p].content),
           \A q \in Ids : q # p => proposal'[q] = proposal[q],
           proposal'[p].content = proposal[p].content,
           ~IsOpen(p)',
           proposal[p].status # "Expired",
           IsOpen(p) \/ proposal'[p].status = "Expired"
    PROVE  GuardInv'
<1> DEFINE c == proposal[p].content
<1>1. PICK k \in HashesOf[c] : guard' = [guard EXCEPT ![k] = NoId]
  BY DEF ClearHash
<1>2. c \in Contents
  BY DEF GuardInv, RecordsOK
<1>3. guard \in [Hashes -> Ids \cup {NoId}]
  BY DEF GuardInv, RecordsOK
<1>4. ASSUME NEW q \in Ids, IsOpen(q)', proposal'[q].content \in Immediate
      PROVE  Named(q)' \/ Namesake(q)'
  <2> DEFINE d == proposal[q].content
  <2>1. q # p /\ proposal'[q] = proposal[q] /\ IsOpen(q)
    BY <1>4 DEF IsOpen
  <2>2. d \in Contents /\ d \in Immediate
    BY <1>4, <2>1 DEF GuardInv, RecordsOK, Exists, IsOpen, Open
  <2>3. ASSUME NEW r \in Ids, proposal[r].status = "Expired", proposal[r].content = d
        PROVE  Namesake(q)'
    BY <2>1, <2>3 DEF Namesake
  <2>4. CASE d # c /\ Named(q)
    <3>1. ASSUME NEW h \in HashesOf[d] PROVE guard'[h] = q
      <4>1. h # k
        BY <1>2, <2>2, <2>4, ImmediateHash
      <4>2. h \in Hashes
        BY <2>2, HashesTyped
      <4> QED BY <1>1, <1>3, <2>4, <4>1, <4>2 DEF Named
    <3> QED BY <2>1, <3>1 DEF Named
  <2>5. CASE d = c /\ Named(q)
    <3>1. CASE proposal'[p].status = "Expired"
      BY <2>1, <2>5, <3>1 DEF Namesake
    <3>2. CASE IsOpen(p)
      <4>1. guard[k] = q
        BY <2>5 DEF Named
      <4>2. ~Named(p)
        BY <2>1, <4>1 DEF Named
      <4>3. PICK r \in Ids : proposal[r].status = "Expired" /\ proposal[r].content = c
        BY <2>2, <2>5, <3>2, <4>2 DEF GuardInv, GuardLostOnlyToExpiry, Named
      <4> QED BY <2>3, <2>5, <4>3
    <3> QED BY <3>1, <3>2
  <2>6. CASE Namesake(q)
    BY <2>3, <2>6 DEF Namesake
  <2> QED BY <2>1, <2>2, <2>4, <2>5, <2>6 DEF GuardInv, GuardLostOnlyToExpiry, Named, Namesake
<1> QED BY <1>4 DEF GuardInv, GuardLostOnlyToExpiry, Named, Namesake

LEMMA CreateKeeps ==
    ASSUME GovernanceAssumption, GuardInv, NEW h \in Holders, NEW c \in Contents,
           NEW p \in Ids, NEW deposit, Submit(h, c, deposit, p)
    PROVE  GuardInv'
<1>1. PICK k \in HashesOf[c] : Unguarded(k) /\ guard' = [guard EXCEPT ![k] = p]
  BY DEF Submit
<1>2. /\ ~Exists(p)
      /\ \A q \in Ids : q # p => proposal'[q] = proposal[q]
      /\ proposal'[p].content = c
      /\ {"status", "content"} \subseteq DOMAIN proposal'[p]
      /\ proposal' = [q \in Ids |-> proposal'[q]]
  BY DEF Submit, GuardInv, RecordsOK
<1>3. guard \in [Hashes -> Ids \cup {NoId}] /\ k \in Hashes
  BY HashesTyped DEF GuardInv, RecordsOK
<1>4. RecordsOK'
  <2>1. guard' \in [Hashes -> Ids \cup {NoId}]
    BY <1>1, <1>3
  <2>2. ASSUME NEW q \in Ids
        PROVE  /\ {"status", "content"} \subseteq DOMAIN proposal'[q] \/ ~Exists(q)'
               /\ Exists(q)' => proposal'[q].content \in Contents
    BY <1>2 DEF GuardInv, RecordsOK, Exists
  <2> QED BY <1>2, <2>1, <2>2 DEF RecordsOK
<1>5. ASSUME NEW q \in Ids, IsOpen(q)', proposal'[q].content \in Immediate
      PROVE  Named(q)' \/ Namesake(q)'
  <2>1. CASE q = p
    <3>1. c \in Immediate
      BY <1>2, <1>5, <2>1
    <3>2. HashesOf[c] = {k}
      BY <3>1, ImmediateHash
    <3> QED BY <1>1, <1>2, <1>3, <2>1, <3>2 DEF Named
  <2>2. CASE q # p
    <3>1. proposal'[q] = proposal[q] /\ IsOpen(q)
      BY <1>2, <1>5, <2>2 DEF IsOpen
    <3>2. proposal[q].content \in Contents
      BY <3>1 DEF GuardInv, RecordsOK, Exists, IsOpen, Open
    <3>3. ASSUME NEW r \in Ids, proposal[r].status = "Expired"
          PROVE  proposal'[r] = proposal[r]
      BY <1>2, <3>3 DEF Exists
    <3>4. CASE Named(q)
      <4>1. k \notin HashesOf[proposal[q].content]
        BY <1>1, <3>1, <3>4, q # NoId DEF Named, Unguarded, Ids, NoId
      <4>2. ASSUME NEW g \in HashesOf[proposal[q].content] PROVE guard'[g] = q
        BY <1>1, <1>3, <3>2, <3>4, <4>1, HashesTyped DEF Named
      <4> QED BY <3>1, <4>2 DEF Named
    <3>5. CASE Namesake(q)
      BY <3>1, <3>3, <3>5 DEF Namesake
    <3> QED BY <1>5, <3>1, <3>4, <3>5 DEF GuardInv, GuardLostOnlyToExpiry, Named, Namesake
  <2> QED BY <2>1, <2>2
<1> QED BY <1>4, <1>5 DEF GuardInv, GuardLostOnlyToExpiry, Named, Namesake

\* Setting the status of one existing proposal leaves the rest of the records be.
LEMMA StatusChange ==
    ASSUME RecordsOK, NEW p \in Ids, Exists(p), NEW s \in Statuses,
           proposal' = [proposal EXCEPT ![p].status = s]
    PROVE  /\ proposal' = [q \in Ids |-> proposal'[q]]
           /\ proposal'[p].status = s
           /\ proposal'[p].content = proposal[p].content
           /\ {"status", "content"} \subseteq DOMAIN proposal'[p]
           /\ \A q \in Ids : q # p => proposal'[q] = proposal[q]
<1>1. {"status", "content"} \subseteq DOMAIN proposal[p]
  BY DEF RecordsOK
<1>2. proposal'[p] = [proposal[p] EXCEPT !.status = s]
  BY DEF RecordsOK
<1>3. /\ proposal' = [q \in Ids |-> proposal'[q]]
      /\ \A q \in Ids : q # p => proposal'[q] = proposal[q]
  BY DEF RecordsOK
<1> QED BY <1>1, <1>2, <1>3

\* After such a change the records are still well formed.
LEMMA StatusChangeOK ==
    ASSUME RecordsOK, NEW p \in Ids, Exists(p),
           proposal' = [q \in Ids |-> proposal'[q]],
           proposal'[p].content = proposal[p].content,
           {"status", "content"} \subseteq DOMAIN proposal'[p],
           \A q \in Ids : q # p => proposal'[q] = proposal[q],
           guard' \in [Hashes -> Ids \cup {NoId}]
    PROVE  RecordsOK'
<1>1. ASSUME NEW q \in Ids
      PROVE  /\ {"status", "content"} \subseteq DOMAIN proposal'[q] \/ ~Exists(q)'
             /\ Exists(q)' => proposal'[q].content \in Contents
  BY DEF RecordsOK, Exists
<1> QED BY <1>1 DEF RecordsOK

LEMMA ClearHashTyped ==
    ASSUME RecordsOK, NEW c, ClearHash(c)
    PROVE  guard' \in [Hashes -> Ids \cup {NoId}]
BY DEF RecordsOK, ClearHash

LEMMA ResolveKeeps ==
    ASSUME GovernanceAssumption, GuardInv, NEW p \in Ids, IsOpen(p), NEW s \in {"Failed", "Cancelled"},
           Resolve(p, s)
    PROVE  GuardInv'
<1>1. Exists(p) /\ RecordsOK /\ s \in Statuses
  BY DEF GuardInv, IsOpen, Open, Exists, Statuses
<1>2. /\ proposal' = [proposal EXCEPT ![p].status = s]
      /\ ClearHash(proposal[p].content)
  BY DEF Resolve
<1>3. /\ proposal' = [q \in Ids |-> proposal'[q]]
      /\ proposal'[p].status = s
      /\ proposal'[p].content = proposal[p].content
      /\ {"status", "content"} \subseteq DOMAIN proposal'[p]
      /\ \A q \in Ids : q # p => proposal'[q] = proposal[q]
  BY <1>1, <1>2, StatusChange
<1>4. RecordsOK'
  BY <1>1, <1>2, <1>3, StatusChangeOK, ClearHashTyped
<1>5. ~IsOpen(p)' /\ proposal[p].status # "Expired"
  BY <1>3 DEF IsOpen, Open
<1> QED BY <1>1, <1>2, <1>3, <1>4, <1>5, ClearingStep

LEMMA FinalizeKeeps ==
    ASSUME GovernanceAssumption, GuardInv, NEW p \in Ids, Finalize(p)
    PROVE  GuardInv'
<1>1. IsOpen(p) /\ Exists(p) /\ RecordsOK
  BY DEF Finalize, IsOpen, Open, Exists, GuardInv
<1>2. CASE Resolve(p, "Failed")
  BY <1>1, <1>2, ResolveKeeps
<1>3. CASE /\ proposal' = [proposal EXCEPT ![p].status = "Passed",
                                           ![p].executionTime = now + config.timelock]
           /\ ClearHash(proposal[p].content)
  <2>1. {"status", "content"} \subseteq DOMAIN proposal[p]
    BY <1>1 DEF RecordsOK
  <2>2. proposal'[p] = [[proposal[p] EXCEPT !.status = "Passed"]
                          EXCEPT !.executionTime = now + config.timelock]
    BY <1>1, <1>3 DEF RecordsOK
  <2>3. /\ proposal' = [q \in Ids |-> proposal'[q]]
        /\ \A q \in Ids : q # p => proposal'[q] = proposal[q]
    BY <1>1, <1>3 DEF RecordsOK
  <2>4. /\ proposal'[p].status = "Passed"
        /\ proposal'[p].content = proposal[p].content
        /\ {"status", "content"} \subseteq DOMAIN proposal'[p]
    BY <2>1, <2>2
  <2>5. RecordsOK'
    BY <1>1, <1>3, <2>3, <2>4, StatusChangeOK, ClearHashTyped
  <2>6. ~IsOpen(p)' /\ proposal[p].status # "Expired"
    BY <1>1, <2>4 DEF IsOpen, Open
  <2> QED BY <1>1, <1>3, <2>3, <2>4, <2>5, <2>6, ClearingStep
<1> QED BY <1>2, <1>3 DEF Finalize

LEMMA ExpireKeeps ==
    ASSUME GovernanceAssumption, GuardInv, NEW p \in Ids, ExpireExecution(p)
    PROVE  GuardInv'
<1>1. Exists(p) /\ RecordsOK /\ proposal[p].status # "Expired" /\ "Expired" \in Statuses
  BY DEF ExpireExecution, MayExecute, Exists, GuardInv, Statuses
<1>2. /\ proposal' = [proposal EXCEPT ![p].status = "Expired"]
      /\ ClearHash(proposal[p].content)
  BY DEF ExpireExecution
<1>3. /\ proposal' = [q \in Ids |-> proposal'[q]]
      /\ proposal'[p].status = "Expired"
      /\ proposal'[p].content = proposal[p].content
      /\ {"status", "content"} \subseteq DOMAIN proposal'[p]
      /\ \A q \in Ids : q # p => proposal'[q] = proposal[q]
  BY <1>1, <1>2, StatusChange
<1>4. RecordsOK'
  BY <1>1, <1>2, <1>3, StatusChangeOK, ClearHashTyped
<1>5. ~IsOpen(p)'
  BY <1>3 DEF IsOpen, Open
<1> QED BY <1>1, <1>2, <1>3, <1>4, <1>5, ClearingStep

\* start_voting, veto_proposal, execute: one field of one record, no guard.
LEMMA OneFieldKeeps ==
    ASSUME GuardInv, NEW p \in Ids, StartVoting(p) \/ Veto(p) \/ \E bps : Execute(p, bps)
    PROVE  GuardInv'
<1>0. \/ StartVoting(p) \/ Veto(p)
      \/ /\ MayExecute(p) /\ guard' = guard
         /\ proposal' = [proposal EXCEPT ![p].status = "Executed"]
  <2>1. ASSUME NEW bps, Execute(p, bps)
        PROVE  /\ MayExecute(p) /\ guard' = guard
               /\ proposal' = [proposal EXCEPT ![p].status = "Executed"]
    BY <2>1, Zenon DEF Execute
  <2> QED BY <2>1
<1>1. Exists(p) /\ RecordsOK /\ guard' = guard
  BY <1>0 DEF StartVoting, Veto, MayExecute, Exists, GuardInv
<1>2. {"status", "content"} \subseteq DOMAIN proposal[p]
  BY <1>1 DEF RecordsOK
<1>3. PICK f \in {"status", "vetoed"}, x \in {TRUE, "Active", "Executed"} :
          /\ proposal' = [proposal EXCEPT ![p] = [proposal[p] EXCEPT ![f] = x]]
          /\ f = "status" => /\ x \in Open => IsOpen(p)
                             /\ proposal[p].status # "Expired"
                             /\ x # "None"
  BY <1>0 DEF StartVoting, Veto, MayExecute, IsOpen, Open
<1>4. /\ proposal' = [q \in Ids |-> proposal'[q]]
      /\ \A q \in Ids : q # p => proposal'[q] = proposal[q]
      /\ proposal'[p] = [proposal[p] EXCEPT ![f] = x]
  BY <1>1, <1>3 DEF RecordsOK
<1>5. /\ proposal'[p].content = proposal[p].content
      /\ {"status", "content"} \subseteq DOMAIN proposal'[p]
      /\ proposal'[p].status = IF f = "status" THEN x ELSE proposal[p].status
  BY <1>2, <1>4
<1>6. RecordsOK'
  BY <1>1, <1>4, <1>5, StatusChangeOK DEF RecordsOK
<1>7. \A q \in Ids : Kept(q) /\ ExpiredKept(q)
  BY <1>1, <1>3, <1>4, <1>5 DEF Kept, ExpiredKept, Exists
<1>8. \A q \in Ids : IsOpen(q)' => IsOpen(q)
  BY <1>3, <1>4, <1>5 DEF IsOpen
<1> QED BY <1>1, <1>6, <1>7, <1>8, QuietStep

LEMMA CastVotesKeeps ==
    ASSUME GuardInv, NEW v \in Holders, NEW ps \in SUBSET Ids, NEW first, NEW x,
           CastVotes(v, ps, first, x)
    PROVE  GuardInv'
<1>1. /\ guard' = guard /\ RecordsOK
      /\ proposal' = [p \in Ids |-> proposal'[p]]
  BY DEF CastVotes, GuardInv
<1>2. ASSUME NEW p \in Ids, Exists(p)
      PROVE  /\ proposal'[p].status = proposal[p].status
             /\ proposal'[p].content = proposal[p].content
             /\ {"status", "content"} \subseteq DOMAIN proposal'[p]
  <2>1. {"status", "content"} \subseteq DOMAIN proposal[p]
    BY <1>1, <1>2 DEF RecordsOK
  <2>2. \/ proposal'[p] = proposal[p]
        \/ proposal'[p] = [proposal[p] EXCEPT !.votes[x] = @ + Weight(p, v)]
    BY DEF CastVotes
  <2> QED BY <2>1, <2>2
<1>3. ASSUME NEW p \in Ids, ~Exists(p)
      PROVE  proposal'[p] = proposal[p]
  <2>1. p \notin ps
    BY <1>3 DEF CastVotes, MayVote, Exists
  <2> QED BY <2>1 DEF CastVotes
<1>4. RecordsOK'
  <2>1. ASSUME NEW q \in Ids
        PROVE  /\ {"status", "content"} \subseteq DOMAIN proposal'[q] \/ ~Exists(q)'
               /\ Exists(q)' => proposal'[q].content \in Contents
    BY <1>1, <1>2, <1>3 DEF RecordsOK, Exists
  <2> QED BY <1>1, <2>1 DEF RecordsOK
<1>5. \A q \in Ids : Kept(q) /\ ExpiredKept(q)
  BY <1>2, <1>3 DEF Kept, ExpiredKept, Exists
<1>6. \A q \in Ids : IsOpen(q)' => IsOpen(q)
  BY <1>2, <1>3 DEF IsOpen
<1> QED BY <1>1, <1>4, <1>5, <1>6, QuietStep

LEMMA GuardStep ==
    ASSUME GovernanceAssumption, GuardInv, [Next]_vars PROVE GuardInv'
<1>1. CASE UNCHANGED <<proposal, guard>>
  BY <1>1 DEF GuardInv, RecordsOK, GuardLostOnlyToExpiry, IsOpen, Exists
<1>2. ASSUME NEW p \in Ids, ProposalStep(p)
      PROVE  GuardInv'
  <2>1. CASE \E h \in Holders, c \in Contents : \E deposit : Submit(h, c, deposit, p)
    BY <2>1, CreateKeeps
  <2>2. CASE Cancel(p)
    BY <2>2, ResolveKeeps DEF Cancel
  <2>3. CASE ReclaimDeposit(p)
    <3>1. IsOpen(p) /\ Resolve(p, "Failed")
      BY <2>3 DEF ReclaimDeposit, IsOpen, Open
    <3> QED BY <3>1, ResolveKeeps
  <2>4. CASE Finalize(p)
    BY <2>4, FinalizeKeeps
  <2>5. CASE ExpireExecution(p)
    BY <2>5, ExpireKeeps
  <2>6. CASE StartVoting(p) \/ Veto(p) \/ \E bps : Execute(p, bps)
    BY <2>6, OneFieldKeeps
  <2>7. CASE \E v \in Holders : WithdrawTokens(v, p)
    BY <2>7, <1>1 DEF WithdrawTokens
  <2> QED BY <1>2, <2>1, <2>2, <2>3, <2>4, <2>5, <2>6, <2>7
     DEF ProposalStep, CreateProposal, ProposeUpgrade
<1>3. ASSUME NEW v \in Holders, NEW ps \in SUBSET Ids, NEW p \in Ids,
             NEW x \in CastChoices, CastVotes(v, ps, p, x)
      PROVE  GuardInv'
  BY <1>3, CastVotesKeeps
<1>4. CASE \/ Clock \/ PowerStep \/ UNCHANGED vars
           \/ \E t \in Tokens, h \in Holders : \E amount \in 1 .. allowance[<<t, h>>] :
                DrawAllowance(t, h, amount)
           \/ \E max \in 0 .. MaxWindow : PruneParticipationHistory(max)
  BY <1>4, <1>1 DEF Clock, PowerStep, vars, DrawAllowance, PruneParticipationHistory
<1>5. ASSUME NEW c, \/ UpdateConfig(c) \/ SetQuorumDecay(c)
                    \/ SetProposalThreshold(c) \/ SetImpactMultipliers(c)
        PROVE GuardInv'
  BY <1>5, <1>1 DEF UpdateConfig, SetProposalThreshold, SetImpactMultipliers, SetQuorumDecay,
     AdminStep
<1> QED BY <1>2, <1>3, <1>4, <1>5 DEF Next

\* The duplicate check of create_proposal and propose_upgrade, where the payloads it
\* hashes are values and not handles: an open proposal keeps its ActiveProposalHash
\* entry through every finalization, cancellation and reclaim of others; only a
\* namesake that expired unexecuted may have taken it.
THEOREM GuardIsKept == ASSUME GovernanceAssumption PROVE Spec => []GuardLostOnlyToExpiry
<1>1. Init => GuardInv
  BY DEF Init, GuardInv, RecordsOK, GuardLostOnlyToExpiry, IsOpen, Open, Exists, NoProposal
<1>2. GuardInv => GuardLostOnlyToExpiry
  BY DEF GuardInv
<1> QED BY <1>1, <1>2, GuardStep, PTL DEF Spec

-----------------------------------------------------------------------------
(* Quorum. *)

\* set_quorum_decay and effective_quorum: with a floor below the configured quorum,
\* as the setter demands, decay only ever lowers the bar, and never below the
\* floor, which is at least MIN_QUORUM_BPS.  (A later update_config may move the
\* quorum below the floor; then this does not apply, and the bar is the floor.)
THEOREM DecayIsBounded ==
    ASSUME QuorumAssumption,
           NEW base \in QuorumSettings, NEW setting \in DecaySettings,
           setting.enabled, DecayAllowed(setting, base),
           NEW average \in Nat, average < base
    PROVE  /\ Decayed(base, average, StoredDecay(setting)) >= MinQuorumBps
           /\ Decayed(base, average, StoredDecay(setting)) >= setting.floor
           /\ Decayed(base, average, StoredDecay(setting)) <= base
<1> DEFINE stored == StoredDecay(setting)
           n == (base - average) \div setting.step
<1>1. /\ base \in Nat /\ MinQuorumBps \in Nat
      /\ setting.floor \in Nat /\ setting.step \in Nat \ {0}
      /\ setting.floor < base /\ setting.floor >= MinQuorumBps
  BY DEF QuorumAssumption, QuorumSettings, DecaySettings, DecayAllowed
<1>2. stored.floor = setting.floor /\ stored.step = setting.step
  BY <1>1 DEF StoredDecay, Greatest, DecaySettings
<1>3. n \in Nat
  BY <1>1
<1>4. n * setting.step \in Nat
  BY <1>1, <1>3
<1>5. Decayed(base, average, stored)
        = Greatest(Greatest(base - n * setting.step, 0), setting.floor)
  BY <1>1, <1>2 DEF Decayed, Greatest
<1> HIDE DEF n, stored
<1> QED BY <1>1, <1>4, <1>5 DEF Greatest, stored

-----------------------------------------------------------------------------
(* The types of what the DAO keeps, the delegations apart. *)

VoteRecords == [choice: VoteChoices, weight: Nat]

ProposalRecords == [proposer: Holders, content: Contents, deposit: Nat, status: Statuses,
                    votes: [VoteChoices -> Nat], created: Nat, end: Nat,
                    executionTime: Nat, deadline: Nat, supply: Nat, vetoed: BOOLEAN]

WeightingTyped ==
    /\ now \in Nat
    /\ timeWeight \in [enabled: BOOLEAN, ramp: Nat, min: Nat]
    /\ timeWeight.enabled => timeWeight.ramp > 0 /\ timeWeight.min <= FullBps
    /\ checkpoint \in [Holders -> [amount: Nat, since: Nat]]
    /\ \A h \in Holders : checkpoint[h].since <= now

BallotsTyped ==
    /\ proposal \in [Ids -> ProposalRecords \cup {NoProposal}]
    /\ vote \in [Ids \X Holders -> VoteRecords \cup {NoVote}]
    /\ swept \subseteq Ids \X Holders

BooksTyped ==
    /\ balance \in [Holders -> Nat]
    /\ locked \in [Ids \X Holders -> Nat]
    /\ treasury \in [Tokens -> Nat]
    /\ allowance \in [Tokens \X Holders -> Nat]
    /\ spent \in Nat
    /\ config \in ConfigRecords
    /\ escalation \in [Kinds -> Nat]

DaoTyped == WeightingTyped /\ BallotsTyped /\ BooksTyped

-----------------------------------------------------------------------------
(* Weights. *)

\* time_weighted: an amount counts for no more than itself.
LEMMA TimeWeightedBounded ==
    ASSUME QuorumAssumption, WeightingTyped, NEW h \in Holders, NEW amount \in Nat
    PROVE  TimeWeighted(h, amount) \in 0 .. amount
<1> DEFINE aged == Least(checkpoint[h].amount, amount)
           elapsed == Least(now - checkpoint[h].since, timeWeight.ramp)
           ramped == ((FullBps - timeWeight.min) * elapsed) \div timeWeight.ramp
           factor == timeWeight.min + ramped
<1>1. CASE ~timeWeight.enabled \/ amount <= 0
  BY <1>1 DEF TimeWeighted
<1>2. CASE timeWeight.enabled /\ amount > 0
  <2>1. /\ timeWeight.ramp \in Nat \ {0} /\ timeWeight.min \in Nat
        /\ timeWeight.min <= FullBps /\ FullBps \in Nat \ {0}
    BY <1>2 DEF WeightingTyped, QuorumAssumption
  <2>2. /\ aged \in Nat /\ aged <= amount
        /\ elapsed \in Nat /\ elapsed <= timeWeight.ramp
    BY <2>1 DEF WeightingTyped, Least
  <2>3. TimeWeighted(h, amount)
          = (aged * factor) \div FullBps
              + ((amount - aged) * timeWeight.min) \div FullBps
    BY <1>2 DEF TimeWeighted
  <2> HIDE DEF aged, elapsed
  <2>4. FullBps - timeWeight.min \in Nat
    BY <2>1
  <2>5. ramped \in 0 .. (FullBps - timeWeight.min)
    BY <2>1, <2>2, <2>4, DivShare
  <2> HIDE DEF ramped
  <2>6. factor \in Nat /\ factor <= FullBps
    BY <2>1, <2>5
  <2> HIDE DEF factor
  <2>7. (aged * factor) \div FullBps \in 0 .. aged
    BY <2>1, <2>2, <2>6, DivShare
  <2>8. amount - aged \in Nat
    BY <2>2
  <2>9. ((amount - aged) * timeWeight.min) \div FullBps \in 0 .. (amount - aged)
    BY <2>1, <2>8, DivShare
  <2> QED
    BY <2>2, <2>3, <2>7, <2>9
<1> QED
  BY <1>1, <1>2 DEF WeightingTyped

LEMMA CappedBalanceTyped ==
    ASSUME BooksTyped, NEW v \in Holders
    PROVE  CappedBalance(v) \in Nat /\ CappedBalance(v) <= balance[v]
BY DEF BooksTyped, CappedBalance, Least, ConfigRecords

\* The weight collected from delegators is an amount, nothing when none is left.
LEMMA DelegatedWeightNat ==
    ASSUME PowerAssumption, QuorumAssumption, WeightingTyped, BooksTyped,
           DelegationInv, NEW p, NEW v \in Holders
    PROVE  /\ DelegatedWeight(p, v) \in Nat
           /\ Sweepable(p, v) = {} => DelegatedWeight(p, v) = 0
<1> DEFINE weigh == [d \in Holders |-> TimeWeighted(d, balance[d])]
<1>1. Sweepable(p, v) \subseteq Holders
  BY DEF Sweepable, DelegationInv
<1>2. IsFiniteSet(Sweepable(p, v))
  BY <1>1, FS_Subset DEF PowerAssumption
<1>3. \A d \in Sweepable(p, v) : weigh[d] \in Nat
  <2>1. \A d \in Holders : TimeWeighted(d, balance[d]) \in 0 .. balance[d]
    BY TimeWeightedBounded DEF BooksTyped
  <2> QED
    BY <1>1, <2>1 DEF BooksTyped
<1>4. DelegatedWeight(p, v) = SumFunctionOnSet(weigh, Sweepable(p, v))
  BY DEF DelegatedWeight
<1> HIDE DEF weigh
<1>5. SumFunctionOnSet(weigh, Sweepable(p, v)) \in Nat
  BY <1>2, <1>3, SumNat
<1> QED
  BY <1>4, <1>5, SumEmpty

\* A vote weighs what its capped balance does, at most, and what it collected.
LEMMA WeightNat ==
    ASSUME PowerAssumption, QuorumAssumption, WeightingTyped, BooksTyped,
           DelegationInv, NEW p, NEW v \in Holders
    PROVE  /\ Weight(p, v) \in Nat
           /\ Sweepable(p, v) = {} => Weight(p, v) <= CappedBalance(v)
<1>1. CappedBalance(v) \in Nat
  BY CappedBalanceTyped
<1>2. TimeWeighted(v, CappedBalance(v)) \in 0 .. CappedBalance(v)
  BY <1>1, TimeWeightedBounded
<1>3. /\ DelegatedWeight(p, v) \in Nat
      /\ Sweepable(p, v) = {} => DelegatedWeight(p, v) = 0
  BY DelegatedWeightNat
<1> QED
  BY <1>1, <1>2, <1>3 DEF Weight

-----------------------------------------------------------------------------
(* What is invariant of the books and the ballots. *)

Unswept(p) == \A h \in Holders : <<p, h>> \notin swept
VotersFor(p, x) == {v \in Holders : HasVoted(p, v) /\ vote[<<p, v>>].choice = x}
WeightsOn(p) == [v \in Holders |-> vote[<<p, v>>].weight]

\* Nobody votes on a proposal before it exists, and the tally adds up the votes.
VotesTallied ==
    \A p \in Ids :
        /\ ~Exists(p) => \A v \in Holders : ~HasVoted(p, v)
        /\ Exists(p) => \A x \in VoteChoices :
             proposal[p].votes[x] = SumFunctionOnSet(WeightsOn(p), VotersFor(p, x))

\* Where no delegator was counted, a vote whose tokens are locked on its own
\* proposal weighs no more than these.
LoneVotesLocked ==
    \A p \in Ids, v \in Holders :
        HasVoted(p, v) /\ Unswept(p) /\ locked[<<p, v>>] > 0
            => vote[<<p, v>>].weight <= locked[<<p, v>>]

DaoInv == /\ DaoTyped
          /\ CustodyCovers
          /\ VotesTallied
          /\ LoneVotesLocked

\* What stands against the locks and deposits: the tokens the DAO holds, and those
\* that executed proposals took.
Cover == TokensHeld + spent

LEMMA CoverNat ==
    ASSUME GovernanceAssumption, BooksTyped
    PROVE  TokensHeld \in Nat /\ Cover \in Nat
<1>1. IsFiniteSet(Tokens) /\ \A t \in Tokens : treasury[t] \in Nat
  BY DEF GovernanceAssumption, BooksTyped
<1>2. TokensHeld \in Nat
  BY <1>1, SumNat DEF TokensHeld
<1> QED
  BY <1>2 DEF Cover, BooksTyped

LEMMA CoverWillBeNat ==
    ASSUME GovernanceAssumption, BooksTyped'
    PROVE  Cover' \in Nat
<1>1. IsFiniteSet(Tokens) /\ \A t \in Tokens : treasury'[t] \in Nat
  BY DEF GovernanceAssumption, BooksTyped
<1>2. TokensHeld' \in Nat
  BY <1>1, SumNat DEF TokensHeld
<1>3. spent' \in Nat
  BY DEF BooksTyped
<1>4. Cover' = TokensHeld' + spent'
  BY DEF Cover
<1>5. \A a, b \in Nat : a + b \in Nat
  OBVIOUS
<1>6. TokensHeld' + spent' \in Nat
  BY ONLY <1>2, <1>3, <1>5, Zenon
<1> QED
  BY ONLY <1>4, <1>6, Zenon

LEMMA CoverSame ==
    ASSUME treasury' = treasury, spent' = spent
    PROVE  Cover' = Cover
BY DEF Cover, TokensHeld

\* One token's balance moves, and with it what the DAO holds.
LEMMA HeldMoved ==
    ASSUME GovernanceAssumption, NEW before \in [Tokens -> Nat], NEW t \in Tokens,
           NEW after, NEW d \in Int, before[t] + d >= 0,
           after = [before EXCEPT ![t] = @ + d]
    PROVE  /\ after \in [Tokens -> Nat]
           /\ SumFunctionOnSet(after, Tokens) = SumFunctionOnSet(before, Tokens) + d
<1>1. /\ \A u \in Tokens : before[u] \in Int
      /\ \A u \in Tokens \ {t} : after[u] = before[u]
      /\ after[t] = before[t] + d /\ after[t] \in Int
      /\ after \in [Tokens -> Nat]
      /\ IsFiniteSet(Tokens)
  BY DEF GovernanceAssumption
<1>2. SumFunctionOnSet(after, Tokens) = SumFunctionOnSet(before, Tokens) - before[t] + after[t]
  BY ONLY <1>1, SumUpdate, t \in Tokens
<1>3. SumFunctionOnSet(before, Tokens) \in Int
  BY <1>1, SumInt
<1> QED
  BY <1>1, <1>2, <1>3

LEMMA InUse == ASSUME BooksTyped PROVE config.token \in Tokens
BY DEF BooksTyped, ConfigRecords

LEMMA TakeInCovers ==
    ASSUME GovernanceAssumption, BooksTyped, NEW amount \in Nat, TakeIn(amount), spent' = spent
    PROVE  treasury' \in [Tokens -> Nat] /\ Cover' = Cover + amount
<1>1. /\ config.token \in Tokens /\ treasury \in [Tokens -> Nat] /\ spent \in Nat
      /\ treasury' = [treasury EXCEPT ![config.token] = @ + amount]
  BY InUse DEF BooksTyped, TakeIn
<1>2. treasury[config.token] + amount >= 0 /\ amount \in Int
  BY <1>1
<1>3. treasury' \in [Tokens -> Nat] /\ TokensHeld' = TokensHeld + amount
  BY <1>1, <1>2, HeldMoved DEF TokensHeld
<1> QED
  BY <1>1, <1>3, CoverNat DEF Cover

LEMMA PayTyped ==
    ASSUME BooksTyped, NEW h \in Holders, NEW amount \in Nat
    PROVE  Pay(h, amount) \in [Holders -> Nat]
BY DEF BooksTyped, Pay

LEMMA PayOutCovers ==
    ASSUME GovernanceAssumption, BooksTyped, NEW h \in Holders, NEW amount \in Nat,
           PayOut(h, amount), spent' = spent
    PROVE  /\ treasury' \in [Tokens -> Nat] /\ balance' \in [Holders -> Nat]
           /\ Cover' = Cover - amount
<1>1. /\ config.token \in Tokens /\ treasury \in [Tokens -> Nat] /\ spent \in Nat
      /\ treasury' = [treasury EXCEPT ![config.token] = @ - amount]
      /\ treasury[config.token] >= amount
  BY InUse DEF BooksTyped, PayOut
<1>2. treasury[config.token] + (-amount) >= 0 /\ -amount \in Int
  BY <1>1
<1>3. treasury' = [treasury EXCEPT ![config.token] = @ + (-amount)]
  BY <1>1
<1> DEFINE d == -amount
<1>a. d \in Int /\ treasury[config.token] + d >= 0
      /\ treasury' = [treasury EXCEPT ![config.token] = @ + d]
  BY <1>2, <1>3
<1> HIDE DEF d
<1>4. treasury' \in [Tokens -> Nat] /\ TokensHeld' = TokensHeld + d
  <2>1. /\ treasury' \in [Tokens -> Nat]
        /\ SumFunctionOnSet(treasury', Tokens) = SumFunctionOnSet(treasury, Tokens) + d
    <3>1. \A before \in [Tokens -> Nat], t \in Tokens, k \in Int : before[t] + k >= 0 =>
             /\ [before EXCEPT ![t] = @ + k] \in [Tokens -> Nat]
             /\ SumFunctionOnSet([before EXCEPT ![t] = @ + k], Tokens)
                  = SumFunctionOnSet(before, Tokens) + k
      <4> SUFFICES ASSUME NEW before \in [Tokens -> Nat], NEW t \in Tokens, NEW k \in Int,
                          before[t] + k >= 0, NEW after,
                          after = [before EXCEPT ![t] = @ + k]
                   PROVE  /\ after \in [Tokens -> Nat]
                          /\ SumFunctionOnSet(after, Tokens)
                               = SumFunctionOnSet(before, Tokens) + k
        BY Zenon
      <4> QED
        BY HeldMoved
    <3>2. /\ [treasury EXCEPT ![config.token] = @ + d] \in [Tokens -> Nat]
          /\ SumFunctionOnSet([treasury EXCEPT ![config.token] = @ + d], Tokens)
               = SumFunctionOnSet(treasury, Tokens) + d
      BY ONLY <1>1, <1>a, <3>1, Zenon
    <3> QED
      BY ONLY <1>a, <3>2, Zenon
  <2> QED
    BY ONLY <2>1 DEF TokensHeld
<1>5. balance' \in [Holders -> Nat]
  BY PayTyped DEF PayOut
<1> QED
  BY <1>1, <1>4, <1>5, CoverNat DEF Cover, d

LEMMA IdsFinite ==
    ASSUME PowerAssumption, GovernanceAssumption
    PROVE  IsFiniteSet(Ids) /\ IsFiniteSet(Ids \X Holders)
<1>1. IsFiniteSet(Ids)
  BY FS_Interval DEF Ids, GovernanceAssumption
<1> QED
  BY <1>1, FS_Product DEF PowerAssumption

LEMMA RecordTyped ==
    ASSUME BallotsTyped, NEW p \in Ids
    PROVE  /\ Exists(p) => proposal[p] \in ProposalRecords
           /\ ~Exists(p) => proposal[p] = NoProposal
BY DEF BallotsTyped, Exists, ProposalRecords, NoProposal, Statuses, Open

\* The lemmas about deposits are stated of any table of records, to be used of
\* the one before a step and of the one after it.
Tables == [Ids -> ProposalRecords \cup {NoProposal}]
RefundableIn(table) == {p \in Ids : table[p].status \in Open \cup {"Passed"}}
EscrowIn(table, p) == IF p \in RefundableIn(table) THEN table[p].deposit ELSE 0
DepositsIn(table) == SumFunctionOnSet([p \in Ids |-> EscrowIn(table, p)], Ids)

LEMMA EscrowTyped ==
    ASSUME NEW table \in Tables, NEW p \in Ids
    PROVE  EscrowIn(table, p) \in Nat
<1>1. CASE p \in RefundableIn(table)
  <2>1. table[p] # NoProposal
    BY <1>1 DEF RefundableIn, Open, NoProposal
  <2>2. table[p] \in ProposalRecords
    BY <2>1 DEF Tables
  <2> QED
    BY <1>1, <2>2 DEF EscrowIn, ProposalRecords
<1> QED
  BY <1>1 DEF EscrowIn

LEMMA DepositsAdded ==
    ASSUME PowerAssumption, GovernanceAssumption, NEW table \in Tables
    PROVE  /\ SumFunctionOnSet([p \in RefundableIn(table) |-> table[p].deposit],
                               RefundableIn(table)) = DepositsIn(table)
           /\ DepositsIn(table) \in Nat
<1> DEFINE T == RefundableIn(table)
           f == [p \in T |-> table[p].deposit]
           g == [p \in Ids |-> EscrowIn(table, p)]
<1>1. T \in SUBSET Ids
  BY DEF RefundableIn
<1>2. \A p \in T : f[p] = EscrowIn(table, p)
  BY DEF EscrowIn
<1>3. \A p \in Ids : g[p] = EscrowIn(table, p) /\ g[p] \in Nat
  BY EscrowTyped
<1>4. \A p \in T : g[p] = f[p] /\ f[p] \in Int
  BY <1>1, <1>2, <1>3
<1>5. \A p \in Ids \ T : g[p] = 0
  BY <1>3 DEF EscrowIn
<1>6. DepositsIn(table) = SumFunctionOnSet(g, Ids)
  BY DEF DepositsIn
<1> HIDE DEF f, g, T
<1>7. SumFunctionOnSet(f, T) = SumFunctionOnSet(g, Ids)
  BY <1>1, <1>4, <1>5, IdsFinite, SumWhere
<1>8. SumFunctionOnSet(g, Ids) \in Nat
  BY <1>3, IdsFinite, SumNat
<1> QED
  BY <1>6, <1>7, <1>8 DEF f, T

\* A change of one record moves the deposits by what it moves of this one.
LEMMA DepositsMoved ==
    ASSUME PowerAssumption, GovernanceAssumption, NEW before \in Tables,
           NEW after \in Tables, NEW p \in Ids,
           \A q \in Ids : q # p => after[q] = before[q]
    PROVE  DepositsIn(after) = DepositsIn(before) - EscrowIn(before, p) + EscrowIn(after, p)
<1> DEFINE f == [q \in Ids |-> EscrowIn(before, q)]
           g == [q \in Ids |-> EscrowIn(after, q)]
<1>1. \A q \in Ids \ {p} : g[q] = f[q]
  BY DEF EscrowIn, RefundableIn
<1>2. \A q \in Ids : f[q] \in Int
  BY EscrowTyped
<1>3. g[p] \in Int
  BY EscrowTyped
<1>4. f[p] = EscrowIn(before, p) /\ g[p] = EscrowIn(after, p)
  OBVIOUS
<1>5. DepositsIn(before) = SumFunctionOnSet(f, Ids) /\ DepositsIn(after) = SumFunctionOnSet(g, Ids)
  BY DEF DepositsIn
<1> HIDE DEF f, g
<1>6. SumFunctionOnSet(g, Ids) = SumFunctionOnSet(f, Ids) - f[p] + g[p]
  BY <1>1, <1>2, <1>3, IdsFinite, SumUpdate
<1> QED
  BY <1>4, <1>5, <1>6

\* A change that leaves status and deposit of every record leaves the deposits.
LEMMA DepositsSame ==
    ASSUME PowerAssumption, GovernanceAssumption, NEW before \in Tables,
           NEW after \in Tables,
           \A q \in Ids : /\ after[q].status = before[q].status
                          /\ q \in RefundableIn(before) => after[q].deposit = before[q].deposit
    PROVE  DepositsIn(after) = DepositsIn(before)
<1>1. \A q \in Ids : EscrowIn(after, q) = EscrowIn(before, q)
  BY DEF EscrowIn, RefundableIn
<1> QED
  BY <1>1, IdsFinite, SumSame DEF DepositsIn

LEMMA HeldDepositsAre ==
    ASSUME PowerAssumption, GovernanceAssumption, BallotsTyped
    PROVE  HeldDeposits = DepositsIn(proposal) /\ HeldDeposits \in Nat
BY DepositsAdded DEF HeldDeposits, Refundable, RefundableIn, BallotsTyped, Tables

LEMMA HeldDepositsWillBe ==
    ASSUME PowerAssumption, GovernanceAssumption, BallotsTyped'
    PROVE  HeldDeposits' = DepositsIn(proposal')
BY DepositsAdded DEF HeldDeposits, Refundable, RefundableIn, BallotsTyped, Tables

LEMMA LockedTotalNat ==
    ASSUME PowerAssumption, GovernanceAssumption, BooksTyped
    PROVE  LockedTotal \in Nat
BY IdsFinite, SumNat DEF LockedTotal, BooksTyped

-----------------------------------------------------------------------------
(* Steps on one record: everything that happens to proposals but the votes. *)

\* What p's record may be after a step: the votes as they were, or none yet.
TallyUntouched(p) ==
    /\ Exists(p)'
    /\ Exists(p) => proposal'[p].votes = proposal[p].votes
    /\ ~Exists(p) => proposal'[p].votes = [x \in VoteChoices |-> 0]

LEMMA TalliesKept ==
    ASSUME VotesTallied, vote' = vote, NEW p \in Ids, TallyUntouched(p),
           \A q \in Ids : q # p => proposal'[q] = proposal[q]
    PROVE  VotesTallied'
<1>1. ASSUME NEW q \in Ids, NEW x \in VoteChoices, Exists(q)'
      PROVE  proposal'[q].votes[x] = SumFunctionOnSet(WeightsOn(q)', VotersFor(q, x)')
  <2>1. WeightsOn(q)' = WeightsOn(q) /\ VotersFor(q, x)' = VotersFor(q, x)
    BY DEF WeightsOn, VotersFor, HasVoted
  <2>2. CASE Exists(q)
    <3>1. proposal'[q].votes = proposal[q].votes
      BY <2>2 DEF TallyUntouched
    <3>2. proposal[q].votes[x] = SumFunctionOnSet(WeightsOn(q), VotersFor(q, x))
      BY <2>2 DEF VotesTallied
    <3> QED
      BY <2>1, <3>1, <3>2
  <2>3. CASE ~Exists(q)
    <3>1. q = p
      BY <1>1, <2>3 DEF Exists
    <3>2. VotersFor(q, x) = {}
      BY <2>3 DEF VotesTallied, VotersFor
    <3>3. proposal'[q].votes[x] = 0
      BY <2>3, <3>1 DEF TallyUntouched
    <3> QED
      BY <2>1, <3>2, <3>3, SumEmpty
  <2> QED
    BY <2>2, <2>3
<1>2. ASSUME NEW q \in Ids, ~Exists(q)'
      PROVE  \A v \in Holders : ~HasVoted(q, v)'
  <2>1. ~Exists(q)
    BY <1>2 DEF Exists, TallyUntouched
  <2> QED
    BY <2>1 DEF VotesTallied, HasVoted
<1> QED
  BY <1>1, <1>2 DEF VotesTallied

LEMMA RecordStep ==
    ASSUME PowerAssumption, GovernanceAssumption, DaoInv, NEW p \in Ids,
           proposal' \in Tables, \A q \in Ids : q # p => proposal'[q] = proposal[q],
           TallyUntouched(p), UNCHANGED ballotVars, WeightingTyped', BooksTyped',
           Cover' - Cover >= EscrowIn(proposal', p) - EscrowIn(proposal, p)
    PROVE  DaoInv'
<1>1. DaoTyped'
  BY DEF DaoInv, DaoTyped, BallotsTyped, Tables, ballotVars
<1>2. VotesTallied'
  BY TalliesKept DEF DaoInv, ballotVars
<1>3. LoneVotesLocked'
  BY DEF DaoInv, LoneVotesLocked, HasVoted, Unswept, ballotVars
<1>4. CustodyCovers'
  <2>1. proposal \in Tables
    BY DEF DaoInv, DaoTyped, BallotsTyped, Tables
  <2>2. DepositsIn(proposal')
          = DepositsIn(proposal) - EscrowIn(proposal, p) + EscrowIn(proposal', p)
    BY <2>1, DepositsMoved
  <2>3. HeldDeposits = DepositsIn(proposal) /\ HeldDeposits \in Nat
    BY HeldDepositsAre DEF DaoInv, DaoTyped
  <2>4. HeldDeposits' = DepositsIn(proposal')
    BY <1>1, HeldDepositsWillBe DEF DaoTyped
  <2>5. LockedTotal' = LockedTotal /\ LockedTotal \in Nat
    BY LockedTotalNat DEF DaoInv, DaoTyped, LockedTotal, ballotVars
  <2>6. EscrowIn(proposal, p) \in Nat /\ EscrowIn(proposal', p) \in Nat
    BY <2>1, EscrowTyped
  <2>7. Cover \in Nat /\ Cover' \in Nat
    BY CoverNat, CoverWillBeNat DEF DaoInv, DaoTyped
  <2>8. Cover >= LockedTotal + HeldDeposits
    BY DEF DaoInv, CustodyCovers, Cover
  <2>9. Cover' >= LockedTotal' + HeldDeposits'
    BY <2>2, <2>3, <2>4, <2>5, <2>6, <2>7, <2>8
  <2> QED
    BY <2>9 DEF CustodyCovers, Cover
<1> QED
  BY <1>1, <1>2, <1>3, <1>4 DEF DaoInv

\* Setting the status of an existing proposal, or another field the tally and the
\* deposit do not depend on.
LEMMA FieldChange ==
    ASSUME proposal \in Tables, NEW p \in Ids, Exists(p), NEW r \in ProposalRecords,
           proposal' = [proposal EXCEPT ![p] = r],
           r.votes = proposal[p].votes
    PROVE  /\ proposal' \in Tables
           /\ proposal'[p] = r
           /\ \A q \in Ids : q # p => proposal'[q] = proposal[q]
           /\ TallyUntouched(p)
<1>1. /\ proposal' \in Tables
      /\ proposal'[p] = r
      /\ \A q \in Ids : q # p => proposal'[q] = proposal[q]
  BY DEF Tables
<1>2. r.status # "None"
  BY DEF ProposalRecords, Statuses, Open
<1> QED
  BY <1>1, <1>2 DEF TallyUntouched, Exists

LEMMA EscrowBy ==
    ASSUME NEW table, NEW p \in Ids
    PROVE  /\ table[p].status \in Open \cup {"Passed"} => EscrowIn(table, p) = table[p].deposit
           /\ table[p].status \notin Open \cup {"Passed"} => EscrowIn(table, p) = 0
BY DEF EscrowIn, RefundableIn

LEMMA WeightingKept ==
    ASSUME WeightingTyped, now' = now, UNCHANGED weightVars
    PROVE  WeightingTyped'
BY DEF WeightingTyped, weightVars

LEMMA ThresholdNat ==
    ASSUME QuorumAssumption, BooksTyped, NEW kind \in Kinds
    PROVE  EffectiveThreshold(kind) \in Nat
<1>1. config.threshold \in Nat /\ escalation[kind] \in Nat /\ FullBps \in Nat \ {0}
  BY DEF QuorumAssumption, BooksTyped, ConfigRecords
<1>2. config.threshold * escalation[kind] \in Nat
  BY <1>1
<1>3. \A a \in Nat, b \in Nat \ {0} : a \div b \in Nat
  BY SMT
<1> QED
  BY <1>1, <1>2, <1>3 DEF EffectiveThreshold

LEMMA SubmitKeepsBooks ==
    ASSUME PowerAssumption, GovernanceAssumption, DaoInv, NEW h \in Holders,
           NEW c \in Contents, NEW deposit \in Nat, NEW p \in Ids, Submit(h, c, deposit, p)
    PROVE  DaoInv'
<1> DEFINE end == now + config.discussion + config.voting
           r == [proposer |-> h, content |-> c, deposit |-> deposit,
                 status |-> IF config.discussion > 0 THEN "Discussion" ELSE "Active",
                 votes |-> [x \in VoteChoices |-> 0], created |-> now, end |-> end,
                 executionTime |-> 0,
                 deadline |-> end + FinalizeDelay + ExecutionWindow,
                 supply |-> config.supply, vetoed |-> FALSE]
<1>1. /\ ~Exists(p) /\ balance[h] >= deposit
      /\ proposal' = [proposal EXCEPT ![p] = r]
      /\ balance' = [balance EXCEPT ![h] = @ - deposit]
      /\ TakeIn(deposit)
      /\ now' = now /\ UNCHANGED weightVars /\ UNCHANGED ballotVars
      /\ config' = config /\ escalation' = escalation
      /\ allowance' = allowance /\ spent' = spent
  BY DEF Submit, settingVars, adminVars, callVars
<1>2. /\ WeightingTyped /\ BooksTyped /\ proposal \in Tables
      /\ locked' = locked
  BY <1>1 DEF DaoInv, DaoTyped, BallotsTyped, BooksTyped, Tables, ballotVars
<1>3. r \in ProposalRecords /\ r.deposit = deposit /\ r.status \in Open
      /\ r.votes = [x \in VoteChoices |-> 0]
  <2>1. /\ config.discussion \in Nat /\ config.voting \in Nat /\ config.supply \in Nat
        /\ now \in Nat
    BY <1>2 DEF WeightingTyped, BooksTyped, ConfigRecords
  <2>2. end \in Nat /\ end + FinalizeDelay + ExecutionWindow \in Nat
    BY <2>1 DEF GovernanceAssumption
  <2> HIDE DEF end
  <2>3. r.status \in Open /\ Open \subseteq Statuses
    BY DEF Open, Statuses
  <2>4. [x \in VoteChoices |-> 0] \in [VoteChoices -> Nat]
    OBVIOUS
  <2> QED
    BY <2>1, <2>2, <2>3, <2>4 DEF ProposalRecords
<1> HIDE DEF r
<1>4. /\ proposal' \in Tables /\ proposal'[p] = r
      /\ \A q \in Ids : q # p => proposal'[q] = proposal[q]
  BY <1>1, <1>2, <1>3 DEF Tables
<1>5. TallyUntouched(p)
  BY <1>1, <1>3, <1>4 DEF TallyUntouched, Exists, Open
<1>6. WeightingTyped'
  BY <1>1, <1>2, WeightingKept
<1>7. BooksTyped' /\ Cover' = Cover + deposit
  <2>1. treasury' \in [Tokens -> Nat] /\ Cover' = Cover + deposit
    BY <1>1, <1>2, TakeInCovers
  <2> QED
    BY <1>1, <1>2, <2>1 DEF BooksTyped
<1>8. EscrowIn(proposal', p) = deposit /\ EscrowIn(proposal, p) = 0
  <2>1. proposal[p].status = "None"
    BY <1>1 DEF Exists
  <2> QED
    BY <1>3, <1>4, <2>1, EscrowBy DEF Open
<1>9. Cover' - Cover >= EscrowIn(proposal', p) - EscrowIn(proposal, p)
  BY <1>2, <1>7, <1>8, CoverNat
<1> QED
  BY <1>1, <1>4, <1>5, <1>6, <1>7, <1>9, RecordStep

\* A status that ends a proposal releases its deposit; what the cover loses by it is
\* at most the deposit.
LEMMA EndKeepsBooks ==
    ASSUME PowerAssumption, GovernanceAssumption, DaoInv, NEW p \in Ids, Exists(p),
           proposal[p].status \in Open \cup {"Passed"},
           NEW s \in {"Failed", "Cancelled", "Expired", "Executed"},
           proposal' = [proposal EXCEPT ![p].status = s],
           balance' \in [Holders -> Nat], treasury' \in [Tokens -> Nat],
           allowance' \in [Tokens \X Holders -> Nat], spent' \in Nat,
           Cover' >= Cover - proposal[p].deposit,
           now' = now, UNCHANGED weightVars, UNCHANGED ballotVars,
           config' = config, escalation' = escalation
    PROVE  DaoInv'
<1> DEFINE r == [proposal[p] EXCEPT !.status = s]
<1>1. /\ WeightingTyped /\ BooksTyped /\ proposal \in Tables
      /\ locked' = locked
  BY DEF DaoInv, DaoTyped, BallotsTyped, BooksTyped, Tables, ballotVars
<1>2. proposal[p] \in ProposalRecords
  BY RecordTyped DEF DaoInv, DaoTyped
<1>3. /\ r \in ProposalRecords /\ r.votes = proposal[p].votes
      /\ r.deposit = proposal[p].deposit /\ r.status = s
  BY <1>2 DEF ProposalRecords, Statuses
<1>4. proposal' = [proposal EXCEPT ![p] = r]
  BY <1>1 DEF Tables
<1> HIDE DEF r
<1>5. /\ proposal' \in Tables /\ proposal'[p] = r
      /\ \A q \in Ids : q # p => proposal'[q] = proposal[q]
      /\ TallyUntouched(p)
  BY ONLY <1>1, <1>3, <1>4, FieldChange, p \in Ids, Exists(p)
<1>6. WeightingTyped'
  BY <1>1, WeightingKept
<1>7. proposal[p].proposer \in Holders /\ proposal[p].deposit \in Nat
  BY <1>2 DEF ProposalRecords
<1>8. BooksTyped'
  BY <1>1 DEF BooksTyped
<1>9. Cover \in Nat /\ Cover' \in Nat
  BY <1>1, <1>8, CoverNat, CoverWillBeNat
<1>10. EscrowIn(proposal', p) = 0 /\ EscrowIn(proposal, p) = proposal[p].deposit
  <2>1. s \notin Open \cup {"Passed"}
    BY DEF Open
  <2>2. proposal'[p].status \notin Open \cup {"Passed"}
    BY ONLY <1>3, <1>5, <2>1
  <2> QED
    BY ONLY <2>2, EscrowBy, p \in Ids, proposal[p].status \in Open \cup {"Passed"}
<1>11. Cover' - Cover >= EscrowIn(proposal', p) - EscrowIn(proposal, p)
  BY <1>7, <1>9, <1>10
<1> QED
  BY <1>5, <1>6, <1>8, <1>11, RecordStep

LEMMA ResolveKeepsBooks ==
    ASSUME PowerAssumption, GovernanceAssumption, DaoInv, NEW p \in Ids, IsOpen(p),
           NEW s \in {"Failed", "Cancelled"}, Resolve(p, s),
           now' = now, UNCHANGED weightVars, UNCHANGED ballotVars, UNCHANGED callVars,
           config' = config, escalation' = escalation
    PROVE  DaoInv'
<1>1. Exists(p) /\ proposal[p].status \in Open \cup {"Passed"}
  BY DEF IsOpen, Exists, Open
<1>2. proposal[p].deposit \in Nat /\ proposal[p].proposer \in Holders
  BY <1>1, RecordTyped DEF DaoInv, DaoTyped, ProposalRecords
<1>3. BooksTyped
  BY DEF DaoInv, DaoTyped
<1>4. s \in {"Failed", "Cancelled", "Expired", "Executed"}
  OBVIOUS
<1>5. /\ proposal' = [proposal EXCEPT ![p].status = s]
      /\ PayOut(proposal[p].proposer, proposal[p].deposit)
      /\ allowance' = allowance /\ spent' = spent
  BY DEF Resolve, callVars
<1>6. /\ treasury' \in [Tokens -> Nat] /\ balance' \in [Holders -> Nat]
      /\ Cover' = Cover - proposal[p].deposit
  BY <1>2, <1>3, <1>5, PayOutCovers
<1>7. allowance' \in [Tokens \X Holders -> Nat] /\ spent' \in Nat
  BY <1>3, <1>5 DEF BooksTyped
<1>8. Cover' >= Cover - proposal[p].deposit
  BY <1>2, <1>3, <1>6, CoverNat
<1> QED
  BY <1>1, <1>4, <1>5, <1>6, <1>7, <1>8, EndKeepsBooks

\* A change of p's record that keeps its deposit where it is.
LEMMA FieldKeepsBooks ==
    ASSUME PowerAssumption, GovernanceAssumption, DaoInv, NEW p \in Ids, Exists(p),
           NEW r \in ProposalRecords, proposal' = [proposal EXCEPT ![p] = r],
           r.votes = proposal[p].votes, r.deposit = proposal[p].deposit,
           \/ r.status = proposal[p].status
           \/ IsOpen(p) /\ r.status \in Open \cup {"Passed"},
           balance' = balance, treasury' = treasury, UNCHANGED callVars,
           now' = now, UNCHANGED weightVars, UNCHANGED ballotVars,
           config' = config, escalation' = escalation
    PROVE  DaoInv'
<1>1. /\ WeightingTyped /\ BooksTyped /\ proposal \in Tables
      /\ allowance' = allowance /\ spent' = spent /\ locked' = locked
      /\ Cover' = Cover /\ Cover \in Nat
  BY CoverNat, CoverSame
     DEF DaoInv, DaoTyped, BallotsTyped, BooksTyped, Tables, ballotVars, callVars
<1>2. /\ proposal' \in Tables /\ proposal'[p] = r
      /\ \A q \in Ids : q # p => proposal'[q] = proposal[q]
      /\ TallyUntouched(p)
  BY <1>1, FieldChange
<1>3. WeightingTyped' /\ BooksTyped'
  BY <1>1, WeightingKept DEF BooksTyped
<1>4. EscrowIn(proposal', p) = EscrowIn(proposal, p)
  <2>1. CASE r.status = proposal[p].status
    BY <1>2, <2>1 DEF EscrowIn, RefundableIn
  <2>2. CASE IsOpen(p) /\ r.status \in Open \cup {"Passed"}
    <3>1. proposal'[p].status \in Open \cup {"Passed"}
      BY <1>2, <2>2
    <3>2. EscrowIn(proposal', p) = r.deposit
      BY <1>2, <3>1 DEF EscrowIn, RefundableIn
    <3>3. EscrowIn(proposal, p) = proposal[p].deposit
      BY <2>2 DEF EscrowIn, RefundableIn, IsOpen
    <3> QED
      BY <3>2, <3>3
  <2> QED
    BY <2>1, <2>2
<1>5. EscrowIn(proposal, p) \in Nat
  BY <1>1, EscrowTyped
<1>6. Cover' - Cover >= EscrowIn(proposal', p) - EscrowIn(proposal, p)
  BY <1>1, <1>4, <1>5
<1> QED
  BY <1>2, <1>3, <1>6, RecordStep

-----------------------------------------------------------------------------
(* The steps of one proposal, one by one. *)

LEMMA StartVotingKeepsBooks ==
    ASSUME PowerAssumption, GovernanceAssumption, DaoInv, NEW p \in Ids, StartVoting(p)
    PROVE  DaoInv'
<1> DEFINE r == [proposal[p] EXCEPT !.status = "Active"]
<1>1. /\ Exists(p) /\ IsOpen(p) /\ proposal[p] \in ProposalRecords
      /\ proposal \in Tables
  BY RecordTyped DEF StartVoting, Exists, IsOpen, Open, DaoInv, DaoTyped, BallotsTyped, Tables
<1>2. /\ r \in ProposalRecords /\ r.votes = proposal[p].votes
      /\ r.deposit = proposal[p].deposit /\ r.status \in Open \cup {"Passed"}
  BY <1>1 DEF ProposalRecords, Statuses, Open
<1>3. proposal' = [proposal EXCEPT ![p] = r]
  BY DEF StartVoting
<1>4. /\ balance' = balance /\ treasury' = treasury /\ now' = now
      /\ UNCHANGED weightVars /\ UNCHANGED ballotVars /\ UNCHANGED callVars
      /\ config' = config /\ escalation' = escalation
  BY DEF StartVoting, powerVars, settingVars, adminVars
<1> HIDE DEF r
<1> QED
  BY <1>1, <1>2, <1>3, <1>4, FieldKeepsBooks

LEMMA VetoKeepsBooks ==
    ASSUME PowerAssumption, GovernanceAssumption, DaoInv, NEW p \in Ids, Veto(p)
    PROVE  DaoInv'
<1> DEFINE r == [proposal[p] EXCEPT !.vetoed = TRUE]
<1>1. Exists(p) /\ proposal[p] \in ProposalRecords
  BY RecordTyped DEF Veto, DaoInv, DaoTyped
<1>2. /\ r \in ProposalRecords /\ r.votes = proposal[p].votes
      /\ r.deposit = proposal[p].deposit /\ r.status = proposal[p].status
  BY <1>1 DEF ProposalRecords
<1>3. proposal' = [proposal EXCEPT ![p] = r]
  BY DEF Veto
<1>4. /\ balance' = balance /\ treasury' = treasury /\ now' = now
      /\ UNCHANGED weightVars /\ UNCHANGED ballotVars /\ UNCHANGED callVars
      /\ config' = config /\ escalation' = escalation
  BY DEF Veto, powerVars, adminVars
<1> HIDE DEF r
<1> QED
  BY <1>1, <1>2, <1>3, <1>4, FieldKeepsBooks

LEMMA CancelKeepsBooks ==
    ASSUME PowerAssumption, GovernanceAssumption, DaoInv, NEW p \in Ids, Cancel(p)
    PROVE  DaoInv'
<1>1. IsOpen(p) /\ Resolve(p, "Cancelled")
  BY DEF Cancel
<1>2. /\ now' = now /\ UNCHANGED weightVars /\ UNCHANGED ballotVars
      /\ UNCHANGED callVars
      /\ config' = config /\ escalation' = escalation
  BY DEF Cancel, adminVars
<1> QED
  BY <1>1, <1>2, ResolveKeepsBooks

LEMMA ReclaimKeepsBooks ==
    ASSUME PowerAssumption, GovernanceAssumption, DaoInv, NEW p \in Ids, ReclaimDeposit(p)
    PROVE  DaoInv'
<1>1. IsOpen(p) /\ Resolve(p, "Failed")
  BY DEF ReclaimDeposit, IsOpen, Open
<1>2. /\ now' = now /\ UNCHANGED weightVars /\ UNCHANGED ballotVars
      /\ UNCHANGED callVars
      /\ config' = config /\ escalation' = escalation
  BY DEF ReclaimDeposit, settingVars, adminVars
<1> QED
  BY <1>1, <1>2, ResolveKeepsBooks

LEMMA FinalizeKeepsBooks ==
    ASSUME PowerAssumption, GovernanceAssumption, DaoInv, NEW p \in Ids, Finalize(p)
    PROVE  DaoInv'
<1>1. Exists(p) /\ IsOpen(p) /\ proposal[p] \in ProposalRecords
  BY RecordTyped DEF Finalize, Exists, IsOpen, Open, DaoInv, DaoTyped
<1>2. /\ now' = now /\ UNCHANGED weightVars /\ UNCHANGED ballotVars
      /\ UNCHANGED callVars
      /\ config' = config /\ escalation' = escalation
  BY DEF Finalize, settingVars, adminVars
<1>3. CASE Resolve(p, "Failed")
  BY <1>1, <1>2, <1>3, ResolveKeepsBooks
<1>4. CASE /\ proposal' = [proposal EXCEPT ![p].status = "Passed",
                                           ![p].executionTime = now + config.timelock]
           /\ UNCHANGED <<balance, treasury>>
  <2> DEFINE r == [proposal[p] EXCEPT !.status = "Passed",
                                      !.executionTime = now + config.timelock]
  <2>1. now + config.timelock \in Nat
    BY DEF DaoInv, DaoTyped, WeightingTyped, BooksTyped, ConfigRecords
  <2>2. /\ r \in ProposalRecords /\ r.votes = proposal[p].votes
        /\ r.deposit = proposal[p].deposit /\ r.status = "Passed"
    BY <1>1, <2>1 DEF ProposalRecords, Statuses
  <2>3. proposal' = [proposal EXCEPT ![p] = r]
    BY <1>4 DEF DaoInv, DaoTyped, BallotsTyped
  <2> HIDE DEF r
  <2> QED
    BY <1>1, <1>2, <1>4, <2>2, <2>3, FieldKeepsBooks
<1> QED
  BY <1>3, <1>4 DEF Finalize

LEMMA ExpireKeepsBooks ==
    ASSUME PowerAssumption, GovernanceAssumption, DaoInv, NEW p \in Ids, ExpireExecution(p)
    PROVE  DaoInv'
<1>1. /\ Exists(p) /\ proposal[p] \in ProposalRecords
      /\ proposal[p].status \in Open \cup {"Passed"}
  BY RecordTyped DEF ExpireExecution, MayExecute, Exists, DaoInv, DaoTyped
<1>2. /\ balance' = balance /\ treasury' = treasury /\ allowance' = allowance /\ spent' = spent
      /\ now' = now /\ UNCHANGED weightVars /\ UNCHANGED ballotVars
      /\ config' = config /\ escalation' = escalation
      /\ proposal' = [proposal EXCEPT ![p].status = "Expired"]
  BY DEF ExpireExecution, powerVars, settingVars, adminVars, callVars
<1>3. /\ balance' \in [Holders -> Nat] /\ treasury' \in [Tokens -> Nat]
      /\ allowance' \in [Tokens \X Holders -> Nat] /\ spent' \in Nat
  BY <1>2 DEF DaoInv, DaoTyped, BooksTyped
<1>4. Cover' >= Cover - proposal[p].deposit
  <2>1. proposal[p].deposit \in Nat
    BY <1>1 DEF ProposalRecords
  <2>2. Cover' = Cover /\ Cover \in Nat
    BY <1>2, CoverNat, CoverSame DEF DaoInv, DaoTyped
  <2> QED
    BY <2>1, <2>2
<1>5. "Expired" \in {"Failed", "Cancelled", "Expired", "Executed"}
  OBVIOUS
<1> QED
  BY <1>1, <1>2, <1>3, <1>4, <1>5, EndKeepsBooks

\* execute: what the call takes of the DAO's tokens is spent, and the target's share
\* of the deposit goes back; the rest of it is forfeited.
LEMMA ExecuteKeepsBooks ==
    ASSUME QuorumAssumption, PowerAssumption, GovernanceAssumption, DaoInv, NEW p \in Ids,
           NEW bps \in ExecutionBps, Execute(p, bps)
    PROVE  DaoInv'
<1> DEFINE call == Calls[proposal[p].content]
           refund == (proposal[p].deposit * bps) \div FullBps
           left == [treasury EXCEPT ![call.token] = @ - Moved(call)]
<1>1. /\ MayExecute(p)
      /\ treasury[call.token] >= Moved(call) /\ left[config.token] >= refund
      /\ proposal' = [proposal EXCEPT ![p].status = "Executed"]
      /\ treasury' = [left EXCEPT ![config.token] = @ - refund]
      /\ balance' = [Received(call.token, call.to, Moved(call))
                        EXCEPT ![proposal[p].proposer] = @ + refund]
      /\ spent' = spent + Moved(call) /\ allowance' = Approved(call)
      /\ now' = now /\ UNCHANGED weightVars /\ UNCHANGED ballotVars
      /\ UNCHANGED settingVars
  BY Zenon DEF Execute
<1>2. /\ Exists(p) /\ proposal[p] \in ProposalRecords
      /\ proposal[p].status \in Open \cup {"Passed"}
      /\ config' = config /\ escalation' = escalation
  BY <1>1, RecordTyped DEF MayExecute, Exists, DaoInv, DaoTyped, settingVars, adminVars
<1>3. /\ proposal[p].deposit \in Nat /\ proposal[p].proposer \in Holders
      /\ proposal[p].content \in Contents
  BY <1>2 DEF ProposalRecords
<1>4. call \in CallRecords
  BY <1>3 DEF GovernanceAssumption
<1> HIDE DEF call
<1>5. call.token \in Tokens /\ call.to \in Holders /\ call.amount \in Nat
  BY <1>4 DEF CallRecords
<1>6. Moved(call) \in Nat
  BY <1>5 DEF Moved
<1>7. FullBps \in Nat \ {0} /\ bps \in Nat /\ bps <= FullBps
  BY DEF QuorumAssumption, GovernanceAssumption
<1>8. refund \in 0 .. proposal[p].deposit
  BY <1>3, <1>7, DivShare
<1> HIDE DEF refund
<1>9. /\ BooksTyped /\ config.token \in Tokens /\ spent \in Nat
      /\ treasury \in [Tokens -> Nat] /\ balance \in [Holders -> Nat]
      /\ allowance \in [Tokens \X Holders -> Nat]
  BY InUse DEF DaoInv, DaoTyped, BooksTyped
<1>10. /\ left \in [Tokens -> Nat]
       /\ SumFunctionOnSet(left, Tokens) = TokensHeld + (-Moved(call))
  <2>1. left = [treasury EXCEPT ![call.token] = @ + (-Moved(call))]
    BY <1>5, <1>6, <1>9
  <2>2. treasury[call.token] + (-Moved(call)) >= 0 /\ -Moved(call) \in Int
    BY <1>1, <1>5, <1>6, <1>9
  <2> HIDE DEF left
  <2> QED
    BY <1>5, <1>9, <2>1, <2>2, HeldMoved DEF TokensHeld
<1> HIDE DEF left
<1>11. /\ treasury' \in [Tokens -> Nat]
       /\ TokensHeld' = TokensHeld + (-Moved(call)) + (-refund)
  <2>1. treasury' = [left EXCEPT ![config.token] = @ + (-refund)]
    BY <1>1, <1>8, <1>9, <1>10
  <2>2. left[config.token] + (-refund) >= 0 /\ -refund \in Int
    BY <1>1, <1>8, <1>9, <1>10
  <2>3. /\ treasury' \in [Tokens -> Nat]
        /\ SumFunctionOnSet(treasury', Tokens) = SumFunctionOnSet(left, Tokens) + (-refund)
    BY <1>9, <1>10, <2>1, <2>2, HeldMoved
  <2> QED
    BY <1>10, <2>3 DEF TokensHeld
<1>12. balance' \in [Holders -> Nat]
  <2>1. Received(call.token, call.to, Moved(call)) \in [Holders -> Nat]
    BY <1>5, <1>6, <1>9, PayTyped DEF Received
  <2> QED
    BY <1>1, <1>3, <1>8, <2>1
<1>13. allowance' \in [Tokens \X Holders -> Nat] /\ spent' \in Nat
  <2>1. Approved(call) \in [Tokens \X Holders -> Nat]
    BY <1>5, <1>9 DEF Approved
  <2> QED
    BY <1>1, <1>6, <1>9, <2>1
<1>14. Cover' >= Cover - proposal[p].deposit
  BY <1>1, <1>3, <1>6, <1>8, <1>9, <1>11, CoverNat DEF Cover
<1>15. "Executed" \in {"Failed", "Cancelled", "Expired", "Executed"}
  OBVIOUS
<1> QED
  BY <1>1, <1>2, <1>11, <1>12, <1>13, <1>14, <1>15, EndKeepsBooks

LEMMA WithdrawKeepsBooks ==
    ASSUME PowerAssumption, GovernanceAssumption, DaoInv, NEW p \in Ids, NEW v \in Holders,
           WithdrawTokens(v, p)
    PROVE  DaoInv'
<1> DEFINE pv == <<p, v>>
<1>1. /\ locked[pv] > 0
      /\ locked' = [locked EXCEPT ![pv] = 0]
      /\ PayOut(v, locked[pv])
      /\ allowance' = allowance /\ spent' = spent
      /\ proposal' = proposal /\ vote' = vote /\ swept' = swept
      /\ now' = now /\ UNCHANGED weightVars
      /\ config' = config /\ escalation' = escalation
  BY DEF WithdrawTokens, settingVars, adminVars, callVars
<1>2. /\ WeightingTyped /\ BallotsTyped /\ BooksTyped
      /\ locked \in [Ids \X Holders -> Nat]
      /\ pv \in Ids \X Holders /\ locked[pv] \in Nat
  BY DEF DaoInv, DaoTyped, BooksTyped
<1> HIDE DEF pv
<1>3. DaoTyped'
  <2>1. WeightingTyped'
    BY <1>1, <1>2, WeightingKept
  <2>2. BallotsTyped'
    BY <1>1, <1>2 DEF BallotsTyped
  <2>3. treasury' \in [Tokens -> Nat] /\ balance' \in [Holders -> Nat]
    BY <1>1, <1>2, PayOutCovers
  <2>4. BooksTyped'
    BY <1>1, <1>2, <2>3 DEF BooksTyped
  <2> QED
    BY <2>1, <2>2, <2>4 DEF DaoTyped
<1>4. CustodyCovers'
  <2>1. LockedTotal' = LockedTotal - locked[pv] + 0
    <3>1. \A x \in Ids \X Holders : locked[x] \in Int
      BY <1>2
    <3>2. locked'[pv] = 0 /\ \A x \in (Ids \X Holders) \ {pv} : locked'[x] = locked[x]
      BY <1>1, <1>2
    <3> QED
      BY <1>2, <3>1, <3>2, IdsFinite, SumUpdate DEF LockedTotal
  <2>2. HeldDeposits' = HeldDeposits /\ HeldDeposits \in Nat
    BY <1>1, <1>2, HeldDepositsAre DEF HeldDeposits, Refundable
  <2>3. LockedTotal \in Nat
    BY <1>2, LockedTotalNat
  <2>4. Cover >= LockedTotal + HeldDeposits /\ Cover \in Nat
    BY <1>2, CoverNat DEF DaoInv, CustodyCovers, Cover
  <2>5. Cover' = Cover - locked[pv]
    BY <1>1, <1>2, PayOutCovers
  <2>6. Cover' >= LockedTotal' + HeldDeposits'
    BY <1>2, <2>1, <2>2, <2>3, <2>4, <2>5
  <2> QED
    BY <2>6 DEF CustodyCovers, Cover
<1>5. VotesTallied'
  BY <1>1 DEF DaoInv, VotesTallied, Exists, HasVoted, WeightsOn, VotersFor
<1>6. LoneVotesLocked'
  <2>1. ASSUME NEW q \in Ids, NEW w \in Holders, HasVoted(q, w)', Unswept(q)',
               locked'[<<q, w>>] > 0
        PROVE  vote'[<<q, w>>].weight <= locked'[<<q, w>>]
    <3>1. <<q, w>> # pv
      BY <1>1, <1>2, <2>1
    <3>2. locked'[<<q, w>>] = locked[<<q, w>>]
      BY <1>1, <1>2, <3>1
    <3> QED
      BY <1>1, <2>1, <3>2 DEF DaoInv, LoneVotesLocked, HasVoted, Unswept
  <2> QED
    BY <2>1 DEF LoneVotesLocked
<1> QED
  BY <1>3, <1>4, <1>5, <1>6 DEF DaoInv

-----------------------------------------------------------------------------
(* vote and vote_batch. *)

\* What the votes of v on ps do to the records, and what to the ballots.
CastOnRecords(v, ps, x) ==
    /\ \A p \in Ids \ ps : proposal'[p] = proposal[p]
    /\ \A p \in ps :
         /\ Exists(p) /\ ~HasVoted(p, v)
         /\ Weight(p, v) \in Nat
         /\ Sweepable(p, v) = {} => Weight(p, v) <= CappedBalance(v)
         /\ proposal'[p].status = proposal[p].status
         /\ proposal'[p].deposit = proposal[p].deposit
         /\ proposal'[p].votes = [proposal[p].votes EXCEPT ![x] = @ + Weight(p, v)]

CastOnBallots(v, ps, first, x) ==
    \A p \in Ids, h \in Holders :
        IF p \in ps /\ h = v
        THEN /\ HasVoted(p, h)'
             /\ vote'[<<p, h>>].choice = x
             /\ vote'[<<p, h>>].weight = Weight(p, v)
             /\ locked'[<<p, h>>] = Lock(p, first, CappedBalance(v))
        ELSE /\ vote'[<<p, h>>] = vote[<<p, h>>]
             /\ locked'[<<p, h>>] = locked[<<p, h>>]

LEMMA CastRecords ==
    ASSUME QuorumAssumption, PowerAssumption, GovernanceAssumption, DelegationInv, DaoInv,
           NEW v \in Holders, NEW ps \in SUBSET Ids, NEW first \in Ids,
           NEW x \in VoteChoices, CastVotes(v, ps, first, x)
    PROVE  /\ proposal' \in Tables
           /\ CastOnRecords(v, ps, x)
<1>1. /\ proposal \in Tables /\ WeightingTyped /\ BooksTyped /\ BallotsTyped
  BY DEF DaoInv, DaoTyped, BallotsTyped, Tables
<1>2. ASSUME NEW p \in ps
      PROVE  /\ Exists(p) /\ ~HasVoted(p, v)
             /\ Weight(p, v) \in Nat
             /\ Sweepable(p, v) = {} => Weight(p, v) <= CappedBalance(v)
             /\ proposal'[p] \in ProposalRecords
             /\ proposal'[p].status = proposal[p].status
             /\ proposal'[p].deposit = proposal[p].deposit
             /\ proposal'[p].votes = [proposal[p].votes EXCEPT ![x] = @ + Weight(p, v)]
  <2>1. Exists(p) /\ ~HasVoted(p, v) /\ p \in Ids
    BY DEF CastVotes, MayVote, Exists
  <2>2. proposal[p] \in ProposalRecords
    BY <1>1, <2>1, RecordTyped
  <2>3. /\ Weight(p, v) \in Nat
        /\ Sweepable(p, v) = {} => Weight(p, v) <= CappedBalance(v)
    BY <1>1, WeightNat
  <2> DEFINE w == Weight(p, v)
             tally == [proposal[p].votes EXCEPT ![x] = @ + w]
  <2>4. proposal'[p] = [proposal[p] EXCEPT !.votes = tally]
    BY <2>1 DEF CastVotes
  <2>5. w \in Nat
    BY <2>3
  <2> HIDE DEF w
  <2>6. tally \in [VoteChoices -> Nat]
    BY <2>2, <2>5 DEF ProposalRecords
  <2>7. tally = [proposal[p].votes EXCEPT ![x] = @ + Weight(p, v)]
    BY DEF w
  <2> HIDE DEF tally
  <2>8. /\ proposal'[p] \in ProposalRecords /\ proposal'[p].status = proposal[p].status
        /\ proposal'[p].deposit = proposal[p].deposit /\ proposal'[p].votes = tally
    BY <2>2, <2>4, <2>6 DEF ProposalRecords
  <2> QED
    BY <2>1, <2>3, <2>7, <2>8
<1>3. \A p \in Ids \ ps : proposal'[p] = proposal[p]
  BY DEF CastVotes
<1>4. DOMAIN proposal' = Ids /\ proposal' = [p \in Ids |-> proposal'[p]]
  BY DEF CastVotes
<1>5. proposal' \in Tables
  BY <1>1, <1>2, <1>3, <1>4 DEF Tables
<1> QED
  BY <1>2, <1>3, <1>5 DEF CastOnRecords

LEMMA CastBallots ==
    ASSUME DaoInv, NEW v \in Holders, NEW ps \in SUBSET Ids, NEW first \in Ids,
           NEW x \in VoteChoices, CastVotes(v, ps, first, x),
           \A p \in ps : Weight(p, v) \in Nat
    PROVE  /\ vote' \in [Ids \X Holders -> VoteRecords \cup {NoVote}]
           /\ CastOnBallots(v, ps, first, x)
<1>1. /\ vote \in [Ids \X Holders -> VoteRecords \cup {NoVote}]
      /\ locked \in [Ids \X Holders -> Nat]
  BY DEF DaoInv, DaoTyped, BallotsTyped, BooksTyped
<1>2. ASSUME NEW p \in Ids, NEW h \in Holders, p \in ps, h = v
      PROVE  /\ HasVoted(p, h)'
             /\ vote'[<<p, h>>] \in VoteRecords
             /\ vote'[<<p, h>>].choice = x
             /\ vote'[<<p, h>>].weight = Weight(p, v)
             /\ locked'[<<p, h>>] = Lock(p, first, CappedBalance(v))
  <2>1. <<p, h>> \in DOMAIN vote /\ <<p, h>> \in DOMAIN locked
    BY <1>1
  <2>2. vote'[<<p, h>>] = [choice |-> x, weight |-> Weight(p, v)]
    BY <1>2, <2>1 DEF CastVotes
  <2>3. locked'[<<p, h>>] = Lock(p, first, CappedBalance(v))
    BY <1>2, <2>1 DEF CastVotes
  <2>4. "choice" \in DOMAIN vote'[<<p, h>>] /\ "choice" \notin DOMAIN NoVote
    BY <2>2 DEF NoVote
  <2>5. vote'[<<p, h>>] # NoVote
    BY <2>4
  <2> QED
    BY <1>2, <2>2, <2>3, <2>5 DEF HasVoted, VoteRecords
<1>3. ASSUME NEW p \in Ids, NEW h \in Holders, ~(p \in ps /\ h = v)
      PROVE  /\ vote'[<<p, h>>] = vote[<<p, h>>]
             /\ locked'[<<p, h>>] = locked[<<p, h>>]
  <2>1. <<p, h>> \in DOMAIN vote /\ <<p, h>> \in DOMAIN locked
    BY <1>1
  <2> QED
    BY <1>3, <2>1 DEF CastVotes
<1>4. vote' \in [Ids \X Holders -> VoteRecords \cup {NoVote}]
  <2>1. vote' = [pv \in Ids \X Holders |-> vote'[pv]]
    BY <1>1 DEF CastVotes
  <2>2. ASSUME NEW pv \in Ids \X Holders
        PROVE  vote'[pv] \in VoteRecords \cup {NoVote}
    <3>1. PICK p \in Ids, h \in Holders : pv = <<p, h>>
      OBVIOUS
    <3>2. CASE p \in ps /\ h = v
      BY <1>2, <3>1, <3>2
    <3>3. CASE ~(p \in ps /\ h = v)
      BY <1>1, <1>3, <3>1, <3>3
    <3> QED
      BY <3>2, <3>3
  <2> QED
    BY <2>1, <2>2
<1> QED
  BY <1>2, <1>3, <1>4 DEF CastOnBallots

\* The tallies still add up the votes: v is a new voter for x on each of ps, and
\* nobody else's vote moved.
LEMMA CastTallies ==
    ASSUME QuorumAssumption, PowerAssumption, GovernanceAssumption, DelegationInv, DaoInv,
           NEW v \in Holders, NEW ps \in SUBSET Ids, NEW first \in Ids,
           NEW x \in VoteChoices, CastVotes(v, ps, first, x)
    PROVE  VotesTallied'
<1>1. /\ \A p \in Ids \ ps : proposal'[p] = proposal[p]
      /\ \A p \in ps : /\ Exists(p) /\ ~HasVoted(p, v) /\ Weight(p, v) \in Nat
                       /\ proposal'[p].status = proposal[p].status
                       /\ proposal'[p].votes = [proposal[p].votes EXCEPT ![x] = @ + Weight(p, v)]
  <2>1. CastOnRecords(v, ps, x)
    BY CastRecords
  <2> QED
    BY <2>1 DEF CastOnRecords
<1>2. \A p \in Ids, h \in Holders :
         IF p \in ps /\ h = v
         THEN /\ HasVoted(p, h)' /\ vote'[<<p, h>>].choice = x
              /\ vote'[<<p, h>>].weight = Weight(p, v)
         ELSE vote'[<<p, h>>] = vote[<<p, h>>]
  <2>1. CastOnBallots(v, ps, first, x)
    BY <1>1, CastBallots
  <2> QED
    BY <2>1 DEF CastOnBallots
<1>3. \A p \in Ids : Exists(p)' = Exists(p)
  BY <1>1 DEF Exists
<1>4. ASSUME NEW p \in Ids, ~Exists(p)'
      PROVE  \A h \in Holders : ~HasVoted(p, h)'
  <2>1. ~Exists(p) /\ p \notin ps
    BY <1>1, <1>3, <1>4
  <2>2. \A h \in Holders : ~HasVoted(p, h)
    BY <2>1 DEF DaoInv, VotesTallied
  <2> QED
    BY <1>2, <2>1, <2>2 DEF HasVoted
<1>5. ASSUME NEW p \in Ids, NEW y \in VoteChoices, Exists(p)'
      PROVE  proposal'[p].votes[y] = SumFunctionOnSet(WeightsOn(p)', VotersFor(p, y)')
  <2> DEFINE F == WeightsOn(p)
             G == WeightsOn(p)'
             S == VotersFor(p, y)
             T == VotersFor(p, y)'
  <2>1. Exists(p) /\ proposal[p].votes[y] = SumFunctionOnSet(F, S)
    BY <1>3, <1>5 DEF DaoInv, VotesTallied
  <2>2. S \subseteq Holders /\ IsFiniteSet(S)
    <3>1. S \subseteq Holders
      BY DEF VotersFor
    <3> QED
      BY <3>1, FS_Subset DEF PowerAssumption
  <2>3. \A h \in S : F[h] \in Int
    BY DEF VotersFor, WeightsOn, HasVoted, DaoInv, DaoTyped, BallotsTyped, VoteRecords
  <2>4. CASE p \notin ps
    <3>1. G = F /\ T = S /\ proposal'[p] = proposal[p]
      BY <1>1, <1>2, <2>4 DEF WeightsOn, VotersFor, HasVoted
    <3> QED
      BY <2>1, <3>1
  <2>5. CASE p \in ps /\ y # x
    <3>1. v \notin S
      BY <1>1, <2>5 DEF VotersFor
    <3>2. T = S
      <4>1. ASSUME NEW h \in Holders PROVE h \in T <=> h \in S
        <5>1. CASE h = v
          BY <1>2, <2>5, <3>1, <5>1 DEF VotersFor
        <5>2. CASE h # v
          BY <1>2, <5>2 DEF VotersFor, HasVoted
        <5> QED
          BY <5>1, <5>2
      <4> QED
        BY <4>1 DEF VotersFor
    <3>3. \A h \in S : G[h] = F[h]
      <4>1. \A h \in Holders : h # v => vote'[<<p, h>>] = vote[<<p, h>>]
        BY <1>2
      <4> QED
        BY <2>2, <3>1, <4>1 DEF WeightsOn
    <3>4. proposal'[p].votes[y] = proposal[p].votes[y]
      <4>1. proposal'[p].votes = [proposal[p].votes EXCEPT ![x] = @ + Weight(p, v)]
        BY <1>1, <2>5
      <4>2. proposal[p].votes \in [VoteChoices -> Nat]
        BY <2>1, RecordTyped DEF DaoInv, DaoTyped, ProposalRecords
      <4> QED
        BY <2>5, <4>1, <4>2
    <3> HIDE DEF F, G, S, T
    <3>5. SumFunctionOnSet(G, S) = SumFunctionOnSet(F, S)
      BY <2>2, <3>3, SumSame
    <3> QED
      BY <2>1, <3>2, <3>4, <3>5 DEF F, G, S, T
  <2>6. CASE p \in ps /\ y = x
    <3>1. v \notin S
      BY <1>1, <2>6 DEF VotersFor
    <3>2. T = S \cup {v}
      <4>1. ASSUME NEW h \in Holders PROVE h \in T <=> h \in S \cup {v}
        <5>1. CASE h = v
          BY <1>2, <2>6, <5>1 DEF VotersFor
        <5>2. CASE h # v
          BY <1>2, <5>2 DEF VotersFor, HasVoted
        <5> QED
          BY <5>1, <5>2
      <4> QED
        BY <4>1 DEF VotersFor
    <3>3. \A h \in S : G[h] = F[h]
      <4>1. \A h \in Holders : h # v => vote'[<<p, h>>] = vote[<<p, h>>]
        BY <1>2
      <4> QED
        BY <2>2, <3>1, <4>1 DEF WeightsOn
    <3>4. G[v] = Weight(p, v) /\ Weight(p, v) \in Nat
      BY <1>1, <1>2, <2>6 DEF WeightsOn
    <3>5. proposal'[p].votes[y] = proposal[p].votes[y] + Weight(p, v)
      <4>1. proposal'[p].votes = [proposal[p].votes EXCEPT ![x] = @ + Weight(p, v)]
        BY <1>1, <2>6
      <4>2. proposal[p].votes \in [VoteChoices -> Nat]
        BY <2>1, RecordTyped DEF DaoInv, DaoTyped, ProposalRecords
      <4> QED
        BY <2>6, <4>1, <4>2
    <3> HIDE DEF F, G, S, T
    <3>6. \A h \in S : G[h] \in Int
      BY <2>3, <3>3
    <3>7. G[v] \in Int
      BY <3>4
    <3>8. SumFunctionOnSet(G, S \cup {v}) = G[v] + SumFunctionOnSet(G, S)
      BY <2>2, <3>1, <3>6, <3>7, SumPutIn
    <3>9. SumFunctionOnSet(G, S) = SumFunctionOnSet(F, S)
      BY <2>2, <3>3, SumSame
    <3>10. SumFunctionOnSet(F, S) \in Int
      BY <2>2, <2>3, SumInt
    <3>11. proposal'[p].votes[y] = SumFunctionOnSet(G, T)
      BY <2>1, <3>2, <3>4, <3>5, <3>8, <3>9, <3>10
    <3> QED
      BY <3>11 DEF F, G, S, T
  <2> QED
    BY <2>4, <2>5, <2>6
<1> QED
  BY <1>4, <1>5 DEF VotesTallied

LEMMA CastLone ==
    ASSUME QuorumAssumption, PowerAssumption, GovernanceAssumption, DelegationInv, DaoInv,
           NEW v \in Holders, NEW ps \in SUBSET Ids, NEW first \in Ids,
           NEW x \in VoteChoices, CastVotes(v, ps, first, x)
    PROVE  LoneVotesLocked'
<1>1. \A p \in ps : /\ Weight(p, v) \in Nat
                    /\ Sweepable(p, v) = {} => Weight(p, v) <= CappedBalance(v)
  <2>1. CastOnRecords(v, ps, x)
    BY CastRecords
  <2> QED
    BY <2>1 DEF CastOnRecords
<1>2. \A p \in Ids, h \in Holders :
         IF p \in ps /\ h = v
         THEN /\ vote'[<<p, h>>].weight = Weight(p, v)
              /\ locked'[<<p, h>>] = Lock(p, first, CappedBalance(v))
         ELSE /\ vote'[<<p, h>>] = vote[<<p, h>>]
              /\ locked'[<<p, h>>] = locked[<<p, h>>]
  <2>1. CastOnBallots(v, ps, first, x)
    BY <1>1, CastBallots
  <2> QED
    BY <2>1 DEF CastOnBallots
<1>3. swept' = swept \cup UNION {{p} \X Sweepable(p, v) : p \in ps}
  BY DEF CastVotes
<1>4. ASSUME NEW p \in Ids, NEW h \in Holders, HasVoted(p, h)', Unswept(p)',
             locked'[<<p, h>>] > 0
      PROVE  vote'[<<p, h>>].weight <= locked'[<<p, h>>]
  <2>1. CASE p \in ps /\ h = v
    <3>1. Sweepable(p, v) \subseteq Holders
      BY DEF Sweepable, DelegationInv
    <3>2. Sweepable(p, v) = {}
      <4>1. ASSUME NEW d \in Sweepable(p, v) PROVE FALSE
        <5>1. <<p, d>> \in swept'
          BY <1>3, <2>1
        <5>2. d \in Holders
          BY <3>1
        <5> QED
          BY <1>4, <5>1, <5>2 DEF Unswept
      <4> QED
        BY <4>1
    <3>3. locked'[<<p, h>>] = CappedBalance(v)
      BY <1>2, <1>4, <2>1 DEF Lock
    <3> QED
      BY <1>1, <1>2, <2>1, <3>2, <3>3
  <2>2. CASE ~(p \in ps /\ h = v)
    <3>1. vote'[<<p, h>>] = vote[<<p, h>>] /\ locked'[<<p, h>>] = locked[<<p, h>>]
      BY <1>2, <2>2
    <3>2. Unswept(p) /\ HasVoted(p, h)
      BY <1>3, <1>4, <3>1 DEF Unswept, HasVoted
    <3> QED
      BY <1>4, <3>1, <3>2 DEF DaoInv, LoneVotesLocked
  <2> QED
    BY <2>1, <2>2
<1> QED
  BY <1>4 DEF LoneVotesLocked

\* The tokens the DAO takes are at least what the locks grow by: a lock that was
\* there already is replaced, and the later proposals of a batch record nothing.
LEMMA CastCustody ==
    ASSUME QuorumAssumption, PowerAssumption, GovernanceAssumption, DelegationInv, DaoInv,
           NEW v \in Holders, NEW ps \in SUBSET Ids, NEW first \in Ids,
           NEW x \in VoteChoices, CastVotes(v, ps, first, x)
    PROVE  DaoTyped' /\ CustodyCovers'
<1> DEFINE taken == CappedBalance(v)
<1>1. proposal' \in Tables /\ CastOnRecords(v, ps, x)
  BY CastRecords
<1>2. vote' \in [Ids \X Holders -> VoteRecords \cup {NoVote}] /\ CastOnBallots(v, ps, first, x)
  <2>1. \A p \in ps : Weight(p, v) \in Nat
    BY <1>1 DEF CastOnRecords
  <2> QED
    BY <2>1, CastBallots
<1>3. /\ balance' = [balance EXCEPT ![v] = @ - taken]
      /\ TakeIn(taken) /\ allowance' = allowance /\ spent' = spent
      /\ now' = now /\ UNCHANGED weightVars /\ config' = config /\ escalation' = escalation
      /\ swept' = swept \cup UNION {{p} \X Sweepable(p, v) : p \in ps}
      /\ first \in ps
  BY DEF CastVotes, settingVars, adminVars, callVars
<1>4. /\ WeightingTyped /\ BallotsTyped /\ BooksTyped
      /\ locked \in [Ids \X Holders -> Nat]
      /\ proposal \in Tables
  BY DEF DaoInv, DaoTyped, BooksTyped, BallotsTyped, Tables
<1>5. taken \in Nat /\ taken <= balance[v]
  BY <1>4, CappedBalanceTyped
<1> HIDE DEF taken
<1>6. \A p \in Ids, h \in Holders :
         locked'[<<p, h>>] = IF p \in ps /\ h = v THEN (IF p = first THEN taken ELSE 0)
                             ELSE locked[<<p, h>>]
  BY <1>2 DEF CastOnBallots, Lock, taken
<1>7. locked' \in [Ids \X Holders -> Nat]
  <2>1. locked' = [pv \in Ids \X Holders |-> locked'[pv]]
    BY <1>4 DEF CastVotes
  <2>2. ASSUME NEW pv \in Ids \X Holders PROVE locked'[pv] \in Nat
    <3>1. PICK p \in Ids, h \in Holders : pv = <<p, h>>
      OBVIOUS
    <3>2. locked[<<p, h>>] \in Nat
      BY <1>4
    <3> QED
      BY <1>5, <1>6, <3>1, <3>2
  <2> QED
    BY <2>1, <2>2
<1>8. DaoTyped'
  <2>1. WeightingTyped'
    BY <1>3, <1>4, WeightingKept
  <2>2. swept' \subseteq Ids \X Holders
    <3>1. Sweepable(v, v) \subseteq Holders /\ \A p \in ps : Sweepable(p, v) \subseteq Holders
      BY DEF Sweepable, DelegationInv
    <3>2. swept \subseteq Ids \X Holders
      BY <1>4 DEF BallotsTyped
    <3> QED
      BY <1>3, <3>1, <3>2
  <2>3. BallotsTyped'
    BY <1>1, <1>2, <2>2 DEF BallotsTyped, Tables
  <2>4. balance' \in [Holders -> Nat] /\ treasury' \in [Tokens -> Nat]
    BY <1>3, <1>4, <1>5, TakeInCovers DEF BooksTyped
  <2>5. BooksTyped'
    BY <1>3, <1>4, <1>7, <2>4 DEF BooksTyped
  <2> QED
    BY <2>1, <2>3, <2>5 DEF DaoTyped
<1>9. LockedTotal' <= LockedTotal + taken
  <2> DEFINE pv == <<first, v>>
             most == [locked EXCEPT ![pv] = @ + taken]
             S == Ids \X Holders
  <2>1. pv \in S
    OBVIOUS
  <2>2. /\ \A y \in S \ {pv} : most[y] = locked[y]
        /\ most[pv] = locked[pv] + taken
        /\ most[pv] \in Int
        /\ \A y \in S : locked[y] \in Int /\ most[y] \in Int /\ locked'[y] \in Int
    <3>1. most \in [S -> Nat]
      BY <1>4, <1>5, <2>1
    <3> QED
      BY <1>4, <1>5, <1>7, <2>1, <3>1
  <2>3. \A y \in S : locked'[y] <= most[y]
    <3>1. ASSUME NEW p \in Ids, NEW h \in Holders
          PROVE  locked'[<<p, h>>] <= most[<<p, h>>]
      <4>1. locked[<<p, h>>] \in Nat
        BY <1>4
      <4>2. CASE p = first /\ h = v
        BY <1>3, <1>5, <1>6, <2>2, <4>1, <4>2
      <4>3. CASE ~(p = first /\ h = v)
        <5>1. most[<<p, h>>] = locked[<<p, h>>]
          BY <1>4, <4>3
        <5> QED
          BY <1>6, <4>1, <4>3, <5>1
      <4> QED
        BY <4>2, <4>3
    <3> QED
      BY <3>1
  <2>4. LockedTotal = SumFunctionOnSet(locked, S) /\ LockedTotal' = SumFunctionOnSet(locked', S)
    BY DEF LockedTotal
  <2>5. IsFiniteSet(S)
    BY IdsFinite
  <2> HIDE DEF most, pv, S
  <2>6. SumFunctionOnSet(most, S) = SumFunctionOnSet(locked, S) - locked[pv] + most[pv]
    BY <2>1, <2>2, <2>5, SumUpdate
  <2>7. SumFunctionOnSet(locked', S) <= SumFunctionOnSet(most, S)
    BY <2>2, <2>3, <2>5, SumMonotone
  <2>8. SumFunctionOnSet(locked, S) \in Int /\ SumFunctionOnSet(locked', S) \in Int
    BY <2>2, <2>5, SumInt
  <2>9. locked[pv] \in Int
    BY <2>1, <2>2
  <2>10. SumFunctionOnSet(most, S) = SumFunctionOnSet(locked, S) + taken
    BY <1>5, <2>2, <2>6, <2>8, <2>9
  <2> QED
    BY <2>4, <2>7, <2>10
<1>10. HeldDeposits' = HeldDeposits
  <2>1. \A q \in Ids : /\ proposal'[q].status = proposal[q].status
                       /\ proposal'[q].deposit = proposal[q].deposit
    BY <1>1 DEF CastOnRecords
  <2>2. DepositsIn(proposal') = DepositsIn(proposal)
    BY <1>1, <1>4, <2>1, DepositsSame
  <2> QED
    BY <1>4, <1>8, <2>2, HeldDepositsAre, HeldDepositsWillBe DEF DaoTyped
<1>11. LockedTotal \in Nat /\ HeldDeposits \in Nat
  BY <1>4, LockedTotalNat, HeldDepositsAre
<1>12. LockedTotal' \in Nat
  BY <1>7, IdsFinite, SumNat DEF LockedTotal
<1>13. Cover >= LockedTotal + HeldDeposits /\ Cover \in Nat
  BY <1>4, CoverNat DEF DaoInv, CustodyCovers, Cover
<1>14. Cover' = Cover + taken
  <2>1. TakeIn(taken) /\ spent' = spent
    BY <1>3
  <2> QED
    BY ONLY <1>4, <1>5, <2>1, TakeInCovers, GovernanceAssumption
<1>15. Cover' >= LockedTotal' + HeldDeposits'
  <2>1. \A a, b, c, d, e, t \in Int : (e = a + t /\ b <= c + t /\ a >= c + d) => e >= b + d
    OBVIOUS
  <2>2. Cover + taken \in Int /\ taken \in Int /\ Cover \in Int /\ LockedTotal \in Int
        /\ LockedTotal' \in Int /\ HeldDeposits \in Int
    BY ONLY <1>5, <1>11, <1>12, <1>13
  <2>3. Cover' \in Int
    BY ONLY <1>14, <2>2
  <2> QED
    BY ONLY <2>1, <2>2, <2>3, <1>9, <1>10, <1>13, <1>14, Zenon
<1> QED
  BY <1>8, <1>15 DEF CustodyCovers, Cover

-----------------------------------------------------------------------------
(* Every step. *)

\* A step that leaves proposals and ballots alone, and the cover as it is.
LEMMA OutsideKeepsBooks ==
    ASSUME DaoInv, proposal' = proposal, UNCHANGED ballotVars, Cover' = Cover,
           WeightingTyped', BooksTyped'
    PROVE  DaoInv'
<1>1. DaoTyped'
  BY DEF DaoInv, DaoTyped, BallotsTyped, ballotVars
<1>2. CustodyCovers'
  BY DEF DaoInv, CustodyCovers, Cover, LockedTotal, HeldDeposits, Refundable, ballotVars
<1>3. VotesTallied'
  BY DEF DaoInv, VotesTallied, Exists, HasVoted, WeightsOn, VotersFor, ballotVars
<1>4. LoneVotesLocked'
  BY DEF DaoInv, LoneVotesLocked, HasVoted, Unswept, ballotVars
<1> QED
  BY <1>1, <1>2, <1>3, <1>4 DEF DaoInv

LEMMA ClockKeepsBooks ==
    ASSUME DaoInv, Clock
    PROVE  DaoInv'
<1>1. /\ now' = now + 1 /\ UNCHANGED <<timeWeight, checkpoint, balance>>
      /\ proposal' = proposal /\ UNCHANGED ballotVars /\ treasury' = treasury
      /\ allowance' = allowance /\ spent' = spent
      /\ config' = config /\ escalation' = escalation
  BY DEF Clock, Tick, weightVars, settingVars, adminVars, callVars
<1>2. /\ now \in Nat /\ checkpoint \in [Holders -> [amount: Nat, since: Nat]]
      /\ \A h \in Holders : checkpoint[h].since <= now
  BY DEF DaoInv, DaoTyped, WeightingTyped
<1>3. \A h \in Holders : checkpoint[h].since <= now + 1
  BY <1>2
<1>4. WeightingTyped'
  BY <1>1, <1>2, <1>3 DEF DaoInv, DaoTyped, WeightingTyped
<1>5. BooksTyped'
  BY <1>1 DEF DaoInv, DaoTyped, BooksTyped, ballotVars
<1> QED
  BY <1>1, <1>4, <1>5, CoverSame, OutsideKeepsBooks

\* prune_participation_history: nothing of the books.
LEMMA PruneKeepsBooks ==
    ASSUME DaoInv, NEW max, PruneParticipationHistory(max)
    PROVE  DaoInv'
<1>1. /\ now' = now /\ UNCHANGED weightVars /\ balance' = balance
      /\ proposal' = proposal /\ UNCHANGED ballotVars /\ treasury' = treasury
      /\ allowance' = allowance /\ spent' = spent
      /\ config' = config /\ escalation' = escalation
  BY DEF PruneParticipationHistory, powerVars, adminVars, callVars
<1>2. WeightingTyped' /\ BooksTyped'
  BY <1>1, WeightingKept DEF DaoInv, DaoTyped, BooksTyped, ballotVars
<1> QED
  BY <1>1, <1>2, CoverSame, OutsideKeepsBooks

\* transfer_from by whom a proposal approved: what is drawn is spent.
LEMMA DrawKeepsBooks ==
    ASSUME GovernanceAssumption, DaoInv, NEW t \in Tokens, NEW h \in Holders,
           NEW amount \in 1 .. allowance[<<t, h>>], DrawAllowance(t, h, amount)
    PROVE  DaoInv'
<1> DEFINE th == <<t, h>>
<1>1. /\ amount \in 1 .. allowance[th] /\ treasury[t] >= amount
      /\ treasury' = [treasury EXCEPT ![t] = @ - amount]
      /\ balance' = Received(t, h, amount)
      /\ spent' = spent + amount
      /\ allowance' = [allowance EXCEPT ![th] = @ - amount]
      /\ now' = now /\ UNCHANGED weightVars
      /\ proposal' = proposal /\ UNCHANGED ballotVars
      /\ config' = config /\ escalation' = escalation
  BY DEF DrawAllowance, settingVars, adminVars
<1>2. /\ WeightingTyped /\ BooksTyped /\ spent \in Nat
      /\ treasury \in [Tokens -> Nat] /\ allowance \in [Tokens \X Holders -> Nat]
      /\ th \in Tokens \X Holders
  BY DEF DaoInv, DaoTyped, BooksTyped
<1> HIDE DEF th
<1>3. allowance[th] \in Nat
  BY <1>2
<1>4. amount \in Nat /\ amount <= allowance[th]
  BY <1>1, <1>3
<1>5. treasury' \in [Tokens -> Nat] /\ TokensHeld' = TokensHeld + (-amount)
  <2>1. treasury' = [treasury EXCEPT ![t] = @ + (-amount)]
    BY <1>1, <1>2, <1>4
  <2>2. treasury[t] + (-amount) >= 0 /\ -amount \in Int
    BY <1>1, <1>2, <1>4
  <2> QED
    BY <1>2, <2>1, <2>2, HeldMoved DEF TokensHeld
<1>6. Cover' = Cover
  BY <1>1, <1>2, <1>4, <1>5, CoverNat DEF Cover
<1>7. balance' \in [Holders -> Nat]
  BY <1>1, <1>2, <1>4, PayTyped DEF Received, BooksTyped
<1>8. allowance' \in [Tokens \X Holders -> Nat] /\ spent' \in Nat
  BY <1>1, <1>2, <1>3, <1>4
<1>9. WeightingTyped'
  BY <1>1, <1>2, WeightingKept
<1>10. BooksTyped'
  BY <1>1, <1>2, <1>5, <1>7, <1>8 DEF BooksTyped, ballotVars
<1> QED
  BY <1>1, <1>6, <1>9, <1>10, OutsideKeepsBooks

LEMMA PowerKeepsBooks ==
    ASSUME PowerAssumption, DaoInv, PowerStep
    PROVE  DaoInv'
<1>1. /\ proposal' = proposal /\ UNCHANGED ballotVars /\ treasury' = treasury
      /\ allowance' = allowance /\ spent' = spent /\ Cover' = Cover
      /\ config' = config /\ escalation' = escalation
  BY CoverSame DEF PowerStep, adminVars, callVars
<1>2. WeightingTyped /\ BooksTyped
  BY DEF DaoInv, DaoTyped
<1>3. ASSUME NEW g \in Holders, NEW h \in Holders, SendTokens(g, h)
      PROVE  DaoInv'
  <2>1. balance' \in [Holders -> Nat] /\ now' = now /\ UNCHANGED weightVars
    BY <1>2, <1>3 DEF SendTokens, BooksTyped
  <2>2. WeightingTyped' /\ BooksTyped'
    BY <1>1, <1>2, <2>1, WeightingKept DEF BooksTyped, ballotVars
  <2> QED
    BY <1>1, <2>2, OutsideKeepsBooks
<1>4. ASSUME UNCHANGED <<now, balance, weightVars>>
      PROVE  DaoInv'
  <2>1. WeightingTyped' /\ BooksTyped'
    BY <1>1, <1>2, <1>4, WeightingKept DEF BooksTyped, ballotVars
  <2> QED
    BY <1>1, <2>1, OutsideKeepsBooks
<1>5. ASSUME NEW h \in Holders, CheckpointVotingPower(h)
      PROVE  DaoInv'
  <2> DEFINE mark == [amount |-> balance[h],
                      since |-> IF balance[h] <= checkpoint[h].amount
                                THEN checkpoint[h].since ELSE now]
  <2>1. /\ checkpoint' = [checkpoint EXCEPT ![h] = mark]
        /\ now' = now /\ balance' = balance /\ timeWeight' = timeWeight
    BY <1>5 DEF CheckpointVotingPower
  <2>2. mark \in [amount: Nat, since: Nat] /\ mark.since <= now
    BY <1>2 DEF WeightingTyped, BooksTyped
  <2> HIDE DEF mark
  <2>3. WeightingTyped'
    BY <1>2, <2>1, <2>2 DEF WeightingTyped
  <2>4. BooksTyped'
    BY <1>1, <1>2, <2>1 DEF BooksTyped, ballotVars
  <2> QED
    BY <1>1, <2>3, <2>4, OutsideKeepsBooks
<1>6. ASSUME NEW w \in TimeWeights, SetTimeWeight(w)
      PROVE  DaoInv'
  <2>1. /\ timeWeight' = w /\ w \in [enabled: BOOLEAN, ramp: Nat, min: Nat]
        /\ w.enabled => w.ramp > 0 /\ w.min <= FullBps
        /\ now' = now /\ balance' = balance /\ checkpoint' = checkpoint
    BY <1>6 DEF SetTimeWeight, PowerAssumption
  <2>2. WeightingTyped'
    BY <1>2, <2>1 DEF WeightingTyped
  <2>3. BooksTyped'
    BY <1>1, <1>2, <2>1 DEF BooksTyped, ballotVars
  <2> QED
    BY <1>1, <2>2, <2>3, OutsideKeepsBooks
<1>7. ASSUME NEW g \in Holders, NEW h \in Holders, Delegate(g, h) \/ RevokeDelegation(g)
      PROVE  DaoInv'
  BY <1>4, <1>7 DEF Delegate, RevokeDelegation
<1> QED
  BY <1>3, <1>5, <1>6, <1>7 DEF PowerStep

LEMMA AdminKeepsBooks ==
    ASSUME GovernanceAssumption, DaoInv,
           \/ \E new \in Configs : UpdateConfig(new)
           \/ \E amount \in Thresholds : SetProposalThreshold(amount)
           \/ \E multipliers \in Multipliers : SetImpactMultipliers(multipliers)
           \/ \E setting \in DecayChoices : SetQuorumDecay(setting)
    PROVE  DaoInv'
<1>1. /\ proposal' = proposal /\ UNCHANGED ballotVars /\ treasury' = treasury
      /\ allowance' = allowance /\ spent' = spent /\ Cover' = Cover
      /\ now' = now /\ UNCHANGED weightVars
      /\ balance' = balance \/ balance' \in Distributions
  BY CoverSame
     DEF UpdateConfig, SetProposalThreshold, SetImpactMultipliers, SetQuorumDecay, AdminStep,
         powerVars, callVars
<1>2. WeightingTyped /\ BooksTyped /\ balance' \in [Holders -> Nat]
  BY <1>1 DEF DaoInv, DaoTyped, BooksTyped, GovernanceAssumption
<1>3. WeightingTyped'
  BY <1>1, <1>2, WeightingKept
<1>4. config' \in ConfigRecords
  <2>1. config \in ConfigRecords
    BY <1>2 DEF BooksTyped
  <2>2. CASE \E new \in Configs : UpdateConfig(new)
    BY <2>2 DEF UpdateConfig, GovernanceAssumption
  <2>3. ASSUME NEW amount \in Thresholds, SetProposalThreshold(amount)
        PROVE  config' \in ConfigRecords
    <3>1. amount \in Nat /\ config' = [config EXCEPT !.threshold = amount]
      BY <2>3 DEF SetProposalThreshold, GovernanceAssumption
    <3> QED
      BY <2>1, <3>1 DEF ConfigRecords
  <2>4. CASE \E multipliers \in Multipliers : SetImpactMultipliers(multipliers)
    BY <2>1, <2>4 DEF SetImpactMultipliers
  <2>5. CASE \E setting \in DecayChoices : SetQuorumDecay(setting)
    BY <2>1, <2>5 DEF SetQuorumDecay
  <2> QED
    BY <2>2, <2>3, <2>4, <2>5
<1>5. escalation' \in [Kinds -> Nat]
  BY <1>2 DEF UpdateConfig, SetProposalThreshold, SetImpactMultipliers, SetQuorumDecay,
              GovernanceAssumption, BooksTyped
<1>6. BooksTyped'
  BY <1>1, <1>2, <1>4, <1>5 DEF BooksTyped, ballotVars
<1> QED
  BY <1>1, <1>3, <1>6, OutsideKeepsBooks

LEMMA ProposalStepKeepsBooks ==
    ASSUME QuorumAssumption, PowerAssumption, GovernanceAssumption, DaoInv, NEW p \in Ids,
           ProposalStep(p)
    PROVE  DaoInv'
<1>1. ASSUME NEW h \in Holders, NEW c \in Contents, CreateProposal(h, c, p)
      PROVE  DaoInv'
  <2>1. PICK kind \in Kinds : Submit(h, c, EffectiveThreshold(kind), p)
    BY <1>1 DEF CreateProposal, Kinds
  <2>2. EffectiveThreshold(kind) \in Nat
    BY ThresholdNat DEF DaoInv, DaoTyped
  <2> QED
    BY <2>1, <2>2, SubmitKeepsBooks
<1>2. ASSUME NEW h \in Holders, NEW c \in Contents, ProposeUpgrade(h, c, p)
      PROVE  DaoInv'
  <2>1. Submit(h, c, EffectiveThreshold("upgrade"), p)
    BY <1>2 DEF ProposeUpgrade
  <2>2. EffectiveThreshold("upgrade") \in Nat
    BY ThresholdNat DEF DaoInv, DaoTyped, Kinds
  <2> QED
    BY <2>1, <2>2, SubmitKeepsBooks
<1>3. CASE StartVoting(p) \/ Cancel(p) \/ Veto(p)
  BY <1>3, StartVotingKeepsBooks, CancelKeepsBooks, VetoKeepsBooks
<1>4. CASE \E v \in Holders : WithdrawTokens(v, p)
  BY <1>4, WithdrawKeepsBooks
<1>5. CASE Finalize(p) \/ ReclaimDeposit(p) \/ ExpireExecution(p)
  BY <1>5, FinalizeKeepsBooks, ReclaimKeepsBooks, ExpireKeepsBooks
<1>6. CASE \E bps \in ExecutionBps : Execute(p, bps)
  BY <1>6, ExecuteKeepsBooks
<1> QED
  BY <1>1, <1>2, <1>3, <1>4, <1>5, <1>6 DEF ProposalStep

LEMMA BooksStep ==
    ASSUME QuorumAssumption, PowerAssumption, GovernanceAssumption, DelegationInv, DaoInv,
           [Next]_vars
    PROVE  DaoInv'
<1>1. ASSUME NEW v \in Holders, NEW ps \in SUBSET Ids, NEW p \in Ids, NEW x \in CastChoices,
             CastVotes(v, ps, p, x)
      PROVE  DaoInv'
  <2>1. x \in VoteChoices
    BY DEF GovernanceAssumption
  <2> QED
    BY <1>1, <2>1, CastTallies, CastLone, CastCustody DEF DaoInv
<1>2. CASE Clock
  BY <1>2, ClockKeepsBooks
<1>3. CASE PowerStep
  BY <1>3, PowerKeepsBooks
<1>4. CASE \E p \in Ids : ProposalStep(p)
  BY <1>4, ProposalStepKeepsBooks
<1>0. CASE \E t \in Tokens, h \in Holders : \E amount \in 1 .. allowance[<<t, h>>] :
             DrawAllowance(t, h, amount)
  BY <1>0, DrawKeepsBooks
<1>7. CASE \E max \in 0 .. MaxWindow : PruneParticipationHistory(max)
  BY <1>7, PruneKeepsBooks
<1>5. CASE \/ \E new \in Configs : UpdateConfig(new)
           \/ \E amount \in Thresholds : SetProposalThreshold(amount)
           \/ \E multipliers \in Multipliers : SetImpactMultipliers(multipliers)
           \/ \E setting \in DecayChoices : SetQuorumDecay(setting)
  BY <1>5, AdminKeepsBooks
<1>6. CASE UNCHANGED vars
  <2>1. /\ proposal' = proposal /\ UNCHANGED ballotVars /\ treasury' = treasury
        /\ allowance' = allowance /\ spent' = spent /\ Cover' = Cover
        /\ now' = now /\ balance' = balance /\ UNCHANGED weightVars
        /\ config' = config /\ escalation' = escalation
    BY <1>6, CoverSame DEF vars, powerVars, settingVars, adminVars, callVars
  <2>2. WeightingTyped' /\ BooksTyped'
    BY <2>1, WeightingKept DEF DaoInv, DaoTyped, BooksTyped, ballotVars
  <2> QED
    BY <2>1, <2>2, OutsideKeepsBooks
<1> QED
  BY <1>0, <1>1, <1>2, <1>3, <1>4, <1>5, <1>6, <1>7 DEF Next

LEMMA BooksInit ==
    ASSUME QuorumAssumption, PowerAssumption, GovernanceAssumption, Init
    PROVE  DaoInv
<1>1. WeightingTyped
  BY DEF Init, PowerInit, WeightingTyped, NoWeighting, NoCheckpoint, QuorumAssumption
<1>2. BallotsTyped
  BY DEF Init, BallotsTyped
<1>3. BooksTyped
  BY DEF Init, PowerInit, BooksTyped, PowerAssumption, GovernanceAssumption, QuorumAssumption
<1>4. \A p \in Ids : ~Exists(p) /\ \A v \in Holders : ~HasVoted(p, v)
  BY DEF Init, Exists, NoProposal, HasVoted
<1>5. VotesTallied /\ LoneVotesLocked
  BY <1>4 DEF VotesTallied, LoneVotesLocked
<1>6. CustodyCovers
  <2>1. \A x \in Ids \X Holders : locked[x] = 0
    BY DEF Init
  <2>2. LockedTotal = 0
    BY <2>1, IdsFinite, SumZero DEF LockedTotal
  <2>3. Refundable = {}
    BY DEF Init, Refundable, NoProposal, Open
  <2>4. HeldDeposits = 0
    BY <2>3, SumEmpty DEF HeldDeposits
  <2>5. TokensHeld = 0
    <3>1. \A t \in Tokens : treasury[t] = 0
      BY DEF Init
    <3> QED
      BY <3>1, SumZero DEF TokensHeld, GovernanceAssumption
  <2> QED
    BY <2>2, <2>4, <2>5 DEF Init, CustodyCovers
<1> QED
  BY <1>1, <1>2, <1>3, <1>5, <1>6 DEF DaoInv, DaoTyped

-----------------------------------------------------------------------------
(* What it is all for. *)

BooksInv == DelegationInv /\ DaoInv

LEMMA BooksInvHolds ==
    ASSUME QuorumAssumption, PowerAssumption, GovernanceAssumption
    PROVE  Spec => []BooksInv
<1>1. Init => BooksInv
  BY DelegationInit, BooksInit DEF BooksInv
<1>2. BooksInv /\ [Next]_vars => BooksInv'
  BY DelegationStep, BooksStep DEF BooksInv
<1> QED
  BY <1>1, <1>2, PTL DEF Spec

\* The votes of a proposal for one choice, spread over all holders.
LEMMA ChoiceOverHolders ==
    ASSUME PowerAssumption, DaoInv, NEW p \in Ids, Exists(p), NEW x \in VoteChoices
    PROVE  proposal[p].votes[x] =
             SumFunctionOnSet([v \in Holders |-> IF v \in VotersFor(p, x)
                                                 THEN vote[<<p, v>>].weight ELSE 0], Holders)
<1> DEFINE f == WeightsOn(p)
           g == [v \in Holders |-> IF v \in VotersFor(p, x) THEN vote[<<p, v>>].weight ELSE 0]
           T == VotersFor(p, x)
<1>1. T \in SUBSET Holders
  BY DEF VotersFor
<1>2. \A v \in T : f[v] \in Int
  BY DEF WeightsOn, VotersFor, HasVoted, DaoInv, DaoTyped, BallotsTyped, VoteRecords
<1>3. \A v \in T : g[v] = f[v]
  BY <1>1 DEF WeightsOn
<1>4. \A v \in Holders \ T : g[v] = 0
  OBVIOUS
<1>5. proposal[p].votes[x] = SumFunctionOnSet(f, T)
  BY DEF DaoInv, VotesTallied
<1> HIDE DEF f, g, T
<1>6. SumFunctionOnSet(f, T) = SumFunctionOnSet(g, Holders)
  BY <1>1, <1>2, <1>3, <1>4, SumWhere DEF PowerAssumption
<1> QED
  BY <1>5, <1>6 DEF g

LEMMA LoneTallyLocked ==
    ASSUME PowerAssumption, DaoInv, NEW p \in Ids, Exists(p), Unswept(p),
           \A v \in Holders : HasVoted(p, v) => locked[<<p, v>>] > 0
    PROVE  TotalVotes(p) <= SumFunctionOnSet([v \in Holders |-> locked[<<p, v>>]], Holders)
<1> DEFINE On(x) == [v \in Holders |-> IF v \in VotersFor(p, x)
                                       THEN vote[<<p, v>>].weight ELSE 0]
           yes == On("For")
           no == On("Against")
           none == On("Abstain")
           decided == [v \in Holders |-> yes[v] + no[v]]
           all == [v \in Holders |-> decided[v] + none[v]]
           held == [v \in Holders |-> locked[<<p, v>>]]
<1>1. /\ proposal[p].votes["For"] = SumFunctionOnSet(yes, Holders)
      /\ proposal[p].votes["Against"] = SumFunctionOnSet(no, Holders)
      /\ proposal[p].votes["Abstain"] = SumFunctionOnSet(none, Holders)
  BY ChoiceOverHolders DEF VoteChoices
<1>2. ASSUME NEW v \in Holders
      PROVE  /\ yes[v] \in Int /\ no[v] \in Int /\ none[v] \in Int
             /\ held[v] \in Int
             /\ yes[v] + no[v] + none[v] <= held[v]
  <2>1. locked[<<p, v>>] \in Nat
    BY DEF DaoInv, DaoTyped, BooksTyped
  <2>2. CASE ~HasVoted(p, v)
    <3>1. yes[v] = 0 /\ no[v] = 0 /\ none[v] = 0
      BY <2>2 DEF VotersFor
    <3> QED
      BY <2>1, <3>1
  <2>3. CASE HasVoted(p, v)
    <3>1. vote[<<p, v>>] \in VoteRecords
      BY <2>3 DEF HasVoted, DaoInv, DaoTyped, BallotsTyped
    <3>2. vote[<<p, v>>].weight \in Nat /\ vote[<<p, v>>].weight <= locked[<<p, v>>]
      BY <2>3, <3>1 DEF DaoInv, LoneVotesLocked, VoteRecords
    <3>3. vote[<<p, v>>].choice \in {"For", "Against", "Abstain"}
      BY <3>1 DEF VoteRecords, VoteChoices
    <3> DEFINE c == vote[<<p, v>>].choice
               w == vote[<<p, v>>].weight
    <3>4. /\ yes[v] = IF c = "For" THEN w ELSE 0
          /\ no[v] = IF c = "Against" THEN w ELSE 0
          /\ none[v] = IF c = "Abstain" THEN w ELSE 0
      BY <2>3 DEF VotersFor
    <3>5. held[v] = locked[<<p, v>>]
      OBVIOUS
    <3> HIDE DEF yes, no, none, held
    <3> QED
      BY <2>1, <3>2, <3>3, <3>4, <3>5
  <2> QED
    BY <2>2, <2>3
<1>3. \A v \in Holders : decided[v] = yes[v] + no[v] /\ all[v] = decided[v] + none[v]
  OBVIOUS
<1> HIDE DEF yes, no, none, decided, all, held
<1>4. IsFiniteSet(Holders)
  BY DEF PowerAssumption
<1>5. \A v \in Holders : decided[v] \in Int /\ all[v] \in Int /\ all[v] <= held[v]
  BY <1>2, <1>3
<1>6. SumFunctionOnSet(decided, Holders) = SumFunctionOnSet(yes, Holders) + SumFunctionOnSet(no, Holders)
  BY <1>2, <1>3, <1>4, SumAdd
<1>7. SumFunctionOnSet(all, Holders) = SumFunctionOnSet(decided, Holders) + SumFunctionOnSet(none, Holders)
  BY <1>2, <1>3, <1>4, <1>5, SumAdd
<1>8. SumFunctionOnSet(all, Holders) <= SumFunctionOnSet(held, Holders)
  BY <1>2, <1>4, <1>5, SumMonotone
<1>9. TotalVotes(p) = SumFunctionOnSet(yes, Holders) + SumFunctionOnSet(no, Holders)
                        + SumFunctionOnSet(none, Holders)
  BY <1>1 DEF TotalVotes
<1> QED
  BY <1>6, <1>7, <1>8, <1>9 DEF held

\* Over all its governance tokens the DAO holds what covers every lock that
\* withdraw_tokens can be asked for and every deposit that cancel, finalize,
\* reclaim_deposit and execute may still return, up to what executed proposals
\* transferred or approved away: no token is returned twice and none is lost.
THEOREM CustodyIsCovered ==
    ASSUME QuorumAssumption, PowerAssumption, GovernanceAssumption
    PROVE  Spec => []CustodyCovers
<1>1. BooksInv => CustodyCovers
  BY DEF BooksInv, DaoInv
<1> QED
  BY <1>1, BooksInvHolds, PTL

\* vote and vote_batch: for_votes, against_votes and abstain_votes are the sums of
\* the vote records, and votes nobody delegated or batched are covered by locks,
\* whatever was sent, checkpointed and re-weighted in between.
THEOREM TalliesAreBacked ==
    ASSUME QuorumAssumption, PowerAssumption, GovernanceAssumption
    PROVE  Spec => []TallyBacked
<1>1. BooksInv => TallyBacked
  <2>1. SUFFICES ASSUME DaoInv, NEW p \in Ids, Exists(p)
                 PROVE  /\ \A x \in VoteChoices :
                             proposal[p].votes[x] =
                               SumFunctionOnSet(WeightsOn(p), VotersFor(p, x))
                        /\ (/\ proposal[p].status = "Active"
                            /\ \A v \in Holders : <<p, v>> \notin swept
                            /\ \A v \in Holders : HasVoted(p, v) => locked[<<p, v>>] > 0)
                           => TotalVotes(p) <= SumFunctionOnSet(
                                                 [v \in Holders |-> locked[<<p, v>>]], Holders)
    BY DEF BooksInv, TallyBacked, WeightsOn, VotersFor
  <2>2. \A x \in VoteChoices :
           proposal[p].votes[x] = SumFunctionOnSet(WeightsOn(p), VotersFor(p, x))
    BY <2>1 DEF DaoInv, VotesTallied
  <2> QED
    BY <2>1, <2>2, LoneTallyLocked DEF Unswept
<1> QED
  BY <1>1, BooksInvHolds, PTL

=============================================================================
