--------------------------- MODULE AdaptiveQuorum ---------------------------
(***************************************************************************)
(* How many votes a proposal of the governance DAO needs: the rolling      *)
(* history of turnouts, the quorum it relaxes, and the outcome of a tally. *)
(* Pure operators; the state is in Governance.                             *)
(***************************************************************************)
EXTENDS Integers, Sequences, SequencesExt

CONSTANTS
    FullBps,       \* 10_000
    MinQuorumBps,  \* MIN_QUORUM_BPS
    DefaultWindow, \* DEFAULT_PARTICIPATION_WINDOW
    MaxWindow      \* MAX_PARTICIPATION_WINDOW

ASSUME QuorumAssumption ==
    /\ FullBps \in Nat \ {0}
    /\ MinQuorumBps \in 1 .. FullBps
    /\ MaxWindow \in Nat \ {0}
    /\ DefaultWindow \in 1 .. MaxWindow

Least(a, b) == IF a <= b THEN a ELSE b
Greatest(a, b) == IF a >= b THEN a ELSE b

\* DaoConfig.quorum_bps after initialize and update_config; the admin's settings
\* of the decay, as set_quorum_decay stores them.
QuorumSettings == MinQuorumBps .. FullBps
DecaySettings == [enabled: BOOLEAN, floor: Nat, step: Nat, window: Nat]

NoDecay == [enabled |-> FALSE, floor |-> MinQuorumBps, step |-> 0, window |-> 0]

\* set_quorum_decay: the floor is compared with the quorum of this moment only.
\* A disabled setting is stored unchecked, its floor clamped up.
DecayAllowed(setting, quorum) ==
    setting.enabled =>
        /\ setting.floor < quorum
        /\ setting.floor >= MinQuorumBps
        /\ setting.window \in 1 .. MaxWindow
        /\ setting.step > 0

StoredDecay(setting) == [setting EXCEPT !.floor = Greatest(@, MinQuorumBps)]

Average(turnouts) == FoldLeft(LAMBDA sum, t : sum + t, 0, turnouts) \div Len(turnouts)

\* Whole steps of the shortfall come off the base, down to the floor.
Decayed(base, average, decay) ==
    LET step == Greatest(decay.step, 1)
        reduction == ((base - average) \div step) * decay.step
    IN  Greatest(Greatest(base - reduction, 0), decay.floor)

\* effective_quorum(...).quorum_bps
EffectiveQuorum(base, decay, history) ==
    IF \/ ~decay.enabled
       \/ history = <<>>
       \/ Average(history) >= base
    THEN base
    ELSE Decayed(base, Average(history), decay)

\* record_participation; the window is the decay's even while that is disabled.
Recorded(history, decay, total, supply) ==
    LET window == IF decay.window = 0 THEN DefaultWindow ELSE decay.window
        turnout == IF supply <= 0 THEN 0
                   ELSE Least((total * FullBps) \div supply, FullBps)
        longer == Append(history, turnout)
        kept == Least(Len(longer), window)
    IN  SubSeq(longer, Len(longer) - kept + 1, Len(longer))

\* finalize: For and Against alone make the quorum and the majority.
Passes(votes, supply, quorum, majority) ==
    LET partisan == votes.For + votes.Against IN
    /\ partisan > 0
    /\ partisan >= (supply * quorum) \div FullBps
    /\ (votes.For * FullBps) \div partisan >= majority
=============================================================================
