----------------------------- MODULE ProcessAdvantage -----------------------------
(***************************************************************************)
(* The offline process advantage of the turns of saved rollouts and the    *)
(* audit of it (scripts/loop7b/recompute_offline_process_advantage.py).    *)
(* A group is the rollouts of one scenario: six in the code.  The signal   *)
(* of a turn adds up what it gets where its rollout leaves another one,    *)
(* for a failure, for the correction of one, and for a repetition at the   *)
(* end; then vetoes take precedence over each other.  A unit is a 480th,   *)
(* so that means over up to five other rollouts are whole numbers.         *)
(***************************************************************************)
EXTENDS Integers, FiniteSets, Sequences, FiniteSetsExt, Functions

CONSTANTS
  GroupSize,       \* rollouts of a group (EXPECTED_ROLLOUTS_PER_SCENARIO)
  TurnCalls,       \* sets of business endpoints that a turn may call
  TotalTurns,      \* bound: turns of all rollouts of a group
  LongestTurns     \* bound: turns of a rollout that is alone in having any

ASSUME AdvantageAssumption ==
  /\ GroupSize \in 1 .. 6
  /\ {TotalTurns, LongestTurns} \subseteq Nat

ERROR_PENALTY == -120
RECOVERY_BONUS == 72
REPEAT_PENALTY == -48
GROUNDING_PENALTY == -120
Unit == 480

\* Returns, in quarters: no test passed, most, or all.
Returns == {0, 3, 4}
Full == 4

\* A turn has code that calls some business endpoints, or none but the documentation;
\* turns that call the same endpoints are alike.  Only "write" changes something.
\* (complete_task, a decision without a business call, ends a rollout: left out.)
CallTurn == [calls : TurnCalls, failed : BOOLEAN]
Labels == 1 .. GroupSize

VARIABLES
  auditor,         \* "load", "score", "audit", "passed", "failed" or "refused"
  traces,          \* by label: turns of the rollout
  ret,             \* by label: its return
  ungrounded,      \* labels: the evaluator found a wrong field in what it wrote
  new_advantage    \* by label and turn

advantageVars == <<auditor, traces, ret, ungrounded, new_advantage>>

AdvantageInit ==
  /\ auditor = "load"
  /\ traces = [k \in Labels |-> <<>>]
  /\ ret = [k \in Labels |-> 0]
  /\ ungrounded = {}
  /\ new_advantage = [k \in Labels |-> <<>>]

-----------------------------------------------------------------------------
\* _decision_turns: the turn of the n-th decision, 0 where the rollout has ended;
\* and the first decision at which two rollouts differ, given as its turns.
DecisionTurns(k) == {i \in DOMAIN traces[k] : traces[k][i].calls # {}}
decision_turn(k, n) ==
  Max({0} \cup {i \in DecisionTurns(k) : Cardinality({j \in DecisionTurns(k) : j <= i}) = n})

Differing(k, m) ==
  LET decisions == 1 .. Max({Cardinality(DecisionTurns(k)), Cardinality(DecisionTurns(m))})
  IN {n \in decisions :
        \/ 0 \in {decision_turn(k, n), decision_turn(m, n)}
        \/ traces[k][decision_turn(k, n)].calls # traces[m][decision_turn(m, n)].calls}
first_divergence(k, m) ==
  LET differing == Differing(k, m)
      turn(rollout_of) == IF differing = {} THEN 0 ELSE decision_turn(rollout_of, Min(differing))
  IN [left |-> turn(k), right |-> turn(m), exists |-> differing # {}]

\* Mutant of Divided: every turn from the divergence on.
Divided_onwards(k, i) == {m \in Labels \ {k} : ret[m] # ret[k] /\ first_divergence(k, m).left \in 1 .. i}

\* _pairwise_first_divergence_credit: half the difference of the returns, to the
\* two turns that made it; a turn takes the mean over the pairs it divides.
Divided(k, i) == {m \in Labels \ {k} : ret[m] # ret[k] /\ first_divergence(k, m).left = i}
pairwise(k, i) ==
  LET others == Divided(k, i)
  IN IF others = {} THEN 0
     ELSE SumFunctionOnSet([m \in Labels |-> 60 * (ret[k] - ret[m])], others) \div Cardinality(others)

\* _tail_repeat_ordinals: the end of the rollout is a cycle of one to three
\* turns; the cycle with the most repeated turns counts, the shortest of those.
tail_start(k, period) ==
  LET n == Len(traces[k])
      cyclic(start) == \A i \in start + period .. n : traces[k][i].calls = traces[k][i - period].calls
      starts == {start \in 1 .. n - 2 * period + 1 : cyclic(start)}
  IN IF starts = {} THEN n + 1 ELSE Min(starts)
repeated(k, period) == Max({0, Len(traces[k]) + 1 - tail_start(k, period) - period})

repeat_ordinal(k, i) ==
  LET longest == Max({repeated(k, p) : p \in 1 .. 3})
      period == Min({p \in 1 .. 3 : repeated(k, p) = longest})
  IN IF repeated(k, period) = 0 THEN 0 ELSE Max({0, i - (tail_start(k, period) + period) + 1})

\* _recovery_pairs: the first later turn that does not fail and calls an endpoint
\* of the turn that failed, or that does anything where that called none.
correction(k, failed) ==
  LET later == {i \in failed + 1 .. Len(traces[k]) :
                  /\ ~traces[k][i].failed
                  /\ \/ traces[k][failed].calls = {}
                     \/ traces[k][failed].calls \cap traces[k][i].calls # {}}
  IN IF later = {} THEN 0 ELSE Min(later)
FailedTurns(k) == {i \in DOMAIN traces[k] : traces[k][i].failed}
recovered_correction(k, i) == \E failed \in FailedTurns(k) : correction(k, failed) = i

\* _grounding_failures: only what changes something can be ill grounded.
grounding_invalid(k, i) == k \in ungrounded /\ "write" \in traces[k][i].calls

Clip(value) == Min({Unit, Max({-Unit, value})})

\* score_trace_group: the sum of the components, then the first veto that applies.
turn_advantage(k, i) ==
  LET failed == traces[k][i].failed
      recovered == recovered_correction(k, i)
      invalid == grounding_invalid(k, i)
      ordinal == repeat_ordinal(k, i)
      repeats == REPEAT_PENALTY * Min({3, ordinal})
      raw == pairwise(k, i) + repeats
             + (IF failed THEN ERROR_PENALTY ELSE 0)
             + (IF recovered THEN RECOVERY_BONUS ELSE 0)
             + (IF invalid THEN GROUNDING_PENALTY ELSE 0)
  IN Clip(CASE invalid -> Min({raw, GROUNDING_PENALTY})
            [] ~invalid /\ failed -> Min({raw, ERROR_PENALTY})
            [] ~invalid /\ ~failed /\ recovered -> Max({raw - repeats, RECOVERY_BONUS})
            [] OTHER -> IF ordinal > 0 THEN Min({raw, repeats}) ELSE raw)

\* The pairs of different return that divide, and those of them that the ordering
\* of the two turns is attributed to (attribution_eligible).
forks == {pair \in Labels \X Labels :
            ret[pair[1]] > ret[pair[2]] /\ first_divergence(pair[1], pair[2]).exists}
wasteful_repeat(k, i) == repeat_ordinal(k, i) > 0 /\ ~recovered_correction(k, i)
attribution_eligible(high, low) ==
  LET at == first_divergence(high, low)
  IN /\ at.left # 0 /\ at.right # 0
     /\ ~traces[high][at.left].failed
     /\ ~wasteful_repeat(high, at.left)
     /\ ~grounding_invalid(high, at.left)
     /\ ~recovered_correction(low, at.right)

margin(high, low) ==
  new_advantage[high][first_divergence(high, low).left] - new_advantage[low][first_divergence(high, low).right]

-----------------------------------------------------------------------------
\* A group is complete, or the audit refuses the iteration: its rollouts one after
\* the other, each with the turns up to its end.  Rollouts are numbered by return;
\* those of the held-out tasks carry the requirements that the evaluator found
\* violated, others never do.
LoadGroup ==
  /\ auditor = "load"
  /\ \/ auditor' = "refused" /\ UNCHANGED <<traces, ret, ungrounded>>
     \/ /\ auditor' = "score"
        /\ \E n \in 0 .. Max({TotalTurns, LongestTurns}) : \E end \in [0 .. GroupSize -> 0 .. n] :
             /\ end[0] = 0 /\ end[GroupSize] = n
             /\ \A k \in Labels : end[k - 1] <= end[k]
             /\ n <= TotalTurns \/ (n <= LongestTurns /\ end[1] = n)
             /\ \E turns \in [1 .. n -> CallTurn] :
                  traces' = [k \in Labels |-> SubSeq(turns, end[k - 1] + 1, end[k])]
        /\ ret' \in {r \in [Labels -> Returns] : \A k, m \in Labels : k < m => r[k] >= r[m]}
        /\ ungrounded' \in {{}, {k \in Labels : ret'[k] < Full}}
  /\ UNCHANGED new_advantage

ScoreGroup ==
  /\ auditor = "score"
  /\ new_advantage' = [k \in Labels |-> [i \in DOMAIN traces[k] |-> turn_advantage(k, i)]]
  /\ auditor' = "audit"
  /\ UNCHANGED <<traces, ret, ungrounded>>

\* _audit_summary: three checks over the rollouts of training, one over the
\* held-out ones.  (Over all groups each kind is expected to occur.)  A full
\* return stands for strict success.
fork_passes == \A pair \in forks :
  ret[pair[1]] = Full /\ attribution_eligible(pair[1], pair[2]) => margin(pair[1], pair[2]) > 0
repeat_passes == \A k \in Labels : \A i \in DOMAIN traces[k] : wasteful_repeat(k, i) => new_advantage[k][i] < 0
recovery_passes == \A k \in Labels : \A failed \in FailedTurns(k) :
  correction(k, failed) # 0 => new_advantage[k][failed] < 0 /\ new_advantage[k][correction(k, failed)] > 0
grounding_passes == \A k \in Labels : \A i \in DOMAIN traces[k] : grounding_invalid(k, i) => new_advantage[k][i] <= 0

AuditSummary ==
  /\ auditor = "audit"
  /\ LET passed == IF ungrounded = {} THEN fork_passes /\ repeat_passes /\ recovery_passes
                                     ELSE grounding_passes
     IN auditor' = IF passed THEN "passed" ELSE "failed"
  /\ UNCHANGED <<traces, ret, ungrounded, new_advantage>>

AdvantageNext == LoadGroup \/ ScoreGroup \/ AuditSummary
AdvantageSpec == AdvantageInit /\ [][AdvantageNext]_advantageVars

-----------------------------------------------------------------------------
\* Two rollouts make the same decisions up to the n-th; and a rollout leaves another
\* one with turn i, which makes the first decision that the other does not make.
Agree(k, m, n) == \A j \in 1 .. n :
  /\ decision_turn(k, j) # 0 /\ decision_turn(m, j) # 0
  /\ traces[k][decision_turn(k, j)].calls = traces[m][decision_turn(m, j)].calls
Leaves(k, i, m) ==
  LET n == Cardinality({j \in DecisionTurns(k) : j <= i})
  IN i \in DecisionTurns(k) /\ Agree(k, m, n - 1) /\ ~Agree(k, m, n)

\* The rollouts of another return that a rollout leaves with turn i: all those that
\* turn i can have made a difference to.  And the turns nothing else is said about.
Rivals(k, i) == {m \in Labels : ret[m] # ret[k] /\ Leaves(k, i, m)}
Quiet(k, i) ==
  /\ ~traces[k][i].failed /\ repeat_ordinal(k, i) = 0
  /\ ~grounding_invalid(k, i) /\ ~recovered_correction(k, i)

(***************************************************************************)
(* Credit stays local, however the components add up (score_trace_group).  *)
(* A failed turn is negative in a successful rollout too, its correction   *)
(* positive in a failed one, unless ill grounded; repetition at the end is *)
(* negative unless it corrects.  Nothing of a return leaks to a turn that  *)
(* rollouts of other returns share, or that comes after they parted; where *)
(* they part, what leaves only worse ones is rewarded and what leaves only *)
(* better ones is punished.  So an eligible fork can be in the wrong order *)
(* only where one of its turns also leaves a rollout that did better than  *)
(* the better one or worse than the worse one: the audit, which asks it of *)
(* forks with a full return, fails only over a failure that leaves a worse *)
(* one with the same turn.                                                 *)
(***************************************************************************)
CreditIsLocal ==
  auditor \in {"passed", "failed"} =>
    /\ repeat_passes /\ grounding_passes
    /\ \A k \in Labels : \A failed \in FailedTurns(k) : new_advantage[k][failed] <= ERROR_PENALTY
    /\ \A k \in Labels : \A failed \in FailedTurns(k) :
         LET c == correction(k, failed)
         IN c # 0 /\ ~grounding_invalid(k, c) => new_advantage[k][c] >= RECOVERY_BONUS
    /\ \A k \in Labels : \A i \in DOMAIN traces[k] : Quiet(k, i) =>
         /\ Rivals(k, i) = {} => new_advantage[k][i] = 0
         /\ Rivals(k, i) # {} /\ (\A m \in Rivals(k, i) : ret[m] < ret[k]) => new_advantage[k][i] > 0
         /\ Rivals(k, i) # {} /\ (\A m \in Rivals(k, i) : ret[m] > ret[k]) => new_advantage[k][i] < 0
    /\ \A pair \in forks :
         attribution_eligible(pair[1], pair[2]) /\ margin(pair[1], pair[2]) <= 0 =>
           LET at == first_divergence(pair[1], pair[2])
           IN \/ \E m \in Rivals(pair[1], at.left) : ret[m] > ret[pair[1]]
              \/ \E m \in Rivals(pair[2], at.right) : ret[m] < ret[pair[2]]
==================================================================================
