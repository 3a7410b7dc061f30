------------------------------- MODULE SftWindows -------------------------------
(***************************************************************************)
(* How a supervised trajectory that is too long for the model is cut into  *)
(* training windows (phi_agents/sft/trainer.py, window_sample), and the    *)
(* audit that follows (audit_sample_windows).  A turn is an action of the  *)
(* assistant and the observation that answers it; lengths are in tokens.   *)
(* Both searches of the code are bisections: SoundWindow says, without     *)
(* searching, which window each of them has to find.                       *)
(***************************************************************************)
EXTENDS Integers, FiniteSets, Sequences, FiniteSetsExt, Functions

CONSTANTS
  MaxTurns,        \* bound: turns of a sample
  MaxTokens,       \* bound: tokens of an action
  MaxLength,       \* max_length, less the prompt that every window repeats
  Overlaps         \* values of turn_overlap

ASSUME WindowsAssumption ==
  /\ MaxTurns \in Nat \ {0}
  /\ MaxTokens \in Nat \ {0}
  /\ MaxLength \in Nat
  /\ Overlaps \subseteq Nat

\* obs = 0: the action has no observation; loss: the action is supervised.
Turn == [act : 1 .. MaxTokens, obs : {0, 1}, loss : BOOLEAN]

VARIABLES
  cutter,                    \* "idle", "cutting", "done" (audited), or why the sample was refused
  turns,                     \* the sample
  turn_overlap, preserve_history,
  windows                    \* what was cut, in order

windowVars == <<cutter, turns, turn_overlap, preserve_history, windows>>

\* Targets are the turns start + 1 .. end; the turns history + 1 .. start
\* precede them, masked; bare: only the observation of turn start does.
Window == [start : 0 .. MaxTurns - 1, end : 1 .. MaxTurns, history : 0 .. MaxTurns - 1, bare : BOOLEAN]
Refusals == {"turn_too_long", "no_range", "no_observation", "audit"}

WindowsTypeOK ==
  /\ cutter \in {"idle", "cutting", "done"} \cup Refusals
  /\ turns \in UNION {[1 .. n -> Turn] : n \in 0 .. MaxTurns}
  /\ turn_overlap \in Overlaps \cup {0}
  /\ preserve_history \in BOOLEAN
  /\ \A i \in DOMAIN windows : windows[i] \in Window

WindowsInit ==
  /\ cutter = "idle"
  /\ turns = <<>>
  /\ turn_overlap = 0
  /\ preserve_history = TRUE
  /\ windows = <<>>

-----------------------------------------------------------------------------
Tokens(from, to) == SumFunctionOnSet([k \in DOMAIN turns |-> turns[k].act + turns[k].obs], from + 1 .. to)
Supervised(from, to) == \E k \in from + 1 .. to : turns[k].loss
Fits(history, end) == Tokens(history, end) <= MaxLength
FitsBare(start, end) == turns[start].obs + Tokens(start, end) <= MaxLength
Earliest(start) ==
  IF turn_overlap = 0 \/ turn_overlap > start THEN 0 ELSE start - turn_overlap

\* The bisection of _window_messages over low .. high: the earliest history that
\* fits, or none.  A later success is an earlier start.
EarliestFitting(start, end) ==
  LET search[range \in (0 .. MaxTurns + 1) \X (-1 .. MaxTurns)] ==
        LET low == range[1]
            high == range[2]
            middle == (low + high) \div 2
            before == search[<<low, middle - 1>>]
        IN IF low > high THEN {}
           ELSE IF ~Fits(middle, end) THEN search[<<middle + 1, high>>]
           ELSE IF before = {} THEN {middle} ELSE before
  IN search[<<Earliest(start), start - 1>>]

\* _window_messages: the window, if it fits, or Unanswered when the previous
\* turn would be needed and has no observation.
Unanswered == [start |-> 0, end |-> 0, history |-> 0, bare |-> TRUE]
WindowMessages(start, end) ==
  LET histories == EarliestFitting(start, end)
      candidates ==
        IF start = 0 \/ ~preserve_history
          THEN {h \in {start} : Fits(h, end)}
          ELSE histories
      window(history, bare) == [start |-> start, end |-> end, history |-> history, bare |-> bare]
  IN IF candidates # {} \/ start = 0 \/ ~preserve_history THEN {window(h, FALSE) : h \in candidates}
     ELSE IF turns[start].obs = 0 THEN {Unanswered}
     ELSE {window(h, TRUE) : h \in {h \in {start} : FitsBare(start, end)}}

\* Mutant of LargestFitting: the bisection stops at its first success.
LargestFittingFirst(start) ==
  LET search[range \in (1 .. MaxTurns + 1) \X (0 .. MaxTurns)] ==
        LET low == range[1]
            high == range[2]
            end == (low + high) \div 2
            found == WindowMessages(start, end)
        IN IF low > high THEN {}
           ELSE IF ~Supervised(start, end) THEN search[<<end + 1, high>>]
           ELSE IF found = {} THEN search[<<low, end - 1>>] ELSE found
      supervised == {end \in start + 1 .. Len(turns) : Supervised(start, end)}
  IN IF supervised = {} THEN {} ELSE search[<<Min(supervised), Len(turns)>>]

\* The bisection of window_sample over the end of the target.
LargestFitting(start) ==
  LET search[range \in (1 .. MaxTurns + 1) \X (0 .. MaxTurns)] ==
        LET low == range[1]
            high == range[2]
            end == (low + high) \div 2
            found == WindowMessages(start, end)
            longer == search[<<end + 1, high>>]
        IN IF low > high THEN {}
           ELSE IF ~Supervised(start, end) THEN longer
           ELSE IF found = {Unanswered} THEN found
           ELSE IF found = {} THEN search[<<low, end - 1>>]
           ELSE IF longer # {} THEN longer ELSE found
      supervised == {end \in start + 1 .. Len(turns) : Supervised(start, end)}
  IN IF supervised = {} THEN {} ELSE search[<<Min(supervised), Len(turns)>>]

\* audit_sample_windows: every step occurs, is a supervised target once if it
\* has a loss and never otherwise; masked history is never supervised.
Occurrences(k) == {i \in DOMAIN windows : k \in windows[i].history + 1 .. windows[i].end}
Supervision(k) == {i \in DOMAIN windows : k \in windows[i].start + 1 .. windows[i].end /\ turns[k].loss}
AuditPasses ==
  \A k \in DOMAIN turns :
    /\ Occurrences(k) # {}
    /\ Cardinality(Supervision(k)) = (IF turns[k].loss THEN 1 ELSE 0)

-----------------------------------------------------------------------------
\* A sample arrives. _prompt_and_turns has made its turns.
LoadSample ==
  /\ cutter = "idle"
  /\ \E n \in 1 .. MaxTurns : turns' \in [1 .. n -> Turn]
  /\ turn_overlap' \in Overlaps
  /\ preserve_history' \in BOOLEAN
  /\ cutter' = "cutting"
  /\ UNCHANGED windows

Start == IF windows = <<>> THEN 0 ELSE windows[Len(windows)].end

CutWindow ==
  /\ cutter = "cutting"
  /\ Start < Len(turns)
  /\ LET found == LargestFitting(Start)
     IN \/ /\ found = {}
           /\ cutter' = IF Fits(Start, Start + 1) THEN "no_range" ELSE "turn_too_long"
           /\ UNCHANGED windows
        \/ /\ found = {Unanswered}
           /\ cutter' = "no_observation"
           /\ UNCHANGED windows
        \/ /\ found \notin {{}, {Unanswered}}
           /\ \E w \in found : windows' = Append(windows, w)
           /\ UNCHANGED cutter
  /\ UNCHANGED <<turns, turn_overlap, preserve_history>>

Audit ==
  /\ cutter = "cutting"
  /\ Start = Len(turns)
  /\ cutter' = IF AuditPasses THEN "done" ELSE "audit"
  /\ UNCHANGED <<turns, turn_overlap, preserve_history, windows>>

WindowsNext == LoadSample \/ CutWindow \/ Audit
WindowsSpec == WindowsInit /\ [][WindowsNext]_windowVars

-----------------------------------------------------------------------------
\* What a window has to be: its target is supervised and could not be longer,
\* the history is the longest that fits beside it within the overlap, and the
\* first target action sees the observation that caused it.
SoundWindow(w) ==
  LET histories(end) == {h \in Earliest(w.start) .. w.start - 1 : Fits(h, end)}
      fits(end) == IF w.start = 0 \/ ~preserve_history THEN Fits(w.start, end)
                   ELSE histories(end) # {} \/ FitsBare(w.start, end)
  IN /\ Supervised(w.start, w.end)
     /\ w.start = 0 \/ ~preserve_history => ~w.bare /\ w.history = w.start
     /\ fits(w.end)
     /\ \A end \in w.end + 1 .. Len(turns) : ~fits(end)
     /\ w.start > 0 /\ preserve_history =>
          IF histories(w.end) # {} THEN ~w.bare /\ w.history = Min(histories(w.end))
          ELSE w.bare /\ turns[w.start].obs > 0

(***************************************************************************)
(* The windows of a sample that is trained on partition its turns into     *)
(* targets, each is the one the two searches are meant to find, and the    *)
(* exactly-once audit passes: no supervised action is lost at a boundary   *)
(* or trained twice.  A hazard of bisection over lengths that are not      *)
(* monotone, of its bounds, and of the overlap.                            *)
(***************************************************************************)
WindowsAreExact ==
  /\ cutter # "audit"
  /\ \A i \in DOMAIN windows :
       /\ windows[i].start = (IF i = 1 THEN 0 ELSE windows[i - 1].end)
       /\ windows[i].start < windows[i].end
       /\ SoundWindow(windows[i])
  /\ cutter = "done" => Start = Len(turns) /\ AuditPasses
=================================================================================
