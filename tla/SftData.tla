-------------------------------- MODULE SftData --------------------------------
(***************************************************************************)
(* From teacher trajectories to the supervised data sets                   *)
(* (phi_agents/sft/dataset.py, build_dataset) and to the nested subsets    *)
(* that the data-scale experiment trains on (phi_agents/sft/subsets.py,    *)
(* build_subsets).  Each is a program run by hand that overwrites files in *)
(* place; either can be killed between two writes, and a build may be      *)
(* repeated over other input roots.                                        *)
(***************************************************************************)
EXTENDS Integers, FiniteSets, Sequences, FiniteSetsExt, SequencesExt

CONSTANTS
  Trajectories,     \* bound: trajectories under the input roots
  Builds,           \* bound: invocations of build_dataset
  SubsetSizes       \* SUBSET_SIZES: a prefix of the order for each

ASSUME DataAssumption ==
  /\ Trajectories \in Nat \ {0}
  /\ Builds \in Nat \ {0}
  /\ SubsetSizes \in Seq(Nat \ {0}) /\ SubsetSizes # <<>>
  /\ \A i, j \in DOMAIN SubsetSizes : i < j => SubsetSizes[i] < SubsetSizes[j]

FullSize == SubsetSizes[Len(SubsetSizes)]

\* scenario_id: the task id without its last part. Scenarios are numbered in
\* the order of their hashes.
Tasks == 1 .. 6
scenario_id(task) == (task + 1) \div 2
AllowedTasks == Tasks \ {4}

\* Shingles are near (Jaccard at or above the threshold) when they differ by at
\* most one: the relation is symmetric and not transitive.
Shingles == 1 .. 3
Near(left, right) == left - right \in -1 .. 1

\* Two kinds of actions stand for all: a "loop" returns to a page of the
\* documentation it has read, with an action in between.  A task that is not allowed
\* stands for all the checks that look at a single field.
TeacherTrajectory == [task : Tasks, actions : {"good", "loop"}, shingles : Shingles]
Inputs ==
  {t \in TeacherTrajectory :
     \/ t.task = 5 /\ t.actions = "good"
     \/ t.task = 1 /\ t.shingles = 1
     \/ t.task \in {3, 4} /\ t.actions = "good" /\ t.shingles = 1}

VARIABLES
  builder,        \* "idle", "reading", then the file that is written next; "refused"
  roots,          \* the trajectories found, sorted by path
  read, accepted, \* how many were assessed, and those kept
  train, validation,       \* the JSON-lines files: sets of trajectories
  data_manifest, \* what data_manifest.json was written over: [train, validation]
  builds,
  scaler,         \* build_subsets: "idle", "writing", "validation" (the file of a subset
                  \* that is written next), "done", "refused"
  order, heldout, \* its order of the rows, and the validation rows it read
  written,        \* the subsets it has written
  subsets,        \* the subset directories, by size: [train, validation]
  subset_manifest \* what subset_manifest.json was written over, likewise

buildVars == <<builder, roots, read, accepted, train, validation, data_manifest, builds>>
subsetVars == <<scaler, order, heldout, written, subsets, subset_manifest>>
dataVars == <<buildVars, subsetVars>>

Pair(rows, held) == [train |-> rows, validation |-> held]
NoFiles == Pair({}, {})

DataTypeOK ==
  /\ builder \in {"idle", "reading", "validation", "manifest", "refused"}
  /\ roots \in Seq(Inputs)
  /\ read \in 0 .. Len(roots)
  /\ accepted \subseteq 1 .. read
  /\ train \subseteq Inputs /\ validation \subseteq Inputs
  /\ data_manifest.train \subseteq Inputs /\ data_manifest.validation \subseteq Inputs
  /\ builds \in 0 .. Builds
  /\ scaler \in {"idle", "writing", "validation", "done", "refused"}
  /\ order \in Seq(Inputs)
  /\ heldout \subseteq Inputs
  /\ written \in 0 .. Len(SubsetSizes)
  /\ \A i \in DOMAIN SubsetSizes : \A files \in {subsets[i], subset_manifest[i]} :
       files.train \subseteq Inputs /\ files.validation \subseteq Inputs

DataInit ==
  /\ builder = "idle"
  /\ roots = <<>>
  /\ read = 0
  /\ accepted = {}
  /\ train = {} /\ validation = {}
  /\ data_manifest = NoFiles
  /\ builds = 0
  /\ scaler = "idle"
  /\ order = <<>> /\ heldout = {} /\ written = 0
  /\ subsets = [i \in DOMAIN SubsetSizes |-> NoFiles]
  /\ subset_manifest = subsets

-----------------------------------------------------------------------------
\* _has_repetition, over actions [name, docs]: an action four times, three times
\* in a row, a second time among those that only read documentation, or more
\* than six of those in a row.
_has_repetition(actions) ==
  LET at(i) == actions[i]
  IN \/ \E i \in DOMAIN actions : Cardinality({j \in DOMAIN actions : at(j).name = at(i).name}) >= 4
     \/ \E i \in 1 .. Len(actions) - 2 : at(i).name = at(i + 1).name /\ at(i).name = at(i + 2).name
     \/ \E i, j \in DOMAIN actions : i < j /\ at(i).docs /\ at(i).name = at(j).name
     \/ \E i \in 1 .. Len(actions) - 6 : \A j \in i .. i + 6 : at(j).docs

Action(name, docs) == [name |-> name, docs |-> docs]
Actions(t) ==
  IF t.actions = "loop"
    THEN <<Action(1, TRUE), Action(2, FALSE), Action(1, TRUE), Action(3, FALSE)>>
    ELSE <<Action(1, TRUE), Action(2, FALSE), Action(3, FALSE)>>

assess_trajectory(t) ==
  /\ t.task \in AllowedTasks
  /\ ~_has_repetition(Actions(t))

NearDuplicate(t) ==
  \E k \in accepted : roots[k].task = t.task /\ Near(roots[k].shingles, t.shingles)

Kept == {roots[k] : k \in accepted}
Scenarios(rows) == {scenario_id(t.task) : t \in rows}

\* _split_scenarios: the scenarios of the smallest hashes, a seventh of them
\* but at least one and never all, are the validation.
ValidationScenarios(rows) ==
  LET scenarios == Scenarios(rows)
      rounded == (Cardinality(scenarios) * 15 + 50) \div 100
      count == Max({1, Min({Cardinality(scenarios) - 1, rounded})})
  IN IF Cardinality(scenarios) < 2 THEN {}
     ELSE {s \in scenarios : Cardinality({r \in scenarios : r < s}) < count}

\* The paths, sorted, name the task first.
SortedByTask(paths) == \A i \in 1 .. Len(paths) - 1 : paths[i].task <= paths[i + 1].task
InputLists == {paths \in UNION {[1 .. n -> Inputs] : n \in 0 .. Trajectories} : SortedByTask(paths)}

\* Every build may be given other input roots.
BuildStarts ==
  /\ builder \in {"idle", "refused"}
  /\ builds < Builds
  /\ builds' = builds + 1
  /\ builder' = "reading"
  /\ roots' \in InputLists
  /\ UNCHANGED <<read, accepted, train, validation, data_manifest>>

\* One turn of the loop of build_dataset: the first of near duplicates is kept.
ReadTrajectory ==
  /\ builder = "reading"
  /\ read < Len(roots)
  /\ LET t == roots[read + 1]
     IN accepted' = IF assess_trajectory(t) /\ ~NearDuplicate(t) THEN accepted \cup {read + 1} ELSE accepted
  /\ read' = read + 1
  /\ UNCHANGED <<builder, roots, train, validation, data_manifest, builds>>

\* The files are overwritten one after the other.
WriteTrain ==
  /\ builder = "reading"
  /\ read = Len(roots)
  /\ train' = {t \in Kept : scenario_id(t.task) \notin ValidationScenarios(Kept)}
  /\ builder' = "validation"
  /\ UNCHANGED <<roots, read, accepted, validation, data_manifest, builds>>

WriteValidation ==
  /\ builder = "validation"
  /\ validation' = {t \in Kept : scenario_id(t.task) \in ValidationScenarios(Kept)}
  /\ builder' = "manifest"
  /\ UNCHANGED <<roots, read, accepted, train, data_manifest, builds>>

\* The process ends, and with it what it had in memory.
ForgetReading == roots' = <<>> /\ read' = 0 /\ accepted' = {}

\* The safety checks come after the files they are about: no task that is not
\* allowed, and no secret in the output.  The manifest is last.
WriteManifest ==
  /\ builder = "manifest"
  /\ \/ /\ {t.task : t \in train \cup validation} \subseteq AllowedTasks
        /\ builder' = "idle"
        /\ data_manifest' = Pair(train, validation)
     \/ builder' = "refused" /\ UNCHANGED data_manifest
  /\ ForgetReading
  /\ UNCHANGED <<train, validation, builds>>

BuildKilled ==
  /\ builder \in {"reading", "validation", "manifest"}
  /\ builder' = "idle"
  /\ ForgetReading
  /\ UNCHANGED <<train, validation, data_manifest, builds>>

BuildStep ==
  \/ BuildStarts \/ ReadTrajectory
  \/ WriteTrain \/ WriteValidation \/ WriteManifest \/ BuildKilled

-----------------------------------------------------------------------------
\* build_subsets reads both files as they are and checks them; the score that
\* orders the rows is left open (balanced_nested_order).
SubsetsStart ==
  /\ scaler \in {"idle", "done", "refused"}
  /\ builder \in {"idle", "validation", "refused"}
  /\ train # {}
  /\ IF Cardinality(train) # FullSize \/ Scenarios(train) \cap Scenarios(validation) # {}
       THEN scaler' = "refused" /\ UNCHANGED <<order, heldout, written>>
       ELSE scaler' = "writing" /\ order' \in SetToSeqs(train) /\ heldout' = validation /\ written' = 0
  /\ UNCHANGED <<subsets, subset_manifest>>

\* Every subset is a prefix of the order, beside the same validation rows: two files
\* that are overwritten one after the other.
WriteSubsetTrain ==
  /\ scaler = "writing"
  /\ written < Len(SubsetSizes)
  /\ scaler' = "validation"
  /\ subsets' = [subsets EXCEPT ![written + 1].train = {order[k] : k \in 1 .. SubsetSizes[written + 1]}]
  /\ UNCHANGED <<order, heldout, written, subset_manifest>>

WriteSubsetValidation ==
  /\ scaler = "validation"
  /\ scaler' = "writing"
  /\ written' = written + 1
  /\ subsets' = [subsets EXCEPT ![written + 1].validation = heldout]
  /\ UNCHANGED <<order, heldout, subset_manifest>>

Nested(files) == \A i \in 1 .. Len(files) - 1 :
  files[i].train \subseteq files[i + 1].train /\ files[i].train # files[i + 1].train

ForgetOrder == order' = <<>> /\ heldout' = {} /\ written' = 0

\* The manifest, with the hashes of all files, is written when the last one is.
SubsetsManifest ==
  /\ scaler = "writing"
  /\ written = Len(SubsetSizes)
  /\ IF Nested(subsets) THEN scaler' = "done" /\ subset_manifest' = subsets
                        ELSE scaler' = "refused" /\ UNCHANGED subset_manifest
  /\ ForgetOrder
  /\ UNCHANGED subsets

SubsetsKilled ==
  /\ scaler \in {"writing", "validation"}
  /\ scaler' = "idle"
  /\ ForgetOrder
  /\ UNCHANGED <<subsets, subset_manifest>>

SubsetStep ==
  \/ SubsetsStart \/ WriteSubsetTrain \/ WriteSubsetValidation \/ SubsetsManifest \/ SubsetsKilled

\* build_subsets has read its input before it writes, so that what is built while it
\* writes changes nothing for it: no such interleaving is explored.
DataNext ==
  \/ BuildStep /\ scaler \notin {"writing", "validation"} /\ UNCHANGED subsetVars
  \/ SubsetStep /\ UNCHANGED buildVars
DataSpec == DataInit /\ [][DataNext]_dataVars

-----------------------------------------------------------------------------
Disjoint(files) == Scenarios(files.train) \cap Scenarios(files.validation) = {}
(***************************************************************************)
(* Whatever was built, killed and built again, training data that a        *)
(* manifest vouches for never shares a scenario with the validation data   *)
(* it is judged by: not the pair of files of a finished build, and not the *)
(* subsets, although these are made from files that a killed build may     *)
(* have left mixed.  The subsets vouched for are nested, and after a       *)
(* finished invocation they are what the directories hold (a killed one    *)
(* leaves new training rows beside the validation rows of an earlier one,  *)
(* which only their hashes in the manifest tell).  Of one task no two near *)
(* duplicates were accepted, and a trajectory that passed its checks was   *)
(* left out only for one that is near to it.                               *)
(***************************************************************************)
TrainingDataIsSound ==
  /\ Disjoint(data_manifest)
  /\ \A i \in DOMAIN subset_manifest : Disjoint(subset_manifest[i])
  /\ Nested(subset_manifest) \/ \A i \in DOMAIN subset_manifest : subset_manifest[i] = NoFiles
  /\ scaler = "done" =>
       subsets = subset_manifest /\ Cardinality(subsets[Len(subsets)].train) = FullSize
  /\ \A left, right \in accepted :
       left # right /\ roots[left].task = roots[right].task => ~Near(roots[left].shingles, roots[right].shingles)
  /\ \A k \in (1 .. read) \ accepted :
       assess_trajectory(roots[k]) =>
         \E kept \in accepted : kept < k /\ roots[kept].task = roots[k].task
                                /\ Near(roots[kept].shingles, roots[k].shingles)
================================================================================
