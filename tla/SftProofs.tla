------------------------------- MODULE SftProofs --------------------------------
(***************************************************************************)
(* Proofs about supervised fine-tuning: its data, the windows it is cut    *)
(* into, its two stages, and the model that reinforcement learning starts  *)
(* from.                                                                   *)
(***************************************************************************)
EXTENDS SftData, SftWindows, SftTraining, MergedBase, NumberLemmas, SequenceTheorems

(***************************************************************************)
(* The data sets and their subsets.                                        *)
(***************************************************************************)
\* What the loop over the trajectories has kept and left out.
Deduplicated ==
  \A left, right \in accepted :
    left # right /\ roots[left].task = roots[right].task => ~Near(roots[left].shingles, roots[right].shingles)
LeftOutForOne ==
  \A k \in (1 .. read) \ accepted :
    assess_trajectory(roots[k]) =>
      \E other \in accepted : other < k /\ roots[other].task = roots[k].task
                              /\ Near(roots[other].shingles, roots[k].shingles)
ReadingInv ==
  /\ builder \in {"idle", "reading", "validation", "manifest", "refused"}
  /\ roots \in Seq(Inputs)
  /\ read \in 0 .. Len(roots)
  /\ accepted \subseteq 1 .. read
  /\ builder \in {"idle", "refused"} => read = 0
  /\ Deduplicated /\ LeftOutForOne

\* The files under way are the two sides of one split.
Trained(t) == scenario_id(t.task) \notin ValidationScenarios(Kept)
WritingInv ==
  /\ train \subseteq Inputs /\ validation \subseteq Inputs
  /\ builder \in {"validation", "manifest"} => train = {t \in Kept : Trained(t)}
  /\ builder = "manifest" => validation = {t \in Kept : ~Trained(t)}
  /\ Disjoint(data_manifest)

\* The subsets are prefixes of an order without repetition, which was checked
\* against the rows that are held out.
Prefix(n) == {order[k] : k \in 1 .. n}
DataFiles == [train : SUBSET Inputs, validation : SUBSET Inputs]
VouchedFor(files) ==
  /\ \A i \in DOMAIN files : Disjoint(files[i])
  /\ Nested(files) \/ \A i \in DOMAIN files : files[i] = NoFiles
SubsetsInv ==
  /\ scaler \in {"idle", "writing", "validation", "done", "refused"}
  /\ written \in 0 .. Len(SubsetSizes)
  /\ subsets \in [1 .. Len(SubsetSizes) -> DataFiles]
  /\ subset_manifest \in [1 .. Len(SubsetSizes) -> DataFiles]
  /\ VouchedFor(subset_manifest)
  /\ scaler \in {"writing", "validation"} =>
       /\ order \in [1 .. FullSize -> Inputs] /\ heldout \subseteq Inputs
       /\ \A i, j \in 1 .. FullSize : i # j => order[i] # order[j]
       /\ Scenarios(Prefix(FullSize)) \cap Scenarios(heldout) = {}
       /\ \A i \in 1 .. written : subsets[i] = Pair(Prefix(SubsetSizes[i]), heldout)
  /\ scaler = "validation" =>
       written < Len(SubsetSizes) /\ subsets[written + 1].train = Prefix(SubsetSizes[written + 1])
  /\ scaler = "done" =>
       subsets = subset_manifest /\ Cardinality(subsets[Len(subsets)].train) = FullSize

DataInv == ReadingInv /\ WritingInv /\ SubsetsInv

\* The last of ascending numbers is the largest.
LEMMA LastIsLargest ==
  ASSUME NEW n \in Nat \ {0}, NEW sizes, \A i \in 1 .. n : sizes[i] \in Nat,
         \A i, j \in 1 .. n : i < j => sizes[i] < sizes[j]
  PROVE  \A i \in 1 .. n : sizes[i] <= sizes[n]
<1> SUFFICES ASSUME NEW i \in 1 .. n PROVE sizes[i] <= sizes[n]
  OBVIOUS
<1>1. n \in 1 .. n /\ sizes[n] \in Nat /\ (i = n \/ i < n)
  OBVIOUS
<1> QED
  BY <1>1

LEMMA Sizes ==
  /\ Len(SubsetSizes) \in Nat \ {0} /\ DOMAIN SubsetSizes = 1 .. Len(SubsetSizes)
  /\ FullSize \in Nat \ {0}
  /\ \A i \in 1 .. Len(SubsetSizes) : SubsetSizes[i] \in Nat \ {0} /\ SubsetSizes[i] <= FullSize
  /\ \A s \in [1 .. Len(SubsetSizes) -> DataFiles] : Len(s) = Len(SubsetSizes)
<1>1. /\ SubsetSizes \in Seq(Nat \ {0}) /\ SubsetSizes # <<>>
      /\ \A i, j \in DOMAIN SubsetSizes : i < j => SubsetSizes[i] < SubsetSizes[j]
  BY DataAssumption
<1>2. Len(SubsetSizes) \in Nat \ {0} /\ DOMAIN SubsetSizes = 1 .. Len(SubsetSizes)
  BY <1>1
<1>3. \A i \in 1 .. Len(SubsetSizes) : SubsetSizes[i] \in Nat \ {0}
  BY <1>1, <1>2
<1>4. FullSize \in Nat \ {0}
  BY <1>2, <1>3 DEF FullSize
<1>5. \A i \in 1 .. Len(SubsetSizes) : SubsetSizes[i] <= FullSize
  <2>1. /\ \A i \in 1 .. Len(SubsetSizes) : SubsetSizes[i] \in Nat
        /\ \A i, j \in 1 .. Len(SubsetSizes) : i < j => SubsetSizes[i] < SubsetSizes[j]
    BY <1>1, <1>2, <1>3
  <2> QED
    BY <1>2, <2>1, LastIsLargest DEF FullSize
<1>6. ASSUME NEW s \in [1 .. Len(SubsetSizes) -> DataFiles] PROVE Len(s) = Len(SubsetSizes)
  BY <1>2, <1>6
<1> QED
  BY <1>2, <1>3, <1>4, <1>5, <1>6

LEMMA DataStartsWell == DataInit => DataInv
<1> SUFFICES ASSUME DataInit PROVE DataInv
  OBVIOUS
<1>1. ReadingInv
  BY DEF DataInit, ReadingInv, Deduplicated, LeftOutForOne
<1>2. WritingInv
  BY DEF DataInit, WritingInv, Disjoint, NoFiles, Pair, Scenarios
<1>3. SubsetsInv
  BY Sizes DEF DataInit, SubsetsInv, VouchedFor, Disjoint, NoFiles, Pair, Scenarios, DataFiles
<1> QED
  BY <1>1, <1>2, <1>3 DEF DataInv

LEMMA ReadingInductive ==
  ASSUME DataInv, BuildStep
  PROVE  ReadingInv'
<1>1. ReadingInv
  BY DEF DataInv
<1>3. CASE BuildStarts
  <2>1. roots' \in InputLists /\ UNCHANGED <<read, accepted>> /\ builder' = "reading"
    BY <1>3 DEF BuildStarts
  <2>2. roots' \in Seq(Inputs)
    BY <2>1 DEF InputLists
  <2>3. read' = 0 /\ accepted' = {}
    BY <1>1, <1>3, <2>1 DEF BuildStarts, ReadingInv
  <2> QED
    BY <2>1, <2>2, <2>3 DEF ReadingInv, Deduplicated, LeftOutForOne
<1>4. CASE ReadTrajectory
  <2> DEFINE t == roots[read + 1]
  <2>1. /\ read' = read + 1 /\ read < Len(roots) /\ builder' = "reading" /\ roots' = roots
        /\ accepted' = IF assess_trajectory(t) /\ ~NearDuplicate(t) THEN accepted \cup {read + 1} ELSE accepted
    BY <1>4 DEF ReadTrajectory
  <2>2. read' \in 0 .. Len(roots') /\ accepted' \subseteq 1 .. read' /\ read \in Nat
    BY <1>1, <2>1 DEF ReadingInv
  <2>3. Deduplicated'
    <3>1. CASE assess_trajectory(t) /\ ~NearDuplicate(t)
      <4>1. \A k \in accepted : roots[k].task = t.task =>
              ~Near(roots[k].shingles, t.shingles) /\ ~Near(t.shingles, roots[k].shingles)
        <5>1. \A k \in accepted : roots[k].task = t.task => ~Near(roots[k].shingles, t.shingles)
          BY <3>1 DEF NearDuplicate
        <5>2. \A k \in accepted \cup {read + 1} : roots[k] \in Inputs
          BY <1>1, <2>1 DEF ReadingInv
        <5>3. \A r \in Inputs : r.shingles \in 1 .. 3
          BY DEF Inputs, TeacherTrajectory, Shingles
        <5>4. \A a, b \in 1 .. 3 : Near(a, b) => Near(b, a)
          BY DEF Near
        <5> QED
          BY <5>1, <5>2, <5>3, <5>4
      <4> QED
        BY <1>1, <2>1, <3>1, <4>1 DEF ReadingInv, Deduplicated
    <3>2. CASE ~(assess_trajectory(t) /\ ~NearDuplicate(t))
      BY <1>1, <2>1, <3>2 DEF ReadingInv, Deduplicated
    <3> QED
      BY <3>1, <3>2
  <2>4. LeftOutForOne'
    <3>1. SUFFICES ASSUME NEW k \in (1 .. read') \ accepted', assess_trajectory(roots[k])
                   PROVE  \E other \in accepted' : other < k /\ roots[other].task = roots[k].task
                                                   /\ Near(roots[other].shingles, roots[k].shingles)
      BY <2>1 DEF LeftOutForOne, assess_trajectory
    <3>2. CASE k = read + 1
      <4>1. NearDuplicate(t) /\ accepted' = accepted
        BY <2>1, <3>1, <3>2
      <4>2. \A other \in accepted : other < k
        BY <1>1, <2>2, <3>2 DEF ReadingInv
      <4> QED
        BY <3>2, <4>1, <4>2 DEF NearDuplicate
    <3>3. CASE k # read + 1
      <4>1. k \in (1 .. read) \ accepted /\ accepted \subseteq accepted'
        BY <2>1, <2>2, <3>3
      <4> QED
        BY <1>1, <3>1, <4>1 DEF ReadingInv, LeftOutForOne
    <3> QED
      BY <3>2, <3>3
  <2> QED
    BY <1>1, <2>1, <2>2, <2>3, <2>4 DEF ReadingInv
<1>5. CASE WriteTrain \/ WriteValidation
  <2>1. UNCHANGED <<roots, read, accepted>> /\ builder' \in {"validation", "manifest"}
    BY <1>5 DEF WriteTrain, WriteValidation
  <2> QED
    BY <1>1, <1>5, <2>1 DEF ReadingInv, Deduplicated, LeftOutForOne, assess_trajectory
<1>6. CASE WriteManifest \/ BuildKilled
  <2>1. roots' = <<>> /\ read' = 0 /\ accepted' = {} /\ builder' \in {"idle", "refused"}
    BY <1>6 DEF WriteManifest, BuildKilled, ForgetReading
  <2> QED
    BY <2>1 DEF ReadingInv, Deduplicated, LeftOutForOne
<1> QED
  BY <1>3, <1>4, <1>5, <1>6 DEF BuildStep

LEMMA WritingInductive ==
  ASSUME DataInv, BuildStep
  PROVE  WritingInv'
<1>1. ReadingInv /\ WritingInv
  BY DEF DataInv
<1>2. Kept \subseteq Inputs
  BY <1>1 DEF ReadingInv, Kept
<1>3. CASE BuildStarts \/ ReadTrajectory \/ BuildKilled
  <2>1. builder' \in {"idle", "reading", "refused"} /\ UNCHANGED <<train, validation, data_manifest>>
    BY <1>1, <1>3 DEF BuildStarts, ReadTrajectory, BuildKilled, ReadingInv
  <2> QED
    BY <1>1, <2>1 DEF WritingInv, Disjoint, Scenarios
<1>4. CASE WriteTrain
  <2>1. /\ builder' = "validation" /\ UNCHANGED <<roots, accepted, validation, data_manifest>>
        /\ train' = {t \in Kept : Trained(t)}
    BY <1>4 DEF WriteTrain, Trained
  <2>2. Kept' = Kept /\ \A t : Trained(t)' <=> Trained(t)
    BY <2>1 DEF Kept, Trained
  <2> QED
    BY <1>1, <1>2, <2>1, <2>2 DEF WritingInv
<1>5. CASE WriteValidation
  <2>1. /\ builder = "validation" /\ builder' = "manifest" /\ UNCHANGED <<roots, accepted, train, data_manifest>>
        /\ validation' = {t \in Kept : ~Trained(t)}
    BY <1>5 DEF WriteValidation, Trained
  <2>2. Kept' = Kept /\ \A t : Trained(t)' <=> Trained(t)
    BY <2>1 DEF Kept, Trained
  <2> QED
    BY <1>1, <1>2, <2>1, <2>2 DEF WritingInv
<1>6. CASE WriteManifest
  <2>1. /\ builder = "manifest" /\ builder' \in {"idle", "refused"} /\ UNCHANGED <<train, validation>>
        /\ data_manifest' = Pair(train, validation) \/ UNCHANGED data_manifest
    BY <1>6 DEF WriteManifest
  <2>2. Scenarios(train) \cap Scenarios(validation) = {}
    BY <1>1, <2>1 DEF WritingInv, Scenarios, Trained
  <2>3. Disjoint(Pair(train, validation))
    BY <2>2 DEF Disjoint, Pair
  <2> QED
    BY <1>1, <2>1, <2>3 DEF WritingInv, Disjoint, Scenarios
<1> QED
  BY <1>3, <1>4, <1>5, <1>6 DEF BuildStep

\* A step that leaves the order and the manifest alone leaves what is said of them.
LEMMA OrderStays ==
  ASSUME UNCHANGED <<order, heldout>>
  PROVE  /\ \A n : Prefix(n)' = Prefix(n)
         /\ Scenarios(Prefix(FullSize))' = Scenarios(Prefix(FullSize))
         /\ Scenarios(heldout)' = Scenarios(heldout)
<1>1. \A n : Prefix(n)' = Prefix(n)
  BY DEF Prefix
<1> QED
  BY <1>1 DEF Scenarios

LEMMA ManifestStays ==
  ASSUME UNCHANGED subset_manifest
  PROVE  VouchedFor(subset_manifest)' <=> VouchedFor(subset_manifest)
BY DEF VouchedFor, Disjoint, Scenarios, Nested

LEMMA SubsetsInductive ==
  ASSUME DataInv, SubsetStep
  PROVE  SubsetsInv'
<1>1. WritingInv /\ SubsetsInv
  BY DEF DataInv
<1>2. CASE SubsetsStart
  <2>1. CASE scaler' = "refused" /\ UNCHANGED <<order, heldout, written, subsets, subset_manifest>>
    BY <1>1, <2>1, ManifestStays DEF SubsetsInv
  <2>2. CASE /\ scaler' = "writing" /\ order' \in SetToSeqs(train) /\ heldout' = validation /\ written' = 0
             /\ Cardinality(train) = FullSize /\ Scenarios(train) \cap Scenarios(validation) = {}
             /\ UNCHANGED <<subsets, subset_manifest>>
    <3>1. order' \in [1 .. FullSize -> train] /\ \A i, j \in 1 .. FullSize : i # j => order'[i] # order'[j]
      BY <2>2 DEF SetToSeqs
    <3>2. Prefix(FullSize)' \subseteq train
      BY <3>1 DEF Prefix
    <3>3. Scenarios(Prefix(FullSize))' \cap Scenarios(heldout)' = {}
      BY <2>2, <3>2 DEF Scenarios
    <3>4. order' \in [1 .. FullSize -> Inputs] /\ heldout' \subseteq Inputs
      BY <1>1, <2>2, <3>1 DEF WritingInv
    <3>5. /\ written' \in 0 .. Len(SubsetSizes) /\ 1 .. written' = {}
      BY <2>2, Sizes
    <3> QED
      BY <1>1, <2>2, <3>1, <3>3, <3>4, <3>5, ManifestStays DEF SubsetsInv
  <2> QED
    BY <1>2, <2>1, <2>2 DEF SubsetsStart
<1>3. CASE WriteSubsetTrain
  <2> DEFINE n == written + 1
  <2>1. /\ scaler = "writing" /\ scaler' = "validation" /\ written < Len(SubsetSizes)
        /\ subsets' = [subsets EXCEPT ![n].train = Prefix(SubsetSizes[n])]
        /\ UNCHANGED <<order, heldout, written, subset_manifest>>
    BY <1>3 DEF WriteSubsetTrain, Prefix
  <2>2. /\ written \in Nat /\ n \in 1 .. Len(SubsetSizes) /\ n \notin 1 .. written
        /\ SubsetSizes[n] \in Nat /\ SubsetSizes[n] <= FullSize /\ FullSize \in Nat
    BY <1>1, <2>1, Sizes DEF SubsetsInv
  <2>3. /\ order \in [1 .. FullSize -> Inputs]
        /\ subsets \in [1 .. Len(SubsetSizes) -> DataFiles]
        /\ \A i \in 1 .. written : subsets[i] = Pair(Prefix(SubsetSizes[i]), heldout)
    BY <1>1, <2>1 DEF SubsetsInv
  <2>4. Prefix(SubsetSizes[n]) \in SUBSET Inputs
    BY <2>2, <2>3 DEF Prefix
  <2> HIDE DEF n
  <2>5. subsets' \in [1 .. Len(SubsetSizes) -> DataFiles] /\ subsets'[n].train = Prefix(SubsetSizes[n])
    BY <2>1, <2>2, <2>3, <2>4 DEF DataFiles
  <2>6. \A i \in 1 .. written : subsets'[i] = subsets[i]
    BY <2>1, <2>2, <2>3
  <2>7. subsets'[written + 1].train = Prefix(SubsetSizes[written + 1])
    BY <2>5 DEF n
  <2>8. \A i \in 1 .. written' : subsets'[i] = Pair(Prefix(SubsetSizes[i]), heldout)'
    BY <2>1, <2>3, <2>6, OrderStays DEF Pair
  <2>9. \A m : Prefix(m)' = Prefix(m)
    BY <2>1, OrderStays
  <2> QED
    BY <1>1, <2>1, <2>5, <2>7, <2>8, <2>9, OrderStays, ManifestStays DEF SubsetsInv
<1>4. CASE WriteSubsetValidation
  <2> DEFINE n == written + 1
  <2>1. /\ scaler = "validation" /\ scaler' = "writing" /\ written' = n
        /\ subsets' = [subsets EXCEPT ![n].validation = heldout]
        /\ UNCHANGED <<order, heldout, subset_manifest>>
    BY <1>4 DEF WriteSubsetValidation
  <2>2. /\ heldout \in SUBSET Inputs
        /\ subsets \in [1 .. Len(SubsetSizes) -> DataFiles]
        /\ \A i \in 1 .. written : subsets[i] = Pair(Prefix(SubsetSizes[i]), heldout)
        /\ written < Len(SubsetSizes) /\ subsets[n].train = Prefix(SubsetSizes[n])
    BY <1>1, <2>1 DEF SubsetsInv
  <2>3. /\ n \in 1 .. Len(SubsetSizes) /\ n \notin 1 .. written
        /\ \A i \in 1 .. n : i = n \/ i \in 1 .. written
        /\ n \in 0 .. Len(SubsetSizes)
    BY <1>1, <2>2, Sizes DEF SubsetsInv
  <2> HIDE DEF n
  <2>4. subsets' \in [1 .. Len(SubsetSizes) -> DataFiles]
    BY <2>1, <2>2, <2>3 DEF DataFiles
  <2>5. \A i \in 1 .. written : subsets'[i] = subsets[i]
    BY <2>1, <2>2, <2>3
  <2>6. subsets'[n] = Pair(Prefix(SubsetSizes[n]), heldout)
    BY <2>1, <2>2, <2>3 DEF DataFiles, Pair
  <2>7. \A i \in 1 .. n : subsets'[i] = Pair(Prefix(SubsetSizes[i]), heldout)
    BY <2>2, <2>3, <2>5, <2>6
  <2>8. \A i \in 1 .. written' : subsets'[i] = Pair(Prefix(SubsetSizes[i]), heldout)'
    BY <2>1, <2>7, OrderStays DEF Pair
  <2> QED
    BY <1>1, <2>1, <2>3, <2>4, <2>8, OrderStays, ManifestStays DEF SubsetsInv
<1>5. CASE SubsetsManifest
  <2>1. /\ scaler = "writing" /\ written = Len(SubsetSizes) /\ subsets' = subsets /\ written' = 0
        /\ IF Nested(subsets) THEN scaler' = "done" /\ subset_manifest' = subsets
                              ELSE scaler' = "refused" /\ UNCHANGED subset_manifest
    BY <1>5 DEF SubsetsManifest, ForgetOrder
  <2>2. Cardinality(subsets[Len(subsets)].train) = FullSize
    <3>1. subsets[Len(subsets)] = Pair(Prefix(FullSize), heldout)
      BY <1>1, <2>1, Sizes DEF SubsetsInv, FullSize
    <3>2. order \in Bijection(1 .. FullSize, Prefix(FullSize))
      <4>1. order \in [1 .. FullSize -> Prefix(FullSize)]
        BY <1>1, <2>1 DEF SubsetsInv, Prefix
      <4>2. /\ \A i, j \in 1 .. FullSize : order[i] = order[j] => i = j
            /\ \A r \in Prefix(FullSize) : \E k \in 1 .. FullSize : order[k] = r
        BY <1>1, <2>1 DEF SubsetsInv, Prefix
      <4> QED
        BY <4>1, <4>2 DEF Bijection, Injection, Surjection, IsInjective
    <3>3. IsFiniteSet(1 .. FullSize) /\ Cardinality(1 .. FullSize) = FullSize
      <4>1. FullSize \in Int /\ 1 \in Int /\ FullSize >= 1
        BY Sizes
      <4>2. IsFiniteSet(1 .. FullSize) /\ Cardinality(1 .. FullSize) = IF 1 > FullSize THEN 0 ELSE FullSize - 1 + 1
        BY ONLY <4>1, FS_Interval
      <4> QED
        BY <4>1, <4>2
    <3>4. ExistsBijection(1 .. FullSize, Prefix(FullSize))
      BY <3>2 DEF ExistsBijection
    <3>5. Cardinality(Prefix(FullSize)) = FullSize
      BY ONLY <3>3, <3>4, FS_Bijection
    <3> QED
      BY <3>1, <3>5 DEF Pair
  <2>3. ASSUME NEW i \in 1 .. Len(SubsetSizes) PROVE Disjoint(subsets[i])
    <3>1. subsets[i] = Pair(Prefix(SubsetSizes[i]), heldout)
      BY <1>1, <2>1 DEF SubsetsInv
    <3>2. Prefix(SubsetSizes[i]) \subseteq Prefix(FullSize)
      BY Sizes DEF Prefix
    <3>3. Scenarios(Prefix(FullSize)) \cap Scenarios(heldout) = {}
      BY <1>1, <2>1 DEF SubsetsInv
    <3> QED
      BY <3>1, <3>2, <3>3 DEF Disjoint, Pair, Scenarios
  <2>4. 0 \in 0 .. Len(SubsetSizes)
    BY Sizes
  <2>5. CASE Nested(subsets)
    <3>1. VouchedFor(subsets)
      BY <1>1, <2>3, <2>5 DEF VouchedFor, SubsetsInv
    <3>2. subset_manifest' = subsets /\ scaler' = "done" /\ VouchedFor(subset_manifest)'
      BY <2>1, <2>5, <3>1 DEF VouchedFor, Disjoint, Scenarios, Nested
    <3> QED
      BY <1>1, <2>1, <2>2, <2>4, <3>2 DEF SubsetsInv
  <2>6. CASE ~Nested(subsets)
    BY <1>1, <2>1, <2>4, <2>6, ManifestStays DEF SubsetsInv
  <2> QED
    BY <2>5, <2>6
<1>6. CASE SubsetsKilled
  <2>1. 0 \in 0 .. Len(SubsetSizes)
    BY Sizes
  <2> QED
    BY <1>1, <1>6, <2>1, ManifestStays DEF SubsetsKilled, ForgetOrder, SubsetsInv
<1> QED
  BY <1>2, <1>3, <1>4, <1>5, <1>6 DEF SubsetStep

LEMMA DataInductive == DataInv /\ [DataNext]_dataVars => DataInv'
<1> SUFFICES ASSUME DataInv, [DataNext]_dataVars PROVE DataInv'
  OBVIOUS
<1>1. ASSUME UNCHANGED buildVars PROVE ReadingInv'
  BY <1>1 DEF DataInv, buildVars, ReadingInv, Deduplicated, LeftOutForOne, assess_trajectory
<1>2. ASSUME UNCHANGED buildVars PROVE WritingInv'
  BY <1>2 DEF DataInv, buildVars, WritingInv, Disjoint, Scenarios, Kept, Trained
<1>3. ASSUME UNCHANGED subsetVars PROVE SubsetsInv'
  <2>1. UNCHANGED <<scaler, order, heldout, written, subsets, subset_manifest>>
    BY <1>3 DEF subsetVars
  <2> QED
    BY <2>1, OrderStays, ManifestStays DEF DataInv, SubsetsInv, Pair
<1> QED
  BY <1>1, <1>2, <1>3, ReadingInductive, WritingInductive, SubsetsInductive DEF DataNext, DataInv, dataVars

LEMMA DataSound == DataInv => TrainingDataIsSound
BY DEF DataInv, ReadingInv, WritingInv, SubsetsInv, VouchedFor, Deduplicated, LeftOutForOne, TrainingDataIsSound

\* What a data or a subset manifest vouches for keeps apart training and what it is
\* judged by, and is nested, whatever was built, killed and built again over other
\* trajectories (dataset.py, build_dataset; subsets.py, build_subsets).
THEOREM DataIsSound == DataSpec => []TrainingDataIsSound
BY DataSound, DataStartsWell, DataInductive, PTL DEF DataSpec

-----------------------------------------------------------------------------
(***************************************************************************)
(* The windows of a sample.  Both bisections are shown to return what a    *)
(* search of their whole range would, by induction over its length.        *)
(***************************************************************************)
\* A sample as LoadSample takes it.
Sample ==
  /\ Len(turns) \in 0 .. MaxTurns /\ turns \in [1 .. Len(turns) -> Turn]
  /\ turn_overlap \in Nat /\ preserve_history \in BOOLEAN
  /\ MaxTurns \in Nat \ {0} /\ MaxLength \in Nat

\* More turns do not have fewer tokens.
LEMMA TokensGrow ==
  ASSUME Sample, NEW from \in Nat, NEW to \in 0 .. Len(turns),
         NEW later \in Nat, NEW earlier \in Nat, from <= later, earlier <= to
  PROVE  /\ Tokens(from, to) \in Nat /\ Tokens(later, earlier) \in Nat
         /\ Tokens(later, earlier) <= Tokens(from, to)
<1> DEFINE f == [k \in DOMAIN turns |-> turns[k].act + turns[k].obs]
           S == from + 1 .. to
           T == later + 1 .. earlier
<1>1. S \in SUBSET (1 .. Len(turns)) /\ IsFiniteSet(S) /\ T \in SUBSET S
  <2>1. IsFiniteSet(S)
    BY FS_Interval
  <2> QED
    BY <2>1 DEF Sample
<1>2. \A k \in S : f[k] \in Nat
  <2>1. SUFFICES ASSUME NEW k \in 1 .. Len(turns) PROVE f[k] \in Nat
    BY <1>1
  <2>2. turns[k] \in Turn /\ DOMAIN turns = 1 .. Len(turns)
    BY DEF Sample
  <2>3. turns[k].act \in Nat /\ turns[k].obs \in Nat
    BY <2>2, WindowsAssumption DEF Turn
  <2> QED
    BY <2>2, <2>3
<1>3. Tokens(from, to) = SumFunctionOnSet(f, S) /\ Tokens(later, earlier) = SumFunctionOnSet(f, T)
  BY DEF Tokens
<1> HIDE DEF f, S, T
<1> QED
  BY <1>1, <1>2, <1>3, SumGrows

\* What fits, fits without its first or its last turn.
LEMMA FitsLess ==
  ASSUME Sample, NEW from \in Nat, NEW to \in 0 .. Len(turns), Fits(from, to),
         NEW later \in Nat, NEW earlier \in Nat, from <= later, earlier <= to
  PROVE  Fits(later, earlier)
<1>1. /\ Tokens(from, to) \in Nat /\ Tokens(later, earlier) \in Nat
      /\ Tokens(later, earlier) <= Tokens(from, to)
  BY TokensGrow
<1> QED
  BY <1>1 DEF Fits, Sample

-----------------------------------------------------------------------------
(* The bisection over the start of the history.                            *)

HistoryRanges == (0 .. MaxTurns + 1) \X (-1 .. MaxTurns)
HistoryBody(search, end, range) ==
  LET low == range[1]
      high == range[2]
      middle == (low + high) \div 2
      before == search[<<low, middle - 1>>]
  IN IF low > high THEN {}
     ELSE IF ~Fits(middle, end) THEN search[<<middle + 1, high>>]
     ELSE IF before = {} THEN {middle} ELSE before
HistorySearch(end) ==
  CHOOSE search : search = [range \in HistoryRanges |-> HistoryBody(search, end, range)]

LEMMA HistorySearchIs ==
  ASSUME NEW start, NEW end
  PROVE  EarliestFitting(start, end) = HistorySearch(end)[<<Earliest(start), start - 1>>]
BY DEF EarliestFitting, HistorySearch, HistoryBody, HistoryRanges

\* The two halves of a range are shorter.
LEMMA Halves ==
  ASSUME NEW low \in Int, NEW high \in Int, low <= high
  PROVE  LET middle == (low + high) \div 2
         IN /\ middle \in Int /\ low <= middle /\ middle <= high
            /\ (middle - 1) - low < high - low /\ high - (middle + 1) < high - low
OBVIOUS

LEMMA HistoryRangeTypes ==
  ASSUME NEW range \in HistoryRanges, MaxTurns \in Nat
  PROVE  range[1] \in Nat /\ range[2] \in Int /\ range[2] - range[1] < MaxTurns + 1
BY DEF HistoryRanges

LEMMA HistoryHalves ==
  ASSUME NEW range \in HistoryRanges, MaxTurns \in Nat, range[1] <= range[2]
  PROVE  LET middle == (range[1] + range[2]) \div 2
             left == <<range[1], middle - 1>>
             right == <<middle + 1, range[2]>>
         IN /\ middle \in Int /\ range[1] <= middle /\ middle <= range[2]
            /\ left \in HistoryRanges /\ left[2] - left[1] < range[2] - range[1]
            /\ right \in HistoryRanges /\ right[2] - right[1] < range[2] - range[1]
<1>1. range[1] \in 0 .. MaxTurns + 1 /\ range[2] \in -1 .. MaxTurns
  BY DEF HistoryRanges
<1> QED
  BY <1>1, Halves DEF HistoryRanges

\* The search is a function: it only goes on in shorter ranges.
LEMMA HistorySearchExists ==
  ASSUME NEW end, MaxTurns \in Nat
  PROVE  \A range \in HistoryRanges : HistorySearch(end)[range] = HistoryBody(HistorySearch(end), end, range)
<1> DEFINE Upto(search, n) == \A range \in HistoryRanges :
                                range[2] - range[1] < n => search[range] = HistoryBody(search, end, range)
           P(n) == \E search : Upto(search, n)
<1>1. P(0)
  <2> DEFINE none == [range \in HistoryRanges |-> {}]
  <2>1. ASSUME NEW range \in HistoryRanges, range[2] - range[1] < 0 PROVE range[1] > range[2]
    BY <2>1 DEF HistoryRanges
  <2>2. Upto(none, 0)
    BY <2>1 DEF HistoryBody
  <2> HIDE DEF none
  <2> QED
    BY <2>2
<1>2. ASSUME NEW n \in Nat, P(n) PROVE P(n + 1)
  <2>1. PICK search : Upto(search, n)
    BY <1>2
  <2> DEFINE next == [range \in HistoryRanges |-> HistoryBody(search, end, range)]
  <2>2. ASSUME NEW range \in HistoryRanges, range[2] - range[1] < n + 1
        PROVE  next[range] = HistoryBody(next, end, range)
    <3>1. next[range] = HistoryBody(search, end, range)
      OBVIOUS
    <3> HIDE DEF next
    <3>2. CASE range[1] > range[2]
      BY <3>1, <3>2 DEF HistoryBody
    <3>3. CASE range[1] <= range[2]
      <4> DEFINE middle == (range[1] + range[2]) \div 2
                 left == <<range[1], middle - 1>>
                 right == <<middle + 1, range[2]>>
      <4>1. /\ left \in HistoryRanges /\ left[2] - left[1] < range[2] - range[1]
            /\ right \in HistoryRanges /\ right[2] - right[1] < range[2] - range[1]
        BY <3>3, HistoryHalves
      <4>2. \A half \in HistoryRanges : half[2] - half[1] < range[2] - range[1] => half[2] - half[1] < n
        BY <2>2 DEF HistoryRanges
      <4> HIDE DEF left, right, middle
      <4>3. next[left] = search[left] /\ next[right] = search[right]
        BY <2>1, <4>1, <4>2 DEF next
      <4> QED
        BY <3>1, <4>3 DEF HistoryBody, left, right, middle
    <3> QED
      BY <3>2, <3>3 DEF HistoryRanges
  <2> HIDE DEF next
  <2> QED
    BY <2>2
<1>3. \A n \in Nat : P(n)
  <2> DEFINE N == {n \in Nat : P(n)}
  <2> HIDE DEF P
  <2>1. N \in SUBSET Nat /\ 0 \in N /\ \A n \in N : n + 1 \in N
    BY <1>1, <1>2
  <2>2. N = Nat
    <3> HIDE DEF N
    <3> QED
      BY <2>1, Induction
  <2> QED
    BY <2>2
<1>4. MaxTurns + 1 \in Nat /\ \A range \in HistoryRanges : range[2] - range[1] < MaxTurns + 1
  BY DEF HistoryRanges
<1>5. PICK search : Upto(search, MaxTurns + 1)
  BY <1>3, <1>4
<1>6. \A range \in HistoryRanges : search[range] = HistoryBody(search, end, range)
  BY <1>4, <1>5
<1> DEFINE all == [range \in HistoryRanges |-> search[range]]
<1>7. ASSUME NEW range \in HistoryRanges PROVE HistoryBody(all, end, range) = search[range]
  <2>1. CASE range[1] > range[2]
    BY <1>6, <2>1 DEF HistoryBody
  <2>2. CASE range[1] <= range[2]
    <3> DEFINE middle == (range[1] + range[2]) \div 2
               left == <<range[1], middle - 1>>
               right == <<middle + 1, range[2]>>
    <3>1. left \in HistoryRanges /\ right \in HistoryRanges
      BY <2>2, HistoryHalves
    <3> HIDE DEF left, right, middle
    <3>2. all[left] = search[left] /\ all[right] = search[right]
      BY <3>1
    <3>3. search[range] = HistoryBody(search, end, range)
      BY <1>6
    <3> HIDE DEF all
    <3> QED
      BY <3>2, <3>3 DEF HistoryBody, left, right, middle
  <2> QED
    BY <2>1, <2>2 DEF HistoryRanges
<1>8. all = [range \in HistoryRanges |-> HistoryBody(all, end, range)]
  BY <1>7
<1>9. HistorySearch(end) = [range \in HistoryRanges |-> HistoryBody(HistorySearch(end), end, range)]
  <2> HIDE DEF all
  <2> QED
    BY <1>8 DEF HistorySearch
<1> QED
  BY <1>9

\* What a search for the first of some numbers has to find.
FindsFirst(found, numbers) ==
  \/ found = {} /\ numbers = {}
  \/ \E first \in numbers : found = {first} /\ \A n \in numbers : first <= n

\* The histories in a range that fit before a target.
Fitting(range, end) == {h \in range[1] .. range[2] : Fits(h, end)}

LEMMA HistoryFinds ==
  ASSUME Sample, NEW start \in 1 .. Len(turns), NEW end \in start .. Len(turns)
  PROVE  FindsFirst(EarliestFitting(start, end), Fitting(<<Earliest(start), start - 1>>, end))
<1>1. MaxTurns \in Nat /\ Len(turns) \in 0 .. MaxTurns
  BY DEF Sample
<1>2. \A from, later \in Nat : from <= later /\ Fits(from, end) => Fits(later, end)
  <2>1. end \in 0 .. Len(turns) /\ end \in Nat /\ end <= end
    BY <1>1
  <2> QED
    BY <2>1, FitsLess
<1> DEFINE S == HistorySearch(end)
           P(n) == \A range \in HistoryRanges :
                     range[2] - range[1] < n => FindsFirst(S[range], Fitting(range, end))
<1>3. \A range \in HistoryRanges : S[range] = HistoryBody(S, end, range)
  BY <1>1, HistorySearchExists
<1> HIDE DEF S
<1>0. \A range \in HistoryRanges : range[1] \in Nat /\ range[2] \in Int
  BY <1>1, HistoryRangeTypes
<1>4. ASSUME NEW range \in HistoryRanges, range[1] > range[2] PROVE FindsFirst(S[range], Fitting(range, end))
  <2>1. S[range] = {}
    BY <1>3, <1>4 DEF HistoryBody
  <2>2. Fitting(range, end) = {}
    BY <1>0, <1>4 DEF Fitting
  <2> QED
    BY <2>1, <2>2 DEF FindsFirst
<1>5. P(0)
  <2>1. \A range \in HistoryRanges : range[2] - range[1] < 0 => range[1] > range[2]
    BY <1>0
  <2> QED
    BY <1>4, <2>1
<1>6. ASSUME NEW n \in Nat, P(n) PROVE P(n + 1)
  <2>1. SUFFICES ASSUME NEW range \in HistoryRanges, range[2] - range[1] < n + 1, range[1] <= range[2]
                 PROVE  FindsFirst(S[range], Fitting(range, end))
    BY <1>0, <1>4
  <2> DEFINE middle == (range[1] + range[2]) \div 2
             left == <<range[1], middle - 1>>
             right == <<middle + 1, range[2]>>
  <2>2. /\ middle \in Int /\ range[1] <= middle /\ middle <= range[2]
        /\ left \in HistoryRanges /\ left[2] - left[1] < range[2] - range[1]
        /\ right \in HistoryRanges /\ right[2] - right[1] < range[2] - range[1]
    BY <1>1, <2>1, HistoryHalves
  <2>3. ASSUME NEW half \in HistoryRanges, half[2] - half[1] < range[2] - range[1]
        PROVE  half[2] - half[1] < n
    <3>1. half[1] \in Nat /\ half[2] \in Int /\ range[1] \in Nat /\ range[2] \in Int
      BY <1>0
    <3> QED
      BY <2>1, <2>3, <3>1
  <2>4. /\ range[1] \in Nat /\ range[2] \in Int /\ middle \in Nat
        /\ left[1] = range[1] /\ left[2] = middle - 1 /\ right[1] = middle + 1 /\ right[2] = range[2]
    <3>1. range[1] \in Nat /\ range[2] \in Int
      BY <1>0
    <3>2. middle \in Nat
      <4> HIDE DEF middle
      <4> QED
        BY <2>2, <3>1
    <3> HIDE DEF middle
    <3> QED
      BY <3>1, <3>2
  <2>5. S[range] = IF ~Fits(middle, end) THEN S[right] ELSE IF S[left] = {} THEN {middle} ELSE S[left]
    <3>1. S[range] = HistoryBody(S, end, range)
      BY <1>3
    <3>2. ~(range[1] > range[2])
      BY <2>1, <2>4
    <3>3. HistoryBody(S, end, range) =
            IF range[1] > range[2] THEN {}
            ELSE IF ~Fits(middle, end) THEN S[right] ELSE IF S[left] = {} THEN {middle} ELSE S[left]
      BY DEF HistoryBody
    <3> HIDE DEF middle, left, right
    <3> QED
      BY <3>1, <3>2, <3>3
  <2> HIDE DEF left, right, middle
  <2>6. FindsFirst(S[left], Fitting(left, end)) /\ FindsFirst(S[right], Fitting(right, end))
    BY <1>6, <2>2, <2>3
  <2>7. CASE ~Fits(middle, end)
    <3>1. \A h \in range[1] .. middle : ~Fits(h, end)
      BY <1>2, <2>4, <2>7
    <3>2. Fitting(range, end) = Fitting(right, end)
      BY <2>2, <2>4, <3>1, SMTT(30) DEF Fitting
    <3> QED
      BY <2>5, <2>6, <2>7, <3>2
  <2>8. CASE Fits(middle, end) /\ S[left] = {}
    <3>1. \A h \in range[1] .. middle - 1 : ~Fits(h, end)
      BY <2>4, <2>6, <2>8 DEF FindsFirst, Fitting
    <3>2. middle \in Fitting(range, end) /\ \A h \in Fitting(range, end) : middle <= h
      BY <2>2, <2>4, <2>8, <3>1 DEF Fitting
    <3> QED
      BY <2>5, <2>8, <3>2 DEF FindsFirst
  <2>9. CASE Fits(middle, end) /\ S[left] # {}
    <3>1. PICK first \in Fitting(left, end) : S[left] = {first} /\ \A h \in Fitting(left, end) : first <= h
      BY <2>6, <2>9 DEF FindsFirst
    <3>2. first \in Fitting(range, end) /\ first < middle /\ first \in Int
      BY <2>2, <2>4, <3>1 DEF Fitting
    <3>3. \A h \in Fitting(range, end) : h \in Int /\ (h < middle => h \in Fitting(left, end))
      BY <2>2, <2>4 DEF Fitting
    <3>4. \A h \in Fitting(range, end) : first <= h
      BY <2>4, <3>1, <3>2, <3>3
    <3> QED
      BY <2>5, <2>9, <3>1, <3>2, <3>4 DEF FindsFirst
  <2> QED
    BY <2>7, <2>8, <2>9
<1>7. \A n \in Nat : P(n)
  <2> DEFINE N == {n \in Nat : P(n)}
  <2> HIDE DEF P
  <2>1. N \in SUBSET Nat /\ 0 \in N /\ \A n \in N : n + 1 \in N
    <3>1. 0 \in N
      BY <1>5
    <3>2. \A n \in N : n + 1 \in N
      BY <1>6
    <3> QED
      BY <3>1, <3>2
  <2>2. N = Nat
    <3> HIDE DEF N
    <3> QED
      BY <2>1, Induction
  <2> QED
    BY <2>2
<1>8. /\ <<Earliest(start), start - 1>> \in HistoryRanges
      /\ (start - 1) - Earliest(start) < MaxTurns + 1 /\ MaxTurns + 1 \in Nat
  BY <1>1 DEF Earliest, Sample, HistoryRanges
<1>9. FindsFirst(S[<<Earliest(start), start - 1>>], Fitting(<<Earliest(start), start - 1>>, end))
  BY <1>7, <1>8
<1> QED
  BY <1>9, HistorySearchIs DEF S

-----------------------------------------------------------------------------
(* The bisection over the end of the target.                               *)

TargetRanges == (1 .. MaxTurns + 1) \X (0 .. MaxTurns)
TargetBody(search, start, range) ==
  LET low == range[1]
      high == range[2]
      end == (low + high) \div 2
      found == WindowMessages(start, end)
      longer == search[<<end + 1, high>>]
  IN IF low > high THEN {}
     ELSE IF ~Supervised(start, end) THEN longer
     ELSE IF found = {Unanswered} THEN found
     ELSE IF found = {} THEN search[<<low, end - 1>>]
     ELSE IF longer # {} THEN longer ELSE found
TargetSearch(start) ==
  CHOOSE search : search = [range \in TargetRanges |-> TargetBody(search, start, range)]

LEMMA TargetSearchIs ==
  ASSUME NEW start
  PROVE  LET supervised == {end \in start + 1 .. Len(turns) : Supervised(start, end)}
         IN LargestFitting(start) =
              IF supervised = {} THEN {} ELSE TargetSearch(start)[<<Min(supervised), Len(turns)>>]
BY DEF LargestFitting, TargetSearch, TargetBody, TargetRanges

LEMMA TargetRangeTypes ==
  ASSUME NEW range \in TargetRanges, MaxTurns \in Nat
  PROVE  range[1] \in Nat \ {0} /\ range[2] \in Nat /\ range[2] - range[1] < MaxTurns + 1
BY DEF TargetRanges

LEMMA TargetHalves ==
  ASSUME NEW range \in TargetRanges, MaxTurns \in Nat, range[1] <= range[2]
  PROVE  LET middle == (range[1] + range[2]) \div 2
             left == <<range[1], middle - 1>>
             right == <<middle + 1, range[2]>>
         IN /\ middle \in Int /\ range[1] <= middle /\ middle <= range[2]
            /\ left \in TargetRanges /\ left[2] - left[1] < range[2] - range[1]
            /\ right \in TargetRanges /\ right[2] - right[1] < range[2] - range[1]
<1>1. range[1] \in 1 .. MaxTurns + 1 /\ range[2] \in 0 .. MaxTurns
  BY DEF TargetRanges
<1> QED
  BY <1>1, Halves DEF TargetRanges

\* The search is a function: it only goes on in shorter ranges.
LEMMA TargetSearchExists ==
  ASSUME NEW start, MaxTurns \in Nat
  PROVE  \A range \in TargetRanges : TargetSearch(start)[range] = TargetBody(TargetSearch(start), start, range)
<1> DEFINE Upto(search, n) == \A range \in TargetRanges :
                                range[2] - range[1] < n => search[range] = TargetBody(search, start, range)
           P(n) == \E search : Upto(search, n)
<1>1. P(0)
  <2> DEFINE none == [range \in TargetRanges |-> {}]
  <2>1. ASSUME NEW range \in TargetRanges, range[2] - range[1] < 0 PROVE range[1] > range[2]
    BY <2>1 DEF TargetRanges
  <2>2. Upto(none, 0)
    BY <2>1 DEF TargetBody
  <2> HIDE DEF none
  <2> QED
    BY <2>2
<1>2. ASSUME NEW n \in Nat, P(n) PROVE P(n + 1)
  <2>1. PICK search : Upto(search, n)
    BY <1>2
  <2> DEFINE next == [range \in TargetRanges |-> TargetBody(search, start, range)]
  <2>2. ASSUME NEW range \in TargetRanges, range[2] - range[1] < n + 1
        PROVE  next[range] = TargetBody(next, start, range)
    <3>1. next[range] = TargetBody(search, start, range)
      OBVIOUS
    <3> HIDE DEF next
    <3>2. CASE range[1] > range[2]
      BY <3>1, <3>2 DEF TargetBody
    <3>3. CASE range[1] <= range[2]
      <4> DEFINE middle == (range[1] + range[2]) \div 2
                 left == <<range[1], middle - 1>>
                 right == <<middle + 1, range[2]>>
      <4>1. /\ left \in TargetRanges /\ left[2] - left[1] < range[2] - range[1]
            /\ right \in TargetRanges /\ right[2] - right[1] < range[2] - range[1]
        BY <3>3, TargetHalves
      <4>2. \A half \in TargetRanges : half[2] - half[1] < range[2] - range[1] => half[2] - half[1] < n
        BY <2>2 DEF TargetRanges
      <4> HIDE DEF left, right, middle
      <4>3. next[left] = search[left] /\ next[right] = search[right]
        BY <2>1, <4>1, <4>2 DEF next
      <4> QED
        BY <3>1, <4>3 DEF TargetBody, left, right, middle
    <3> QED
      BY <3>2, <3>3 DEF TargetRanges
  <2> HIDE DEF next
  <2> QED
    BY <2>2
<1>3. \A n \in Nat : P(n)
  <2> DEFINE N == {n \in Nat : P(n)}
  <2> HIDE DEF P
  <2>1. N \in SUBSET Nat /\ 0 \in N /\ \A n \in N : n + 1 \in N
    BY <1>1, <1>2
  <2>2. N = Nat
    <3> HIDE DEF N
    <3> QED
      BY <2>1, Induction
  <2> QED
    BY <2>2
<1>4. MaxTurns + 1 \in Nat /\ \A range \in TargetRanges : range[2] - range[1] < MaxTurns + 1
  BY DEF TargetRanges
<1>5. PICK search : Upto(search, MaxTurns + 1)
  BY <1>3, <1>4
<1>6. \A range \in TargetRanges : search[range] = TargetBody(search, start, range)
  BY <1>4, <1>5
<1> DEFINE all == [range \in TargetRanges |-> search[range]]
<1>7. ASSUME NEW range \in TargetRanges PROVE TargetBody(all, start, range) = search[range]
  <2>1. CASE range[1] > range[2]
    BY <1>6, <2>1 DEF TargetBody
  <2>2. CASE range[1] <= range[2]
    <3> DEFINE middle == (range[1] + range[2]) \div 2
               left == <<range[1], middle - 1>>
               right == <<middle + 1, range[2]>>
    <3>1. left \in TargetRanges /\ right \in TargetRanges
      BY <2>2, TargetHalves
    <3> HIDE DEF left, right, middle
    <3>2. all[left] = search[left] /\ all[right] = search[right]
      BY <3>1
    <3>3. search[range] = TargetBody(search, start, range)
      BY <1>6
    <3> HIDE DEF all
    <3> QED
      BY <3>2, <3>3 DEF TargetBody, left, right, middle
  <2> QED
    BY <2>1, <2>2 DEF TargetRanges
<1>8. all = [range \in TargetRanges |-> TargetBody(all, start, range)]
  BY <1>7
<1>9. TargetSearch(start) = [range \in TargetRanges |-> TargetBody(TargetSearch(start), start, range)]
  <2> HIDE DEF all
  <2> QED
    BY <1>8 DEF TargetSearch
<1> QED
  BY <1>9

-----------------------------------------------------------------------------
(* The windows that the searches are over.                                 *)

Made(start, end, history, bare) == [start |-> start, end |-> end, history |-> history, bare |-> bare]
Histories(start, end) == {h \in Earliest(start) .. start - 1 : Fits(h, end)}

\* Without history, the target alone.
LEMMA WithoutHistory ==
  ASSUME NEW start, NEW end, start = 0 \/ ~preserve_history
  PROVE  WindowMessages(start, end) = IF Fits(start, end) THEN {Made(start, end, start, FALSE)} ELSE {}
BY DEF WindowMessages, Made

\* With history, the longest that fits; else the observation, if there is one and it fits.
LEMMA WithHistory ==
  ASSUME Sample, NEW start \in 1 .. Len(turns), NEW end \in start .. Len(turns), preserve_history
  PROVE  \/ \E first \in Histories(start, end) :
              /\ \A h \in Histories(start, end) : first <= h
              /\ WindowMessages(start, end) = {Made(start, end, first, FALSE)}
         \/ /\ Histories(start, end) = {} /\ turns[start].obs = 0
            /\ WindowMessages(start, end) = {Unanswered}
         \/ /\ Histories(start, end) = {} /\ turns[start].obs # 0
            /\ WindowMessages(start, end) = IF FitsBare(start, end) THEN {Made(start, end, start, TRUE)} ELSE {}
<1> DEFINE range == <<Earliest(start), start - 1>>
<1>1. Fitting(range, end) = Histories(start, end)
  BY DEF Fitting, Histories
<1>2. FindsFirst(EarliestFitting(start, end), Histories(start, end))
  BY <1>1, HistoryFinds
<1>3. start # 0 /\ ~(start = 0 \/ ~preserve_history)
  OBVIOUS
<1>4. CASE EarliestFitting(start, end) = {} /\ Histories(start, end) = {}
  <2>1. WindowMessages(start, end) =
          IF turns[start].obs = 0 THEN {Unanswered}
          ELSE IF FitsBare(start, end) THEN {Made(start, end, start, TRUE)} ELSE {}
    BY <1>3, <1>4 DEF WindowMessages, Made
  <2> QED
    BY <1>4, <2>1
<1>5. ASSUME NEW first \in Histories(start, end), EarliestFitting(start, end) = {first},
             \A h \in Histories(start, end) : first <= h
      PROVE  WindowMessages(start, end) = {Made(start, end, first, FALSE)}
  BY <1>3, <1>5 DEF WindowMessages, Made
<1> QED
  BY <1>2, <1>4, <1>5 DEF FindsFirst

\* A target that does not fit, with as little before it as it needs, does not fit longer.
LEMMA LongerFitsLess ==
  ASSUME Sample, NEW start \in 0 .. Len(turns) - 1, NEW end \in start + 1 .. Len(turns),
         NEW later \in end .. Len(turns), WindowMessages(start, end) = {}
  PROVE  WindowMessages(start, later) = {}
<1>1. Len(turns) \in Nat
  BY DEF Sample
<1>2. ASSUME NEW from \in Nat, Fits(from, later) PROVE Fits(from, end)
  BY <1>1, <1>2, FitsLess
<1>3. CASE start = 0 \/ ~preserve_history
  <2>1. ~Fits(start, end)
    BY <1>3, WithoutHistory
  <2>2. start \in Nat
    BY <1>1
  <2> QED
    BY <1>2, <1>3, <2>1, <2>2, WithoutHistory
<1>4. CASE ~(start = 0 \/ ~preserve_history)
  <2>1. start \in 1 .. Len(turns) /\ end \in start .. Len(turns) /\ later \in start .. Len(turns)
    BY <1>1, <1>4
  <2>2. Histories(start, end) = {} /\ turns[start].obs # 0 /\ ~FitsBare(start, end)
    BY <1>4, <2>1, WithHistory
  <2>3. Histories(start, later) = {}
    <3>1. Earliest(start) \in Nat
      BY <2>1 DEF Earliest, Sample
    <3> QED
      BY <1>2, <2>1, <2>2, <3>1 DEF Histories
  <2>4. ~FitsBare(start, later)
    <3>1. /\ Tokens(start, later) \in Nat /\ Tokens(start, end) \in Nat
          /\ Tokens(start, end) <= Tokens(start, later)
      <4>1. start \in Nat /\ end \in Nat /\ later \in 0 .. Len(turns) /\ start <= start /\ end <= later
        BY <1>1, <2>1
      <4> QED
        BY <4>1, TokensGrow
    <3>2. turns[start].obs \in Nat
      BY <2>1 DEF Sample, Turn
    <3> QED
      BY <2>2, <3>1, <3>2, SMTT(30) DEF FitsBare, Sample
  <2> QED
    BY <1>4, <2>1, <2>2, <2>3, <2>4, WithHistory
<1> QED
  BY <1>3, <1>4

\* What a search for the last target that fits has to find, unless it finds that the
\* observation is missing.
FindsLast(found, start, range) ==
  \/ found = {} /\ \A end \in range[1] .. range[2] : WindowMessages(start, end) = {}
  \/ found = {Unanswered}
  \/ \E end \in range[1] .. range[2] :
       /\ found = WindowMessages(start, end) /\ found # {}
       /\ \A later \in end + 1 .. range[2] : WindowMessages(start, later) = {}

LEMMA TargetFinds ==
  ASSUME Sample, NEW start \in 0 .. Len(turns) - 1, NEW first \in start + 1 .. Len(turns),
         \A end \in first .. Len(turns) : Supervised(start, end)
  PROVE  FindsLast(TargetSearch(start)[<<first, Len(turns)>>], start, <<first, Len(turns)>>)
<1>1. MaxTurns \in Nat /\ Len(turns) \in 0 .. MaxTurns
  BY DEF Sample
<1> DEFINE S == TargetSearch(start)
           Within(range) == range[1] >= first /\ range[2] <= Len(turns)
           P(n) == \A range \in TargetRanges :
                     range[2] - range[1] < n /\ Within(range) => FindsLast(S[range], start, range)
<1>2. \A range \in TargetRanges : S[range] = TargetBody(S, start, range)
  BY <1>1, TargetSearchExists
<1> HIDE DEF S
<1>3. \A range \in TargetRanges : range[1] \in Nat /\ range[2] \in Nat
  BY <1>1, TargetRangeTypes
<1>4. ASSUME NEW range \in TargetRanges, range[1] > range[2] PROVE FindsLast(S[range], start, range)
  <2>1. S[range] = {}
    BY <1>2, <1>4 DEF TargetBody
  <2>2. \A end \in range[1] .. range[2] : FALSE
    BY <1>3, <1>4
  <2> QED
    BY <2>1, <2>2 DEF FindsLast
<1>5. P(0)
  <2>1. \A range \in TargetRanges : range[2] - range[1] < 0 => range[1] > range[2]
    BY <1>3
  <2> QED
    BY <1>4, <2>1
<1>6. ASSUME NEW n \in Nat, P(n) PROVE P(n + 1)
  <2>1. SUFFICES ASSUME NEW range \in TargetRanges, range[2] - range[1] < n + 1, Within(range),
                        range[1] <= range[2]
                 PROVE  FindsLast(S[range], start, range)
    BY <1>3, <1>4
  <2> DEFINE middle == (range[1] + range[2]) \div 2
             left == <<range[1], middle - 1>>
             right == <<middle + 1, range[2]>>
             found == WindowMessages(start, middle)
  <2>2. /\ middle \in Int /\ range[1] <= middle /\ middle <= range[2]
        /\ left \in TargetRanges /\ left[2] - left[1] < range[2] - range[1]
        /\ right \in TargetRanges /\ right[2] - right[1] < range[2] - range[1]
    BY <1>1, <2>1, TargetHalves
  <2>3. ASSUME NEW half \in TargetRanges, half[2] - half[1] < range[2] - range[1]
        PROVE  half[2] - half[1] < n
    <3>1. half[1] \in Nat /\ half[2] \in Nat /\ range[1] \in Nat /\ range[2] \in Nat
      BY <1>3
    <3> QED
      BY <2>1, <2>3, <3>1, SMTT(30)
  <2>4. /\ range[1] \in Nat /\ range[2] \in Nat /\ middle \in first .. Len(turns)
        /\ left[1] = range[1] /\ left[2] = middle - 1 /\ right[1] = middle + 1 /\ right[2] = range[2]
        /\ Within(left) /\ Within(right)
    <3>1. range[1] \in Nat /\ range[2] \in Nat
      BY <1>3
    <3> HIDE DEF middle
    <3>2. middle \in first .. Len(turns)
      <4>1. first \in Int /\ Len(turns) \in Int
        BY <1>1
      <4>2. range[1] >= first /\ range[2] <= Len(turns) /\ middle \in Int /\ range[1] <= middle /\ middle <= range[2]
        BY <2>1, <2>2
      <4> QED
        BY <3>1, <4>1, <4>2
    <3> QED
      BY <1>1, <2>1, <2>2, <3>1, <3>2, SMTT(30)
  <2>5. S[range] = IF found = {Unanswered} THEN found
                   ELSE IF found = {} THEN S[left]
                   ELSE IF S[right] # {} THEN S[right] ELSE found
    <3>1. S[range] = TargetBody(S, start, range)
      BY <1>2
    <3>2. ~(range[1] > range[2]) /\ Supervised(start, middle)
      BY <2>1, <2>4
    <3>3. TargetBody(S, start, range) =
            IF range[1] > range[2] THEN {}
            ELSE IF ~Supervised(start, middle) THEN S[right]
            ELSE IF found = {Unanswered} THEN found
            ELSE IF found = {} THEN S[left]
            ELSE IF S[right] # {} THEN S[right] ELSE found
      BY DEF TargetBody
    <3> HIDE DEF middle, left, right, found
    <3> QED
      BY <3>1, <3>2, <3>3
  <2> HIDE DEF left, right, middle, Within
  <2>6. FindsLast(S[left], start, left) /\ FindsLast(S[right], start, right)
    BY <1>6, <2>2, <2>3, <2>4
  <2>7. CASE found = {Unanswered}
    BY <2>5, <2>7 DEF FindsLast
  <2>8. CASE found = {}
    <3>1. \A later \in middle .. range[2] : WindowMessages(start, later) = {}
      <4>1. SUFFICES ASSUME NEW later \in middle .. range[2] PROVE WindowMessages(start, later) = {}
        OBVIOUS
      <4>2. middle \in start + 1 .. Len(turns) /\ later \in middle .. Len(turns)
        BY <1>1, <2>1, <2>4, SMTT(30) DEF Within
      <4> QED
        BY <2>8, <4>2, LongerFitsLess
    <3>2. S[range] = S[left]
      BY <2>5, <2>8
    <3>3. \A end \in range[1] .. range[2] : end \in left[1] .. left[2] \/ end \in middle .. range[2]
      BY <1>1, <2>4
    <3>4. CASE S[left] = {} /\ \A end \in left[1] .. left[2] : WindowMessages(start, end) = {}
      BY <3>1, <3>2, <3>3, <3>4 DEF FindsLast
    <3>5. CASE S[left] = {Unanswered}
      BY <3>2, <3>5 DEF FindsLast
    <3>6. ASSUME NEW end \in left[1] .. left[2], S[left] = WindowMessages(start, end), S[left] # {},
                 \A later \in end + 1 .. left[2] : WindowMessages(start, later) = {}
          PROVE  FindsLast(S[range], start, range)
      <4>1. end \in range[1] .. range[2] /\ \A later \in end + 1 .. range[2] :
                                              later \in end + 1 .. left[2] \/ later \in middle .. range[2]
        BY <1>1, <2>2, <2>4, SMTT(30)
      <4>2. \A later \in end + 1 .. range[2] : WindowMessages(start, later) = {}
        BY <3>1, <3>6, <4>1
      <4> QED
        BY <3>2, <3>6, <4>1, <4>2 DEF FindsLast
    <3> QED
      BY <2>6, <3>4, <3>5, <3>6 DEF FindsLast
  <2>9. CASE found # {Unanswered} /\ found # {}
    <3>1. CASE S[right] = {}
      <4>1. \A end \in right[1] .. right[2] : WindowMessages(start, end) = {}
        BY <2>6, <3>1 DEF FindsLast
      <4>2. S[range] = found /\ middle \in range[1] .. range[2]
            /\ right[1] = middle + 1 /\ right[2] = range[2]
        BY <1>1, <2>2, <2>4, <2>5, <2>9, <3>1
      <4> QED
        BY <2>9, <4>1, <4>2 DEF FindsLast
    <3>2. CASE S[right] # {}
      <4>1. S[range] = S[right]
        BY <2>5, <2>9, <3>2
      <4>2. \A end \in right[1] .. right[2] : end \in range[1] .. range[2]
        BY <1>1, <2>2, <2>4
      <4> QED
        BY <2>4, <2>6, <3>2, <4>1, <4>2 DEF FindsLast
    <3> QED
      BY <3>1, <3>2
  <2> QED
    BY <2>7, <2>8, <2>9
<1>7. \A n \in Nat : P(n)
  <2> DEFINE N == {n \in Nat : P(n)}
  <2> HIDE DEF P
  <2>1. N \in SUBSET Nat /\ 0 \in N /\ \A n \in N : n + 1 \in N
    <3>1. 0 \in N
      BY <1>5
    <3>2. \A n \in N : n + 1 \in N
      BY <1>6
    <3> QED
      BY <3>1, <3>2
  <2>2. N = Nat
    <3> HIDE DEF N
    <3> QED
      BY <2>1, Induction
  <2> QED
    BY <2>2
<1> DEFINE all == <<first, Len(turns)>>
<1>8. all \in TargetRanges /\ all[2] - all[1] < MaxTurns + 1 /\ MaxTurns + 1 \in Nat /\ Within(all)
  BY <1>1 DEF TargetRanges
<1>9. FindsLast(S[all], start, all)
  <2> HIDE DEF all, Within
  <2> QED
    BY <1>7, <1>8
<1> QED
  BY <1>9 DEF S

\* A window that a search finds is the one that it has to find.
LEMMA FoundIsSound ==
  ASSUME Sample, NEW start \in 0 .. Len(turns) - 1, NEW end \in start + 1 .. Len(turns),
         Supervised(start, end), WindowMessages(start, end) \notin {{}, {Unanswered}},
         \A later \in end + 1 .. Len(turns) : WindowMessages(start, later) = {},
         NEW w \in WindowMessages(start, end)
  PROVE  /\ w \in Window /\ w.start = start /\ w.end = end /\ w.history <= start
         /\ SoundWindow(w)
<1>1. Len(turns) \in 0 .. MaxTurns /\ MaxTurns \in Nat /\ start \in Nat /\ end \in Nat
  BY DEF Sample
<1>2. ASSUME NEW later \in end + 1 .. Len(turns) PROVE later \in start .. Len(turns)
  BY <1>1
<1>3. CASE start = 0 \/ ~preserve_history
  <2>1. Fits(start, end) /\ w = Made(start, end, start, FALSE)
    <3>1. WindowMessages(start, end) # {}
      OBVIOUS
    <3>2. WindowMessages(start, end) = IF Fits(start, end) THEN {Made(start, end, start, FALSE)} ELSE {}
      BY <1>3, WithoutHistory
    <3>3. CASE Fits(start, end)
      BY <3>2, <3>3, ZenonT(30)
    <3>4. CASE ~Fits(start, end)
      BY <3>1, <3>2, <3>4, Zenon
    <3> QED
      BY <3>3, <3>4, Zenon
  <2>2. w.start = start /\ w.end = end /\ w.history = start /\ w.bare = FALSE
    BY <2>1 DEF Made
  <2>3. w \in Window /\ w.history <= start
    BY <1>1, <2>1 DEF Window, Made
  <2>4. \A later \in end + 1 .. Len(turns) : ~Fits(start, later)
    BY <1>3, WithoutHistory
  <2>5. SoundWindow(w)
    <3>1. ~(start > 0 /\ preserve_history)
      BY <1>1, <1>3
    <3> QED
      BY <1>3, <2>1, <2>2, <2>4, <3>1, Zenon DEF SoundWindow
  <2> QED
    BY <2>2, <2>3, <2>5
<1>4. CASE ~(start = 0 \/ ~preserve_history)
  <2>1. start \in 1 .. Len(turns) /\ end \in start .. Len(turns) /\ preserve_history /\ start # 0 /\ start > 0
    BY <1>1, <1>4 DEF Sample
  <2>2. \A later \in end + 1 .. Len(turns) : Histories(start, later) = {} /\ ~FitsBare(start, later)
    <3>1. SUFFICES ASSUME NEW later \in end + 1 .. Len(turns)
                   PROVE  Histories(start, later) = {} /\ ~FitsBare(start, later)
      OBVIOUS
    <3>2. WindowMessages(start, later) = {} /\ later \in start .. Len(turns)
      BY <1>2
    <3> QED
      BY <2>1, <3>2, WithHistory
  <2>3. CASE \E first \in Histories(start, end) :
               /\ \A h \in Histories(start, end) : first <= h
               /\ WindowMessages(start, end) = {Made(start, end, first, FALSE)}
    <3>1. PICK first \in Histories(start, end) :
            /\ \A h \in Histories(start, end) : first <= h
            /\ w = Made(start, end, first, FALSE)
      BY <2>3
    <3>2. w.start = start /\ w.end = end /\ w.history = first /\ w.bare = FALSE
      BY <3>1 DEF Made
    <3>3. \A h \in Histories(start, end) : h \in Nat /\ h <= start - 1
      <4>1. Earliest(start) \in Nat
        BY <2>1 DEF Earliest, Sample
      <4> QED
        BY <1>1, <4>1 DEF Histories
    <3>4. w \in Window /\ w.history <= start
      BY <1>1, <2>1, <3>1, <3>3 DEF Window, Made
    <3>5. first = Min(Histories(start, end)) /\ Histories(start, end) # {}
      BY <3>1, <3>3, LeastIs
    <3>6. SoundWindow(w)
      BY <2>1, <2>2, <3>2, <3>5, ZenonT(30) DEF SoundWindow, Histories
    <3> QED
      BY <3>2, <3>4, <3>6
  <2>4. CASE /\ Histories(start, end) = {} /\ turns[start].obs # 0
             /\ WindowMessages(start, end) = IF FitsBare(start, end) THEN {Made(start, end, start, TRUE)} ELSE {}
    <3>1. FitsBare(start, end) /\ w = Made(start, end, start, TRUE)
      <4>1. w \in IF FitsBare(start, end) THEN {Made(start, end, start, TRUE)} ELSE {}
        BY <2>1, <2>4, Zenon
      <4>2. CASE FitsBare(start, end)
        BY <4>1, <4>2, Zenon
      <4>3. CASE ~FitsBare(start, end)
        BY <4>1, <4>3, Zenon
      <4> QED
        BY <4>2, <4>3, Zenon
    <3>2. w.start = start /\ w.end = end /\ w.history = start /\ w.bare = TRUE
      BY <3>1 DEF Made
    <3>3. w \in Window /\ w.history <= start
      BY <1>1, <2>1, <3>1 DEF Window, Made
    <3>4. turns[start].obs > 0
      BY <2>1, <2>4 DEF Sample, Turn
    <3>5. SoundWindow(w)
      BY <2>1, <2>2, <2>4, <3>1, <3>2, <3>4, ZenonT(30) DEF SoundWindow, Histories
    <3> QED
      BY <3>2, <3>3, <3>5
  <2> QED
    BY <2>1, <2>3, <2>4, WithHistory
<1> QED
  BY <1>3, <1>4

-----------------------------------------------------------------------------
(* The cutter.                                                             *)

Chained ==
  \A i \in DOMAIN windows :
    /\ windows[i].start = (IF i = 1 THEN 0 ELSE windows[i - 1].end)
    /\ windows[i].start < windows[i].end
    /\ windows[i].history <= windows[i].start /\ windows[i].end <= Len(turns)

EachSound == \A i \in DOMAIN windows : SoundWindow(windows[i])

WindowsInv ==
  /\ WindowsTypeOK
  /\ windows \in Seq(Window)
  /\ cutter = "idle" => windows = <<>>
  /\ Chained
  /\ EachSound
  /\ cutter # "audit"
  /\ cutter = "done" => Start = Len(turns) /\ AuditPasses

LEMMA SampleThere == WindowsInv => Sample
<1> SUFFICES ASSUME WindowsInv PROVE Sample
  OBVIOUS
<1>1. PICK n \in 0 .. MaxTurns : turns \in [1 .. n -> Turn]
  BY DEF WindowsInv, WindowsTypeOK
<1>2. Len(turns) = n
  BY <1>1, WindowsAssumption
<1> QED
  BY <1>1, <1>2, WindowsAssumption DEF Sample, WindowsInv, WindowsTypeOK

\* The targets that have been cut cover what is before the next start, each turn once.
LEMMA TargetsPartition ==
  ASSUME WindowsInv, NEW k \in 1 .. Start
  PROVE  \E i \in DOMAIN windows :
           /\ k \in windows[i].start + 1 .. windows[i].end
           /\ \A j \in DOMAIN windows : k \in windows[j].start + 1 .. windows[j].end => j = i
<1>1. Sample
  BY SampleThere
<1> DEFINE L == Len(windows)
<1>2. L \in Nat /\ DOMAIN windows = 1 .. L /\ \A i \in 1 .. L : windows[i] \in Window
  BY DEF WindowsInv
<1>3. \A i \in 1 .. L : windows[i].start \in Nat /\ windows[i].end \in Nat /\ windows[i].start < windows[i].end
  <2>1. SUFFICES ASSUME NEW i \in 1 .. L
                 PROVE  windows[i].start \in Nat /\ windows[i].end \in Nat /\ windows[i].start < windows[i].end
    OBVIOUS
  <2>2. windows[i] \in Window /\ MaxTurns \in Nat
    BY <1>1, <1>2 DEF Sample
  <2>3. windows[i].start \in Nat /\ windows[i].end \in Nat
    BY <2>2 DEF Window
  <2>4. windows[i].start < windows[i].end
    BY <1>2 DEF WindowsInv, Chained
  <2> QED
    BY <2>3, <2>4
<1>4. \A i \in 1 .. L : windows[i].start = (IF i = 1 THEN 0 ELSE windows[i - 1].end)
  BY <1>2 DEF WindowsInv, Chained
<1>5. L # 0 /\ Start = windows[L].end
  <2>1. Start # 0
    OBVIOUS
  <2>2. windows # <<>>
    BY <2>1 DEF Start
  <2> QED
    BY <1>2, <2>2 DEF Start, WindowsInv
<1> HIDE DEF L
<1> DEFINE P(n) == n < L => \A i \in 1 .. n + 1 : windows[i].start <= windows[n + 1].start
                                               /\ (i < n + 1 => windows[i].end <= windows[n + 1].start)
           C(n) == n < L => (k <= windows[n + 1].end =>
                               \E i \in 1 .. n + 1 : k \in windows[i].start + 1 .. windows[i].end)
<1>6. P(0)
  <2>1. \A i \in 1 .. 0 + 1 : i = 1 /\ ~(i < 0 + 1)
    OBVIOUS
  <2>2. 0 < L => windows[1].start \in Nat
    BY <1>2, <1>3
  <2> QED
    BY <2>1, <2>2
<1>7. ASSUME NEW n \in Nat, P(n) PROVE P(n + 1)
  <2>1. SUFFICES ASSUME n + 1 < L, NEW i \in 1 .. n + 2
                 PROVE  /\ windows[i].start <= windows[n + 2].start
                        /\ i < n + 2 => windows[i].end <= windows[n + 2].start
    OBVIOUS
  <2>2. n + 1 \in 1 .. L /\ n + 2 \in 1 .. L /\ i \in 1 .. L /\ n < L /\ n + 2 # 1 /\ (n + 2) - 1 = n + 1
    BY <1>2, <2>1
  <2>3. windows[n + 2].start = windows[n + 1].end /\ windows[n + 1].start < windows[n + 1].end
    BY <1>3, <1>4, <2>2
  <2>4. CASE i = n + 2
    BY <1>3, <2>2, <2>4
  <2>5. CASE i = n + 1
    BY <1>3, <2>2, <2>3, <2>5
  <2>6. CASE i \in 1 .. n
    <3>1. windows[i].start <= windows[n + 1].start /\ windows[i].end <= windows[n + 1].start
      BY <1>7, <2>2, <2>6
    <3> QED
      BY <1>3, <2>2, <2>3, <3>1
  <2> QED
    BY <2>4, <2>5, <2>6
<1>8. C(0)
  <2>1. 0 < L => windows[1].start = 0 /\ windows[1].end \in Nat
    BY <1>2, <1>3, <1>4
  <2> QED
    BY <2>1
<1>9. ASSUME NEW n \in Nat, C(n) PROVE C(n + 1)
  <2>1. SUFFICES ASSUME n + 1 < L, k <= windows[n + 2].end
                 PROVE  \E i \in 1 .. n + 2 : k \in windows[i].start + 1 .. windows[i].end
    OBVIOUS
  <2>2. n + 1 \in 1 .. L /\ n + 2 \in 1 .. L /\ n < L /\ n + 2 # 1 /\ (n + 2) - 1 = n + 1
    BY <1>2, <2>1
  <2>3. windows[n + 2].start = windows[n + 1].end /\ windows[n + 1].end \in Nat /\ windows[n + 2].end \in Nat
    BY <1>3, <1>4, <2>2
  <2>4. CASE k <= windows[n + 1].end
    BY <1>9, <2>2, <2>4
  <2>5. CASE ~(k <= windows[n + 1].end)
    <3>1. k \in Nat /\ k \in windows[n + 2].start + 1 .. windows[n + 2].end
      <4>1. k \in Nat
        BY <1>2, <1>3, <1>5
      <4> QED
        BY <2>1, <2>3, <2>5, <4>1
    <3>2. n + 2 \in 1 .. n + 2
      OBVIOUS
    <3> QED
      BY <3>1, <3>2
  <2> QED
    BY <2>4, <2>5
<1>10. \A n \in Nat : P(n) /\ C(n)
  <2> DEFINE N == {n \in Nat : P(n) /\ C(n)}
  <2> HIDE DEF P, C
  <2>1. N \in SUBSET Nat /\ 0 \in N /\ \A n \in N : n + 1 \in N
    <3>1. 0 \in N
      BY <1>6, <1>8
    <3>2. \A n \in N : n + 1 \in N
      BY <1>7, <1>9
    <3> QED
      BY <3>1, <3>2
  <2>2. N = Nat
    <3> HIDE DEF N
    <3> QED
      BY <2>1, Induction
  <2> QED
    BY <2>2
<1>11. PICK i \in 1 .. L : k \in windows[i].start + 1 .. windows[i].end
  <2>1. L - 1 \in Nat /\ (L - 1) + 1 = L /\ L - 1 < L /\ k <= windows[L].end
    BY <1>2, <1>3, <1>5
  <2>2. C(L - 1)
    BY <1>10, <2>1
  <2> QED
    BY <2>1, <2>2
<1>12. ASSUME NEW i1 \in 1 .. L, NEW i2 \in 1 .. L, i1 < i2 PROVE windows[i1].end <= windows[i2].start
  <2>1. i2 - 1 \in Nat /\ (i2 - 1) + 1 = i2 /\ i2 - 1 < L /\ i1 \in 1 .. i2
    BY <1>2, <1>12
  <2>2. P(i2 - 1)
    BY <1>10, <2>1
  <2> QED
    BY <1>12, <2>1, <2>2
<1>13. ASSUME NEW j \in 1 .. L, k \in windows[j].start + 1 .. windows[j].end PROVE j = i
  <2>1. /\ windows[i].start \in Nat /\ windows[i].end \in Nat /\ windows[j].start \in Nat
        /\ windows[j].end \in Nat /\ i \in Nat /\ j \in Nat
    BY <1>2, <1>3
  <2>2. ~(i < j)
    BY <1>11, <1>12, <1>13, <2>1
  <2>3. ~(j < i)
    BY <1>11, <1>12, <1>13, <2>1
  <2> QED
    BY <2>1, <2>2, <2>3
<1> QED
  BY <1>2, <1>11, <1>13

LEMMA StartIs ==
  ASSUME WindowsInv
  PROVE  Start \in 0 .. Len(turns) /\ (windows # <<>> => Start = windows[Len(windows)].end)
<1>1. Len(turns) \in Nat /\ MaxTurns \in Nat
  BY SampleThere DEF Sample
<1>2. CASE windows = <<>>
  BY <1>1, <1>2 DEF Start
<1>3. CASE windows # <<>>
  <2>1. Len(windows) \in DOMAIN windows /\ windows[Len(windows)] \in Window
    BY <1>3 DEF WindowsInv
  <2>2. windows[Len(windows)].end \in Nat /\ windows[Len(windows)].end <= Len(turns)
    BY <1>1, <2>1 DEF WindowsInv, Chained, Window
  <2> QED
    BY <1>1, <1>3, <2>2 DEF Start
<1> QED
  BY <1>2, <1>3

LEMMA CutIsSound ==
  ASSUME WindowsInv, Start < Len(turns), LargestFitting(Start) \notin {{}, {Unanswered}},
         NEW w \in LargestFitting(Start)
  PROVE  /\ w \in Window /\ w.start = Start /\ w.history <= Start
         /\ w.end \in Start + 1 .. Len(turns)
         /\ SoundWindow(w)
<1> DEFINE supervised == {end \in Start + 1 .. Len(turns) : Supervised(Start, end)}
           first == Min(supervised)
           range == <<first, Len(turns)>>
<1>1. Sample
  BY SampleThere
<1>2. Len(turns) \in Nat /\ Start \in 0 .. Len(turns) - 1
  BY <1>1, StartIs DEF Sample
<1>3. supervised # {} /\ LargestFitting(Start) = TargetSearch(Start)[range]
  BY TargetSearchIs
<1>4. first \in supervised /\ \A end \in supervised : first <= end
  <2>1. supervised \in SUBSET Nat
    BY <1>2
  <2> HIDE DEF supervised
  <2> QED
    BY <1>3, <2>1, MinIsLeast
<1> HIDE DEF first
<1>5. ASSUME NEW end \in first .. Len(turns) PROVE Supervised(Start, end)
  <2>1. PICK k \in Start + 1 .. first : turns[k].loss
    BY <1>4 DEF Supervised
  <2>2. k \in Start + 1 .. end
    BY <1>2, <1>4, <1>5, <2>1
  <2> QED
    BY <2>1, <2>2 DEF Supervised
<1>6. FindsLast(LargestFitting(Start), Start, range)
  BY <1>1, <1>2, <1>3, <1>4, <1>5, TargetFinds
<1>7. PICK end \in first .. Len(turns) :
        /\ LargestFitting(Start) = WindowMessages(Start, end)
        /\ \A later \in end + 1 .. Len(turns) : WindowMessages(Start, later) = {}
  BY <1>6 DEF FindsLast
<1>8. end \in Start + 1 .. Len(turns) /\ Supervised(Start, end)
  BY <1>2, <1>4, <1>5
<1>9. w \in WindowMessages(Start, end) /\ WindowMessages(Start, end) \notin {{}, {Unanswered}}
  BY <1>7
<1>10. /\ w \in Window /\ w.start = Start /\ w.end = end /\ w.history <= Start
       /\ SoundWindow(w)
  BY <1>1, <1>2, <1>7, <1>8, <1>9, FoundIsSound
<1> QED
  BY <1>8, <1>10

\* Each step of the sample is a target once: the audit cannot fail.
LEMMA AuditHolds ==
  ASSUME WindowsInv, Start = Len(turns)
  PROVE  AuditPasses
<1>1. Sample
  BY SampleThere
<1>2. SUFFICES ASSUME NEW k \in 1 .. Len(turns)
               PROVE  /\ Occurrences(k) # {}
                      /\ Cardinality(Supervision(k)) = (IF turns[k].loss THEN 1 ELSE 0)
  BY <1>1 DEF AuditPasses, Sample
<1>3. PICK i \in DOMAIN windows :
        /\ k \in windows[i].start + 1 .. windows[i].end
        /\ \A j \in DOMAIN windows : k \in windows[j].start + 1 .. windows[j].end => j = i
  BY TargetsPartition
<1>4. i \in Occurrences(k)
  <2>1. windows[i] \in Window /\ windows[i].history <= windows[i].start /\ MaxTurns \in Nat
    BY <1>1 DEF WindowsInv, Chained, Sample
  <2>2. windows[i].history \in Nat /\ windows[i].start \in Nat /\ windows[i].end \in Nat
    BY <2>1 DEF Window
  <2>3. k \in windows[i].history + 1 .. windows[i].end
    BY <1>3, <2>1, <2>2
  <2> QED
    BY <2>3 DEF Occurrences
<1>5. CASE turns[k].loss
  <2>1. Supervision(k) = {i}
    BY <1>3, <1>5 DEF Supervision
  <2> QED
    BY <1>4, <1>5, <2>1, FS_Singleton
<1>6. CASE ~turns[k].loss
  <2>1. Supervision(k) = {}
    BY <1>6 DEF Supervision
  <2> QED
    BY <1>4, <1>6, <2>1, FS_EmptySet
<1> QED
  BY <1>5, <1>6

\* Whether a window is sound depends on the sample alone.
LEMMA SoundLater ==
  ASSUME UNCHANGED <<turns, turn_overlap, preserve_history>>,
         \A i \in DOMAIN windows' : SoundWindow(windows'[i])
  PROVE  EachSound'
<1>1. UNCHANGED turns /\ UNCHANGED turn_overlap /\ UNCHANGED preserve_history
  OBVIOUS
<1>2. SUFFICES ASSUME NEW i \in DOMAIN windows' PROVE SoundWindow(windows[i])'
  BY DEF EachSound
<1>3. SoundWindow(windows'[i])
  OBVIOUS
<1> QED
  BY <1>1, <1>3 DEF SoundWindow, Supervised, Earliest, Fits, FitsBare, Tokens

LEMMA LoadKeeps == WindowsInv /\ LoadSample => WindowsInv'
<1> SUFFICES ASSUME WindowsInv, LoadSample PROVE WindowsInv'
  OBVIOUS
<1>1. /\ windows = <<>> /\ windows' = <<>> /\ cutter' = "cutting"
      /\ turn_overlap' \in Overlaps /\ preserve_history' \in BOOLEAN
  BY DEF WindowsInv, LoadSample
<1>2. turns' \in UNION {[1 .. n -> Turn] : n \in 0 .. MaxTurns}
  <2>1. PICK n \in 1 .. MaxTurns : turns' \in [1 .. n -> Turn]
    BY DEF LoadSample
  <2>2. n \in 0 .. MaxTurns
    BY WindowsAssumption
  <2> QED
    BY <2>1, <2>2
<1>3. DOMAIN windows' = {} /\ windows' \in Seq(Window)
  BY <1>1
<1>4. WindowsTypeOK'
  BY <1>1, <1>2, <1>3 DEF WindowsTypeOK, Turn, Window
<1>5. EachSound' /\ Chained'
  BY <1>3 DEF EachSound, Chained
<1> QED
  BY <1>1, <1>3, <1>4, <1>5 DEF WindowsInv, Window

LEMMA CutKeeps == WindowsInv /\ CutWindow => WindowsInv'
<1> SUFFICES ASSUME WindowsInv, CutWindow PROVE WindowsInv'
  OBVIOUS
<1>1. cutter = "cutting" /\ Start < Len(turns) /\ UNCHANGED <<turns, turn_overlap, preserve_history>>
  BY DEF CutWindow
<1>3. CASE windows' = windows /\ cutter' \in Refusals \ {"audit"}
  <2>1. WindowsTypeOK'
    BY <1>1, <1>3 DEF WindowsInv, WindowsTypeOK, Turn, Window
  <2>2. Chained' /\ windows' \in Seq(Window)
    BY <1>1, <1>3 DEF WindowsInv, Chained
  <2>3. EachSound'
    BY <1>1, <1>3, SoundLater DEF WindowsInv, EachSound
  <2>4. cutter' # "audit" /\ cutter' # "done" /\ cutter' # "idle"
    BY <1>3 DEF Refusals
  <2> QED
    BY <1>3, <2>1, <2>2, <2>3, <2>4 DEF WindowsInv, Window
<1>4. ASSUME NEW w \in LargestFitting(Start), LargestFitting(Start) \notin {{}, {Unanswered}},
             windows' = Append(windows, w), cutter' = cutter
      PROVE  WindowsInv'
  <2>1. /\ w \in Window /\ w.start = Start /\ w.history <= Start
        /\ w.end \in Start + 1 .. Len(turns) /\ SoundWindow(w)
    BY <1>1, <1>4, CutIsSound
  <2> DEFINE L == Len(windows)
  <2>2. L \in Nat /\ windows \in Seq(Window) /\ DOMAIN windows = 1 .. L
    BY DEF WindowsInv
  <2>3. /\ windows' \in Seq(Window) /\ DOMAIN windows' = 1 .. L + 1 /\ windows'[L + 1] = w
        /\ \A i \in 1 .. L : windows'[i] = windows[i]
    BY <1>4, <2>1, <2>2
  <2>4. \A i \in 1 .. L + 1 : i \in 1 .. L \/ i = L + 1
    BY <2>2
  <2> HIDE DEF L
  <2>5. \A i \in DOMAIN windows' : windows'[i] \in Window
    BY <2>1, <2>2, <2>3, <2>4
  <2>6. WindowsTypeOK'
    BY <1>1, <1>4, <2>5 DEF WindowsInv, WindowsTypeOK, Turn, Window
  <2>7. Chained'
    <3>1. SUFFICES ASSUME NEW i \in DOMAIN windows'
                   PROVE  /\ windows'[i].start = (IF i = 1 THEN 0 ELSE windows'[i - 1].end)
                          /\ windows'[i].start < windows'[i].end
                          /\ windows'[i].history <= windows'[i].start /\ windows'[i].end <= Len(turns)
      BY <1>1 DEF Chained
    <3>2. CASE i \in 1 .. L
      <4>1. i # 1 => i - 1 \in 1 .. L
        BY <2>2, <3>2
      <4>2. windows'[i] = windows[i] /\ (i # 1 => windows'[i - 1] = windows[i - 1])
        BY <2>3, <3>2, <4>1
      <4> QED
        BY <2>2, <3>2, <4>2 DEF WindowsInv, Chained
    <3>3. CASE i = L + 1
      <4>1. w.start = (IF i = 1 THEN 0 ELSE windows'[i - 1].end)
        <5>1. CASE windows = <<>>
          <6>1. L = 0 /\ Start = 0
            BY <5>1 DEF Start, L
          <6> QED
            BY <2>1, <3>3, <6>1
        <5>2. CASE windows # <<>>
          <6>1. L # 0 /\ Start = windows[L].end
            BY <2>2, <5>2, StartIs DEF L
          <6>2. i # 1 /\ i - 1 = L /\ L \in 1 .. L
            BY <2>2, <3>3, <6>1
          <6> QED
            BY <2>1, <2>3, <6>1, <6>2
        <5> QED
          BY <5>1, <5>2
      <4>2. Start \in Nat /\ Len(turns) \in Nat
        BY StartIs, SampleThere DEF Sample
      <4> QED
        BY <2>1, <2>3, <3>3, <4>1, <4>2
    <3> QED
      BY <2>3, <2>4, <3>2, <3>3
  <2>8. EachSound'
    <3>1. \A i \in DOMAIN windows' : SoundWindow(windows'[i])
      BY <2>1, <2>2, <2>3, <2>4 DEF WindowsInv, EachSound
    <3> QED
      BY <1>1, <3>1, SoundLater
  <2>9. cutter' = "cutting"
    BY <1>1, <1>4
  <2> QED
    BY <2>3, <2>6, <2>7, <2>8, <2>9 DEF WindowsInv, Window
<1> QED
  BY <1>3, <1>4 DEF CutWindow, Refusals

LEMMA AuditKeeps == WindowsInv /\ Audit => WindowsInv'
<1> SUFFICES ASSUME WindowsInv, Audit PROVE WindowsInv'
  OBVIOUS
<1>1. /\ cutter = "cutting" /\ Start = Len(turns)
      /\ UNCHANGED <<turns, turn_overlap, preserve_history, windows>>
  BY DEF Audit
<1>2. AuditPasses /\ cutter' = "done"
  BY <1>1, AuditHolds DEF Audit
<1>3. AuditPasses' /\ Start' = Len(turns')
  BY <1>1, <1>2 DEF AuditPasses, Occurrences, Supervision, Start
<1>4. WindowsTypeOK'
  BY <1>1, <1>2 DEF WindowsInv, WindowsTypeOK, Turn, Window
<1>5. EachSound'
  BY <1>1, SoundLater DEF WindowsInv, EachSound
<1>6. Chained' /\ windows' \in Seq(Window)
  BY <1>1 DEF WindowsInv, Chained
<1> QED
  BY <1>2, <1>3, <1>4, <1>5, <1>6 DEF WindowsInv, Window

LEMMA WindowsStutter == WindowsInv /\ UNCHANGED windowVars => WindowsInv'
<1> SUFFICES ASSUME WindowsInv, UNCHANGED windowVars PROVE WindowsInv'
  OBVIOUS
<1>1. UNCHANGED <<cutter, turns, turn_overlap, preserve_history, windows>>
  BY DEF windowVars
<1>2. WindowsTypeOK' /\ Chained' /\ windows' \in Seq(Window)
  BY <1>1 DEF WindowsInv, WindowsTypeOK, Turn, Window, Chained
<1>3. EachSound'
  BY <1>1, SoundLater DEF WindowsInv, EachSound
<1>4. (cutter = "done" => Start = Len(turns) /\ AuditPasses)'
  BY <1>1 DEF WindowsInv, AuditPasses, Occurrences, Supervision, Start
<1> QED
  BY <1>1, <1>2, <1>3, <1>4 DEF WindowsInv, Window

LEMMA WindowsStart == WindowsInit => WindowsInv
<1> SUFFICES ASSUME WindowsInit PROVE WindowsInv
  OBVIOUS
<1>1. turns \in [1 .. 0 -> Turn] /\ 0 \in 0 .. MaxTurns
  BY WindowsAssumption DEF WindowsInit
<1>2. DOMAIN windows = {} /\ windows \in Seq(Window)
  BY DEF WindowsInit
<1>3. WindowsTypeOK
  BY <1>1, <1>2 DEF WindowsInit, WindowsTypeOK
<1> QED
  BY <1>2, <1>3 DEF WindowsInit, WindowsInv, Chained, EachSound

LEMMA WindowsInductive == WindowsInv /\ [WindowsNext]_windowVars => WindowsInv'
BY LoadKeeps, CutKeeps, AuditKeeps, WindowsStutter DEF WindowsNext

LEMMA WindowsSound == WindowsInv => WindowsAreExact
BY DEF WindowsInv, WindowsAreExact, Chained, EachSound

\* However many turns a sample has and however long they are, whatever fits and
\* whatever overlap is asked for, window_sample cuts it into windows that partition its
\* turns, each the longest there can be with the longest history, and
\* audit_sample_windows has nothing to find.
THEOREM WindowsAreSound == WindowsSpec => []WindowsAreExact
<1>1. WindowsInit => WindowsInv
  BY WindowsStart
<1>2. WindowsInv /\ [WindowsNext]_windowVars => WindowsInv'
  BY WindowsInductive
<1>3. WindowsInv => WindowsAreExact
  BY WindowsSound
<1> QED
  BY <1>1, <1>2, <1>3, PTL DEF WindowsSpec

-----------------------------------------------------------------------------
(***************************************************************************)
(* The two stages of supervised fine-tuning.                               *)
(***************************************************************************)

\* Where the trainer saves, and where it saves next after the furthest checkpoint
\* that was finished: the only place a save can have been cut short.
SavePoint(s) == SavesStep(s) \/ s % StepsPerEpoch = 0
NextSave(s) == s > furthest /\ SavePoint(s) /\ \A r \in furthest + 1 .. s - 1 : ~SavePoint(r)

StartingUp == {"configure", "windows", "schedule", "load", "build"}
Saving == {"save", "write", "point", "mark"}

\* What is in the output directory: the finished checkpoints, and at most the
\* next one unfinished.
OutputDirectory ==
  /\ furthest > 0 => checkpoints[furthest].complete
  /\ \A s \in 1 .. MaxSteps : checkpoints[s].complete =>
       /\ s <= furthest
       /\ checkpoints[s].state # "missing"
       /\ checkpoints[s].state = "whole" \/ SavedTwice(s)
  /\ \A s \in 1 .. MaxSteps :
       checkpoints[s].state # "missing" => checkpoints[s].complete \/ NextSave(s)

\* A save is the next one, or the second one of a step that was saved already.
SaveOf(s, why) ==
  CASE why = "step" -> SavesStep(s) /\ NextSave(s)
    [] why = "epoch" -> /\ s % StepsPerEpoch = 0
                        /\ IF SavesStep(s) THEN s = furthest ELSE NextSave(s)

\* Where the trainer is, compared with what it has finished.
Position ==
  /\ furthest <= TotalSteps /\ step <= TotalSteps
  /\ trainer \in StartingUp => step = furthest
  /\ trainer = "step" => /\ furthest <= step /\ step < TotalSteps
                         /\ \A r \in furthest + 1 .. step : ~SavePoint(r)
  /\ trainer = "epoch" => step > 0 /\ SaveOf(step, "epoch")
  /\ trainer \in Saving =>
       /\ step > 0 /\ SaveOf(step, cause)
       /\ cause = "epoch" => step \div StepsPerEpoch \in measured
  /\ trainer \in {"point", "mark"} =>
       /\ checkpoints[step].state = "whole"
       /\ cause = "epoch" => step \div StepsPerEpoch \in checkpoints[step].measured
  /\ trainer = "mark" /\ AtEpochEnd => pointer[step \div StepsPerEpoch] = step
  /\ trainer \in {"final", "metrics"} \/ final # "missing" => furthest = TotalSteps
  /\ final # "missing" => trainer \in {"down", "metrics"}

\* The loss of an epoch is in the checkpoint of its end, unless that is saved twice
\* and a kill fell between, or its second save is under way.
EpochLoss(e) ==
  LET boundary == e * StepsPerEpoch
  IN /\ pointer[e] \in {0, boundary}
     /\ checkpoints[boundary].complete =>
          /\ pointer[e] = boundary
          /\ \/ e \in checkpoints[boundary].measured
             \/ /\ SavedTwice(boundary)
                /\ trainKills = 0 => step = boundary /\ trainer \in {"epoch", "save", "write"}

SftInv ==
  /\ SftTypeOK
  /\ OutputDirectory
  /\ Position
  /\ EpochLoss(1) /\ EpochLoss(2)
-----------------------------------------------------------------------------
\* A stage has at least one step; a boundary of epochs is the end of the first or
\* of the second, and the last step of a stage is one.
LEMMA CeilPositive ==
  ASSUME NEW n \in Nat \ {0}, NEW d \in Nat \ {0}
  PROVE  Ceil(n, d) \in Nat \ {0}
BY DEF Ceil

LEMMA StepsPositive == StepsPerEpoch \in Nat \ {0} /\ SaveSteps \in Nat \ {0}
<1>1. /\ Windows \in Nat \ {0} /\ WorldSize \in Nat \ {0} /\ BatchSize \in Nat \ {0}
      /\ Accumulation \in Nat \ {0} /\ SaveSteps \in Nat \ {0}
  BY SftAssumption
<1>2. Ceil(Windows, WorldSize) \in Nat \ {0}
  BY <1>1, CeilPositive
<1>3. Ceil(Ceil(Windows, WorldSize), BatchSize) \in Nat \ {0}
  BY <1>1, <1>2, CeilPositive
<1> QED
  BY <1>1, <1>3, CeilPositive DEF StepsPerEpoch

LEMMA StepNumbers ==
  /\ MaxSteps = 2 * StepsPerEpoch
  /\ MaxSteps \in Nat \ {0}
BY StepsPositive DEF MaxSteps

LEMMA Boundary ==
  ASSUME NEW s \in 1 .. MaxSteps, s % StepsPerEpoch = 0
  PROVE  \/ s = 1 * StepsPerEpoch /\ s \div StepsPerEpoch = 1
         \/ s = 2 * StepsPerEpoch /\ s \div StepsPerEpoch = 2
<1>1. ASSUME NEW S \in Nat \ {0}, NEW k \in 1 .. 2 * S, k % S = 0
      PROVE  \/ k = 1 * S /\ k \div S = 1
             \/ k = 2 * S /\ k \div S = 2
  <2>1. k = S \/ k = 2 * S
    BY <1>1
  <2>2. S \div S = 1 /\ (2 * S) \div S = 2
    OBVIOUS
  <2> QED
    BY <2>1, <2>2
<1> QED
  BY <1>1, StepsPositive, StepNumbers

LEMMA LastStep ==
  ASSUME stage \in Stages
  PROVE  /\ TotalSteps \in 1 .. MaxSteps
         /\ TotalSteps % StepsPerEpoch = 0
         /\ stage = "d3" => TotalSteps = MaxSteps
         /\ SavePoint(TotalSteps)
<1>1. ASSUME NEW S \in Nat \ {0}
      PROVE  S * 1 = S /\ S * 2 = 2 * S /\ S % S = 0 /\ (2 * S) % S = 0
  OBVIOUS
<1>2. TotalSteps = (IF stage = "d12" THEN StepsPerEpoch ELSE 2 * StepsPerEpoch)
  BY <1>1, StepsPositive DEF TotalSteps, Epochs
<1> QED
  BY <1>1, <1>2, StepsPositive, StepNumbers DEF Stages, SavePoint, SavesStep

\* There is one next save.
LEMMA NextSaveIsUnique ==
  ASSUME NEW left \in Int, NEW right \in Int, furthest \in Int, NextSave(left), NextSave(right)
  PROVE  left = right
BY DEF NextSave

\* A save under way is the next one, or the second one of the furthest checkpoint.
LEMMA SaveUnderWay ==
  ASSUME SftInv, trainer \in Saving \cup {"epoch"}
  PROVE  /\ step \in 1 .. MaxSteps /\ step <= TotalSteps
         /\ furthest \in 0 .. MaxSteps /\ furthest <= step
         /\ \/ NextSave(step)
            \/ step = furthest /\ SavedTwice(step)
         /\ SavePoint(step)
<1>1. /\ step \in 0 .. MaxSteps /\ furthest \in 0 .. MaxSteps /\ step > 0 /\ step <= TotalSteps
      /\ cause \in {"step", "epoch"}
  BY StepNumbers DEF SftInv, SftTypeOK, Position, Saving
<1>2. \/ SavesStep(step) /\ NextSave(step)
      \/ /\ step % StepsPerEpoch = 0
         /\ IF SavesStep(step) THEN step = furthest ELSE NextSave(step)
  BY <1>1 DEF SftInv, Position, SaveOf, Saving
<1>3. step > furthest \/ step = furthest
  BY <1>2 DEF NextSave
<1> QED
  BY <1>1, <1>2, <1>3, StepNumbers DEF SavedTwice, SavePoint

\* What a save does to the output directory.
LEMMA SaveBeginsAt ==
  ASSUME SftInv, SaveCheckpointBegins
  PROVE  /\ step \in 1 .. MaxSteps
         /\ checkpoints' \in [1 .. MaxSteps -> Checkpoint]
         /\ \A s \in 1 .. MaxSteps : s # step => checkpoints'[s] = checkpoints[s]
         /\ checkpoints'[step].state = "torn"
         /\ checkpoints'[step].complete = checkpoints[step].complete
         /\ checkpoints'[step].measured = checkpoints[step].measured
<1>1. step \in 1 .. MaxSteps /\ checkpoints \in [1 .. MaxSteps -> Checkpoint]
  BY SaveUnderWay DEF SftInv, SftTypeOK, SaveCheckpointBegins, Saving
<1>2. checkpoints' = [checkpoints EXCEPT ![step] = [@ EXCEPT !.state = "torn"]]
  BY DEF SaveCheckpointBegins
<1> QED
  BY <1>1, <1>2 DEF Checkpoint

\* Rotation takes neither the checkpoint that was just written nor the furthest
\* finished one, as long as two are kept.
LEMMA WrittenAt ==
  ASSUME SftInv, WriteAndRotate, SaveTotalLimit > 1
  PROVE  /\ step \in 1 .. MaxSteps
         /\ checkpoints' \in [1 .. MaxSteps -> Checkpoint]
         /\ \A s \in 1 .. MaxSteps : s # step => checkpoints'[s] \in {checkpoints[s], NoCheckpoint}
         /\ furthest > 0 /\ furthest # step => checkpoints'[furthest] = checkpoints[furthest]
         /\ checkpoints'[step].state = "whole"
         /\ checkpoints'[step].complete = checkpoints[step].complete
         /\ checkpoints'[step].measured = measured
<1> DEFINE extended == [checkpoints EXCEPT ![step].state = "whole", ![step].measured = measured]
           present == {s \in 1 .. MaxSteps : extended[s].state # "missing"}
           newer(s) == {r \in present : r > s}
           old == {s \in present : Cardinality(newer(s)) >= SaveTotalLimit}
<1>1. /\ step \in 1 .. MaxSteps /\ furthest \in 0 .. MaxSteps
      /\ checkpoints \in [1 .. MaxSteps -> Checkpoint] /\ measured \subseteq {1, 2}
  BY SaveUnderWay DEF SftInv, SftTypeOK, WriteAndRotate, Saving
<1>2. /\ extended \in [1 .. MaxSteps -> Checkpoint]
      /\ \A s \in 1 .. MaxSteps : s # step => extended[s] = checkpoints[s]
      /\ extended[step].state = "whole" /\ extended[step].complete = checkpoints[step].complete
      /\ extended[step].measured = measured
  BY <1>1, ZenonT(30) DEF Checkpoint
<1>3. checkpoints' = [s \in 1 .. MaxSteps |-> IF s \in old THEN NoCheckpoint ELSE extended[s]]
  BY DEF WriteAndRotate
<1>4. ASSUME NEW s \in {step, furthest}, s \in 1 .. MaxSteps
      PROVE  s \notin old
  <2>1. \A r \in newer(s) : r \in Int /\ NextSave(r) /\ r > furthest
    <3> SUFFICES ASSUME NEW r \in newer(s) PROVE r \in Int /\ NextSave(r) /\ r > furthest
      OBVIOUS
    <3>1. r \in 1 .. MaxSteps /\ r > s /\ extended[r].state # "missing"
      BY <1>4
    <3>2. furthest <= step /\ (NextSave(step) \/ step = furthest)
      BY SaveUnderWay DEF WriteAndRotate, Saving
    <3>3. r > furthest
      BY <1>1, <1>4, <3>1, <3>2
    <3>4. CASE r = step
      BY <1>1, <3>2, <3>3, <3>4
    <3>5. CASE r # step
      <4>1. checkpoints[r].state # "missing"
        BY <1>2, <3>1, <3>5
      <4>2. ~checkpoints[r].complete
        BY <1>1, <3>1, <3>3 DEF SftInv, OutputDirectory
      <4> QED
        BY <3>1, <3>3, <4>1, <4>2 DEF SftInv, OutputDirectory
    <3> QED
      BY <3>4, <3>5
  <2>2. Cardinality(newer(s)) <= 1
    <3>1. CASE newer(s) = {}
      <4>1. Cardinality(newer(s)) = 0
        BY <3>1, FS_EmptySet
      <4> QED
        BY <4>1
    <3>2. CASE newer(s) # {}
      <4>1. PICK r \in newer(s) : TRUE
        BY <3>2
      <4>2. newer(s) = {r}
        BY <1>1, <2>1, <4>1, NextSaveIsUnique
      <4>3. Cardinality(newer(s)) = 1
        BY <4>2, FS_Singleton
      <4> QED
        BY <4>3
    <3> QED
      BY <3>1, <3>2
  <2>3. Cardinality(newer(s)) \in Nat
    <3>1. newer(s) \subseteq 1 .. MaxSteps
      OBVIOUS
    <3>2. 1 \in Int /\ MaxSteps \in Int
      BY StepNumbers
    <3>3. IsFiniteSet(1 .. MaxSteps)
      BY ONLY <3>2, FS_Interval
    <3>4. IsFiniteSet(newer(s))
      BY ONLY <3>1, <3>3, FS_Subset
    <3> QED
      BY ONLY <3>4, FS_CardinalityType
  <2>4. SaveTotalLimit \in Nat
    BY SftAssumption
  <2> QED
    BY <2>2, <2>3, <2>4
<1> HIDE DEF extended, old
<1>5. checkpoints'[step] = extended[step]
  BY <1>1, <1>3, <1>4
<1>6. furthest > 0 /\ furthest # step => checkpoints'[furthest] = checkpoints[furthest]
  <2> SUFFICES ASSUME furthest > 0, furthest # step
               PROVE  checkpoints'[furthest] = checkpoints[furthest]
    OBVIOUS
  <2>1. furthest \in 1 .. MaxSteps
    BY <1>1
  <2>2. furthest \notin old
    BY <2>1, <1>4
  <2> QED
    BY <1>2, <1>3, <2>1, <2>2
<1>7. \A s \in 1 .. MaxSteps : s # step => checkpoints'[s] \in {checkpoints[s], NoCheckpoint}
  BY <1>2, <1>3
<1>8. checkpoints' \in [1 .. MaxSteps -> Checkpoint]
  BY <1>2, <1>3 DEF NoCheckpoint, Checkpoint
<1> QED
  BY <1>1, <1>2, <1>5, <1>6, <1>7, <1>8

LEMMA MarkedAt ==
  ASSUME SftInv, MarkComplete
  PROVE  /\ step \in 1 .. MaxSteps
         /\ furthest' = step
         /\ checkpoints' \in [1 .. MaxSteps -> Checkpoint]
         /\ \A s \in 1 .. MaxSteps : s # step => checkpoints'[s] = checkpoints[s]
         /\ checkpoints'[step].complete
         /\ checkpoints'[step].state = "whole"
         /\ checkpoints'[step].measured = checkpoints[step].measured
<1>1. /\ step \in 1 .. MaxSteps /\ checkpoints \in [1 .. MaxSteps -> Checkpoint]
      /\ furthest \in 0 .. MaxSteps /\ furthest <= step /\ checkpoints[step].state = "whole"
  BY SaveUnderWay DEF SftInv, SftTypeOK, MarkComplete, Saving, Position
<1>2. checkpoints' = [checkpoints EXCEPT ![step] = [@ EXCEPT !.complete = TRUE]]
  BY DEF MarkComplete
<1>3. Max({furthest, step}) = step
  BY <1>1 DEF Max
<1>4. furthest' = step
  BY <1>3 DEF MarkComplete
<1>5. checkpoints[step] \in Checkpoint
  BY <1>1
<1>6. LET marked == [checkpoints[step] EXCEPT !.complete = TRUE]
      IN /\ marked \in Checkpoint
         /\ marked.complete
         /\ marked.state = checkpoints[step].state
         /\ marked.measured = checkpoints[step].measured
  BY <1>5 DEF Checkpoint
<1> QED
  BY <1>1, <1>2, <1>4, <1>6

\* The script resumes the furthest finished checkpoint.
LEMMA ResumesTheFurthest ==
  ASSUME SftInv
  PROVE  /\ furthest \in 0 .. MaxSteps
         /\ Resumable = {} <=> furthest = 0
         /\ Resumable # {} => Max(Resumable) = furthest
<1>1. /\ furthest \in 0 .. MaxSteps
      /\ furthest > 0 => checkpoints[furthest].complete
      /\ \A s \in 1 .. MaxSteps : checkpoints[s].complete => s <= furthest
  BY DEF SftInv, SftTypeOK, OutputDirectory
<1>2. /\ furthest > 0 => furthest \in Resumable
      /\ \A s \in Resumable : s \in Int /\ 1 <= s /\ s <= furthest
  BY <1>1, StepNumbers DEF Resumable
<1>3. ASSUME furthest > 0
      PROVE  Max(Resumable) = furthest
  <2>1. \A x \in Resumable : furthest >= x
    BY <1>1, <1>2, StepNumbers
  <2>2. /\ Max(Resumable) \in Resumable
        /\ \A x \in Resumable : Max(Resumable) >= x
    BY <1>2, <1>3, <2>1 DEF Max
  <2> QED
    BY <1>1, <1>2, <1>3, <2>2, StepNumbers
<1> QED
  BY <1>1, <1>2, <1>3, StepNumbers
-----------------------------------------------------------------------------
LEMMA SftStarts == SftInit => SftInv
<1> SUFFICES ASSUME SftInit PROVE SftInv
  OBVIOUS
<1>1. SftTypeOK
  BY SftAssumption, StepNumbers DEF SftInit, SftTypeOK, Stages, Checkpoint, NoCheckpoint
<1>2. OutputDirectory
  BY DEF SftInit, OutputDirectory, NoCheckpoint
<1>3. Position
  <2>1. TotalSteps \in 1 .. MaxSteps
    BY <1>1, LastStep DEF SftTypeOK
  <2> QED
    BY <2>1 DEF SftInit, Position, StartingUp, Saving
<1>4. \A e \in {1, 2} : e * StepsPerEpoch \in 1 .. MaxSteps
  BY StepsPositive, StepNumbers
<1>5. EpochLoss(1) /\ EpochLoss(2)
  BY <1>4 DEF SftInit, EpochLoss, NoCheckpoint
<1> QED
  BY <1>1, <1>2, <1>3, <1>5 DEF SftInv

LEMMA SftTypesHold ==
  ASSUME SaveTotalLimit > 1, SftInv, SftNext
  PROVE  SftTypeOK'
<1>1. SftTypeOK /\ MaxSteps \in Nat \ {0} /\ TrainKills \in Nat
  BY StepNumbers, SftAssumption DEF SftInv
<1>2. CASE StageStarts
  <2>1. step' = furthest
    BY <1>2, ResumesTheFurthest DEF StageStarts
  <2>2. measured' \subseteq {1, 2}
    <3>1. CASE Resumable = {}
      BY <1>2, <3>1 DEF StageStarts
    <3>2. CASE Resumable # {}
      <4>1. furthest \in 1 .. MaxSteps /\ measured' = checkpoints[furthest].measured
        BY <1>1, <1>2, <3>2, ResumesTheFurthest DEF StageStarts
      <4>2. checkpoints[furthest] \in Checkpoint
        BY <1>1, <4>1 DEF SftTypeOK
      <4> QED
        BY <4>1, <4>2 DEF Checkpoint
    <3> QED
      BY <3>1, <3>2
  <2> QED
    BY <1>1, <1>2, <2>1, <2>2 DEF StageStarts, SftTypeOK, SftFiles
<1>3. CASE CheckConfig \/ PrepareWindows \/ ConfirmSchedule \/ LoadModel \/ BuildTrainer
  BY <1>1, <1>3 DEF CheckConfig, PrepareWindows, ConfirmSchedule, LoadModel, Phase, BuildTrainer, SftTypeOK, SftFiles
<1>4. CASE SecondStage
  <2>1. NoCheckpoint \in Checkpoint
    BY DEF NoCheckpoint, Checkpoint
  <2> QED
    BY <1>1, <1>4, <2>1 DEF SecondStage, SftTypeOK, Stages
<1>5. CASE TrainStep
  <2>1. step + 1 \in 0 .. MaxSteps
    <3>1. trainer = "step" /\ step < TotalSteps
      BY <1>5 DEF TrainStep, SftInv, Position
    <3>2. TotalSteps \in 1 .. MaxSteps
      BY <1>1, LastStep DEF SftTypeOK
    <3> QED
      BY <1>1, <3>1, <3>2 DEF SftTypeOK
  <2>2. trainer' \in {"save", "epoch", "step"}
    BY <1>5 DEF TrainStep
  <2> QED
    BY <1>1, <1>5, <2>1, <2>2 DEF TrainStep, SftTypeOK, SftFiles
<1>6. CASE EpochEnds
  <2>1. step \in 1 .. MaxSteps /\ step % StepsPerEpoch = 0
    BY <1>6, SaveUnderWay DEF EpochEnds, SftInv, Position, SaveOf
  <2>2. step \div StepsPerEpoch \in {1, 2}
    BY <2>1, Boundary
  <2> QED
    BY <1>1, <1>6, <2>2 DEF EpochEnds, SftTypeOK, SftFiles
<1>7. CASE SaveCheckpointBegins
  BY <1>1, <1>7, SaveBeginsAt DEF SaveCheckpointBegins, SftTypeOK
<1>8. CASE WriteAndRotate
  <2>1. checkpoints' \in [1 .. MaxSteps -> Checkpoint]
    BY <1>8, WrittenAt
  <2> QED
    BY <1>1, <1>8, <2>1 DEF WriteAndRotate, SftTypeOK
<1>9. CASE WritePointer
  <2>1. step \in 1 .. MaxSteps
    BY <1>9, SaveUnderWay DEF WritePointer, Saving
  <2> QED
    BY <1>1, <1>9, <2>1 DEF WritePointer, SftTypeOK
<1>10. CASE MarkComplete
  <2>1. checkpoints' \in [1 .. MaxSteps -> Checkpoint] /\ furthest' = step
    BY <1>10, MarkedAt
  <2>2. trainer' \in {"epoch", "final", "step"}
    BY <1>10 DEF MarkComplete
  <2> QED
    BY <1>1, <1>10, <2>1, <2>2 DEF MarkComplete, SftTypeOK
<1>11. CASE FinalBegins \/ FinalWritten
  BY <1>1, <1>11 DEF FinalBegins, FinalWritten, SftTypeOK
<1>12. CASE TrainKilled
  <2>1. trainKills' \in 0 .. TrainKills
    BY <1>1, <1>12 DEF TrainKilled, SftTypeOK
  <2> QED
    BY <1>1, <1>12, <2>1 DEF TrainKilled, SftTypeOK, SftFiles
<1>13. CASE SelectEpoch
  <2>1. chosen' \in 0 .. 2
    BY <1>13 DEF SelectEpoch
  <2> QED
    BY <1>1, <1>13, <2>1 DEF SelectEpoch, SftTypeOK
<1> QED
  BY <1>2, <1>3, <1>4, <1>5, <1>6, <1>7, <1>8, <1>9, <1>10, <1>11, <1>12, <1>13 DEF SftNext

LEMMA DirectoryHolds ==
  ASSUME SaveTotalLimit > 1, SftInv, SftNext
  PROVE  OutputDirectory'
<1>1. SftTypeOK /\ OutputDirectory /\ MaxSteps \in Nat \ {0}
  BY StepNumbers DEF SftInv
<1>2. CASE UNCHANGED <<stage, checkpoints, furthest>>
  BY <1>1, <1>2 DEF OutputDirectory, SavedTwice, NextSave, SavePoint, SavesStep, TotalSteps
<1>3. CASE SecondStage
  BY <1>1, <1>3 DEF SecondStage, OutputDirectory, NoCheckpoint
<1>4. ASSUME stage' = stage
      PROVE  \A s : /\ SavesStep(s)' <=> SavesStep(s)
                    /\ SavedTwice(s)' <=> SavedTwice(s)
                    /\ SavePoint(s)' <=> SavePoint(s)
  BY <1>4 DEF SavedTwice, SavePoint, SavesStep, TotalSteps
<1>5. ASSUME stage' = stage, furthest' = furthest
      PROVE  \A s : NextSave(s)' <=> NextSave(s)
  BY <1>4, <1>5 DEF NextSave
<1>6. CASE SaveCheckpointBegins
  <2>1. /\ UNCHANGED <<stage, furthest>>
        /\ NextSave(step) \/ (step = furthest /\ SavedTwice(step))
        /\ step \in 1 .. MaxSteps /\ furthest \in 0 .. MaxSteps
    <3>1. stage' = stage /\ furthest' = furthest
      BY <1>6 DEF SaveCheckpointBegins
    <3>2. trainer \in Saving \cup {"epoch"}
      BY <1>6 DEF SaveCheckpointBegins, Saving
    <3>3. /\ NextSave(step) \/ (step = furthest /\ SavedTwice(step))
          /\ step \in 1 .. MaxSteps /\ furthest \in 0 .. MaxSteps
      BY <3>2, SaveUnderWay
    <3> QED
      BY <3>1, <3>3
  <2>2. NextSave(step) => ~checkpoints[step].complete
    BY <1>1, <2>1 DEF OutputDirectory, NextSave
  <2> QED
    BY <1>1, <1>4, <1>5, <1>6, <2>1, <2>2, SaveBeginsAt DEF OutputDirectory
<1>7. CASE WriteAndRotate
  <2>1. /\ UNCHANGED <<stage, furthest>>
        /\ NextSave(step) \/ (step = furthest /\ SavedTwice(step))
        /\ step \in 1 .. MaxSteps /\ furthest \in 0 .. MaxSteps
    <3>1. stage' = stage /\ furthest' = furthest
      BY <1>7 DEF WriteAndRotate
    <3>2. trainer \in Saving \cup {"epoch"}
      BY <1>7 DEF WriteAndRotate, Saving
    <3>3. /\ NextSave(step) \/ (step = furthest /\ SavedTwice(step))
          /\ step \in 1 .. MaxSteps /\ furthest \in 0 .. MaxSteps
      BY <3>2, SaveUnderWay
    <3> QED
      BY <3>1, <3>3
  <2>2. NextSave(step) => ~checkpoints[step].complete
    BY <1>1, <2>1 DEF OutputDirectory, NextSave
  <2>3. furthest > 0 => checkpoints'[furthest].complete
    BY <1>1, <1>7, <2>1, WrittenAt DEF OutputDirectory
  <2>4. ASSUME NEW s \in 1 .. MaxSteps
        PROVE  /\ checkpoints'[s].complete =>
                    /\ s <= furthest
                    /\ checkpoints'[s].state # "missing"
                    /\ checkpoints'[s].state = "whole" \/ SavedTwice(s)
               /\ checkpoints'[s].state # "missing" => checkpoints'[s].complete \/ NextSave(s)
    <3>1. CASE s = step
      BY <1>1, <1>7, <2>1, <2>2, <3>1, WrittenAt DEF OutputDirectory
    <3>2. CASE s # step
      <4>1. checkpoints'[s] = checkpoints[s] \/ checkpoints'[s] = NoCheckpoint
        BY <1>7, <3>2, WrittenAt
      <4>2. CASE checkpoints'[s] = checkpoints[s]
        BY <1>1, <4>2 DEF OutputDirectory
      <4>3. CASE checkpoints'[s] = NoCheckpoint
        BY <4>3 DEF NoCheckpoint
      <4> QED
        BY <4>1, <4>2, <4>3
    <3> QED
      BY <3>1, <3>2
  <2> QED
    BY <1>4, <1>5, <2>1, <2>3, <2>4 DEF OutputDirectory
<1>8. CASE MarkComplete
  <2>1. /\ UNCHANGED stage /\ step \in 1 .. MaxSteps /\ furthest \in 0 .. MaxSteps
        /\ furthest <= step /\ (NextSave(step) \/ step = furthest)
    BY <1>8, SaveUnderWay DEF MarkComplete, Saving
  <2>2. ASSUME NEW s \in 1 .. MaxSteps, s # step, NextSave(s)
        PROVE  furthest' = furthest
    BY <1>8, <2>1, <2>2, NextSaveIsUnique, MarkedAt
  <2>3. \A s \in 1 .. MaxSteps : checkpoints'[s].complete =>
           /\ s <= step
           /\ checkpoints'[s].state # "missing"
           /\ checkpoints'[s].state = "whole" \/ SavedTwice(s)
    BY <1>1, <1>8, <2>1, MarkedAt DEF OutputDirectory
  <2>4. ASSUME NEW s \in 1 .. MaxSteps, checkpoints'[s].state # "missing"
        PROVE  checkpoints'[s].complete \/ NextSave(s)'
    <3>1. CASE s = step
      BY <1>8, <3>1, MarkedAt
    <3>2. CASE s # step
      <4>1. checkpoints'[s] = checkpoints[s]
        BY <1>8, <3>2, MarkedAt
      <4>2. checkpoints[s].complete \/ NextSave(s)
        BY <1>1, <2>4, <4>1 DEF OutputDirectory
      <4> QED
        BY <1>5, <2>1, <2>2, <3>2, <4>1, <4>2
    <3> QED
      BY <3>1, <3>2
  <2> QED
    BY <1>4, <1>8, <2>1, <2>3, <2>4, MarkedAt DEF OutputDirectory
<1> QED
  BY <1>2, <1>3, <1>6, <1>7, <1>8 DEF SftNext, StageStarts, CheckConfig, PrepareWindows, ConfirmSchedule, LoadModel,
     Phase, BuildTrainer, TrainStep, EpochEnds, WritePointer, FinalBegins, FinalWritten, TrainKilled, SelectEpoch, SftFiles

LEMMA PositionHolds ==
  ASSUME SaveTotalLimit > 1, SftInv, SftNext
  PROVE  Position'
<1>1. SftTypeOK /\ Position /\ MaxSteps \in Nat \ {0} /\ TotalSteps \in 1 .. MaxSteps
  BY StepNumbers, LastStep DEF SftInv, SftTypeOK
<1>2. step \in 0 .. MaxSteps /\ furthest \in 0 .. MaxSteps
  BY <1>1 DEF SftTypeOK
<1>3. ASSUME stage' = stage
      PROVE  /\ TotalSteps' = TotalSteps
             /\ \A s : (SavePoint(s)' <=> SavePoint(s)) /\ (SavesStep(s)' <=> SavesStep(s))
  BY <1>3 DEF SavePoint, SavesStep, TotalSteps
<1>4. ASSUME stage' = stage, furthest' = furthest
      PROVE  \A s, why : (SaveOf(s, why)' <=> SaveOf(s, why)) /\ (NextSave(s)' <=> NextSave(s))
  BY <1>3, <1>4 DEF SaveOf, NextSave
<1>5. CASE StageStarts
  <2>1. step' = furthest
    BY <1>5, ResumesTheFurthest DEF StageStarts
  <2>2. /\ UNCHANGED <<stage, furthest, final>> /\ trainer' = "configure" /\ final = "missing"
        /\ furthest <= TotalSteps
    BY <1>1, <1>5 DEF StageStarts, SftFiles, Position
  <2>3. TotalSteps' = TotalSteps
    BY <1>3, <2>2
  <2> QED
    BY <2>1, <2>2, <2>3 DEF Position, StartingUp, Saving
<1>6. CASE CheckConfig \/ PrepareWindows \/ ConfirmSchedule \/ LoadModel
  <2>1. /\ UNCHANGED <<stage, step, furthest, final>>
        /\ trainer \in StartingUp /\ trainer' \in StartingUp \cup {"failed"}
    BY <1>6 DEF CheckConfig, PrepareWindows, ConfirmSchedule, LoadModel, Phase, SftFiles, StartingUp
  <2>2. TotalSteps' = TotalSteps
    BY <1>3, <2>1
  <2>3. furthest <= TotalSteps /\ step <= TotalSteps /\ step = furthest /\ final = "missing"
    BY <1>1, <2>1 DEF Position, StartingUp
  <2> QED
    BY <2>1, <2>2, <2>3 DEF Position, StartingUp, Saving
<1>7. CASE BuildTrainer
  <2>1. /\ UNCHANGED <<stage, step, furthest, final>>
        /\ trainer = "build" /\ trainer' \in {"failed", "final", "step"}
        /\ trainer' = "final" => step = TotalSteps
        /\ trainer' = "step" => step # TotalSteps
    BY <1>7 DEF BuildTrainer, SftFiles
  <2>2. TotalSteps' = TotalSteps
    BY <1>3, <2>1
  <2>3. furthest <= TotalSteps /\ step <= TotalSteps /\ step = furthest /\ final = "missing"
    BY <1>1, <2>1 DEF Position, StartingUp
  <2>4. \A r \in furthest + 1 .. step : ~SavePoint(r)
    BY <1>2, <2>3
  <2>5. \A r \in furthest' + 1 .. step' : ~SavePoint(r)'
    BY <1>3, <2>1, <2>4
  <2> QED
    BY <1>1, <1>2, <2>1, <2>2, <2>3, <2>5 DEF Position, StartingUp, Saving
<1>8. CASE SecondStage
  <2>1. TotalSteps' = MaxSteps
    <3>1. stage' = "d3"
      BY <1>8 DEF SecondStage
    <3>2. TotalSteps' = StepsPerEpoch * 2
      BY <3>1 DEF TotalSteps, Epochs
    <3> QED
      BY <3>2, StepsPositive, StepNumbers
  <2>2. trainer' = "down" /\ furthest' = 0 /\ final' = "missing" /\ step' = step
    BY <1>8 DEF SecondStage
  <2> QED
    BY <1>1, <1>2, <2>1, <2>2 DEF Position, StartingUp, Saving
<1>9. CASE TrainStep
  <2>1. /\ UNCHANGED <<stage, furthest, final, pointer, checkpoints>>
        /\ trainer = "step" /\ step' = step + 1 /\ cause' = "step"
        /\ trainer' = "save" <=> SavesStep(step + 1)
        /\ trainer' = "epoch" => ~SavesStep(step + 1) /\ (step + 1) % StepsPerEpoch = 0
        /\ trainer' = "step" => ~SavesStep(step + 1) /\ (step + 1) % StepsPerEpoch # 0
        /\ trainer' \in {"save", "epoch", "step"}
    BY <1>9 DEF TrainStep, SftFiles
  <2>2. /\ furthest <= step /\ step < TotalSteps /\ furthest <= TotalSteps /\ final = "missing"
        /\ \A r \in furthest + 1 .. step : ~SavePoint(r)
    BY <1>1, <2>1 DEF Position
  <2>3. trainer' = "step" => step + 1 # TotalSteps
    BY <2>1 DEF SavesStep
  <2>4. trainer' = "step" => \A r \in furthest + 1 .. step + 1 : ~SavePoint(r)
    <3>1. \A r \in furthest + 1 .. step + 1 : r \in furthest + 1 .. step \/ r = step + 1
      BY <1>2
    <3>2. trainer' = "step" => ~SavePoint(step + 1)
      BY <2>1 DEF SavePoint
    <3> QED
      BY <2>2, <3>1, <3>2
  <2>5. trainer' # "step" => SavePoint(step + 1) /\ NextSave(step + 1)
    <3>1. furthest + 1 .. (step + 1) - 1 = furthest + 1 .. step
      BY <1>2
    <3>2. trainer' # "step" => SavePoint(step + 1)
      BY <2>1 DEF SavePoint
    <3> QED
      BY <1>2, <2>2, <3>1, <3>2 DEF NextSave
  <2>6. /\ trainer' = "save" => SaveOf(step + 1, "step")
        /\ trainer' = "epoch" => SaveOf(step + 1, "epoch")
    BY <2>1, <2>5 DEF SaveOf
  <2>7. /\ trainer' = "save" => SaveOf(step, cause)'
        /\ trainer' = "epoch" => SaveOf(step, "epoch")'
    BY <1>4, <2>1, <2>6
  <2>8. trainer' = "step" => \A r \in furthest' + 1 .. step' : ~SavePoint(r)'
    BY <1>3, <2>1, <2>4
  <2>9. TotalSteps' = TotalSteps
    BY <1>3, <2>1
  <2>10. step' > 0 /\ step' <= TotalSteps' /\ furthest' <= TotalSteps' /\ furthest' <= step'
         /\ (trainer' = "step" => step' < TotalSteps')
    BY <1>1, <1>2, <2>1, <2>2, <2>3, <2>9
  <2> QED
    BY <2>1, <2>2, <2>7, <2>8, <2>10 DEF Position, StartingUp, Saving
<1>10. CASE EpochEnds
  <2>1. /\ UNCHANGED <<stage, step, furthest, final>>
        /\ trainer = "epoch" /\ trainer' = "save" /\ cause' = "epoch"
        /\ step \div StepsPerEpoch \in measured'
    BY <1>10 DEF EpochEnds, SftFiles
  <2>2. /\ step > 0 /\ SaveOf(step, "epoch") /\ furthest <= TotalSteps /\ step <= TotalSteps
        /\ final = "missing"
    BY <1>1, <2>1 DEF Position
  <2>3. SaveOf(step, cause)' /\ TotalSteps' = TotalSteps
    BY <1>3, <1>4, <2>1, <2>2
  <2> QED
    BY <2>1, <2>2, <2>3 DEF Position, StartingUp, Saving
<1>11. CASE SaveCheckpointBegins \/ WriteAndRotate \/ WritePointer
  <2>1. /\ UNCHANGED <<stage, step, furthest, final, measured, cause>>
        /\ trainer \in Saving /\ trainer' \in Saving
    BY <1>11 DEF SaveCheckpointBegins, WriteAndRotate, WritePointer, Saving
  <2>2. /\ step > 0 /\ SaveOf(step, cause) /\ furthest <= TotalSteps /\ step <= TotalSteps
        /\ final = "missing"
        /\ cause = "epoch" => step \div StepsPerEpoch \in measured
    BY <1>1, <2>1 DEF Position, Saving
  <2>3. SaveOf(step, cause)' /\ TotalSteps' = TotalSteps
    BY <1>3, <1>4, <2>1, <2>2
  <2>4. trainer' \in {"point", "mark"} =>
          /\ checkpoints'[step].state = "whole"
          /\ cause = "epoch" => step \div StepsPerEpoch \in checkpoints'[step].measured
    <3>1. CASE SaveCheckpointBegins
      BY <3>1 DEF SaveCheckpointBegins
    <3>2. CASE WriteAndRotate
      BY <2>2, <3>2, WrittenAt
    <3>3. CASE WritePointer
      BY <1>1, <3>3 DEF WritePointer, Position
    <3> QED
      BY <1>11, <3>1, <3>2, <3>3
  <2>5. trainer' = "mark" /\ AtEpochEnd => pointer'[step \div StepsPerEpoch] = step
    <3>1. SUFFICES ASSUME trainer' = "mark", AtEpochEnd
                   PROVE  pointer'[step \div StepsPerEpoch] = step
      OBVIOUS
    <3>2. WritePointer
      BY <1>11, <3>1 DEF SaveCheckpointBegins, WriteAndRotate
    <3>3. step \div StepsPerEpoch \in {1, 2}
      BY <1>1, <1>2, <2>2, <3>1, Boundary DEF AtEpochEnd
    <3>4. pointer' = [pointer EXCEPT ![step \div StepsPerEpoch] = step]
      BY <3>1, <3>2 DEF WritePointer
    <3> QED
      BY <1>1, <3>3, <3>4 DEF SftTypeOK
  <2>6. AtEpochEnd' = AtEpochEnd
    BY <2>1 DEF AtEpochEnd
  <2> QED
    BY <2>1, <2>2, <2>3, <2>4, <2>5, <2>6 DEF Position, StartingUp, Saving
<1>12. CASE MarkComplete
  <2>1. /\ UNCHANGED <<stage, step, final, cause>> /\ trainer = "mark"
        /\ trainer' \in {"epoch", "final", "step"}
        /\ trainer' = "epoch" => AtEpochEnd /\ cause = "step"
        /\ trainer' = "final" => step = TotalSteps
        /\ trainer' = "step" =>
             ~(AtEpochEnd /\ cause = "step") /\ ~(step = TotalSteps /\ cause = "epoch")
    BY <1>12 DEF MarkComplete
  <2>2. furthest' = step
    BY <1>12, MarkedAt
  <2>3. step > 0 /\ SaveOf(step, cause) /\ step <= TotalSteps /\ final = "missing"
    BY <1>1, <2>1 DEF Position, Saving
  <2>4. trainer' = "epoch" => SavesStep(step) /\ step % StepsPerEpoch = 0
    BY <2>1, <2>3 DEF SaveOf, AtEpochEnd
  <2>5. trainer' = "epoch" => SaveOf(step, "epoch")'
    <3>1. SavesStep(step)' = SavesStep(step)
      BY <1>3, <2>1 DEF SavesStep
    <3> QED
      BY <2>1, <2>2, <2>4, <3>1 DEF SaveOf
  <2>6. trainer' = "step" => step # TotalSteps
    <3>1. cause \in {"step", "epoch"} /\ TotalSteps % StepsPerEpoch = 0
      BY <1>1, LastStep DEF SftTypeOK
    <3> QED
      BY <2>1, <3>1 DEF AtEpochEnd
  <2>7. TotalSteps' = TotalSteps
    BY <1>3, <2>1
  <2>8. /\ furthest' <= step' /\ furthest' <= TotalSteps' /\ step' <= TotalSteps' /\ step' > 0
        /\ trainer' = "step" => step' < TotalSteps'
        /\ \A r \in furthest' + 1 .. step' : ~SavePoint(r)'
    BY <1>1, <1>2, <2>1, <2>2, <2>3, <2>6, <2>7
  <2> QED
    BY <2>1, <2>2, <2>3, <2>5, <2>7, <2>8 DEF Position, StartingUp, Saving
<1>13. CASE FinalBegins \/ FinalWritten \/ TrainKilled \/ SelectEpoch
  <2>1. /\ UNCHANGED <<stage, step, furthest>> /\ trainer' \in {"down", "metrics"}
        /\ \/ trainer \in {"final", "metrics"} \/ final # "missing"
           \/ trainer' = "down" /\ final' = "missing"
        /\ trainer' = "metrics" \/ trainer' = "down"
    BY <1>13 DEF FinalBegins, FinalWritten, TrainKilled, SelectEpoch, SftFiles
  <2>2. furthest <= TotalSteps /\ step <= TotalSteps
    BY <1>1 DEF Position
  <2>3. trainer \in {"final", "metrics"} \/ final # "missing" => furthest = TotalSteps
    BY <1>1 DEF Position
  <2>4. TotalSteps' = TotalSteps
    BY <1>3, <2>1
  <2>5. trainer' = "metrics" \/ final' # "missing" => furthest' = TotalSteps'
    BY <2>1, <2>3, <2>4
  <2> QED
    BY <2>1, <2>2, <2>4, <2>5 DEF Position, StartingUp, Saving
<1> QED
  BY <1>5, <1>6, <1>7, <1>8, <1>9, <1>10, <1>11, <1>12, <1>13 DEF SftNext

LEMMA LossHolds ==
  ASSUME SaveTotalLimit > 1, SftInv, SftNext, NEW e \in {1, 2}
  PROVE  EpochLoss(e)'
<1> DEFINE boundary == e * StepsPerEpoch
<1>1. /\ SftTypeOK /\ OutputDirectory /\ Position /\ EpochLoss(e)
      /\ boundary \in 1 .. MaxSteps /\ MaxSteps \in Nat \ {0}
  BY StepsPositive, StepNumbers DEF SftInv
<1>2. /\ pointer[e] \in {0, boundary}
      /\ checkpoints[boundary].complete =>
           /\ pointer[e] = boundary
           /\ \/ e \in checkpoints[boundary].measured
              \/ /\ SavedTwice(boundary)
                 /\ trainKills = 0 => step = boundary /\ trainer \in {"epoch", "save", "write"}
  BY <1>1 DEF EpochLoss
<1>3. boundary % StepsPerEpoch = 0 /\ boundary \div StepsPerEpoch = e
  <2>1. ASSUME NEW S \in Nat \ {0}
        PROVE  /\ (1 * S) % S = 0 /\ (1 * S) \div S = 1
               /\ (2 * S) % S = 0 /\ (2 * S) \div S = 2
    OBVIOUS
  <2>2. CASE e = 1
    BY <2>1, <2>2, StepsPositive
  <2>3. CASE e = 2
    BY <2>1, <2>3, StepsPositive
  <2> QED
    BY <2>2, <2>3
<1>4. step \in 0 .. MaxSteps /\ furthest \in 0 .. MaxSteps /\ trainKills \in Nat
  BY <1>1, SftAssumption DEF SftTypeOK
<1> HIDE DEF boundary
\* What has to be shown of a step, in the same stage.
<1>5. SUFFICES ASSUME stage' = stage
               PROVE  /\ pointer'[e] \in {0, boundary}
                      /\ checkpoints'[boundary].complete =>
                           /\ pointer'[e] = boundary
                           /\ \/ e \in checkpoints'[boundary].measured
                              \/ /\ SavedTwice(boundary)
                                 /\ trainKills' = 0 => step' = boundary /\ trainer' \in {"epoch", "save", "write"}
  <2>1. CASE stage' = stage
    <3>1. SavedTwice(boundary)' <=> SavedTwice(boundary)
      BY <2>1 DEF SavedTwice, SavesStep, TotalSteps, boundary
    <3> QED
      BY <1>5, <2>1, <3>1 DEF EpochLoss, boundary
  <2>2. CASE stage' # stage
    <3>1. SecondStage
      BY <2>2 DEF SftNext, StageStarts, CheckConfig, PrepareWindows, ConfirmSchedule, LoadModel, Phase, BuildTrainer,
         TrainStep, EpochEnds, SaveCheckpointBegins, WriteAndRotate, WritePointer, MarkComplete, FinalBegins,
         FinalWritten, TrainKilled, SelectEpoch
    <3>2. pointer'[e] = 0 /\ checkpoints'[boundary].complete = FALSE
      BY <1>1, <3>1 DEF SecondStage, NoCheckpoint
    <3> QED
      BY <3>2 DEF EpochLoss, boundary
  <2> QED
    BY <2>1, <2>2
\* A step that leaves the files alone.
<1>6. CASE /\ UNCHANGED <<pointer, checkpoints>>
           /\ trainKills' = trainKills \/ trainKills' > 0
           /\ \/ UNCHANGED <<step, trainer>>
              \/ trainKills' > 0
              \/ trainer \notin {"epoch", "save", "write"}
              \/ step' = step /\ trainer' \in {"epoch", "save", "write"}
  BY <1>2, <1>4, <1>6
<1>7. CASE SaveCheckpointBegins
  <2>1. /\ UNCHANGED <<pointer, step, trainKills>> /\ trainer' = "write"
    BY <1>7 DEF SaveCheckpointBegins
  <2>2. /\ checkpoints'[boundary].complete = checkpoints[boundary].complete
        /\ checkpoints'[boundary].measured = checkpoints[boundary].measured
    BY <1>1, <1>7, SaveBeginsAt
  <2> QED
    BY <1>2, <2>1, <2>2
<1>8. CASE WriteAndRotate
  <2>1. /\ UNCHANGED <<pointer, step, trainKills, furthest>> /\ trainer = "write" /\ trainer' = "point"
    BY <1>8 DEF WriteAndRotate
  <2>2. CASE step = boundary
    <3>1. SUFFICES ASSUME checkpoints[boundary].complete
                   PROVE  e \in measured
      BY <1>2, <1>8, <2>1, <2>2, WrittenAt
    <3>2. ~NextSave(step)
      BY <1>1, <1>4, <2>2, <3>1 DEF OutputDirectory, NextSave
    <3>3. SaveOf(step, cause) /\ cause \in {"step", "epoch"}
          /\ (cause = "epoch" => step \div StepsPerEpoch \in measured)
      BY <1>1, <2>1 DEF Position, Saving, SftTypeOK
    <3>4. cause = "epoch"
      BY <3>2, <3>3 DEF SaveOf
    <3> QED
      BY <1>3, <2>2, <3>3, <3>4
  <2>3. CASE step # boundary
    <3>1. checkpoints'[boundary] = checkpoints[boundary] \/ checkpoints'[boundary] = NoCheckpoint
      BY <1>1, <1>8, <2>3, WrittenAt
    <3>2. checkpoints'[boundary].complete => checkpoints'[boundary] = checkpoints[boundary]
      BY <3>1 DEF NoCheckpoint
    <3> QED
      BY <1>2, <2>1, <2>3, <3>2
  <2> QED
    BY <2>2, <2>3
<1>9. CASE WritePointer
  <2>1. /\ UNCHANGED <<checkpoints, step, trainKills>> /\ trainer = "point"
        /\ pointer' = IF AtEpochEnd THEN [pointer EXCEPT ![step \div StepsPerEpoch] = step] ELSE pointer
    BY <1>9 DEF WritePointer
  <2>2. step \in 1 .. MaxSteps
    BY <1>1, <1>4, <2>1 DEF Position, Saving
  <2>3. pointer'[e] = pointer[e] \/ pointer'[e] = boundary
    <3>1. CASE ~AtEpochEnd
      BY <2>1, <3>1
    <3>2. CASE AtEpochEnd
      <4>1. step = (step \div StepsPerEpoch) * StepsPerEpoch /\ step \div StepsPerEpoch \in {1, 2}
        BY <2>2, <3>2, Boundary DEF AtEpochEnd
      <4>2. step \div StepsPerEpoch = e => step = boundary
        BY <4>1 DEF boundary
      <4> QED
        BY <1>1, <2>1, <3>2, <4>1, <4>2 DEF SftTypeOK
    <3> QED
      BY <3>1, <3>2
  <2> QED
    BY <1>2, <2>1, <2>3
<1>10. CASE MarkComplete
  <2>1. /\ UNCHANGED <<pointer, step, trainKills>> /\ trainer = "mark"
        /\ AtEpochEnd /\ cause = "step" => trainer' = "epoch"
    BY <1>10 DEF MarkComplete
  <2>2. CASE step = boundary
    <3>1. AtEpochEnd /\ pointer[e] = boundary
      BY <1>1, <1>3, <2>1, <2>2 DEF Position, AtEpochEnd
    <3>2. SaveOf(step, cause) /\ cause \in {"step", "epoch"}
          /\ (cause = "epoch" => step \div StepsPerEpoch \in checkpoints[step].measured)
      BY <1>1, <2>1 DEF Position, Saving, SftTypeOK
    <3>3. CASE cause = "epoch"
      <4>1. e \in checkpoints'[boundary].measured
        BY <1>3, <1>10, <2>2, <3>2, <3>3, MarkedAt
      <4> QED
        BY <2>1, <3>1, <4>1
    <3>4. CASE cause = "step"
      <4>1. SavedTwice(boundary)
        BY <1>3, <2>2, <3>2, <3>4 DEF SaveOf, SavedTwice
      <4>2. trainer' = "epoch"
        BY <2>1, <3>1, <3>4
      <4> QED
        BY <2>1, <2>2, <3>1, <4>1, <4>2
    <3> QED
      BY <3>2, <3>3, <3>4
  <2>3. CASE step # boundary
    <3>1. checkpoints'[boundary] = checkpoints[boundary]
      BY <1>1, <1>10, <2>3, MarkedAt
    <3> QED
      BY <1>2, <2>1, <2>3, <3>1
  <2> QED
    BY <2>2, <2>3
<1>11. CASE StageStarts
  BY <1>6, <1>11 DEF StageStarts, SftFiles
<1>12. CASE CheckConfig \/ PrepareWindows \/ ConfirmSchedule \/ LoadModel \/ BuildTrainer
  BY <1>6, <1>12 DEF CheckConfig, PrepareWindows, ConfirmSchedule, LoadModel, Phase, BuildTrainer, SftFiles
<1>13. CASE TrainStep \/ EpochEnds
  BY <1>6, <1>13 DEF TrainStep, EpochEnds, SftFiles
<1>14. CASE FinalBegins \/ FinalWritten \/ SelectEpoch
  BY <1>6, <1>14 DEF FinalBegins, FinalWritten, SelectEpoch
<1>15. CASE TrainKilled
  <2>1. trainKills' > 0
    BY <1>4, <1>15 DEF TrainKilled
  <2> QED
    BY <1>6, <1>15, <2>1 DEF TrainKilled, SftFiles
<1>16. CASE SecondStage
  BY <1>5, <1>16 DEF SecondStage
<1> QED
  BY <1>7, <1>8, <1>9, <1>10, <1>11, <1>12, <1>13, <1>14, <1>15, <1>16 DEF SftNext

LEMMA SftInductive == SaveTotalLimit > 1 /\ SftInv /\ [SftNext]_sftVars => SftInv'
<1> SUFFICES ASSUME SaveTotalLimit > 1, SftInv, [SftNext]_sftVars PROVE SftInv'
  OBVIOUS
<1>1. CASE SftNext
  <2>1. EpochLoss(1)' /\ EpochLoss(2)'
    BY <1>1, LossHolds
  <2> QED
    BY <1>1, <2>1, SftTypesHold, DirectoryHolds, PositionHolds DEF SftInv
<1>2. CASE UNCHANGED sftVars
  <2>1. /\ UNCHANGED <<stage, trainer, step, measured, cause>>
        /\ UNCHANGED <<checkpoints, pointer, final, furthest, chosen, trainKills>>
    BY <1>2 DEF sftVars
  <2>2. SftTypeOK'
    BY <2>1 DEF SftInv, SftTypeOK
  <2>3. OutputDirectory'
    BY <2>1 DEF SftInv, OutputDirectory, SavedTwice, NextSave, SavePoint, SavesStep, TotalSteps
  <2>4. Position'
    BY <2>1, ZenonT(30) DEF SftInv, Position, NextSave, SavePoint, SavesStep, SaveOf, TotalSteps, AtEpochEnd
  <2>5. EpochLoss(1)' /\ EpochLoss(2)'
    BY <2>1 DEF SftInv, EpochLoss, SavedTwice, SavesStep, TotalSteps
  <2> QED
    BY <2>2, <2>3, <2>4, <2>5 DEF SftInv
<1> QED
  BY <1>1, <1>2

LEMMA StageKept == SftInv => StageIsKept
<1> SUFFICES ASSUME SftInv PROVE StageIsKept
  OBVIOUS
<1>1. ProgressIsKept
  <2>1. \A s \in Resumable : checkpoints[s].state = "whole" \/ SavedTwice(s)
    BY DEF Resumable, SftInv, OutputDirectory
  <2>2. furthest > 0 => Resumable # {} /\ Max(Resumable) = furthest
    BY ResumesTheFurthest, StepNumbers
  <2> QED
    BY <2>1, <2>2 DEF ProgressIsKept
<1>2. EpochsAreComparable
  <2>1. SUFFICES ASSUME stage = "d3", final = "whole", NEW e \in {1, 2},
                        checkpoints[e * StepsPerEpoch].state # "missing"
                 PROVE  Measured(e) \/ (SavedTwice(e * StepsPerEpoch) /\ trainKills > 0)
    BY DEF EpochsAreComparable
  <2>2. furthest = TotalSteps /\ TotalSteps = MaxSteps /\ trainer \in {"down", "metrics"} /\ stage \in Stages
    BY <2>1, LastStep DEF SftInv, SftTypeOK, Position
  <2>3. e * StepsPerEpoch \in 1 .. MaxSteps /\ trainKills \in Nat
    BY StepsPositive, StepNumbers, SftAssumption DEF SftInv, SftTypeOK
  <2>4. ~NextSave(e * StepsPerEpoch)
    <3>1. \A b \in 1 .. MaxSteps : ~NextSave(b)
      BY <2>2, StepNumbers DEF NextSave
    <3> QED
      BY <2>3, <3>1
  <2>5. checkpoints[e * StepsPerEpoch].complete
    BY <2>1, <2>3, <2>4 DEF SftInv, OutputDirectory
  <2>6. EpochLoss(e)
    BY DEF SftInv
  <2>7. /\ pointer[e] = e * StepsPerEpoch
        /\ \/ e \in checkpoints[e * StepsPerEpoch].measured
           \/ SavedTwice(e * StepsPerEpoch) /\ trainKills # 0
    BY <2>2, <2>5, <2>6 DEF EpochLoss
  <2> QED
    BY <2>1, <2>3, <2>7, StepNumbers DEF Measured
<1> QED
  BY <1>1, <1>2 DEF StageIsKept

(***************************************************************************)
(* However often the two stages are killed and started again, the          *)
(* checkpoint that would be resumed is the furthest one ever finished, and *)
(* the pointers to the ends of the epochs name what the choice between     *)
(* them needs (run_qwen35_two_stage_train.sh, the marking callback of      *)
(* trainer.py).  At least two checkpoints have to be kept: the rotation    *)
(* runs before on_save writes .complete, so that with save_total_limit 1   *)
(* it removes the last finished one first.                                 *)
(***************************************************************************)
THEOREM StagesAreKept == ASSUME SaveTotalLimit > 1 PROVE SftSpec => []StageIsKept
<1>1. SftInit => SftInv
  BY SftStarts
<1>2. SftInv /\ [SftNext]_sftVars => SftInv'
  BY SftInductive
<1>3. SftInv => StageIsKept
  BY StageKept
<1> QED
  BY <1>1, <1>2, <1>3, PTL DEF SftSpec

-----------------------------------------------------------------------------
(***************************************************************************)
(* Proof about MergedBase, for every number of probes, merges and faults:  *)
(* the model that the run accepts is the one that was verified.            *)
(***************************************************************************)
\* Until it writes, a merge owns an empty directory; from then on the directory is
\* its own, without a manifest until the verdict.
Writing == merger \in {"write", "tokenizer", "reload", "attach", "manifest"}
Owned ==
  /\ merger \in {"merge", "save"} => merged_dir.manifest = "none"
  /\ Writing => merged_dir.of = merges /\ merged_dir.manifest = "none"
  /\ merger \in {"tokenizer", "reload", "attach", "manifest"} => merged_dir.weights # "torn"

\* A manifest that says so was written after every check passed, of the answers that
\* are still the last ones.
Vouched ==
  merged_dir.manifest = "verified" =>
    /\ passed
    /\ merged_dir.weights # "torn"
    /\ merged_dir.of = merged_dir.vouches

MInv ==
  /\ MergeTypeOK
  /\ Owned
  /\ Vouched

-----------------------------------------------------------------------------
\* Models answer probes.
LEMMA AnswersAreSnapshots ==
  ASSUME NEW snapshot \in Snapshot
  PROVE  SftAnswers \in Snapshot /\ Perturbed(snapshot) \subseteq Snapshot
<1>1. SftAnswers \in Snapshot
  BY DEF SftAnswers, Snapshot, ProbeLogits
<1>2. Perturbed(snapshot) \subseteq Snapshot
  BY DEF Perturbed, Snapshot
<1> QED
  BY <1>1, <1>2

\* Every step keeps the types.
LEMMA MergeTypesHold == MergeTypeOK /\ [MergeNext]_mergeVars => MergeTypeOK'
<1> SUFFICES ASSUME MergeTypeOK, [MergeNext]_mergeVars PROVE MergeTypeOK'
  OBVIOUS
<1>a. MergeFault \/ UNCHANGED merge_faults => merge_faults' \in 0 .. MergeFaults
  BY MergeAssumption DEF MergeFault, MergeTypeOK
<1>b. \A m \in ProbedModels, answers \in Snapshot :
        [snapshots EXCEPT ![m] = answers] \in [ProbedModels -> Snapshot]
  BY DEF MergeTypeOK
<1> USE DEF MergeTypeOK, MergeGoes
<1>1. CASE MergeStarts
  <2>1. merges' \in 0 .. Merges
    BY <1>1, MergeAssumption DEF MergeStarts
  <2>2. SftAnswers \in Snapshot /\ [SftAnswers EXCEPT ![1].logits = "nan"] \in Snapshot
    BY MergeAssumption DEF SftAnswers, Snapshot, ProbeLogits
  <2>3. snapshots' \in [ProbedModels -> Snapshot]
    BY <1>1, <1>b, <2>2 DEF MergeStarts, ProbedModels
  <2> QED
    BY <1>1, <1>a, <2>1, <2>3, MergeAssumption DEF MergeStarts
<1>2. CASE Merge
  <2>1. snapshots' \in [ProbedModels -> Snapshot]
    BY <1>2, <1>b, AnswersAreSnapshots DEF Merge, ProbedModels
  <2> QED
    BY <1>2, <1>a, <2>1 DEF Merge
<1>3. CASE MergedSaveBegins
  BY <1>3, <1>a DEF MergedSaveBegins
<1>4. CASE MergedSaved
  BY <1>4, <1>a DEF MergedSaved
<1>5. CASE TokenizerSaved
  BY <1>5, <1>a DEF TokenizerSaved
<1>6. CASE Reload
  <2>1. PICK answers \in {snapshots["merged"]} \cup (IF merged_dir.weights = "damaged"
                                       THEN Perturbed(snapshots["merged"]) ELSE {}) :
          snapshots' = [snapshots EXCEPT !["reloaded"] = answers]
    BY <1>6 DEF Reload
  <2>2. answers \in Snapshot
    BY <2>1, AnswersAreSnapshots DEF ProbedModels
  <2>3. snapshots' \in [ProbedModels -> Snapshot]
    BY <1>b, <2>1, <2>2 DEF ProbedModels
  <2> QED
    BY <1>6, <1>a, <2>3 DEF Reload
<1>7. CASE AttachLoopAdapter
  <2>1. snapshots' \in [ProbedModels -> Snapshot]
    BY <1>7, <1>b, AnswersAreSnapshots DEF AttachLoopAdapter, ProbedModels
  <2>2. fresh_adapter' \in [tensors : {0, 1}, nonzero : {0, 1}]
    BY <1>7 DEF AttachLoopAdapter
  <2> QED
    BY <1>7, <1>a, <2>1, <2>2 DEF AttachLoopAdapter
<1>8. CASE WriteMergeManifest
  BY <1>8, <1>a DEF WriteMergeManifest
<1>9. CASE MergeExits
  BY <1>9, <1>a DEF MergeExits
<1>10. CASE MergeKilled
  BY <1>10, <1>a DEF MergeKilled
<1>11. CASE UNCHANGED mergeVars
  BY <1>11 DEF mergeVars
<1> QED
  BY <1>1, <1>2, <1>3, <1>4, <1>5, <1>6, <1>7, <1>8, <1>9, <1>10, <1>11 DEF MergeNext

\* A directory is vouched for by the step that writes its manifest, and no later merge
\* begins in it.
LEMMA VerdictStays == MInv /\ [MergeNext]_mergeVars => Owned' /\ Vouched'
<1> SUFFICES ASSUME MInv, [MergeNext]_mergeVars PROVE Owned' /\ Vouched'
  OBVIOUS
<1> USE DEF MInv, MergeTypeOK, Owned, Writing, MergeGoes
<1>1. CASE MergeStarts
  <2>1. UNCHANGED <<merged_dir, fresh_adapter>> /\ merger = "down"
        /\ merger' \in {"merge", "refused"}
    BY <1>1 DEF MergeStarts
  <2>2. CASE merger' = "merge"
    <3>1. merged_dir.manifest = "none"
      BY <1>1, <2>2 DEF MergeStarts, ValidatePaths, EmptyDir
    <3> QED
      BY <2>1, <2>2, <3>1 DEF Vouched
  <2>3. CASE merger' = "refused"
    <3>1. UNCHANGED snapshots
      BY <1>1, <2>3 DEF MergeStarts
    <3> QED
      BY <2>1, <2>3, <3>1
      DEF Vouched, passed, merge_passed, reload_passed, zero_loop_lora_passed
  <2> QED
    BY <2>1, <2>2, <2>3
<1>2. CASE Merge \/ MergedSaveBegins \/ MergedSaved \/ TokenizerSaved \/ Reload
           \/ AttachLoopAdapter
  <2>1. merged_dir'.manifest = "none"
    BY <1>2 DEF Merge, MergedSaveBegins, MergedSaved, TokenizerSaved, Reload, AttachLoopAdapter
  <2>2. Owned'
    BY <1>2, <2>1
    DEF Merge, MergedSaveBegins, MergedSaved, TokenizerSaved, Reload, AttachLoopAdapter
  <2> QED
    BY <2>1, <2>2 DEF Vouched
<1>3. CASE WriteMergeManifest
  <2>1. UNCHANGED <<snapshots, fresh_adapter>> /\ merger = "manifest"
        /\ merger' \in {"failed", "verified"}
    BY <1>3 DEF WriteMergeManifest
  <2>2. /\ merged_dir'.manifest = IF passed THEN "verified" ELSE "verification_failed"
        /\ merged_dir'.weights = merged_dir.weights
        /\ merged_dir'.of = merged_dir.of /\ merged_dir'.vouches = merged_dir.of
    BY <1>3 DEF WriteMergeManifest
  <2>3. passed' = passed
    BY <2>1 DEF passed, merge_passed, reload_passed, zero_loop_lora_passed
  <2> QED
    BY <2>1, <2>2, <2>3 DEF Vouched
<1>4. CASE MergeExits \/ MergeKilled \/ UNCHANGED mergeVars
  <2>1. UNCHANGED <<merged_dir, snapshots, fresh_adapter, merges>>
        /\ merger' \in {"down", merger}
    BY <1>4 DEF MergeExits, MergeKilled, mergeVars
  <2> QED
    BY <2>1 DEF Vouched, passed, merge_passed, reload_passed, zero_loop_lora_passed
<1> QED
  BY <1>1, <1>2, <1>3, <1>4 DEF MergeNext

\* The three checks together: the answers of the model on disk, with a fresh adapter,
\* are those of the merged model, and begin with the tokens of the SFT model.
LEMMA ChecksChain ==
  ASSUME MergeTypeOK, passed, NEW n \in 1 .. Probes
  PROVE  /\ FirstToken(snapshots["zero_loop"][n].logits)
              = FirstToken(snapshots["premerge"][n].logits)
         /\ snapshots["zero_loop"][n] = snapshots["merged"][n]
         /\ snapshots["merged"][n].logits # "nan"
<1> DEFINE answer(m) == snapshots[m][n]
<1>1. \A m \in ProbedModels : answer(m) \in [logits : ProbeLogits, generated : {1, 2}]
  <2> TAKE m \in ProbedModels
  <2>1. snapshots[m] \in Snapshot
    BY DEF MergeTypeOK
  <2> QED
    BY <2>1 DEF Snapshot
<1>2. /\ answer("merged").logits # "nan"
      /\ FirstToken(answer("premerge").logits) = FirstToken(answer("merged").logits)
  BY DEF passed, merge_passed, finite, next_token_equal
<1>3. /\ answer("merged").logits = answer("reloaded").logits
      /\ answer("merged").generated = answer("reloaded").generated
  BY DEF passed, reload_passed, Unchanged, exact_logits, generation_equal
<1>4. /\ answer("reloaded").logits = answer("zero_loop").logits
      /\ answer("reloaded").generated = answer("zero_loop").generated
  BY DEF passed, zero_loop_lora_passed, Unchanged, exact_logits, generation_equal
<1>5. answer("zero_loop") = answer("merged")
  BY <1>1, <1>3, <1>4 DEF ProbedModels
<1> QED
  BY <1>2, <1>5

-----------------------------------------------------------------------------
\* Whatever was killed, damaged or invoked again before the run is started
\* (train_sft_loop15_rtxpro6000.sh), a directory that it accepts holds whole weights of
\* the merge that its manifest vouches for (prepare_sft_loop_base.py), and they answer
\* every probe as the merged model did.
THEOREM AcceptedModelIsVerified == MergeSpec => []InitializationIsVerified
<1>1. MergeInit => MInv
  <2> SUFFICES ASSUME MergeInit PROVE MInv
    OBVIOUS
  <2>1. MergeTypeOK
    <3>1. snapshots \in [ProbedModels -> Snapshot]
      BY DEF MergeInit, SftAnswers, Snapshot, ProbeLogits
    <3>2. merges \in 0 .. Merges /\ merge_faults \in 0 .. MergeFaults /\ 0 \in 0 .. Merges
      BY MergeAssumption DEF MergeInit
    <3>3. merged_dir \in [weights : {"none", "torn", "whole", "damaged"}, of : 0 .. Merges,
                          tokenizer : BOOLEAN,
                          manifest : {"none", "verified", "verification_failed"},
                          vouches : 0 .. Merges]
      BY <3>2 DEF MergeInit, EmptyDir
    <3> QED
      BY <3>1, <3>2, <3>3 DEF MergeInit, MergeTypeOK
  <2>2. Owned /\ Vouched
    BY DEF MergeInit, EmptyDir, Owned, Writing, Vouched
  <2> QED
    BY <2>1, <2>2 DEF MInv
<1>2. MInv /\ [MergeNext]_mergeVars => MInv'
  BY MergeTypesHold, VerdictStays DEF MInv
<1>3. MInv => InitializationIsVerified
  BY ChecksChain DEF MInv, Vouched, LoopAccepts, InitializationIsVerified
<1> QED
  BY <1>1, <1>2, <1>3, PTL DEF MergeSpec
=================================================================================
