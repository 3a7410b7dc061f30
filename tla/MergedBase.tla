------------------------------- MODULE MergedBase -------------------------------
(***************************************************************************)
(* The model that R1 starts from: the SFT adapter merged into its base,    *)
(* saved, read back and probed (scripts/loop7b/prepare_sft_loop_base.py),  *)
(* and the checks of the script that starts the run on it                  *)
(* (train_sft_loop15_rtxpro6000.sh).  A merge may be killed anywhere and   *)
(* invoked again, and the run may be started at any time.  What a model    *)
(* answers to a probe is told apart as far as the checks do.               *)
(***************************************************************************)
EXTENDS Integers

CONSTANTS
  Probes,       \* number of probes
  Merges,       \* bound: invocations
  MergeFaults   \* bound: kills, faults of the disk and of the initialisation

ASSUME MergeAssumption == Probes \in Nat \ {0} /\ {Merges, MergeFaults} \subseteq Nat

VARIABLES
  merger,         \* where the invocation is
  merges,         \* invocations so far
  merged_dir,     \* the output directory
  snapshots,      \* by model: its answers to the probes
  fresh_adapter,  \* of the adapter of the loop: tensors of B, values of B that are not zero
  merge_faults

mergeVars == <<merger, merges, merged_dir, snapshots, fresh_adapter, merge_faults>>

\* The logits of the next token and the greedy continuation.  The values whose
\* name begins with "a" have the same argmax; "a_far" is not similar to the others.
ProbeLogits == {"a", "a_close", "a_far", "b", "nan"}
Snapshot == [1 .. Probes -> [logits : ProbeLogits, generated : {1, 2}]]
SftAnswers == [n \in 1 .. Probes |-> [logits |-> "a", generated |-> 1]]
Perturbed(snapshot) ==
  {[snapshot EXCEPT ![n] = answer] : n \in 1 .. Probes, answer \in [logits : ProbeLogits, generated : {1, 2}]}

ProbedModels == {"premerge", "merged", "reloaded", "zero_loop"}
EmptyDir == [weights |-> "none", of |-> 0, tokenizer |-> FALSE, manifest |-> "none", vouches |-> 0]

MergeTypeOK ==
  /\ merger \in {"down", "merge", "save", "write", "tokenizer", "reload", "attach", "manifest",
                 "refused", "failed", "verified"}
  /\ merges \in 0 .. Merges
  /\ merged_dir \in [weights : {"none", "torn", "whole", "damaged"}, of : 0 .. Merges, tokenizer : BOOLEAN,
                     manifest : {"none", "verified", "verification_failed"}, vouches : 0 .. Merges]
  /\ snapshots \in [ProbedModels -> Snapshot]
  /\ fresh_adapter \in [tensors : {0, 1}, nonzero : {0, 1}]
  /\ merge_faults \in 0 .. MergeFaults

MergeInit ==
  /\ merger = "down" /\ merges = 0 /\ merge_faults = 0
  /\ merged_dir = EmptyDir
  /\ snapshots = [m \in ProbedModels |-> SftAnswers]
  /\ fresh_adapter = [tensors |-> 0, nonzero |-> 0]

MergeGoes(from, to) == merger = from /\ merger' = to
MergeFault == merge_faults < MergeFaults /\ merge_faults' = merge_faults + 1

-----------------------------------------------------------------------------
\* compare_probe_snapshots
finite(x, y) == \A n \in 1 .. Probes : x[n].logits # "nan" /\ y[n].logits # "nan"
exact_logits(x, y) == \A n \in 1 .. Probes : x[n].logits = y[n].logits /\ x[n].logits # "nan"
generation_equal(x, y) == \A n \in 1 .. Probes : x[n].generated = y[n].generated
FirstToken(logits) == IF logits \in {"a", "a_close", "a_far"} THEN "a" ELSE logits
next_token_equal(x, y) == \A n \in 1 .. Probes : FirstToken(x[n].logits) = FirstToken(y[n].logits)
similar(x, y) ==
  \A n \in 1 .. Probes : x[n].logits = y[n].logits \/ {x[n].logits, y[n].logits} = {"a", "a_close"}

\* evaluate_verification: a merge may change a later token of the continuation,
\* reading back and an adapter that is zero may change nothing.
Unchanged(x, y) == finite(x, y) /\ exact_logits(x, y) /\ generation_equal(x, y)
merge_passed ==
  LET x == snapshots["premerge"] y == snapshots["merged"]
  IN finite(x, y) /\ next_token_equal(x, y) /\ similar(x, y)
reload_passed == Unchanged(snapshots["merged"], snapshots["reloaded"])
zero_loop_lora_passed ==
  /\ fresh_adapter.tensors > 0 /\ fresh_adapter.nonzero = 0
  /\ Unchanged(snapshots["reloaded"], snapshots["zero_loop"])
passed == merge_passed /\ reload_passed /\ zero_loop_lora_passed

-----------------------------------------------------------------------------
\* Mutant of ValidatePaths: what is in the output directory is overwritten.
ValidatePaths_any(dir) == TRUE
\* validate_paths: an output directory that is not empty is refused.
ValidatePaths(dir) == dir = EmptyDir

\* Invoked, it loads the models and probes the adapter on its base; or a model
\* file or an argument is missing.
MergeStarts ==
  /\ merger = "down" /\ merges < Merges
  /\ merges' = merges + 1
  /\ \/ /\ ValidatePaths(merged_dir)
        /\ merger' = "merge"
        /\ \E answers \in {SftAnswers, [SftAnswers EXCEPT ![1].logits = "nan"]} :
             snapshots' = [snapshots EXCEPT !["premerge"] = answers]
     \/ merger' = "refused" /\ UNCHANGED snapshots
  /\ UNCHANGED <<merged_dir, fresh_adapter, merge_faults>>

\* merge_and_unload: rounding may change what the model answers.
Merge ==
  /\ MergeGoes("merge", "save")
  /\ \E answers \in Perturbed(snapshots["premerge"]) : snapshots' = [snapshots EXCEPT !["merged"] = answers]
  /\ UNCHANGED <<merges, merged_dir, fresh_adapter, merge_faults>>

\* save_pretrained, of which a kill leaves a part; what it writes may be damaged.
MergedSaveBegins ==
  /\ MergeGoes("save", "write")
  /\ merged_dir' = [merged_dir EXCEPT !.weights = "torn", !.of = merges]
  /\ UNCHANGED <<merges, snapshots, fresh_adapter, merge_faults>>

MergedSaved ==
  /\ MergeGoes("write", "tokenizer")
  /\ \/ merged_dir' = [merged_dir EXCEPT !.weights = "whole"] /\ UNCHANGED merge_faults
     \/ merged_dir' = [merged_dir EXCEPT !.weights = "damaged"] /\ MergeFault
  /\ UNCHANGED <<merges, snapshots, fresh_adapter>>

TokenizerSaved ==
  /\ MergeGoes("tokenizer", "reload")
  /\ merged_dir' = [merged_dir EXCEPT !.tokenizer = TRUE]
  /\ UNCHANGED <<merges, snapshots, fresh_adapter, merge_faults>>

\* The model is read back from the directory.
Reload ==
  /\ MergeGoes("reload", "attach")
  /\ \E answers \in {snapshots["merged"]} \cup (IF merged_dir.weights = "damaged"
                                                THEN Perturbed(snapshots["merged"]) ELSE {}) :
       snapshots' = [snapshots EXCEPT !["reloaded"] = answers]
  /\ UNCHANGED <<merges, merged_dir, fresh_adapter, merge_faults>>

\* A fresh adapter of the loop on it; one whose B is zero changes nothing.
AttachLoopAdapter ==
  /\ MergeGoes("attach", "manifest")
  /\ \/ /\ fresh_adapter' = [tensors |-> 1, nonzero |-> 0]
        /\ snapshots' = [snapshots EXCEPT !["zero_loop"] = snapshots["reloaded"]]
        /\ UNCHANGED merge_faults
     \/ /\ MergeFault
        /\ fresh_adapter' \in {[tensors |-> 0, nonzero |-> 0], [tensors |-> 1, nonzero |-> 1]}
        /\ \E answers \in Perturbed(snapshots["reloaded"]) :
             snapshots' = [snapshots EXCEPT !["zero_loop"] = answers]
  /\ UNCHANGED <<merges, merged_dir>>

\* The hashes of the weights as they are now, the verdict, and both in a manifest
\* that is replaced atomically, also when the verdict is a failure.
WriteMergeManifest ==
  /\ merger = "manifest"
  /\ merged_dir' = [merged_dir EXCEPT !.manifest = IF passed THEN "verified" ELSE "verification_failed",
                                      !.vouches = merged_dir.of]
  /\ merger' = IF passed THEN "verified" ELSE "failed"
  /\ UNCHANGED <<merges, snapshots, fresh_adapter, merge_faults>>

MergeExits ==
  /\ merger \in {"refused", "failed", "verified"}
  /\ merger' = "down"
  /\ UNCHANGED <<merges, merged_dir, snapshots, fresh_adapter, merge_faults>>

MergeKilled ==
  /\ merger \notin {"down", "refused", "failed", "verified"}
  /\ MergeFault
  /\ merger' = "down"
  /\ UNCHANGED <<merges, merged_dir, snapshots, fresh_adapter>>

MergeNext ==
  \/ MergeStarts \/ Merge \/ MergedSaveBegins \/ MergedSaved \/ TokenizerSaved \/ Reload
  \/ AttachLoopAdapter \/ WriteMergeManifest \/ MergeExits \/ MergeKilled
MergeSpec == MergeInit /\ [][MergeNext]_mergeVars

-----------------------------------------------------------------------------
\* The script starts the run: the files are there and the manifest says "verified".
LoopAccepts ==
  /\ merged_dir.weights # "none" /\ merged_dir.tokenizer
  /\ merged_dir.manifest = "verified"

(***************************************************************************)
(* Whenever the run is started, by whatever merge was killed or invoked    *)
(* again, the model it accepts is the one that was verified: its weights   *)
(* are all there, of the merge that the manifest vouches for; every probe  *)
(* is answered with the first token of the SFT model, and by the model on  *)
(* disk with a fresh adapter exactly as by the merged one.                 *)
(***************************************************************************)
InitializationIsVerified ==
  LoopAccepts =>
    /\ merged_dir.weights # "torn" /\ merged_dir.of = merged_dir.vouches
    /\ \A n \in 1 .. Probes :
         /\ FirstToken(snapshots["zero_loop"][n].logits) = FirstToken(snapshots["premerge"][n].logits)
         /\ snapshots["zero_loop"][n] = snapshots["merged"][n]
         /\ snapshots["merged"][n].logits # "nan"
=================================================================================
