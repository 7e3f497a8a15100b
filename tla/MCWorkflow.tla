----------------------------- MODULE MCWorkflow -----------------------------
(* Instances of WorkflowRun for TLC. *)
EXTENDS WorkflowRun, TLC

Read == [auto |-> TRUE, evidence |-> FALSE, base |-> "allow"]
ProvenRead == [auto |-> TRUE, evidence |-> TRUE, base |-> "allow"]
DisabledRead == [auto |-> TRUE, evidence |-> FALSE, base |-> "deny"]
SensitiveRead == [auto |-> FALSE, evidence |-> FALSE, base |-> "allow"]
Write == [auto |-> FALSE, evidence |-> TRUE, base |-> "approval"]
Unknown == [auto |-> FALSE, evidence |-> FALSE, base |-> "unregistered"]

AllDefinitions == [Seqs -> {Read, ProvenRead, DisabledRead, SensitiveRead, Write, Unknown}]
WritingDefinitions == {f \in [Seqs -> {Read, ProvenRead, Write}] : \E s \in Seqs : f[s] = Write}
ReadingDefinitions == [Seqs -> {Read}]
CallSymmetry == Permutations(Calls)
=============================================================================
