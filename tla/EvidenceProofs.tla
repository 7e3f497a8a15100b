---------------------------- MODULE EvidenceProofs ----------------------------
(***************************************************************************)
(* Proofs about RunEvidence, for any runs, labels, faults and restarts, and *)
(* about TaskWorkflow, for any claims, lanes, risk and revisions over it.  *)
(***************************************************************************)
EXTENDS TaskWorkflow, TLAPS

LEMMA RankValues ==
    /\ Rank["blocked"] = 0 /\ Rank["recovery_needed"] = 1 /\ Rank["proof_pending"] = 2
    /\ Rank["model_assessed_unverified"] = 3 /\ Rank["verified"] = 4
  BY DEF Rank

\* Ranks are integers, and "verified" alone has the highest.
LEMMA RankBounds ==
    \A l \in Labels : /\ Rank[l] \in 0..4
                      /\ Rank[l] = 4 <=> l = "verified"
  BY RankValues DEF Labels

-----------------------------------------------------------------------------
(* Types                                                                   *)

LEMMA TypeInit == RunInit => RunTypeOK
  BY RunEvidenceAssumption DEF RunInit, RunTypeOK

LEMMA TypeStep == RunTypeOK /\ [RunNext]_runVars => RunTypeOK'
<1> SUFFICES ASSUME RunTypeOK, [RunNext]_runVars
             PROVE  RunTypeOK'
  OBVIOUS
<1> USE RunEvidenceAssumption DEF RunTypeOK
<1>1. ASSUME NEW r \in Runs, NEW l \in NodeLabels, RecordNode(r, l)
      PROVE  RunTypeOK'
  <2>1. l \in Labels
    OBVIOUS
  <2>2. label' \in [Runs -> Labels \cup {"none"}]
    BY <1>1, <2>1 DEF RecordNode
  <2>3. column' \in [Runs -> (Labels \ {"verified"}) \cup {"none"}] /\ faults' \in 0..MaxFaults
    BY <1>1, <2>1 DEF RecordNode, PersistLabel
  <2>4. reported' \in [Runs -> SUBSET Labels] /\ late' \in [Runs -> SUBSET Labels]
    BY <1>1, <2>1 DEF RecordNode
  <2> QED
    BY <1>1, <2>2, <2>3, <2>4 DEF RecordNode
<1>2. ASSUME NEW r \in Runs, TableMissing(r)
      PROVE  RunTypeOK'
  BY <1>2 DEF TableMissing, AfterLoss
<1>3. ASSUME NEW r \in Runs, WriteFails(r)
      PROVE  RunTypeOK'
  BY <1>3 DEF WriteFails, AfterLoss
<1>4. ASSUME NEW r \in Runs, WritePaused(r)
      PROVE  RunTypeOK'
  BY <1>4 DEF WritePaused, AfterLoss
<1>5. ASSUME NEW r \in Runs, ReadFails(r)
      PROVE  RunTypeOK'
  BY <1>5 DEF ReadFails
<1>6. ASSUME NEW r \in Runs, Recovers(r)
      PROVE  RunTypeOK'
  BY <1>6 DEF Recovers, runHistory
<1>7. ASSUME NEW r \in Runs, RunEnds(r)
      PROVE  RunTypeOK'
  BY <1>7 DEF RunEnds, runHistory
<1>8. CASE Restart
  BY <1>8 DEF Restart, Unsaved
<1>9. CASE UNCHANGED runVars
  BY <1>9 DEF runVars, runHistory
<1>10. ASSUME NEW r \in Runs, RunRetried(r)
       PROVE  RunTypeOK'
  BY <1>10 DEF RunRetried, runHistory
<1> QED
  BY <1>1, <1>2, <1>3, <1>4, <1>5, <1>6, <1>7, <1>8, <1>9, <1>10 DEF RunNext

\* The maps in memory, the column and the histories keep their types: the
\* column never holds "verified".
THEOREM RunTypeCorrect == RunSpec => []RunTypeOK
  BY TypeInit, TypeStep, PTL DEF RunSpec

-----------------------------------------------------------------------------
(* The label of a run that was not verified is in the row or in memory     *)

Below == Labels \ {"verified"}

\* A node reported a label below "verified": the row has a label, or memory has
\* one that could not be written, or a restart has forgotten it. A label in
\* memory need not be of this process's nodes alone, but a report that is no
\* worse than it is not written, so what backs the label backs the report.
ColumnBacks ==
    \A r \in Runs :
        (reported[r] \cup late[r]) \cap Below # {} =>
            column[r] # "none" \/ Unsaved(r) \/ forgotten[r]

LEMMA BacksInit == RunInit => ColumnBacks
  BY DEF RunInit, ColumnBacks

\* A column never loses its label.
LEMMA ColumnStays ==
    ASSUME RunTypeOK, NEW r \in Runs, NEW l \in NodeLabels, RecordNode(r, l),
           NEW q \in Runs, column[q] # "none"
    PROVE  column'[q] # "none"
<1>1. l # "none"
  BY RunEvidenceAssumption DEF Labels
<1>2. QED  BY <1>1 DEF RecordNode, PersistLabel, RunTypeOK

LEMMA BacksStep == RunTypeOK /\ ColumnBacks /\ [RunNext]_runVars => ColumnBacks'
<1> SUFFICES ASSUME RunTypeOK, ColumnBacks, [RunNext]_runVars
             PROVE  ColumnBacks'
  OBVIOUS
<1>1. ASSUME NEW r \in Runs, NEW l \in NodeLabels, RecordNode(r, l)
      PROVE  ColumnBacks'
  <2> SUFFICES ASSUME NEW q \in Runs, (reported'[q] \cup late'[q]) \cap Below # {}
               PROVE  column'[q] # "none" \/ Unsaved(q)' \/ forgotten'[q]
    BY DEF ColumnBacks
  <2>1. l \in Labels /\ l # "none" /\ forgotten' = forgotten
    BY <1>1, RunEvidenceAssumption DEF Labels, RecordNode
  <2>2. CASE column[q] # "none"
    BY <1>1, <2>2, ColumnStays
  <2>3. CASE forgotten[q]
    BY <2>1, <2>3
  <2>4. CASE q # r
    <3>1. /\ label'[q] = label[q] /\ column'[q] = column[q]
          /\ reported'[q] = reported[q] /\ late'[q] = late[q]
      BY <1>1, <2>4 DEF RecordNode, PersistLabel, RunTypeOK
    <3> QED
      <4>1. column[q] # "none" \/ Unsaved(q) \/ forgotten[q]
        BY <3>1 DEF ColumnBacks
      <4>2. QED  BY <2>1, <3>1, <4>1 DEF Unsaved
  <2>5. CASE q = r /\ column[r] = "none" /\ ~forgotten[r]
    <3>1. reported'[r] \cup late'[r] = reported[r] \cup late[r] \cup {l}
      BY <1>1 DEF RecordNode, RunTypeOK
    <3>2. Unsaved(r) \/ l # "verified"
      BY <2>5, <3>1 DEF ColumnBacks, Below
    <3>3. label[r] = "none" \/ label[r] \in Labels
      BY DEF RunTypeOK
    <3>4. CASE label[r] = "none" \/ Rank[l] < Rank[label[r]]
      <4>1. label'[r] = l
        BY <1>1, <3>4 DEF RecordNode, RunTypeOK
      <4>2. l # "verified"
        BY <2>1, <3>2, <3>3, <3>4, RankBounds DEF Unsaved
      <4>3. QED  BY <2>1, <2>5, <4>1, <4>2 DEF Unsaved
    <3>5. CASE label[r] # "none" /\ ~(Rank[l] < Rank[label[r]])
      <4>1. label' = label /\ column' = column
        BY <1>1, <3>5 DEF RecordNode
      <4>2. label[r] # "verified"
        BY <2>1, <3>2, <3>3, <3>5, RankBounds DEF Unsaved
      <4>3. QED  BY <2>5, <3>5, <4>1, <4>2 DEF Unsaved
    <3>6. QED  BY <3>4, <3>5
  <2>6. QED  BY <2>2, <2>3, <2>4, <2>5
<1>2. ASSUME NEW r \in Runs, TableMissing(r) \/ WriteFails(r) \/ WritePaused(r)
                             \/ ReadFails(r) \/ Recovers(r) \/ RunEnds(r) \/ RunRetried(r)
      PROVE  ColumnBacks'
  <2>1. UNCHANGED <<label, column, reported, late, forgotten>>
    BY <1>2 DEF TableMissing, WriteFails, WritePaused, ReadFails, Recovers, RunEnds, RunRetried,
                runHistory
  <2> QED
    BY <2>1 DEF ColumnBacks, Unsaved
<1>3. CASE Restart
  BY <1>3 DEF Restart, ColumnBacks, Unsaved
<1>4. CASE UNCHANGED runVars
  BY <1>4 DEF runVars, runHistory, ColumnBacks, Unsaved
<1> QED
  BY <1>1, <1>2, <1>3, <1>4 DEF RunNext

LEMMA BacksImplies == RunTypeOK /\ ColumnBacks => VerifiedNotForged
<1> SUFFICES ASSUME RunTypeOK, ColumnBacks, NEW r \in DOMAIN run, ~forgotten[r],
                    ~(reported[r] \cup late[r] \subseteq {"verified"})
             PROVE  Completion(r) # "verified"
  BY DEF VerifiedNotForged
<1>1. r \in Runs
  BY DEF RunTypeOK
<1>2. /\ column[r] = "none" \/ column[r] \in Below
      /\ label[r] = "none" \/ label[r] \in Labels
      /\ column[r] # "none" \/ label[r] \notin {"none", "verified"}
  BY <1>1 DEF RunTypeOK, ColumnBacks, Below, Unsaved
<1>3. Worst(label[r], column[r]) \in Below
  BY <1>2, RankBounds DEF Worst, Below
<1>4. Worst(label[r], column[r]) # "none"
  BY <1>3 DEF Labels, Below
<1> QED
  BY <1>3, <1>4 DEF Completion, Below

\* getRunCompletionVerification never answers "verified" for a run one of
\* whose nodes reported anything else, early or late, whatever faults, retries
\* and restarts came between the report and the question; unless the write of
\* the label was swallowed and the process ended before another one.
THEOREM VerifiedNotForgedHolds == RunSpec => []VerifiedNotForged
<1>1. RunInit => RunTypeOK /\ ColumnBacks
  BY TypeInit, BacksInit
<1>2. RunTypeOK /\ ColumnBacks /\ [RunNext]_runVars => RunTypeOK' /\ ColumnBacks'
  BY TypeStep, BacksStep
<1> QED
  BY <1>1, <1>2, BacksImplies, PTL DEF RunSpec

-----------------------------------------------------------------------------
(* Within one process                                                      *)

\* The label in memory is the worst one reported.
MemoryWorst ==
    \A r \in Runs : \A l \in reported[r] \cup late[r] :
        label[r] # "none" /\ Rank[label[r]] <= Rank[l]

\* What was lost shows in the status.
LostShows == \A r \in Runs : lost[r] => evidence[r] # "available"

LEMMA MemoryInit == RunInit => MemoryWorst /\ LostShows
  BY DEF RunInit, MemoryWorst, LostShows

LEMMA MemoryStep ==
    ASSUME MaxRestarts = 0, RunTypeOK, MemoryWorst, [RunNext]_runVars
    PROVE  MemoryWorst'
<1>1. ASSUME NEW r \in Runs, NEW l \in NodeLabels, RecordNode(r, l)
      PROVE  MemoryWorst'
  <2> SUFFICES ASSUME NEW q \in Runs, NEW m \in reported'[q] \cup late'[q]
               PROVE  label'[q] # "none" /\ Rank[label'[q]] <= Rank[m]
    BY DEF MemoryWorst
  <2>1. l \in Labels /\ l # "none"
    BY RunEvidenceAssumption DEF Labels
  <2>2. CASE q # r
    <3>1. label'[q] = label[q] /\ reported'[q] = reported[q] /\ late'[q] = late[q]
      BY <1>1, <2>2 DEF RecordNode, RunTypeOK
    <3> QED
      BY <3>1 DEF MemoryWorst
  <2>3. CASE q = r
    <3>1. reported'[r] \cup late'[r] = reported[r] \cup late[r] \cup {l}
      BY <1>1 DEF RecordNode, RunTypeOK
    <3>2. m = l \/ (m \in reported[r] \cup late[r] /\ label[r] # "none" /\ Rank[label[r]] <= Rank[m])
      BY <2>3, <3>1 DEF MemoryWorst
    <3>3. m \in Labels /\ (label[r] # "none" => label[r] \in Labels)
      BY <2>1, <2>3, <3>2 DEF RunTypeOK
    <3>4. CASE label[r] = "none" \/ Rank[l] < Rank[label[r]]
      <4>1. label'[q] = l
        BY <1>1, <2>3, <3>4 DEF RecordNode, RunTypeOK
      <4> QED
        BY <4>1, <2>1, <3>2, <3>3, <3>4, RankBounds
    <3>5. CASE label[r] # "none" /\ ~(Rank[l] < Rank[label[r]])
      <4>1. label'[q] = label[r]
        BY <1>1, <2>3, <3>5 DEF RecordNode, RunTypeOK
      <4> QED
        BY <4>1, <2>1, <3>2, <3>3, <3>5, RankBounds
    <3> QED
      BY <3>4, <3>5
  <2> QED
    BY <2>2, <2>3
<1>2. ASSUME NEW r \in Runs, TableMissing(r) \/ WriteFails(r) \/ WritePaused(r)
                             \/ ReadFails(r) \/ Recovers(r) \/ RunEnds(r) \/ RunRetried(r)
      PROVE  MemoryWorst'
  <2>1. UNCHANGED <<label, reported, late>>
    BY <1>2 DEF TableMissing, WriteFails, WritePaused, ReadFails, Recovers, RunEnds, RunRetried,
                runHistory
  <2> QED
    BY <2>1 DEF MemoryWorst
<1>3. ~Restart
  BY DEF Restart, RunTypeOK
<1>4. CASE UNCHANGED runVars
  BY <1>4 DEF runVars, runHistory, MemoryWorst
<1> QED
  BY <1>1, <1>2, <1>3, <1>4 DEF RunNext

LEMMA MemoryImplies == RunTypeOK /\ MemoryWorst => WorstKept
<1> SUFFICES ASSUME RunTypeOK, MemoryWorst, NEW r \in Runs, NEW l \in reported[r] \cup late[r]
             PROVE  Rank[Completion(r)] <= Rank[l]
  BY DEF WorstKept
<1>1. l \in Labels /\ label[r] \in Labels /\ Rank[label[r]] <= Rank[l] /\ label[r] # "none"
  <2>1. reported[r] \subseteq Labels /\ late[r] \subseteq Labels /\ label[r] \in Labels \cup {"none"}
    BY DEF RunTypeOK
  <2>2. QED  BY <2>1 DEF MemoryWorst
<1>2. column[r] = "none" \/ column[r] \in Labels
  BY DEF RunTypeOK
<1> DEFINE w == Worst(label[r], column[r])
<1>3. w \in Labels /\ Rank[w] <= Rank[label[r]]
  BY <1>1, <1>2, RankBounds DEF Worst
<1>4. w # "none"
  BY <1>3 DEF Labels
<1>5. Completion(r) = w \/ (w = "verified" /\ Completion(r) = "proof_pending")
  BY <1>4 DEF Completion
<1> HIDE DEF w
<1> QED
  BY <1>1, <1>3, <1>5, RankBounds, RankValues

\* While the hub does not restart, the label that is read is the worst one any
\* node reported: the map in memory is compared with every report.
THEOREM WorstKeptInOneProcess == MaxRestarts = 0 => (RunSpec => []WorstKept)
<1> SUFFICES ASSUME MaxRestarts = 0
             PROVE  RunSpec => []WorstKept
  OBVIOUS
<1>1. RunInit => RunTypeOK /\ MemoryWorst
  BY TypeInit, MemoryInit
<1>2. RunTypeOK /\ MemoryWorst /\ [RunNext]_runVars => RunTypeOK' /\ MemoryWorst'
  BY TypeStep, MemoryStep
<1> QED
  BY <1>1, <1>2, MemoryImplies, PTL DEF RunSpec

LEMMA LostStep ==
    ASSUME MaxRestarts = 0, ~OtherErrors, RunTypeOK, LostShows, [RunNext]_runVars
    PROVE  LostShows'
<1>1. ASSUME NEW r \in Runs, NEW l \in NodeLabels, RecordNode(r, l)
      PROVE  LostShows'
  BY <1>1 DEF LostShows, RecordNode
<1>2. ASSUME NEW r \in Runs, TableMissing(r)
      PROVE  LostShows'
  BY <1>2 DEF LostShows, TableMissing, RunTypeOK
<1>3. ASSUME NEW r \in Runs, WritePaused(r)
      PROVE  LostShows'
  BY <1>3 DEF LostShows, WritePaused, RunTypeOK
<1>4. ASSUME NEW r \in Runs, ReadFails(r)
      PROVE  LostShows'
  BY <1>4 DEF LostShows, ReadFails, RunTypeOK
<1>5. ASSUME NEW r \in Runs, Recovers(r)
      PROVE  LostShows'
  BY <1>5 DEF LostShows, runHistory, Recovers, RunTypeOK
<1>6. ASSUME NEW r \in Runs, RunEnds(r)
      PROVE  LostShows'
  BY <1>6 DEF LostShows, runHistory, RunEnds
<1>7. ~Restart /\ \A r \in Runs : ~WriteFails(r)
  BY DEF Restart, WriteFails, RunTypeOK
<1>8. CASE UNCHANGED runVars
  BY <1>8 DEF LostShows, runVars, runHistory
<1>9. ASSUME NEW r \in Runs, RunRetried(r)
      PROVE  LostShows'
  BY <1>9 DEF LostShows, runHistory, RunRetried
<1> QED
  BY <1>1, <1>2, <1>3, <1>4, <1>5, <1>6, <1>7, <1>8, <1>9 DEF RunNext

LEMMA LostImplies == LostShows => EvidenceHonest
  BY DEF LostShows, EvidenceHonest

\* While the hub does not restart and the only failure of a write is the
\* missing table, a run whose evidence reads as available lost none of it:
\* the recovery after the retry interval stops at "degraded".
THEOREM EvidenceHonestInOneProcess ==
    MaxRestarts = 0 /\ ~OtherErrors => (RunSpec => []EvidenceHonest)
<1> SUFFICES ASSUME MaxRestarts = 0, ~OtherErrors
             PROVE  RunSpec => []EvidenceHonest
  OBVIOUS
<1>1. RunInit => RunTypeOK /\ LostShows
  BY TypeInit, MemoryInit
<1>2. RunTypeOK /\ LostShows /\ [RunNext]_runVars => RunTypeOK' /\ LostShows'
  BY LostStep, TypeStep
<1> QED
  BY <1>1, <1>2, LostImplies, PTL DEF RunSpec

-----------------------------------------------------------------------------
(* Task workflows: types                                                   *)

USE RunEvidenceAssumption, TaskAssumption

ClaimRow == [status : {"none", "draft", "unverified", "verified", "blocked"},
             kind : Kinds \cup {"none"}, lane : Lanes \cup {NoLane}]

LaneRow == [status : {"none", "open", "completed", "blocked"},
            kind : {"none", "executor", "verifier"}, role : Roles \cup {"none"},
            prov : Providers, indep : Independence \cup {"none", "not_applicable"},
            rev : 0..rev]

Receipt == [status : {"none", "complete", "partial", "blocked"}, proof : BOOLEAN,
            rollback : {"none", "not_applicable", "reversible_local",
                        "compensating_action_required", "non_reversible_external"}]

\* What the type invariant says of the workflow's own rows.
LEMMA TaskTypes ==
    TypeOK <=> /\ RunTypeOK /\ rev \in 0..MaxRev
               /\ claim \in [Claims -> ClaimRow] /\ refs \in [Claims -> SUBSET Ref]
               /\ lane \in [Lanes -> LaneRow] /\ cli \in [Lanes -> {"idle", "first", "repair"}]
               /\ handoffs \subseteq Lanes /\ receipt \in Receipt
  BY DEF TypeOK, ClaimRow, LaneRow, Receipt

LEMMA TaskTypeInit == Init => TypeOK
<1> SUFFICES ASSUME Init PROVE TypeOK
  OBVIOUS
<1>1. RunTypeOK
  BY TypeInit DEF Init
<1>2. rev \in 0..MaxRev /\ 0 \in 0..rev
  BY DEF Init
<1>3. claim \in [Claims -> ClaimRow] /\ refs \in [Claims -> SUBSET Ref]
  BY DEF Init, NoClaim, ClaimRow
<1>4. lane \in [Lanes -> LaneRow]
  BY <1>2 DEF Init, NoLaneRow, LaneRow
<1>5. cli \in [Lanes -> {"idle", "first", "repair"}] /\ handoffs \subseteq Lanes /\ receipt \in Receipt
  BY DEF Init, Receipt
<1>6. QED  BY <1>1, <1>2, <1>3, <1>4, <1>5, TaskTypes

\* A workflow step leaves the runs alone.
LEMMA RunsRest == UNCHANGED runVars /\ RunTypeOK => RunTypeOK'
  BY DEF runVars, runHistory, RunTypeOK

\* Independence is degraded to one of its values.
LEMMA ResolvedType ==
    ASSUME NEW r, NEW p, NEW parent, NEW i \in Independence
    PROVE  Resolved(r, p, parent, i) \in Independence
  BY DEF Resolved, Independence

LEMMA TaskTypeStep == TypeOK /\ [Next]_vars => TypeOK'
<1> SUFFICES ASSUME TypeOK, [Next]_vars
             PROVE  TypeOK'
  OBVIOUS
<1>t. /\ RunTypeOK /\ rev \in 0..MaxRev
      /\ claim \in [Claims -> ClaimRow] /\ refs \in [Claims -> SUBSET Ref]
      /\ lane \in [Lanes -> LaneRow] /\ cli \in [Lanes -> {"idle", "first", "repair"}]
      /\ handoffs \subseteq Lanes /\ receipt \in Receipt
  BY TaskTypes
<1>g. ASSUME RunTypeOK', rev' \in 0..MaxRev, claim' \in [Claims -> ClaimRow],
             refs' \in [Claims -> SUBSET Ref], lane' \in [Lanes -> LaneRow'],
             cli' \in [Lanes -> {"idle", "first", "repair"}],
             handoffs' \subseteq Lanes, receipt' \in Receipt
      PROVE  TypeOK'
  BY <1>g DEF TypeOK, ClaimRow, LaneRow, Receipt
<1>r. UNCHANGED rev /\ UNCHANGED lane => lane' \in [Lanes -> LaneRow']
  BY <1>t DEF LaneRow
<1>1. CASE Revise
  <2>1. rev' \in 0..MaxRev /\ \A v \in 0..rev : v \in 0..rev'
    BY <1>1, <1>t DEF Revise
  <2>2. lane' \in [Lanes -> LaneRow']
    <3>1. LaneRow \subseteq LaneRow'
      BY <2>1 DEF LaneRow
    <3>2. lane' = lane
      BY <1>1 DEF Revise
    <3>3. QED  BY <3>1, <3>2, <1>t
  <2>3. QED  BY <1>1, <1>g, <1>t, <2>1, <2>2, RunsRest DEF Revise
<1>2. CASE Closeout
  <2>1. receipt' \in Receipt
    BY <1>2 DEF Closeout, Receipt, CloseoutStatus, Rollback
  <2>2. QED  BY <1>2, <1>g, <1>r, <1>t, <2>1, RunsRest DEF Closeout
<1>3. CASE RunStep
  <2>1. RunTypeOK'
    BY <1>3, <1>t, TypeStep DEF RunStep
  <2>2. cli' \in [Lanes -> {"idle", "first", "repair"}]
    BY <1>3, <1>t DEF RunStep
  <2>3. QED  BY <1>3, <1>g, <1>r, <1>t, <2>1, <2>2 DEF RunStep
<1>4. ASSUME NEW c \in Claims, NEW k \in Kinds, DraftClaim(c, k) PROVE TypeOK'
  <2>1. claim' \in [Claims -> ClaimRow]
    BY <1>4, <1>t DEF DraftClaim, ClaimRow
  <2>2. QED  BY <1>4, <1>g, <1>r, <1>t, <2>1, RunsRest DEF DraftClaim
<1>5. ASSUME NEW c \in Claims, NEW f \in Ref, AttachEvidenceRef(c, f) PROVE TypeOK'
  <2>1. claim' \in [Claims -> ClaimRow]
    BY <1>5, <1>t DEF AttachEvidenceRef, ClaimRow
  <2>2. refs' \in [Claims -> SUBSET Ref]
    BY <1>5, <1>t DEF AttachEvidenceRef
  <2>3. QED  BY <1>5, <1>g, <1>r, <1>t, <2>1, <2>2, RunsRest DEF AttachEvidenceRef
<1>6. ASSUME NEW c \in Claims, NEW l \in Lanes \cup {NoLane}, VerifyClaim(c, l) PROVE TypeOK'
  <2>1. claim' \in [Claims -> ClaimRow]
    <3>1. claim' = [claim EXCEPT ![c] = [claim[c] EXCEPT !.status = "verified", !.lane = l]]
      BY <1>6 DEF VerifyClaim
    <3>2. QED  BY <1>t, <3>1 DEF ClaimRow
  <2>2. QED  BY <1>6, <1>g, <1>r, <1>t, <2>1, RunsRest DEF VerifyClaim
<1>7. ASSUME NEW c \in Claims, BlockClaim(c) PROVE TypeOK'
  <2>1. claim' \in [Claims -> ClaimRow]
    BY <1>7, <1>t DEF BlockClaim, ClaimRow
  <2>2. QED  BY <1>7, <1>g, <1>r, <1>t, <2>1, RunsRest DEF BlockClaim
<1>8. ASSUME NEW l \in Lanes, NEW r \in Roles, NEW p \in Providers, OpenExecutorLane(l, r, p)
      PROVE  TypeOK'
  <2>1. lane' \in [Lanes -> LaneRow']
    <3>1. [status |-> "open", kind |-> "executor", role |-> r, prov |-> p,
           indep |-> "not_applicable", rev |-> rev] \in LaneRow' /\ LaneRow' = LaneRow
      BY <1>8, <1>t DEF OpenExecutorLane, LaneRow
    <3>2. QED  BY <1>8, <1>t, <3>1 DEF OpenExecutorLane
  <2>2. QED  BY <1>8, <1>g, <1>t, <2>1, RunsRest DEF OpenExecutorLane
<1>9. ASSUME NEW l \in Lanes, NEW r \in Roles, NEW p \in Providers, NEW q \in Lanes,
             NEW i \in Independence, OpenVerifierLane(l, r, p, q, i)
      PROVE  TypeOK'
  <2>1. lane' \in [Lanes -> LaneRow']
    <3> DEFINE v == Resolved(r, p, lane[q], i)
    <3>1. v \in Independence
      BY ResolvedType
    <3>2. lane' = [lane EXCEPT ![l] = [status |-> "open", kind |-> "verifier", role |-> r,
                                       prov |-> p, indep |-> v, rev |-> rev]]
      BY <1>9 DEF OpenVerifierLane
    <3> HIDE DEF v
    <3>3. [status |-> "open", kind |-> "verifier", role |-> r, prov |-> p,
           indep |-> v, rev |-> rev] \in LaneRow' /\ LaneRow' = LaneRow
      BY <1>9, <1>t, <3>1 DEF OpenVerifierLane, LaneRow
    <3>4. QED  BY <1>t, <3>2, <3>3
  <2>2. QED  BY <1>9, <1>g, <1>t, <2>1, RunsRest DEF OpenVerifierLane
<1>10. ASSUME NEW l \in Lanes, NEW s \in {"completed", "blocked"}, CompleteLane(l, s)
       PROVE  TypeOK'
  <2>1. lane' \in [Lanes -> LaneRow']
    BY <1>10, <1>t DEF CompleteLane, LaneRow
  <2>2. QED  BY <1>10, <1>g, <1>t, <2>1, RunsRest DEF CompleteLane
<1>11. ASSUME NEW l \in Lanes, CliStart(l) \/ CliRepair(l) \/ CliRecorded(l) PROVE TypeOK'
  <2>1. cli' \in [Lanes -> {"idle", "first", "repair"}] /\ handoffs' \subseteq Lanes
    BY <1>11, <1>t DEF CliStart, CliRepair, CliRecorded
  <2>2. QED  BY <1>11, <1>g, <1>r, <1>t, <2>1, RunsRest DEF CliStart, CliRepair, CliRecorded
<1>12. CASE UNCHANGED vars
  BY <1>12, <1>g, <1>r, <1>t, RunsRest DEF vars, taskVars
<1>13. QED
  BY <1>1, <1>2, <1>3, <1>4, <1>5, <1>6, <1>7, <1>8, <1>9, <1>10, <1>11, <1>12 DEF Next

\* The rows of a task workflow keep their types, beside any run.
THEOREM TaskTypeCorrect == Spec => []TypeOK
  BY TaskTypeInit, TaskTypeStep, PTL DEF Spec

-----------------------------------------------------------------------------
(* Task workflows: verdicts                                                *)

\* Every node was verified before the run completed, as far as is remembered.
Clean(r) == forgotten[r] \/ reported[r] \subseteq {"verified"}

\* What a verdict stands on, from the moment it is given.
Grounded(c) ==
    /\ claim[c].kind \notin NonEvidence /\ refs[c] # {}
    /\ \A f \in refs[c] : f.source \in Allowed[claim[c].kind]
    /\ \A f \in RunRefs(c) : run[f.run] = "completed" /\ Clean(f.run)
    /\ Risk = "high" => claim[c].lane # NoLane
    /\ claim[c].lane # NoLane =>
         /\ lane[claim[c].lane].kind = "verifier" /\ lane[claim[c].lane].role # "cli"
         /\ Risk = "high" => lane[claim[c].lane].indep = "independent"

VerdictsGrounded == \A c \in Claims :
    /\ claim[c].status = "none" => claim[c] = NoClaim
    /\ claim[c].status = "verified" => Grounded(c)

\* A verifier lane was opened under an executor lane, on its specification or
\* on a later one.
VerifiersFollow == \A l \in Lanes : lane[l].kind = "verifier" =>
    \E p \in Lanes : lane[p].kind = "executor" /\ lane[p].rev <= lane[l].rev

TaskInv == TypeOK /\ ColumnBacks /\ VerdictsGrounded /\ VerifiersFollow

\* What no step takes back.
RunsFinal == \A r \in Runs :
    run[r] = "completed" => run'[r] = "completed" /\ reported'[r] = reported[r] /\ (forgotten[r] => forgotten'[r])
LanesFinal == \A l \in Lanes : lane[l].kind # "none" =>
    /\ lane'[l].kind = lane[l].kind /\ lane'[l].role = lane[l].role
    /\ lane'[l].indep = lane[l].indep /\ lane'[l].rev = lane[l].rev

\* Every step of the workflow leaves the runs alone or is a step of theirs.
LEMMA RunsBeside == [Next]_vars => [RunNext]_runVars
  BY DEF Next, DraftClaim, AttachEvidenceRef, VerifyClaim, BlockClaim, OpenExecutorLane,
         OpenVerifierLane, CompleteLane, CliStart, CliRepair, CliRecorded, Revise, Closeout,
         RunStep, vars

\* A run that completed keeps its status, and what its nodes reported till then.
LEMMA RunsStayCompleted ==
    ASSUME RunTypeOK, [RunNext]_runVars
    PROVE  RunsFinal
<1> SUFFICES ASSUME NEW q \in Runs, run[q] = "completed"
             PROVE  run'[q] = "completed" /\ reported'[q] = reported[q] /\ (forgotten[q] => forgotten'[q])
  BY DEF RunsFinal
<1> USE DEF RunTypeOK
<1>1. ASSUME NEW r \in Runs, NEW l \in NodeLabels, RecordNode(r, l)
      PROVE  run'[q] = "completed" /\ reported'[q] = reported[q] /\ forgotten' = forgotten
  BY <1>1 DEF RecordNode
<1>2. ASSUME NEW r \in Runs, TableMissing(r) \/ WriteFails(r) \/ WritePaused(r)
      PROVE  run'[q] = "completed" /\ UNCHANGED <<reported, forgotten>>
  BY <1>2 DEF TableMissing, WriteFails, WritePaused, AfterLoss
<1>3. ASSUME NEW r \in Runs, ReadFails(r) \/ Recovers(r) \/ RunEnds(r) \/ RunRetried(r)
      PROVE  run'[q] = "completed" /\ UNCHANGED <<reported, forgotten>>
  BY <1>3 DEF ReadFails, Recovers, RunEnds, RunRetried, runHistory
<1>4. CASE Restart \/ UNCHANGED runVars
  BY <1>4 DEF Restart, runVars, runHistory
<1>5. QED  BY <1>1, <1>2, <1>3, <1>4 DEF RunNext

\* A run reference names a run.
LEMMA RefRuns ==
    ASSUME TypeOK, NEW c \in Claims, NEW f \in RunRefs(c)
    PROVE  f.run \in Runs
<1>1. f \in Ref /\ f.source = "workflow_run_evidence"
  BY DEF TypeOK, RunRefs
<1>2. QED  BY <1>1 DEF Ref

\* A verdict stays grounded while its claim and its references are not touched.
LEMMA StaysGrounded ==
    ASSUME TypeOK, NEW c \in Claims, Grounded(c), RunsFinal, LanesFinal,
           claim'[c] = claim[c], refs'[c] = refs[c]
    PROVE  Grounded(c)'
<1>1. RunRefs(c)' = RunRefs(c)
  BY DEF RunRefs
<1>2. \A f \in RunRefs(c) : run'[f.run] = "completed" /\ Clean(f.run)'
  BY RefRuns DEF Grounded, RunsFinal, Clean
<1>3. claim[c].lane # NoLane => claim[c].lane \in Lanes
  BY DEF TypeOK
<1>4. claim[c].lane # NoLane =>
         /\ lane'[claim[c].lane].kind = "verifier" /\ lane'[claim[c].lane].role # "cli"
         /\ Risk = "high" => lane'[claim[c].lane].indep = "independent"
  BY <1>3 DEF Grounded, LanesFinal
<1>5. /\ claim'[c].kind \notin NonEvidence /\ refs'[c] # {}
      /\ \A f \in refs'[c] : f.source \in Allowed[claim'[c].kind]
      /\ Risk = "high" => claim'[c].lane # NoLane
  BY DEF Grounded
<1>6. QED  BY <1>1, <1>2, <1>4, <1>5 DEF Grounded

\* Steps that touch no claim.
LEMMA VerdictsStay ==
    ASSUME TypeOK, VerdictsGrounded, RunsFinal, LanesFinal, UNCHANGED <<claim, refs>>
    PROVE  VerdictsGrounded'
<1> SUFFICES ASSUME NEW c \in Claims
             PROVE  /\ claim'[c].status = "none" => claim'[c] = NoClaim
                    /\ claim'[c].status = "verified" => Grounded(c)'
  BY DEF VerdictsGrounded
<1>1. QED  BY StaysGrounded DEF VerdictsGrounded

\* Steps that touch one claim.
LEMMA OneClaim ==
    ASSUME TypeOK, VerdictsGrounded, UNCHANGED <<runVars, lane>>, NEW c \in Claims,
           \A b \in Claims : b # c => claim'[b] = claim[b] /\ refs'[b] = refs[b],
           claim'[c].status # "none", claim'[c].status = "verified" => Grounded(c)'
    PROVE  VerdictsGrounded'
<1>1. RunsFinal /\ LanesFinal
  BY DEF RunsFinal, LanesFinal, runVars, runHistory
<1>2. QED  BY <1>1, StaysGrounded DEF VerdictsGrounded

\* Lanes are opened once, and completing one leaves what it is.
LEMMA LanesStay ==
    ASSUME TypeOK, [Next]_vars
    PROVE  LanesFinal
<1> SUFFICES ASSUME NEW q \in Lanes, lane[q].kind # "none"
             PROVE  /\ lane'[q].kind = lane[q].kind /\ lane'[q].role = lane[q].role
                    /\ lane'[q].indep = lane[q].indep /\ lane'[q].rev = lane[q].rev
  BY DEF LanesFinal
<1>t. lane \in [Lanes -> LaneRow] /\ lane[q] # NoLaneRow
  BY TaskTypes DEF NoLaneRow
<1>1. ASSUME NEW l \in Lanes, NEW r \in Roles, NEW p \in Providers,
             OpenExecutorLane(l, r, p) \/ \E s \in Lanes, i \in Independence : OpenVerifierLane(l, r, p, s, i)
      PROVE  lane'[q] = lane[q]
  BY <1>1, <1>t DEF OpenExecutorLane, OpenVerifierLane
<1>2. ASSUME NEW l \in Lanes, NEW s \in {"completed", "blocked"}, CompleteLane(l, s)
      PROVE  /\ lane'[q].kind = lane[q].kind /\ lane'[q].role = lane[q].role
             /\ lane'[q].indep = lane[q].indep /\ lane'[q].rev = lane[q].rev
  <2>1. lane' = [lane EXCEPT ![l] = [lane[l] EXCEPT !.status = s]]
    BY <1>2 DEF CompleteLane
  <2>2. lane'[q] = lane[q] \/ lane'[q] = [lane[q] EXCEPT !.status = s]
    BY <1>t, <2>1
  <2>3. lane[q] \in LaneRow
    BY <1>t
  <2>4. QED  BY <2>2, <2>3 DEF LaneRow
<1>3. ASSUME NEW c \in Claims,
             \/ \E k \in Kinds : DraftClaim(c, k)
             \/ \E f \in Ref : AttachEvidenceRef(c, f)
             \/ \E l \in Lanes \cup {NoLane} : VerifyClaim(c, l)
             \/ BlockClaim(c)
      PROVE  lane' = lane
  BY <1>3 DEF DraftClaim, AttachEvidenceRef, VerifyClaim, BlockClaim
<1>4. ASSUME NEW l \in Lanes, CliStart(l) \/ CliRepair(l) \/ CliRecorded(l) PROVE lane' = lane
  BY <1>4 DEF CliStart, CliRepair, CliRecorded
<1>5. CASE Revise \/ Closeout \/ RunStep \/ UNCHANGED vars
  BY <1>5 DEF Revise, Closeout, RunStep, vars, taskVars
<1>6. QED  BY <1>1, <1>2, <1>3, <1>4, <1>5 DEF Next

\* A run that reads as verified completed, and no node of it reported less.
LEMMA ProvenRun ==
    ASSUME RunTypeOK, ColumnBacks, NEW r \in Runs, Completion(r) = "verified"
    PROVE  run[r] = "completed" /\ Clean(r)
<1>1. r \in DOMAIN run
  BY DEF RunTypeOK
<1>2. Clean(r)
  BY <1>1, BacksImplies DEF VerifiedNotForged, Clean
<1>3. run[r] = "completed"
  BY DEF Completion
<1>4. QED  BY <1>2, <1>3

\* A verdict is grounded when it is given.
LEMMA VerifyGrounds ==
    ASSUME TypeOK, ColumnBacks, NEW c \in Claims, NEW l \in Lanes \cup {NoLane}, VerifyClaim(c, l)
    PROVE  Grounded(c)' /\ claim'[c].status = "verified"
           /\ \A b \in Claims : b # c => claim'[b] = claim[b]
<1>1. claim \in [Claims -> ClaimRow] /\ claim[c] \in ClaimRow /\ RunTypeOK
  BY TaskTypes
<1>2. claim' = [claim EXCEPT ![c] = [claim[c] EXCEPT !.status = "verified", !.lane = l]]
  BY DEF VerifyClaim
<1>3. claim'[c].status = "verified" /\ claim'[c].lane = l /\ claim'[c].kind = claim[c].kind
      /\ \A b \in Claims : b # c => claim'[b] = claim[b]
  BY <1>1, <1>2 DEF ClaimRow
<1>4. UNCHANGED <<refs, lane, run, reported, forgotten>> /\ RunRefs(c)' = RunRefs(c)
  BY DEF VerifyClaim, runVars, runHistory, RunRefs
<1>5. \A f \in RunRefs(c) : run[f.run] = "completed" /\ Clean(f.run)
  <2> TAKE f \in RunRefs(c)
  <2>1. f.run \in Runs /\ Completion(f.run) = "verified"
    BY RefRuns DEF VerifyClaim, RunsProven
  <2>2. QED  BY <1>1, <2>1, ProvenRun
<1>6. /\ claim[c].kind \notin NonEvidence /\ refs[c] # {}
      /\ \A f \in refs[c] : f.source \in Allowed[claim[c].kind]
  BY DEF VerifyClaim
<1>7. /\ Risk = "high" => l # NoLane
      /\ l # NoLane => /\ lane[l].kind = "verifier" /\ lane[l].role # "cli"
                       /\ Risk = "high" => lane[l].indep = "independent"
  BY DEF VerifyClaim, LaneMayVerify
<1>8. QED  BY <1>3, <1>4, <1>5, <1>6, <1>7 DEF Grounded, Clean

LEMMA VerdictsStep ==
    ASSUME TypeOK, ColumnBacks, VerdictsGrounded, [Next]_vars
    PROVE  VerdictsGrounded'
<1>t. claim \in [Claims -> ClaimRow] /\ refs \in [Claims -> SUBSET Ref] /\ RunTypeOK
  BY TaskTypes
<1>l. LanesFinal
  BY LanesStay
<1>1. ASSUME NEW c \in Claims, NEW k \in Kinds, DraftClaim(c, k) PROVE VerdictsGrounded'
  <2>1. claim'[c].status = "draft" /\ \A b \in Claims : b # c => claim'[b] = claim[b]
    BY <1>1, <1>t DEF DraftClaim, ClaimRow
  <2>2. QED  BY <1>1, <2>1, OneClaim DEF DraftClaim
<1>2. ASSUME NEW c \in Claims, NEW f \in Ref, AttachEvidenceRef(c, f) PROVE VerdictsGrounded'
  <2>1. claim[c] \in ClaimRow /\ claim[c].status \notin {"none", "verified"}
    BY <1>2, <1>t DEF AttachEvidenceRef
  <2>2. claim'[c].status \notin {"none", "verified"} /\ \A b \in Claims : b # c => claim'[b] = claim[b]
    BY <1>2, <1>t, <2>1 DEF AttachEvidenceRef, ClaimRow
  <2>3. \A b \in Claims : b # c => refs'[b] = refs[b]
    BY <1>2, <1>t DEF AttachEvidenceRef
  <2>4. QED  BY <1>2, <2>2, <2>3, OneClaim DEF AttachEvidenceRef
<1>3. ASSUME NEW c \in Claims, NEW l \in Lanes \cup {NoLane}, VerifyClaim(c, l) PROVE VerdictsGrounded'
  <2>1. Grounded(c)' /\ claim'[c].status = "verified" /\ \A b \in Claims : b # c => claim'[b] = claim[b]
    BY <1>3, VerifyGrounds
  <2>2. QED  BY <1>3, <2>1, OneClaim DEF VerifyClaim
<1>4. ASSUME NEW c \in Claims, BlockClaim(c) PROVE VerdictsGrounded'
  <2>1. claim'[c].status = "blocked" /\ \A b \in Claims : b # c => claim'[b] = claim[b]
    BY <1>4, <1>t DEF BlockClaim, ClaimRow
  <2>2. QED  BY <1>4, <2>1, OneClaim DEF BlockClaim
<1>5. ASSUME NEW l \in Lanes,
             \/ \E r \in Roles, p \in Providers : OpenExecutorLane(l, r, p)
             \/ \E r \in Roles, p \in Providers, q \in Lanes, i \in Independence :
                  OpenVerifierLane(l, r, p, q, i)
             \/ \E s \in {"completed", "blocked"} : CompleteLane(l, s)
             \/ CliStart(l) \/ CliRepair(l) \/ CliRecorded(l)
      PROVE  VerdictsGrounded'
  <2>1. UNCHANGED <<runVars, claim, refs>>
    BY <1>5 DEF OpenExecutorLane, OpenVerifierLane, CompleteLane, CliStart, CliRepair, CliRecorded
  <2>2. RunsFinal
    BY <2>1 DEF RunsFinal, runVars, runHistory
  <2>3. QED  BY <1>l, <2>1, <2>2, VerdictsStay
<1>6. CASE Revise \/ Closeout \/ RunStep \/ UNCHANGED vars
  <2>1. UNCHANGED <<claim, refs>> /\ [RunNext]_runVars
    BY <1>6 DEF Revise, Closeout, RunStep, vars, taskVars
  <2>2. QED  BY <1>l, <1>t, <2>1, RunsStayCompleted, VerdictsStay
<1>7. QED  BY <1>1, <1>2, <1>3, <1>4, <1>5, <1>6 DEF Next

LEMMA VerifiersStep ==
    ASSUME TypeOK, VerifiersFollow, [Next]_vars
    PROVE  VerifiersFollow'
<1>t. lane \in [Lanes -> LaneRow] /\ rev \in 0..MaxRev
  BY TaskTypes
<1>l. LanesFinal
  BY LanesStay
<1>1. ASSUME NEW l \in Lanes, lane'[l].kind = "verifier", lane[l].kind = "verifier"
      PROVE  \E p \in Lanes : lane'[p].kind = "executor" /\ lane'[p].rev <= lane'[l].rev
  <2>1. PICK p \in Lanes : lane[p].kind = "executor" /\ lane[p].rev <= lane[l].rev
    BY <1>1 DEF VerifiersFollow
  <2>2. QED  BY <1>1, <1>l, <2>1 DEF LanesFinal
<1>2. ASSUME NEW l \in Lanes, lane'[l].kind = "verifier", lane[l].kind # "verifier"
      PROVE  \E p \in Lanes : lane'[p].kind = "executor" /\ lane'[p].rev <= lane'[l].rev
  <2>1. PICK r \in Roles, p \in Providers, q \in Lanes, i \in Independence :
          OpenVerifierLane(l, r, p, q, i)
    <3>1. ASSUME NEW m \in Lanes, NEW r \in Roles, NEW p \in Providers, OpenExecutorLane(m, r, p)
          PROVE  FALSE
      BY <1>2, <1>t, <3>1 DEF OpenExecutorLane
    <3>2. ASSUME NEW m \in Lanes, NEW s \in {"completed", "blocked"}, CompleteLane(m, s)
          PROVE  FALSE
      <4>1. lane' = [lane EXCEPT ![m] = [lane[m] EXCEPT !.status = s]] /\ lane[l] \in LaneRow
        BY <1>t, <3>2 DEF CompleteLane
      <4>2. lane'[l] = lane[l] \/ lane'[l] = [lane[l] EXCEPT !.status = s]
        BY <1>t, <4>1
      <4>3. QED  BY <1>2, <4>1, <4>2 DEF LaneRow
    <3>3. ASSUME NEW m \in Lanes, m # l, NEW r \in Roles, NEW p \in Providers, NEW q \in Lanes,
                 NEW i \in Independence, OpenVerifierLane(m, r, p, q, i)
          PROVE  FALSE
      BY <1>2, <1>t, <3>3 DEF OpenVerifierLane
    <3>4. lane' # lane
      BY <1>2
    <3>5. QED  BY <3>1, <3>2, <3>3, <3>4 DEF Next, DraftClaim, AttachEvidenceRef, VerifyClaim,
                  BlockClaim, CliStart, CliRepair, CliRecorded, Revise, Closeout, RunStep, vars, taskVars
  <2>2. lane[q].kind = "executor" /\ lane'[l].rev = rev
    BY <1>t, <2>1 DEF OpenVerifierLane
  <2>3. lane'[q].kind = "executor" /\ lane'[q].rev = lane[q].rev
    BY <1>l, <2>2 DEF LanesFinal
  <2>4. lane[q].rev <= rev
    BY <1>t DEF LaneRow
  <2>5. QED  BY <2>2, <2>3, <2>4
<1>3. QED  BY <1>1, <1>2 DEF VerifiersFollow

LEMMA TaskInvInit == Init => TaskInv
<1> SUFFICES ASSUME Init PROVE TaskInv
  OBVIOUS
<1>1. TypeOK /\ ColumnBacks
  BY TaskTypeInit, BacksInit DEF Init
<1>2. VerdictsGrounded
  BY DEF Init, VerdictsGrounded, NoClaim
<1>3. VerifiersFollow
  BY DEF Init, VerifiersFollow, NoLaneRow
<1>4. QED  BY <1>1, <1>2, <1>3 DEF TaskInv

LEMMA TaskInvStep == TaskInv /\ [Next]_vars => TaskInv'
<1> SUFFICES ASSUME TaskInv, [Next]_vars PROVE TaskInv'
  OBVIOUS
<1>1. [RunNext]_runVars /\ RunTypeOK
  BY RunsBeside DEF TaskInv, TypeOK
<1>2. TypeOK' /\ ColumnBacks'
  BY <1>1, TaskTypeStep, BacksStep DEF TaskInv
<1>3. VerdictsGrounded' /\ VerifiersFollow'
  BY VerdictsStep, VerifiersStep DEF TaskInv
<1>4. QED  BY <1>2, <1>3 DEF TaskInv

LEMMA TaskInvariance == Spec => []TaskInv
  BY TaskInvInit, TaskInvStep, PTL DEF Spec

LEMMA GroundedRunsHold == TaskInv => VerifiedRunsHold
  BY DEF TaskInv, VerdictsGrounded, VerifiedRunsHold, With, Grounded, Clean

\* verifyClaim, attachEvidenceRef: a verdict on a workflow run rests on a run
\* that completed, every node of it verified till then, and does so from then on
\* and across restarts, unless a restart had forgotten a label of it.
THEOREM VerifiedRunsHoldAlways == Spec => []VerifiedRunsHold
  BY TaskInvariance, GroundedRunsHold, PTL

LEMMA GroundedIndependent == TaskInv => HighRiskIndependent
  BY DEF TaskInv, VerdictsGrounded, HighRiskIndependent, With, Grounded

\* verifyClaim: a high-risk verdict came from an independent verifier lane that
\* is no CLI lane, and the lane stays what it was.
THEOREM HighRiskIndependentHolds == Spec => []HighRiskIndependent
  BY TaskInvariance, GroundedIndependent, PTL

-----------------------------------------------------------------------------
(* Task workflows: closeout                                                *)

\* A status of "complete" says that no claim is open or blocked, and that the
\* gates hold.
LEMMA CompleteStatus ==
    ASSUME Closeout, receipt'.status = "complete"
    PROVE  /\ RequiredGates
           /\ With("blocked") = {} /\ With("draft") = {} /\ With("unverified") = {}
<1>1. receipt'.status = CloseoutStatus
  BY DEF Closeout
<1>2. QED  BY <1>1 DEF CloseoutStatus

LEMMA CompleteStep == TaskInv /\ [Next]_vars => CompleteIsEarned
<1> SUFFICES ASSUME TaskInv, Closeout, receipt'.status = "complete"
             PROVE  /\ \A c \in Claims : claim[c] # NoClaim =>
                         /\ claim[c].status = "verified" /\ claim[c].kind \notin NonEvidence
                         /\ \E f \in refs[c] : f.source \in Allowed[claim[c].kind]
                         /\ \A f \in RunRefs(c) : evidence[f.run] = "available"
                    /\ \A l \in Lanes : lane[l].kind = "executor" => lane[l].rev = rev
  BY DEF CompleteIsEarned
<1>1. /\ WorkflowRunEvidenceDurable /\ ExecutorLaneContextBound
      /\ With("blocked") = {} /\ With("draft") = {} /\ With("unverified") = {}
  BY CompleteStatus DEF RequiredGates
<1>2. ASSUME NEW c \in Claims, claim[c] # NoClaim
      PROVE  /\ claim[c].status = "verified" /\ claim[c].kind \notin NonEvidence
             /\ \E f \in refs[c] : f.source \in Allowed[claim[c].kind]
             /\ \A f \in RunRefs(c) : evidence[f.run] = "available"
  <2>1. claim[c] \in ClaimRow /\ claim[c].status # "none"
    BY <1>2, TaskTypes DEF TaskInv, VerdictsGrounded
  <2>2. claim[c].status \notin {"blocked", "draft", "unverified"}
    BY <1>1 DEF With
  <2>3. claim[c].status = "verified"
    BY <2>1, <2>2 DEF ClaimRow
  <2>4. Grounded(c)
    BY <2>3 DEF TaskInv, VerdictsGrounded
  <2>5. c \in With("verified")
    BY <2>3 DEF With
  <2>6. QED  BY <1>1, <2>3, <2>4, <2>5 DEF Grounded, WorkflowRunEvidenceDurable
<1>3. QED  BY <1>1, <1>2 DEF ExecutorLaneContextBound

\* evaluateCloseout: a receipt that says complete is right about every claim of
\* the workflow, about the evidence of its runs and about its executor lanes.
THEOREM CompleteIsEarnedHolds == Spec => [][CompleteIsEarned]_vars
  BY TaskInvariance, CompleteStep, PTL DEF Spec

LEMMA DriftStep == TaskInv /\ [Next]_vars => NoVerdictDrift
<1> SUFFICES ASSUME TaskInv, Closeout, receipt'.status = "complete",
                    NEW c \in With("verified"), claim[c].lane # NoLane
             PROVE  lane[claim[c].lane].rev = rev
  BY DEF NoVerdictDrift
<1>1. c \in Claims /\ claim[c].status = "verified"
  BY DEF With
<1>2. lane \in [Lanes -> LaneRow] /\ rev \in 0..MaxRev /\ claim[c] \in ClaimRow
  BY <1>1, TaskTypes DEF TaskInv
<1>3. Grounded(c)
  BY <1>1 DEF TaskInv, VerdictsGrounded
<1>4. claim[c].lane \in Lanes /\ lane[claim[c].lane].kind = "verifier"
  BY <1>2, <1>3 DEF Grounded, ClaimRow
<1>5. PICK p \in Lanes : lane[p].kind = "executor" /\ lane[p].rev <= lane[claim[c].lane].rev
  BY <1>4 DEF TaskInv, VerifiersFollow
<1>6. lane[p].rev = rev
  BY <1>5, CompleteStatus DEF RequiredGates, ExecutorLaneContextBound
<1>7. lane[claim[c].lane].rev \in 0..rev
  BY <1>2, <1>4 DEF LaneRow
<1>8. QED  BY <1>2, <1>5, <1>6, <1>7

\* evaluateCloseout looks at the context of executor lanes only: the verifier
\* lanes of a complete receipt worked on the current specification all the same.
THEOREM NoVerdictDriftHolds == Spec => [][NoVerdictDrift]_vars
  BY TaskInvariance, DriftStep, PTL DEF Spec

LEMMA ProofStep ==
    ASSUME TaskInv, LostShows
    PROVE  ProofIsWhole
<1> SUFFICES ASSUME Closeout, receipt'.proof, NEW c \in With("verified"), NEW f \in RunRefs(c)
             PROVE  ~lost[f.run]
  BY DEF ProofIsWhole
<1>1. receipt'.proof = (RequiredGates /\ With("blocked") = {})
  BY DEF Closeout
<1>2. evidence[f.run] = "available"
  BY <1>1 DEF RequiredGates, WorkflowRunEvidenceDurable
<1>3. f.run \in Runs
  BY RefRuns DEF TaskInv, With
<1>4. QED  BY <1>2, <1>3 DEF LostShows

\* evaluateCloseout: within one process, and when writes fail only on missing
\* tables, a receipt that calls itself proof names no run that lost evidence.
THEOREM ProofIsWholeInOneProcess ==
    MaxRestarts = 0 /\ ~OtherErrors => (Spec => [][ProofIsWhole]_vars)
<1> SUFFICES ASSUME MaxRestarts = 0, ~OtherErrors PROVE Spec => [][ProofIsWhole]_vars
  OBVIOUS
<1>1. Init => LostShows
  BY MemoryInit DEF Init
<1>2. TaskInv /\ LostShows /\ [Next]_vars => LostShows'
  BY RunsBeside, LostStep DEF TaskInv, TypeOK
<1>3. QED  BY <1>1, <1>2, TaskInvariance, ProofStep, PTL DEF Spec
=============================================================================
