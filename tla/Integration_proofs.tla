------------------------- MODULE Integration_proofs -------------------------
(***************************************************************************)
(* Proofs about Integration: any number of processes that integrate, fail  *)
(* and die at any point only ever extend the mission branch, by packages   *)
(* that earned it, and record what is in it; so Integration implements     *)
(* MissionBranch.                                                          *)
(***************************************************************************)
EXTENDS Integration, TLAPS

Contents(commits) == {commits[k] : k \in DOMAIN commits}

Distinct(commits) ==
  \A k, l \in DOMAIN commits : commits[k] = commits[l] => k = l

\* A process that goes on from the branch as it still is holds the branch with
\* its package merged in; one whose base is older can never again be equal to
\* the branch, which is longer by now.
Prepared(i) ==
  /\ at[i] # "idle" => merging[i] \in Earned
  /\ at[i] = "updated" => merging[i] \in Merged
  /\ at[i] \in {"based", "checked_out", "merged"} => Len(base[i]) <= Len(branch)
  /\ at[i] = "checked_out" /\ base[i] = branch => tip[i] = branch
  /\ at[i] = "merged" /\ base[i] = branch
       => tip[i] = MergeInto(branch, merging[i])

IntegrationInv ==
  /\ IntegrationTypeOK
  /\ BranchIsEarned
  /\ IntegratedIsInBranch
  /\ \A i \in Integrators : Prepared(i)

IntegrationNext == Environment \/ \E i \in Integrators : Integrate(i)

-----------------------------------------------------------------------------
(* Merging                                                                 *)

\* Merging a package leaves the commits as they are or appends it to them.
LEMMA MergeAppends ==
  ASSUME NEW s \in Seq(Packages), NEW p \in Packages
  PROVE  /\ MergeInto(s, p) \in Seq(Packages)
         /\ Contents(MergeInto(s, p)) = Contents(s) \cup {p}
         /\ \/ MergeInto(s, p) = s /\ p \in Contents(s)
            \/ /\ MergeInto(s, p) = Append(s, p)
               /\ Len(MergeInto(s, p)) = Len(s) + 1 /\ p \notin Contents(s)
         /\ Distinct(s) => Distinct(MergeInto(s, p))
<1>1. CASE \E k \in DOMAIN s : s[k] = p
  BY <1>1 DEF MergeInto, Contents
<1>2. CASE ~\E k \in DOMAIN s : s[k] = p
  <2>1. /\ MergeInto(s, p) = Append(s, p) /\ Append(s, p) \in Seq(Packages)
        /\ Len(Append(s, p)) = Len(s) + 1 /\ Len(s) \in Nat
        /\ DOMAIN s = 1..Len(s) /\ DOMAIN Append(s, p) = 1..(Len(s) + 1)
    BY <1>2 DEF MergeInto
  <2>2. \A k \in 1..(Len(s) + 1) :
          Append(s, p)[k] = IF k = Len(s) + 1 THEN p ELSE s[k]
    OBVIOUS
  <2>3. Contents(Append(s, p)) = Contents(s) \cup {p}
    <3>1. ASSUME NEW q \in Contents(s) PROVE q \in Contents(Append(s, p))
      <4>1. PICK k \in 1..Len(s) : s[k] = q
        BY <2>1, <3>1 DEF Contents
      <4>2. k \in 1..(Len(s) + 1) /\ k # Len(s) + 1
        BY <2>1
      <4> QED BY <2>1, <2>2, <4>1, <4>2 DEF Contents
    <3>2. p \in Contents(Append(s, p))
      <4>1. Len(s) + 1 \in 1..(Len(s) + 1)
        BY <2>1
      <4> QED BY <2>1, <2>2, <4>1 DEF Contents
    <3>3. ASSUME NEW q \in Contents(Append(s, p)) PROVE q \in Contents(s) \cup {p}
      <4>1. PICK k \in 1..(Len(s) + 1) : Append(s, p)[k] = q
        BY <2>1, <3>3 DEF Contents
      <4>2. CASE k = Len(s) + 1
        BY <2>2, <4>1, <4>2
      <4>3. CASE k # Len(s) + 1
        <5>1. k \in 1..Len(s)
          BY <2>1, <4>3
        <5> QED BY <2>1, <2>2, <4>1, <4>3, <5>1 DEF Contents
      <4> QED BY <4>2, <4>3
    <3> QED BY <3>1, <3>2, <3>3
  <2>4. Distinct(s) => Distinct(Append(s, p))
    <3> SUFFICES ASSUME Distinct(s),
                        NEW k \in 1..(Len(s) + 1), NEW l \in 1..(Len(s) + 1),
                        Append(s, p)[k] = Append(s, p)[l]
                 PROVE  k = l
      BY <2>1 DEF Distinct
    <3>1. \A m \in 1..(Len(s) + 1) : m # Len(s) + 1 => m \in 1..Len(s)
      BY <2>1
    <3>2. \A m \in 1..Len(s) : s[m] # p
      BY <1>2, <2>1
    <3> QED BY <2>1, <2>2, <3>1, <3>2 DEF Distinct
  <2> QED BY <1>2, <2>1, <2>3, <2>4 DEF Contents
<1> QED BY <1>1, <1>2

LEMMA MergedIsContents == Merged = Contents(branch)
BY DEF Merged, Contents

-----------------------------------------------------------------------------
(* Steps                                                                   *)

\* What every step but update-ref does to the branch and the evidence: the
\* branch stays, and nobody loses complete evidence.
Steady == branch' = branch /\ Earned \subseteq Earned'

LEMMA SteadyBranch ==
  ASSUME IntegrationInv, Steady
  PROVE  BranchIsEarned' /\ Merged' = Merged
<1>1. Merged' = Merged
  BY DEF Merged, Steady
<1> QED BY <1>1 DEF IntegrationInv, BranchIsEarned, Steady

\* A process that takes no step stays prepared while the branch is steady.
LEMMA SteadyOthers ==
  ASSUME IntegrationInv, Steady, NEW i \in Integrators,
         at'[i] = at[i], merging'[i] = merging[i], base'[i] = base[i],
         tip'[i] = tip[i]
  PROVE  Prepared(i)'
<1>1. Merged' = Merged
  BY SteadyBranch
<1> QED BY <1>1 DEF IntegrationInv, Prepared, Steady

LEMMA EnvironmentIsSteady ==
  ASSUME IntegrationInv, Environment
  PROVE  Steady /\ IntegrationInv'
<1>1. Earned \subseteq Earned'
  <2>1. CASE UNCHANGED evidence
    BY <2>1 DEF Earned
  <2>2. ASSUME NEW p \in Packages \ Earned, NEW new \in SUBSET Evidence,
               evidence' = [evidence EXCEPT ![p] = new]
        PROVE  Earned \subseteq Earned'
    BY <2>2 DEF Earned, IntegrationInv, IntegrationTypeOK
  <2> QED BY <2>1, <2>2 DEF Environment
<1>2. Steady
  BY <1>1 DEF Environment, Steady, integrationVars, repoVars
<1>3. IntegrationTypeOK'
  BY DEF IntegrationInv, IntegrationTypeOK, Environment, integrationVars,
         repoVars, localVars
<1>4. \A i \in Integrators : Prepared(i)'
  BY <1>2, SteadyOthers DEF Environment, integrationVars, localVars
<1>5. IntegratedIsInBranch'
  BY <1>2, SteadyBranch
     DEF IntegratedIsInBranch, Recorded, Environment, IntegrationInv,
         integrationVars, repoVars
<1> QED BY <1>2, <1>3, <1>4, <1>5, SteadyBranch DEF IntegrationInv

\* A process ends with a package: it becomes idle, which is always prepared.
LEMMA FinishedIsPrepared ==
  ASSUME IntegrationInv, Steady, NEW i \in Integrators, Finish(i)
  PROVE  /\ at' \in [Integrators -> Stages]
         /\ merging' \in [Integrators -> Packages \cup {NoPackage}]
         /\ base' \in [Integrators -> Seq(Packages)]
         /\ tip' \in [Integrators -> Seq(Packages)]
         /\ \A j \in Integrators : Prepared(j)'
<1> USE DEF IntegrationInv, IntegrationTypeOK
<1>1. /\ at' \in [Integrators -> Stages]
      /\ merging' \in [Integrators -> Packages \cup {NoPackage}]
      /\ base' \in [Integrators -> Seq(Packages)]
      /\ tip' \in [Integrators -> Seq(Packages)]
  BY DEF Finish, Stages
<1>2. at'[i] = "idle"
  BY DEF Finish
<1>3. Prepared(i)'
  BY <1>2 DEF Prepared
<1>4. ASSUME NEW j \in Integrators, j # i PROVE Prepared(j)'
  BY <1>4, SteadyOthers DEF Finish
<1> QED BY <1>1, <1>3, <1>4

\* Writing a status other than "complete" takes a record back at most.
LEMMA UpsertOther ==
  ASSUME IntegrationInv, Steady, NEW p \in Packages,
         NEW status \in IntegrationStates, status # "complete", Upsert(p, status)
  PROVE  /\ integration' \in [Packages -> IntegrationStates]
         /\ Recorded' = Recorded \ {p}
         /\ IntegratedIsInBranch'
<1>1. integration' \in [Packages -> IntegrationStates]
  BY DEF Upsert, IntegrationInv, IntegrationTypeOK
<1>2. Recorded' = Recorded \ {p}
  BY DEF Recorded, Upsert, IntegrationInv, IntegrationTypeOK
<1> QED BY <1>1, <1>2, SteadyBranch DEF IntegrationInv, IntegratedIsInBranch

LEMMA UpsertComplete ==
  ASSUME IntegrationInv, Steady, NEW p \in Merged, p \in Packages,
         Upsert(p, "complete")
  PROVE  /\ integration' \in [Packages -> IntegrationStates]
         /\ Recorded' = Recorded \cup {p}
         /\ IntegratedIsInBranch'
<1>1. integration' \in [Packages -> IntegrationStates]
  BY DEF Upsert, IntegrationInv, IntegrationTypeOK, IntegrationStates
<1>2. Recorded' = Recorded \cup {p}
  BY DEF Recorded, Upsert, IntegrationInv, IntegrationTypeOK
<1> QED BY <1>1, <1>2, SteadyBranch DEF IntegrationInv, IntegratedIsInBranch

-----------------------------------------------------------------------------
(* The actions of a process                                                *)

Elsewhere == UNCHANGED <<pkg, evidence, missionStatus>>

LEMMA ElsewhereIsSteady ==
  ASSUME UNCHANGED <<evidence, branch>>
  PROVE  Steady /\ Earned' = Earned
BY DEF Steady, Earned

\* A process goes on to its next stage: the others are as prepared as before,
\* so what is left to see is that it is itself.
LEMMA LocalStep ==
  ASSUME IntegrationInv, NEW i \in Integrators, NEW stage \in Stages,
         Elsewhere, UNCHANGED <<repoVars, merging>>,
         at' = [at EXCEPT ![i] = stage],
         \A j \in Integrators : j # i => base'[j] = base[j] /\ tip'[j] = tip[j],
         base' \in [Integrators -> Seq(Packages)],
         tip' \in [Integrators -> Seq(Packages)],
         Prepared(i)'
  PROVE  IntegrationInv'
<1>1. Steady
  BY ElsewhereIsSteady DEF Elsewhere, repoVars
<1>2. IntegrationTypeOK'
  BY DEF IntegrationInv, IntegrationTypeOK, Elsewhere, repoVars
<1>3. ASSUME NEW j \in Integrators, j # i PROVE Prepared(j)'
  BY <1>1, <1>3, SteadyOthers DEF IntegrationInv, IntegrationTypeOK
<1>4. IntegratedIsInBranch'
  BY <1>1, SteadyBranch
     DEF IntegratedIsInBranch, Recorded, IntegrationInv, repoVars
<1> QED BY <1>1, <1>2, <1>3, <1>4, SteadyBranch DEF IntegrationInv

LEMMA ReadBaseKeepsInv ==
  ASSUME IntegrationInv, Elsewhere, NEW i \in Integrators, ReadBase(i)
  PROVE  IntegrationInv'
<1> USE DEF IntegrationInv, IntegrationTypeOK
<1>1. /\ at' = [at EXCEPT ![i] = "based"] /\ base' = [base EXCEPT ![i] = branch]
      /\ UNCHANGED <<repoVars, merging, tip>> /\ at[i] = "begun"
  BY DEF ReadBase, Proceed, Working
<1>2. Prepared(i)'
  <2>1. Earned' = Earned /\ branch' = branch /\ Len(branch) \in Nat
    BY <1>1, ElsewhereIsSteady DEF Elsewhere, repoVars
  <2>2. at'[i] = "based" /\ base'[i] = branch /\ merging'[i] \in Earned
    BY <1>1 DEF Prepared
  <2> QED BY <2>1, <2>2 DEF Prepared
<1>3. base' \in [Integrators -> Seq(Packages)] /\ "based" \in Stages
  BY <1>1 DEF Stages
<1> QED BY <1>1, <1>2, <1>3, LocalStep

LEMMA AddWorktreeKeepsInv ==
  ASSUME IntegrationInv, Elsewhere, NEW i \in Integrators, AddWorktree(i)
  PROVE  IntegrationInv'
<1> USE DEF IntegrationInv, IntegrationTypeOK
<1>1. /\ at' = [at EXCEPT ![i] = "checked_out"] /\ tip' = [tip EXCEPT ![i] = branch]
      /\ UNCHANGED <<repoVars, merging, base>> /\ at[i] = "based"
  BY DEF AddWorktree, Proceed, Working
<1>2. Prepared(i)'
  <2>1. Earned' = Earned /\ branch' = branch
    BY <1>1, ElsewhereIsSteady DEF Elsewhere, repoVars
  <2>2. /\ at'[i] = "checked_out" /\ tip'[i] = branch /\ base'[i] = base[i]
        /\ merging'[i] \in Earned /\ Len(base[i]) <= Len(branch)
    BY <1>1 DEF Prepared
  <2> QED BY <2>1, <2>2 DEF Prepared
<1>3. tip' \in [Integrators -> Seq(Packages)] /\ "checked_out" \in Stages
  BY <1>1 DEF Stages
<1> QED BY <1>1, <1>2, <1>3, LocalStep

LEMMA MergePackageKeepsInv ==
  ASSUME IntegrationInv, Elsewhere, NEW i \in Integrators, MergePackage(i)
  PROVE  IntegrationInv'
<1> USE DEF IntegrationInv, IntegrationTypeOK
<1>1. /\ at' = [at EXCEPT ![i] = "merged"]
      /\ tip' = [tip EXCEPT ![i] = MergeInto(tip[i], merging[i])]
      /\ UNCHANGED <<repoVars, merging, base>>
      /\ at[i] = "checked_out" /\ merging[i] \in Packages
  BY DEF MergePackage, Proceed, Working
<1>2. Prepared(i)'
  <2>1. Earned' = Earned /\ branch' = branch
    BY <1>1, ElsewhereIsSteady DEF Elsewhere, repoVars
  <2>2. /\ at'[i] = "merged" /\ tip'[i] = MergeInto(tip[i], merging[i])
        /\ base'[i] = base[i] /\ merging'[i] = merging[i]
    BY <1>1
  <2>3. /\ merging[i] \in Earned /\ Len(base[i]) <= Len(branch)
        /\ base[i] = branch => tip[i] = branch
    BY <1>1 DEF Prepared
  <2> QED BY <2>1, <2>2, <2>3 DEF Prepared, MergeInto
<1>3. tip' \in [Integrators -> Seq(Packages)] /\ "merged" \in Stages
  BY <1>1, MergeAppends DEF Stages
<1> QED BY <1>1, <1>2, <1>3, LocalStep

\* Moving the branch: it becomes the branch with the package merged in, because
\* update-ref insists on the base the process merged onto.
LEMMA UpdateRefMerges ==
  ASSUME IntegrationInv, NEW i \in Integrators, UpdateRef(i)
  PROVE  /\ merging[i] \in Packages /\ merging[i] \in Earned
         /\ branch' = MergeInto(branch, merging[i])
         /\ branch' \in Seq(Packages)
         /\ Merged' = Merged \cup {merging[i]}
         /\ Distinct(branch')
         /\ branch' = branch \/ Len(branch') = Len(branch) + 1
         /\ \/ branch' = branch
            \/ merging[i] \notin Merged /\ branch' = Append(branch, merging[i])
<1>1. /\ merging[i] \in Packages /\ merging[i] \in Earned
      /\ branch' = MergeInto(branch, merging[i])
  BY DEF UpdateRef, Working, IntegrationInv, Prepared
<1>2. branch \in Seq(Packages) /\ Distinct(branch)
  BY DEF IntegrationInv, IntegrationTypeOK, BranchIsEarned, Distinct
<1>3. Merged = Contents(branch) /\ Merged' = Contents(branch')
  BY DEF Merged, Contents
<1> QED BY <1>1, <1>2, <1>3, MergeAppends

LEMMA UpdateRefKeepsInv ==
  ASSUME IntegrationInv, Elsewhere, NEW i \in Integrators, UpdateRef(i)
  PROVE  IntegrationInv'
<1>1. /\ merging[i] \in Packages /\ merging[i] \in Earned
      /\ branch' \in Seq(Packages) /\ Merged' = Merged \cup {merging[i]}
      /\ Distinct(branch')
      /\ branch' = branch \/ Len(branch') = Len(branch) + 1
  BY UpdateRefMerges
<1>2. /\ at' = [at EXCEPT ![i] = "updated"]
      /\ UNCHANGED <<integration, base, tip, merging>>
  BY DEF UpdateRef, Proceed
<1>3. Earned' = Earned
  BY DEF Elsewhere, Earned
<1>4. IntegrationTypeOK'
  BY <1>1, <1>2 DEF IntegrationInv, IntegrationTypeOK, Elsewhere, Stages
<1>5. BranchIsEarned'
  BY <1>1, <1>3 DEF BranchIsEarned, Distinct, IntegrationInv
<1>6. IntegratedIsInBranch'
  BY <1>1, <1>2 DEF IntegratedIsInBranch, Recorded, IntegrationInv
<1>7. Prepared(i)'
  <2>1. at'[i] = "updated" /\ merging'[i] \in Merged' /\ merging'[i] \in Earned'
    BY <1>1, <1>2, <1>3 DEF IntegrationInv, IntegrationTypeOK
  <2> QED BY <2>1 DEF Prepared
<1>8. ASSUME NEW j \in Integrators, j # i PROVE Prepared(j)'
  <2>1. /\ at'[j] = at[j] /\ base'[j] = base[j] /\ tip'[j] = tip[j]
        /\ merging'[j] = merging[j] /\ Prepared(j)
    BY <1>2, <1>8 DEF IntegrationInv, IntegrationTypeOK
  <2>2. Len(branch) \in Nat /\ Len(base[j]) \in Nat
    BY DEF IntegrationInv, IntegrationTypeOK
  <2>3. CASE branch' = branch
    BY <1>1, <1>3, <2>1, <2>3 DEF Prepared
  <2>4. CASE Len(branch') = Len(branch) + 1
    <3>1. at[j] \in {"based", "checked_out", "merged"}
            => Len(base[j]) <= Len(branch') /\ base[j] # branch'
      BY <2>1, <2>2, <2>4 DEF Prepared
    <3> QED BY <1>1, <1>3, <2>1, <3>1 DEF Prepared
  <2> QED BY <1>1, <2>3, <2>4
<1> QED BY <1>4, <1>5, <1>6, <1>7, <1>8 DEF IntegrationInv

LEMMA BeginKeepsInv ==
  ASSUME IntegrationInv, Elsewhere, NEW i \in Integrators, NEW p \in Packages,
         BeginIntegration(i, p)
  PROVE  IntegrationInv' /\ Recorded' = Recorded \ {p} /\ Steady
<1>1. Steady /\ Earned' = Earned
  BY ElsewhereIsSteady DEF BeginIntegration, Elsewhere
<1>2. /\ integration' \in [Packages -> IntegrationStates]
      /\ Recorded' = Recorded \ {p} /\ IntegratedIsInBranch'
  BY <1>1, UpsertOther DEF BeginIntegration, IntegrationStates
<1>3. IntegrationTypeOK'
  BY <1>2 DEF BeginIntegration, Elsewhere, IntegrationInv, IntegrationTypeOK, Stages
<1>4. Prepared(i)'
  <2>1. at'[i] = "begun" /\ merging'[i] = p /\ p \in Earned
    BY DEF BeginIntegration, ReadyForIntegration, IntegrationInv, IntegrationTypeOK
  <2> QED BY <1>1, <2>1 DEF Prepared
<1>5. ASSUME NEW j \in Integrators, j # i PROVE Prepared(j)'
  BY <1>1, <1>5, SteadyOthers DEF BeginIntegration, IntegrationInv, IntegrationTypeOK
<1> QED BY <1>1, <1>2, <1>3, <1>4, <1>5, SteadyBranch DEF IntegrationInv

\* The steps that write the record, end a process, or both.
LEMMA EndingsKeepInv ==
  ASSUME IntegrationInv, NEW i \in Integrators,
         \/ /\ Elsewhere
            /\ \/ MergeConflicts(i) \/ RecordIntegration(i)
               \/ IntegrationFails(i) \/ IntegratorDies(i)
         \/ BlockMission(i) /\ UNCHANGED <<pkg, evidence>>
  PROVE  /\ IntegrationInv' /\ Steady /\ Earned' = Earned
         /\ \/ Recorded' = Recorded
            \/ \E p \in Packages : Recorded' = Recorded \ {p}
            \/ \E p \in Merged : Recorded' = Recorded \cup {p}
<1>0. UNCHANGED <<pkg, evidence, branch>> /\ missionStatus' \in MissionStates
  BY DEF MergeConflicts, RecordIntegration, IntegrationFails, IntegratorDies,
         BlockMission, Elsewhere, repoVars, IntegrationInv, IntegrationTypeOK,
         MissionStates
<1>1. Steady /\ Earned' = Earned
  BY <1>0, ElsewhereIsSteady
<1>2. CASE MergeConflicts(i)
  <2>1. /\ integration' \in [Packages -> IntegrationStates]
        /\ Recorded' = Recorded \ {merging[i]} /\ IntegratedIsInBranch'
        /\ merging[i] \in Packages
    BY <1>1, <1>2, UpsertOther DEF MergeConflicts, Working, IntegrationStates
  <2>2. /\ at' = [at EXCEPT ![i] = "conflicted"] /\ at[i] = "checked_out"
        /\ UNCHANGED <<base, tip, merging>>
    BY <1>2 DEF MergeConflicts, Working, Proceed
  <2>3. IntegrationTypeOK'
    BY <1>0, <2>1, <2>2 DEF IntegrationInv, IntegrationTypeOK, Stages
  <2>4. Prepared(i)'
    <3>1. at'[i] = "conflicted" /\ merging'[i] \in Earned
      BY <2>2 DEF IntegrationInv, IntegrationTypeOK, Prepared
    <3> QED BY <1>1, <3>1 DEF Prepared
  <2>5. ASSUME NEW j \in Integrators, j # i PROVE Prepared(j)'
    BY <1>1, <2>2, <2>5, SteadyOthers DEF IntegrationInv, IntegrationTypeOK
  <2> QED BY <1>1, <2>1, <2>3, <2>4, <2>5, SteadyBranch DEF IntegrationInv
<1>3. ASSUME Finish(i), integration' \in [Packages -> IntegrationStates],
             IntegratedIsInBranch'
      PROVE  IntegrationInv'
  <2>1. IntegrationTypeOK' /\ \A j \in Integrators : Prepared(j)'
    BY <1>0, <1>1, <1>3, FinishedIsPrepared DEF IntegrationInv, IntegrationTypeOK
  <2> QED BY <1>1, <1>3, <2>1, SteadyBranch DEF IntegrationInv
<1>4. CASE RecordIntegration(i)
  <2>1. merging[i] \in Packages /\ merging[i] \in Merged
    BY <1>4 DEF RecordIntegration, Working, IntegrationInv, Prepared
  <2> QED BY <1>1, <1>3, <1>4, <2>1, UpsertComplete DEF RecordIntegration
<1>5. CASE IntegrationFails(i)
  BY <1>1, <1>3, <1>5, UpsertOther DEF IntegrationFails, IntegrationStates
<1>6. CASE IntegratorDies(i) \/ BlockMission(i)
  <2>1. Finish(i) /\ integration' = integration
    BY <1>6 DEF IntegratorDies, BlockMission, repoVars
  <2>2. Recorded' = Recorded
    BY <2>1 DEF Recorded
  <2>3. IntegratedIsInBranch'
    BY <1>1, <2>2, SteadyBranch DEF IntegratedIsInBranch, IntegrationInv
  <2>4. integration' \in [Packages -> IntegrationStates]
    BY <2>1 DEF IntegrationInv, IntegrationTypeOK
  <2> QED BY <1>1, <1>3, <2>1, <2>2, <2>3, <2>4
<1> QED BY <1>2, <1>4, <1>5, <1>6

\* A step of a process is one of these.
LEMMA StepsOfIntegrate ==
  ASSUME NEW i \in Integrators, Integrate(i)
  PROVE  \/ Elsewhere /\ (ReadBase(i) \/ AddWorktree(i) \/ MergePackage(i))
         \/ Elsewhere /\ UpdateRef(i)
         \/ Elsewhere /\ \E p \in Packages : BeginIntegration(i, p)
         \/ \/ /\ Elsewhere
               /\ \/ MergeConflicts(i) \/ RecordIntegration(i)
                  \/ IntegrationFails(i) \/ IntegratorDies(i)
            \/ BlockMission(i) /\ UNCHANGED <<pkg, evidence>>
BY DEF Integrate, GitStep, Elsewhere

LEMMA LocalStepsKeepInv ==
  ASSUME IntegrationInv, Elsewhere, NEW i \in Integrators,
         ReadBase(i) \/ AddWorktree(i) \/ MergePackage(i)
  PROVE  IntegrationInv' /\ Steady /\ Earned' = Earned /\ Recorded' = Recorded
<1>1. UNCHANGED repoVars
  BY DEF ReadBase, AddWorktree, MergePackage
<1>2. Steady /\ Earned' = Earned /\ Recorded' = Recorded
  BY <1>1, ElsewhereIsSteady DEF Elsewhere, repoVars, Recorded
<1> QED BY <1>2, ReadBaseKeepsInv, AddWorktreeKeepsInv, MergePackageKeepsInv

-----------------------------------------------------------------------------
(* Theorems                                                                *)

\* The inductive invariant holds in every reachable state, for any number of
\* packages and of processes that integrate them.
THEOREM IntegrationInvariant == IntegrationSpec => []IntegrationInv
<1>1. Init => IntegrationInv
  <2> SUFFICES ASSUME Init PROVE IntegrationInv
    OBVIOUS
  <2> USE DEF Init, IntegrationInit
  <2>1. Merged = {} /\ Recorded = {}
    BY DEF Merged, Recorded
  <2>2. IntegrationTypeOK
    BY DEF IntegrationTypeOK, PackageStates, MissionStates, IntegrationStates,
           Stages, Evidence
  <2>3. BranchIsEarned /\ IntegratedIsInBranch
    BY <2>1 DEF BranchIsEarned, IntegratedIsInBranch
  <2> QED BY <2>2, <2>3 DEF IntegrationInv, Prepared
<1>2. IntegrationInv /\ [IntegrationNext]_vars => IntegrationInv'
  <2> SUFFICES ASSUME IntegrationInv, [IntegrationNext]_vars PROVE IntegrationInv'
    OBVIOUS
  <2>1. CASE Environment
    BY <2>1, EnvironmentIsSteady
  <2>2. ASSUME NEW i \in Integrators, Integrate(i) PROVE IntegrationInv'
    BY <2>2, StepsOfIntegrate, LocalStepsKeepInv, UpdateRefKeepsInv,
       BeginKeepsInv, EndingsKeepInv
  <2>3. CASE UNCHANGED vars
    BY <2>3 DEF vars, integrationVars, repoVars, localVars, IntegrationInv,
                IntegrationTypeOK, BranchIsEarned, IntegratedIsInBranch, Merged,
                Recorded, Earned, Prepared
  <2> QED BY <2>1, <2>2, <2>3 DEF IntegrationNext
<1> QED BY <1>1, <1>2, PTL DEF IntegrationSpec, IntegrationNext

\* A recorded integration is in the mission branch.
THEOREM IntegratedStaysInBranch == IntegrationSpec => []IntegratedIsInBranch
<1>1. IntegrationInv => IntegratedIsInBranch
  BY DEF IntegrationInv
<1> QED BY <1>1, IntegrationInvariant, PTL

\* Everything in the mission branch was approved, verified and committed, and
\* is in it once.
THEOREM BranchStaysEarned == IntegrationSpec => []BranchIsEarned
<1>1. IntegrationInv => BranchIsEarned
  BY DEF IntegrationInv
<1> QED BY <1>1, IntegrationInvariant, PTL

\* The mission branch is never rewritten: a step leaves it or appends a
\* package to it.
THEOREM BranchNeverShrinks == IntegrationSpec => BranchOnlyGrows
<1> DEFINE Grows == \/ branch' = branch
                    \/ \E p \in Packages \ Merged : branch' = Append(branch, p)
<1>1. IntegrationInv /\ [IntegrationNext]_vars => [Grows]_vars
  <2> SUFFICES ASSUME IntegrationInv, IntegrationNext PROVE Grows
    OBVIOUS
  <2>1. CASE Environment
    BY <2>1, EnvironmentIsSteady DEF Steady
  <2>2. ASSUME NEW i \in Integrators, Integrate(i) PROVE Grows
    <3>1. CASE UpdateRef(i)
      BY <3>1, UpdateRefMerges
    <3>2. CASE ~UpdateRef(i)
      BY <2>2, <3>2, StepsOfIntegrate, LocalStepsKeepInv, BeginKeepsInv,
         EndingsKeepInv DEF Steady
    <3> QED BY <3>1, <3>2
  <2> QED BY <2>1, <2>2 DEF IntegrationNext
<1> QED BY <1>1, IntegrationInvariant, PTL
        DEF IntegrationSpec, IntegrationNext, BranchOnlyGrows

\* What the environment does to the evidence of a package earns it, or not.
LEMMA EnvironmentEarns ==
  ASSUME IntegrationInv, Environment
  PROVE  /\ Earned' = Earned \/ \E p \in Packages : Earned' = Earned \cup {p}
         /\ Merged' = Merged /\ Recorded' = Recorded
<1>1. Merged' = Merged /\ Recorded' = Recorded
  BY EnvironmentIsSteady, SteadyBranch
     DEF Environment, integrationVars, repoVars, Recorded
<1>2. CASE UNCHANGED evidence
  BY <1>1, <1>2 DEF Earned
<1>3. ASSUME NEW p \in Packages \ Earned, NEW new \in SUBSET Evidence,
             evidence' = [evidence EXCEPT ![p] = new]
      PROVE  Earned' = Earned \/ \E q \in Packages : Earned' = Earned \cup {q}
  <2>1. /\ evidence'[p] = new
        /\ \A q \in Packages : q # p => evidence'[q] = evidence[q]
    BY <1>3 DEF IntegrationInv, IntegrationTypeOK
  <2>2. CASE new = Evidence
    <3>1. Earned' = Earned \cup {p}
      BY <2>1, <2>2 DEF Earned
    <3> QED BY <3>1
  <2>3. CASE new # Evidence
    <3>1. Earned' = Earned
      BY <1>3, <2>1, <2>3 DEF Earned
    <3> QED BY <3>1
  <2> QED BY <2>2, <2>3
<1> QED BY <1>1, <1>2, <1>3 DEF Environment

\* Integration implements MissionBranch: a merge, however many Git commands it
\* takes and whoever dies between them, happens at once, and only to packages
\* that earned it; it is recorded afterwards, and never without it.
THEOREM IntegrationIsAtomic == IntegrationSpec => MergesAreAtomic
<1> USE DEF BranchOf!Next, BranchOf!Earn, BranchOf!Merge, BranchOf!Record,
            BranchOf!Reopen
<1>1. Init => BranchOf!Init
  BY DEF Init, IntegrationInit, BranchOf!Init, Earned, Merged, Recorded, Evidence
<1>2. IntegrationInv /\ [IntegrationNext]_vars
        => [BranchOf!Next]_<<Earned, Merged, Recorded>>
  <2> SUFFICES ASSUME IntegrationInv, [IntegrationNext]_vars
               PROVE  BranchOf!Next \/ UNCHANGED <<Earned, Merged, Recorded>>
    OBVIOUS
  <2>1. CASE Environment
    BY <2>1, EnvironmentEarns
  <2>2. ASSUME NEW i \in Integrators, Integrate(i)
        PROVE  BranchOf!Next \/ UNCHANGED <<Earned, Merged, Recorded>>
    <3>1. ASSUME Elsewhere, UpdateRef(i)
          PROVE  BranchOf!Next \/ UNCHANGED <<Earned, Merged, Recorded>>
      <4>1. /\ merging[i] \in Packages /\ merging[i] \in Earned
            /\ Merged' = Merged \cup {merging[i]}
        BY <3>1, UpdateRefMerges
      <4>2. Earned' = Earned /\ Recorded' = Recorded
        BY <3>1 DEF UpdateRef, Elsewhere, Earned, Recorded
      <4> QED BY <4>1, <4>2
    <3>2. ASSUME Elsewhere, NEW p \in Packages, BeginIntegration(i, p)
          PROVE  BranchOf!Next
      <4>1. Recorded' = Recorded \ {p} /\ Merged' = Merged /\ Earned' = Earned
        BY <3>2, BeginKeepsInv, SteadyBranch, ElsewhereIsSteady
           DEF BeginIntegration, Elsewhere
      <4> QED BY <4>1
    <3>3. ASSUME Elsewhere, ReadBase(i) \/ AddWorktree(i) \/ MergePackage(i)
          PROVE  UNCHANGED <<Earned, Merged, Recorded>>
      BY <3>3, LocalStepsKeepInv, SteadyBranch
    <3>4. ASSUME \/ /\ Elsewhere
                    /\ \/ MergeConflicts(i) \/ RecordIntegration(i)
                       \/ IntegrationFails(i) \/ IntegratorDies(i)
                 \/ BlockMission(i) /\ UNCHANGED <<pkg, evidence>>
          PROVE  BranchOf!Next \/ UNCHANGED <<Earned, Merged, Recorded>>
      <4>1. Merged' = Merged /\ Earned' = Earned
        BY <3>4, EndingsKeepInv, SteadyBranch
      <4>2. Merged \subseteq Packages
        BY DEF IntegrationInv, BranchIsEarned, Earned
      <4> QED BY <3>4, <4>1, <4>2, EndingsKeepInv
    <3> QED BY <2>2, <3>1, <3>2, <3>3, <3>4, StepsOfIntegrate
  <2>3. CASE UNCHANGED vars
    BY <2>3 DEF vars, integrationVars, repoVars, localVars, Merged, Recorded, Earned
  <2> QED BY <2>1, <2>2, <2>3 DEF IntegrationNext
<1> QED BY <1>1, <1>2, IntegrationInvariant, PTL
        DEF IntegrationSpec, IntegrationNext, MergesAreAtomic, BranchOf!Spec
=============================================================================
