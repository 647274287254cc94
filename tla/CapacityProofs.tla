--------------------------- MODULE CapacityProofs ---------------------------
(* Nodes are not overcommitted: the records hold no more places of a node   *)
(* than it has, and the containers that run on it have such places.         *)
EXTENDS ContainerProofs, FiniteSetTheorems

USE ConstantsAssumption, Zenon

(***************************************************************************)
(* Places                                                                  *)
(***************************************************************************)
Fits(store) == \A n \in Nodes : Cardinality(Holding(store, n)) <= Slots[n]

(* Between place and the save of the record nothing takes the place away.   *)
PlaceFree == pc \in Provisioning => Cardinality(Holding(jobs, target)) < Slots[target]

FitInv == Fits(jobs) /\ Fits(disk) /\ PlaceFree

(* Places are held by jobs, of which there are finitely many.               *)
LEMMA HoldingFinite ==
  ASSUME NEW store, NEW n
  PROVE  IsFiniteSet(Holding(store, n)) /\ Cardinality(Holding(store, n)) \in Nat
<1>1. Holding(store, n) \subseteq Jobs /\ IsFiniteSet(Jobs)
  BY DEF Holding
<1>2. IsFiniteSet(Holding(store, n))
  BY <1>1, FS_Subset
<1> QED BY <1>2, FS_CardinalityType

(* The clock leaves every place with its holder.                            *)
LEMMA AgedHolding ==
  ASSUME NEW s \in [Jobs -> JobRecord], NEW n
  PROVE  Holding(Aged(s), n) = Holding(s, n)
  BY AgedRecord DEF Holding

(* A handler takes at most one place: the one it found free.                *)
LEMMA WrittenHolding ==
  ASSUME TypeInv, Written, NEW n \in Nodes
  PROVE  \/ Holding(jobs', n) \subseteq Holding(jobs, n)
         \/ /\ pc = "record" /\ n = target
            /\ Holding(jobs', n) \subseteq Holding(jobs, n) \cup {cur}
<1>1. ASSUME NEW j \in Jobs, jobs'[j].node = n, jobs'[j].status \in Active,
             j \notin Holding(jobs, n)
      PROVE  pc = "record" /\ n = target /\ j = cur
  <2>1. (Kept(j, jobs'[j]) /\ jobs[j].status \in Active) \/ Claimed(j, jobs'[j])
    BY <1>1, RewrittenToActive DEF Written
  <2> QED BY <1>1, <2>1 DEF Kept, Claimed, Holding
<1> QED BY <1>1 DEF Holding

(* No step gives away a place that is taken.                                *)
LEMMA FitStep == TypeInv /\ FitInv /\ [Next]_vars => FitInv'
<1> SUFFICES ASSUME TypeInv, FitInv, [Next]_vars PROVE FitInv'
  OBVIOUS
<1>0. jobs \in [Jobs -> JobRecord] /\ disk \in [Jobs -> JobRecord]
  BY DEF TypeInv, TypeOK
<1>1. Fits(jobs') /\ Fits(disk')
  <2>1. CASE UNCHANGED storeVars
    BY <2>1 DEF storeVars, FitInv
  <2>2. CASE jobs' = disk /\ disk' = disk
    BY <2>2 DEF FitInv
  <2>3. CASE jobs' = Aged(jobs) /\ disk' = Aged(disk)
    BY <1>0, <2>3, AgedHolding DEF FitInv, Fits
  <2>4. CASE Written
    <3>1. ASSUME NEW n \in Nodes PROVE Cardinality(Holding(jobs', n)) <= Slots[n]
      <4>0. /\ IsFiniteSet(Holding(jobs, n)) /\ Cardinality(Holding(jobs, n)) \in Nat
            /\ IsFiniteSet(Holding(jobs', n)) /\ Cardinality(Holding(jobs', n)) \in Nat
            /\ Slots[n] \in Nat
        BY HoldingFinite
      <4>1. CASE Holding(jobs', n) \subseteq Holding(jobs, n)
        <5>1. Cardinality(Holding(jobs', n)) <= Cardinality(Holding(jobs, n))
          BY <4>0, <4>1, FS_Subset
        <5> QED BY <4>0, <5>1, SMT DEF FitInv, Fits
      <4>2. CASE pc = "record" /\ n = target /\ Holding(jobs', n) \subseteq Holding(jobs, n) \cup {cur}
        <5>1. Cardinality(Holding(jobs, n)) < Slots[n]
          BY <4>2 DEF FitInv, PlaceFree, Provisioning
        <5>2. /\ IsFiniteSet(Holding(jobs, n) \cup {cur})
              /\ Cardinality(Holding(jobs, n) \cup {cur}) \in Nat
              /\ Cardinality(Holding(jobs, n) \cup {cur}) <= Cardinality(Holding(jobs, n)) + 1
          <6> DEFINE S == Holding(jobs, n)
          <6>1. IsFiniteSet(S) /\ Cardinality(S) \in Nat
            BY <4>0
          <6> HIDE DEF S
          <6>2. /\ IsFiniteSet(S \cup {cur})
                /\ Cardinality(S \cup {cur}) = IF cur \in S THEN Cardinality(S) ELSE Cardinality(S) + 1
            BY <6>1, FS_AddElement
          <6>3. Cardinality(S \cup {cur}) \in Nat /\ Cardinality(S \cup {cur}) <= Cardinality(S) + 1
            BY <6>1, <6>2, SMT
          <6> QED BY <6>2, <6>3 DEF S
        <5>3. Cardinality(Holding(jobs', n)) <= Cardinality(Holding(jobs, n) \cup {cur})
          BY <4>2, <5>2, FS_Subset
        <5> QED BY <4>0, <5>1, <5>2, <5>3, SMT
      <4> QED BY <2>4, <4>1, <4>2, WrittenHolding
    <3> QED BY <2>4, <3>1 DEF Written, Fits, FitInv
  <2> QED BY <2>1, <2>2, <2>3, <2>4, StoreSteps DEF StoreStep
<1>2. PlaceFree'
  <2> SUFFICES ASSUME pc' \in Provisioning
               PROVE  Cardinality(Holding(jobs', target')) < Slots[target']
    BY DEF PlaceFree
  <2>1. CASE target' \in place(cur) /\ UNCHANGED storeVars
    BY <2>1 DEF place, reservations, Holding, storeVars
  <2>2. CASE pc = "jit" /\ UNCHANGED <<target, storeVars>>
    BY <2>2 DEF FitInv, PlaceFree, Provisioning, storeVars
  <2>3. CASE UNCHANGED mgrVars /\ (UNCHANGED storeVars \/ jobs' = Aged(jobs))
    BY <1>0, <2>3, AgedHolding DEF FitInv, PlaceFree, mgrVars, storeVars
  <2> QED BY <2>1, <2>2, <2>3, ProvisioningSteps
<1> QED BY <1>1, <1>2 DEF FitInv, Fits

(* The active records never hold more places of a node than it has, in      *)
(* memory or in the state file, for any number of jobs and nodes and        *)
(* whatever fails: place counts what the records hold, and nothing but the  *)
(* handler itself can take the place it has found.                          *)
THEOREM PlacesFit == Spec => []ReservationsFit
<1>1. Init => TypeInv /\ FitInv
  <2> SUFFICES ASSUME Init PROVE FitInv
    BY InitTypeInv
  <2>1. \A n \in Nodes : Holding(jobs, n) = {} /\ Holding(disk, n) = {}
    BY DEF Init, Holding, Absent, Blank, Active
  <2>2. Cardinality({}) = 0
    BY FS_EmptySet
  <2>3. Fits(jobs) /\ Fits(disk)
    BY <2>1, <2>2, SMT DEF Fits
  <2> QED BY <2>3 DEF Init, FitInv, PlaceFree, Provisioning
<1>2. TypeInv /\ FitInv /\ [Next]_vars => (TypeInv /\ FitInv)'
  BY TypeStep, FitStep
<1>3. FitInv => ReservationsFit
  BY DEF FitInv, Fits, ReservationsFit
<1> QED BY <1>1, <1>2, <1>3, PTL DEF Spec

(***************************************************************************)
(* Containers                                                              *)
(***************************************************************************)
(* The containers that run on a node have places there.                     *)
LEMMA RunningHeld ==
  ASSUME UpInv, NEW n \in Nodes
  PROVE  Running(n) \subseteq Holding(jobs, n)
  BY DEF UpInv, HasRecord, Running, Holding

(* The running containers of a node never exceed what fits on it, for any   *)
(* number of jobs and nodes: a container runs only with a record that holds *)
(* a place.  This needs a process that lives, create requests that do not   *)
(* outlast their call, and of a failing create and a failing destroy one at *)
(* most: undoing a create gives the place up whatever the destroy returns.  *)
THEOREM ContainersFit ==
  ASSUME MaxCrashes = 0, "late" \notin Faults, "create" \notin Faults \/ "destroy" \notin Faults
  PROVE  Spec => []RunningFit
<1> DEFINE I == TypeInv /\ KnownNodes /\ GoneInv /\ UpInv
<1>1. Init => I
  <2>1. Init => UpInv
    BY SMT DEF Init, UpInv, NoCont
  <2> QED BY <2>1, InitTypeInv, InitGone
<1>2. I /\ [Next]_vars => I'
  BY TypeStep, KnownStep, GoneStep, UpStep
<1>3. UpInv /\ ReservationsFit => RunningFit
  <2> SUFFICES ASSUME UpInv, ReservationsFit, NEW n \in Nodes
               PROVE  Cardinality(Running(n)) <= Slots[n]
    BY DEF RunningFit
  <2>1. /\ IsFiniteSet(Holding(jobs, n)) /\ Cardinality(Holding(jobs, n)) \in Nat
        /\ Cardinality(Holding(jobs, n)) <= Slots[n] /\ Slots[n] \in Nat
    BY HoldingFinite DEF ReservationsFit
  <2>2. IsFiniteSet(Running(n)) /\ Cardinality(Running(n)) <= Cardinality(Holding(jobs, n))
    BY <2>1, RunningHeld, FS_Subset
  <2>3. Cardinality(Running(n)) \in Nat
    BY <2>2, FS_CardinalityType
  <2> QED BY <2>1, <2>2, <2>3, SMT
<1>4. I => UpInv
  OBVIOUS
<1> HIDE DEF I
<1> QED BY <1>1, <1>2, <1>3, <1>4, PlacesFit, PTL DEF Spec

=============================================================================
