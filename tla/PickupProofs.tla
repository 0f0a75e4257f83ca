---------------------------- MODULE PickupProofs ----------------------------
(* Proofs about PickupGenerator, for all speeds, periods and array sizes:   *)
(* the published array fits, and the pickups form an unbroken train.        *)
EXTENDS PickupGenerator, TLAPS

LEMMA FewerFit ==
  ASSUME NEW n \in Int, NEW m \in Int
  PROVE  /\ Min({n, m}) \in {n, m}
         /\ Min({n, m}) <= n /\ Min({n, m}) <= m
<1>1. \E x \in {n, m} : \A y \in {n, m} : x <= y
  <2>1. CASE n <= m
    BY <2>1
  <2>2. CASE ~(n <= m)
    BY <2>2
  <2>3. QED
    BY <2>1, <2>2
<1>2. Min({n, m}) \in {n, m} /\ \A y \in {n, m} : Min({n, m}) <= y
  BY <1>1 DEF Min
<1>3. QED
  BY <1>2

(* So many turns fit into a time.                                           *)
LEMMA Turns ==
  ASSUME NEW a \in Nat, NEW s \in Nat, s > 0
  PROVE  /\ a \div s \in Nat
         /\ (a \div s) * s <= a
         /\ a < (a \div s) * s + s
  OBVIOUS

LEMMA TurnsGrow ==
  ASSUME NEW n \in Nat, NEW m \in Nat, n <= m, NEW s \in Nat
  PROVE  n * s <= m * s
  OBVIOUS

-----------------------------------------------------------------------------
(* The number of pickups that a run publishes.                              *)
Number(e) == Min({Due(e), Capacity})

(* All of them lie before the end of the run; the next one does not, unless *)
(* the array is full.                                                       *)
LEMMA NumberFits ==
  ASSUME step \in Nat, step > 0, behind \in Nat, NEW e \in Int, e > 0
  PROVE  /\ Number(e) \in Nat
         /\ Number(e) <= Capacity
         /\ Number(e) * step < behind + e
         /\ Number(e) < Capacity => behind + e <= Number(e) * step + step
<1>1. Capacity \in Nat /\ Capacity > 0
  BY PickupAssumption DEF Capacity, Header
<1> DEFINE a == behind + e - 1
<1>2. a \in Nat
  OBVIOUS
<1>3. /\ Due(e) \in Nat
      /\ Due(e) * step <= a
      /\ a < Due(e) * step + step
  BY <1>2, Turns DEF Due
<1>4. /\ Number(e) \in {Due(e), Capacity}
      /\ Number(e) <= Due(e) /\ Number(e) <= Capacity
  <2>1. Due(e) \in Int /\ Capacity \in Int
    BY <1>1, <1>3
  <2> HIDE DEF Due
  <2>2. /\ Min({Due(e), Capacity}) \in {Due(e), Capacity}
        /\ Min({Due(e), Capacity}) <= Due(e)
        /\ Min({Due(e), Capacity}) <= Capacity
    BY <2>1, FewerFit
  <2>3. QED
    BY <2>2 DEF Number
<1>5. Number(e) \in Nat
  BY <1>1, <1>3, <1>4
<1>6. Number(e) * step <= Due(e) * step
  BY <1>3, <1>4, <1>5, TurnsGrow
<1>7. Number(e) * step \in Nat /\ Due(e) * step \in Nat
  BY <1>3, <1>5
<1>8. Number(e) * step < behind + e
  <2> HIDE DEF Number, Due
  <2>1. QED
    BY <1>3, <1>6, <1>7
<1>9. ASSUME Number(e) < Capacity PROVE behind + e <= Number(e) * step + step
  <2>1. Number(e) = Due(e)
    BY <1>1, <1>4, <1>9
  <2>2. QED
    BY <1>3, <1>7, <2>1
<1>10. QED
  BY <1>4, <1>5, <1>8, <1>9

LEMMA PickupsAreSo ==
  ASSUME step \in Nat, step > 0, behind \in Nat, NEW e \in Int, e > 0
  PROVE  /\ Pickups(e) \in Seq(Int)
         /\ Len(Pickups(e)) = Number(e)
         /\ \A k \in 1 .. Number(e) : Pickups(e)[k] = k * step - behind
<1>1. Number(e) \in Nat
  BY NumberFits
<1>2. Pickups(e) = [k \in 1 .. Number(e) |-> k * step - behind]
  BY DEF Pickups, Number
<1>3. \A k \in 1 .. Number(e) : k * step - behind \in Int
  BY <1>1
<1>4. QED
  BY <1>1, <1>2, <1>3

-----------------------------------------------------------------------------
(* What the train rests on: the pickup that the thread goes on from is the  *)
(* last one it has published, unless it has started over or the speed has   *)
(* changed since; at that speed it is more than a turn back only if the     *)
(* array was full.                                                          *)
GoesOnFromTheLast ==
  steady # 0 => /\ steady = step
                /\ lastShown = behind
                /\ Len(tdce) < Capacity => behind <= step

PickupInv == PickupTypeOK /\ GoesOnFromTheLast

LEMMA PickupInitial == PickupsInit => PickupInv
<1>1. ASSUME PickupsInit PROVE PickupInv
  <2>1. tdce \in Seq(Int) /\ Len(tdce) = 0
    BY <1>1 DEF PickupsInit
  <2>2. QED
    BY <1>1, <2>1, PickupAssumption DEF PickupsInit, PickupInv, PickupTypeOK, GoesOnFromTheLast, Header
<1>2. QED
  BY <1>1

(* What a run of the thread leaves behind.                                  *)
LEMMA GenerateKeeps ==
  ASSUME PickupInv, NEW e \in Elapsed, Generate(e)
  PROVE  PickupInv'
<1> USE DEF Generate, PickupInv
<1>1. /\ step \in Nat /\ step > 0 /\ behind \in Nat
      /\ e \in Int /\ e > 0
      /\ step' = step
  BY PickupAssumption DEF PickupTypeOK
<1>2. Capacity \in Nat /\ Capacity > 0 /\ Capacity + Header = TdceArraySize /\ Header \in Nat
  BY PickupAssumption DEF Capacity, Header
<1> DEFINE n == Number(e)
<1>3. /\ n \in Nat /\ n <= Capacity
      /\ n * step < behind + e
      /\ n < Capacity => behind + e <= n * step + step
  BY <1>1, NumberFits
<1>4. /\ tdce' \in Seq(Int) /\ Len(tdce') = n
      /\ \A k \in 1 .. n : tdce'[k] = k * step - behind
  BY <1>1, PickupsAreSo
<1>5. n * step \in Nat
  BY <1>1, <1>3
<1> HIDE DEF n
<1>6. CASE tdce' = <<>>
  <2>1. n = 0 /\ n * step = 0
    BY <1>1, <1>4, <1>6
  <2>2. behind' = behind + e /\ lastShown' = lastShown + e /\ steady' = steady
    BY <1>6 DEF ContinueFrom
  <2>3. behind' \in 0 .. MaxBehind /\ lastShown' \in 0 .. MaxBehind
    BY <1>1, <2>2, PickupAssumption DEF PickupTypeOK
  <2>4. behind' <= step
    BY <1>1, <1>2, <1>3, <2>1, <2>2
  <2>5. GoesOnFromTheLast'
    BY <1>1, <2>2, <2>4 DEF GoesOnFromTheLast
  <2>6. PickupTypeOK'
    BY <1>1, <1>2, <1>3, <1>4, <2>2, <2>3 DEF PickupTypeOK
  <2>7. QED
    BY <2>5, <2>6
<1>7. CASE tdce' # <<>>
  <2>1. n \in 1 .. n /\ Len(tdce') = n
    BY <1>3, <1>4, <1>7
  <2>2. tdce'[Len(tdce')] = n * step - behind
    BY <1>4, <2>1
  <2>3. /\ behind' = e - (n * step - behind)
        /\ lastShown' = e - (n * step - behind)
        /\ steady' = step
    BY <1>7, <2>2 DEF ContinueFrom
  <2>4. behind' \in 0 .. MaxBehind /\ lastShown' \in 0 .. MaxBehind
    BY <1>1, <1>3, <1>5, <2>3, PickupAssumption
  <2>5. n < Capacity => behind' <= step
    BY <1>1, <1>3, <1>5, <2>3
  <2>6. GoesOnFromTheLast'
    BY <1>1, <1>2, <1>4, <2>3, <2>5 DEF GoesOnFromTheLast, Capacity, Header
  <2>7. PickupTypeOK'
    BY <1>1, <1>2, <1>3, <1>4, <2>3, <2>4 DEF PickupTypeOK
  <2>8. QED
    BY <2>6, <2>7
<1>8. QED
  BY <1>6, <1>7

LEMMA PickupsKeep == PickupInv /\ [PickupsNext]_pickupVars => PickupInv'
<1> SUFFICES ASSUME PickupInv, [PickupsNext]_pickupVars PROVE PickupInv'
  OBVIOUS
<1>1. CASE SetSpeed
  BY <1>1, PickupAssumption DEF SetSpeed, PickupInv, PickupTypeOK, GoesOnFromTheLast
<1>2. ASSUME NEW e \in Elapsed, Generate(e) PROVE PickupInv'
  BY <1>2, GenerateKeeps
<1>3. ASSUME NEW e \in Elapsed, StartOver(e) PROVE PickupInv'
  BY <1>3, PickupAssumption DEF StartOver, PickupInv, PickupTypeOK, GoesOnFromTheLast
<1>4. CASE UNCHANGED pickupVars
  BY <1>4 DEF pickupVars, PickupInv, PickupTypeOK, GoesOnFromTheLast, Capacity, Header
<1>5. QED
  BY <1>1, <1>2, <1>3, <1>4 DEF PickupsNext, RunPickups

LEMMA PickupsInvariant == PickupsSpec => []PickupInv
  BY PickupInitial, PickupsKeep, PTL DEF PickupsSpec

-----------------------------------------------------------------------------
(* Whatever the speeds and periods are, the array that is published has     *)
(* room in its process variable (facade-chopper-dornier.py:68-70).          *)
THEOREM PickupsTyped == PickupsSpec => []PickupTypeOK
<1>1. PickupInv => PickupTypeOK
  BY DEF PickupInv
<1>2. QED
  BY <1>1, PickupsInvariant, PTL

(* A step that publishes at a steady speed is a run of the thread.          *)
LEMMA PublishesAfter ==
  ASSUME PickupInv, PickupsNext, Publishes, steady = step
  PROVE  /\ tdce'[1] = step - behind
         /\ steady # 0
         /\ step \in Nat /\ behind \in Nat
<1>1. step \in Nat /\ step > 0 /\ behind \in Nat
  BY PickupAssumption DEF PickupInv, PickupTypeOK, Publishes
<1>2. PICK e \in Elapsed : Generate(e)
  BY <1>1 DEF PickupsNext, RunPickups, SetSpeed, StartOver, Publishes
<1>3. e \in Int /\ e > 0 /\ tdce' = Pickups(e)
  BY <1>2, PickupAssumption DEF Generate
<1>4. /\ tdce' \in Seq(Int) /\ Len(tdce') = Number(e)
      /\ \A k \in 1 .. Number(e) : tdce'[k] = k * step - behind
  BY <1>1, <1>3, PickupsAreSo
<1>5. 1 \in 1 .. Number(e)
  BY <1>4 DEF Publishes
<1>6. tdce'[1] = 1 * step - behind
  BY <1>4, <1>5
<1>7. QED
  BY <1>1, <1>6

(* At a steady speed each published pickup is one turn after the one before *)
(* it, whatever the periods and the size of the array                       *)
(* (facade-chopper-dornier.py:61-73).                                       *)
THEOREM TheTrainIsUnbroken == PickupsSpec => TrainIsUnbroken
<1>1. ASSUME PickupInv, PickupsNext, Publishes, steady = step
      PROVE  tdce'[1] + lastShown = step
  <2>1. /\ tdce'[1] = step - behind /\ steady # 0
        /\ step \in Nat /\ behind \in Nat
    BY <1>1, PublishesAfter
  <2>2. lastShown = behind
    BY <1>1, <2>1 DEF PickupInv, GoesOnFromTheLast
  <2>3. QED
    BY <2>1, <2>2
<1>2. PickupInv /\ [PickupsNext]_pickupVars
        => [Publishes /\ steady = step => tdce'[1] + lastShown = step]_pickupVars
  BY <1>1
<1>3. QED
  BY <1>2, PickupsInvariant, PTL DEF PickupsSpec, TrainIsUnbroken

(* Only a full array or a change of speed puts pickups before the period    *)
(* they are published for (facade-chopper-dornier.py:48-67).                *)
THEOREM NoneIsOfAnEarlierPeriod == PickupsSpec => NoEarlierPeriods
<1>1. ASSUME PickupInv, PickupsNext, Publishes, steady = step, Len(tdce) < Capacity
      PROVE  tdce'[1] >= 0
  <2>1. /\ tdce'[1] = step - behind /\ steady # 0
        /\ step \in Nat /\ behind \in Nat
    BY <1>1, PublishesAfter
  <2>2. behind <= step
    BY <1>1, <2>1 DEF PickupInv, GoesOnFromTheLast
  <2>3. QED
    BY <2>1, <2>2
<1>2. PickupInv /\ [PickupsNext]_pickupVars
        => [Publishes /\ steady = step /\ Len(tdce) < Capacity => tdce'[1] >= 0]_pickupVars
  BY <1>1
<1>3. QED
  BY <1>2, PickupsInvariant, PTL DEF PickupsSpec, NoEarlierPeriods

(* Each run at a speed for which the array is large enough makes up for     *)
(* some of what was cut off before, until nothing is left.                  *)
BacklogShrinks ==
  Fits(step) /\ RunPickups => behind' < behind \/ behind' <= step

(* What did not fit into the array grows less with every run of the thread  *)
(* as long as the disc keeps a speed at which more pickups fit than pass    *)
(* between two runs, and once the last pickup published is no more than a   *)
(* turn back it stays so: the safety part of BacklogIsPublished             *)
(* (facade-chopper-dornier.py:64-73).                                       *)
THEOREM TheBacklogShrinks == PickupsSpec => [][BacklogShrinks]_pickupVars
<1>1. ASSUME PickupInv, Fits(step), RunPickups
      PROVE  behind' < behind \/ behind' <= step
  <2>1. step \in Nat /\ step > 0 /\ behind \in Nat
    BY <1>1, PickupAssumption DEF PickupInv, PickupTypeOK, Fits
  <2>2. PICK e \in Elapsed : Generate(e) \/ StartOver(e)
    BY <1>1 DEF RunPickups
  <2>3. CASE StartOver(e)
    BY <2>1, <2>3 DEF StartOver
  <2>4. CASE Generate(e)
    <3>1. e \in Int /\ e > 0 /\ tdce' = Pickups(e)
      BY <2>4, PickupAssumption DEF Generate
    <3>2. e < step * Capacity
      BY <1>1 DEF Fits
    <3> DEFINE n == Number(e)
    <3>3. /\ n \in Nat /\ n <= Capacity
          /\ n < Capacity => behind + e <= n * step + step
      BY <2>1, <3>1, NumberFits
    <3>4. /\ Len(tdce') = n
          /\ tdce' \in Seq(Int)
          /\ \A k \in 1 .. n : tdce'[k] = k * step - behind
      BY <2>1, <3>1, PickupsAreSo
    <3> HIDE DEF n
    <3>5. n * step \in Nat
      BY <2>1, <3>3
    <3>6. behind' = behind + e - n * step
      <4>1. CASE tdce' = <<>>
        <5>1. n = 0 /\ n * step = 0
          BY <2>1, <3>4, <4>1
        <5> QED BY <2>1, <2>4, <3>1, <4>1, <5>1 DEF Generate, ContinueFrom
      <4>2. CASE tdce' # <<>>
        <5>1. n \in 1 .. n
          BY <3>3, <3>4, <4>2
        <5>2. tdce'[Len(tdce')] = n * step - behind
          BY <3>4, <5>1
        <5> QED
          BY <2>1, <2>4, <3>1, <3>5, <4>2, <5>2 DEF Generate, ContinueFrom
      <4> QED BY <4>1, <4>2
    <3>7. CASE n < Capacity
      BY <2>1, <3>1, <3>3, <3>5, <3>6, <3>7
    <3>8. CASE n = Capacity
      <4>1. n * step = step * Capacity
        <5>1. Capacity \in Nat
          BY PickupAssumption DEF Capacity, Header
        <5> QED BY <2>1, <3>8, <5>1
      <4> QED BY <2>1, <3>1, <3>2, <3>5, <3>6, <4>1
    <3> QED
      BY <3>3, <3>7, <3>8, PickupAssumption DEF Capacity, Header
  <2> QED BY <2>2, <2>3, <2>4
<1>2. PickupInv /\ [PickupsNext]_pickupVars => [BacklogShrinks]_pickupVars
  BY <1>1 DEF BacklogShrinks
<1> QED BY <1>2, PickupsInvariant, PTL DEF PickupsSpec

=============================================================================
