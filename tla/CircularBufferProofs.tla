------------------------ MODULE CircularBufferProofs ------------------------
(* Theorems about the circular buffer, for every capacity and every set of *)
(* entries.                                                                *)
EXTENDS CircularBuffer, SequenceFacts

(* Advance is increment with wrap-around, without division. *)
LEMMA AdvanceWraps ==
  ASSUME NEW offs \in Slots
  PROVE  Advance(offs) = IF offs + 1 = MaxWriteOps THEN 0 ELSE offs + 1
  <1>1. MaxWriteOps \in Nat /\ MaxWriteOps > 0
    BY MaxWriteOpsAssumption
  <1>2. CASE offs + 1 = MaxWriteOps
    BY <1>1, <1>2 DEF Advance, Slots
  <1>3. CASE offs + 1 < MaxWriteOps
    BY <1>1, <1>3 DEF Advance, Slots
  <1>4. QED
    BY <1>1, <1>2, <1>3 DEF Slots

(* The slot arithmetic of the search loop, again without division. *)
LEMMA SlotSumWraps ==
  ASSUME NEW i \in Slots, NEW j \in Slots
  PROVE  /\ (i + j) % MaxWriteOps
               = IF i + j < MaxWriteOps THEN i + j ELSE i + j - MaxWriteOps
         /\ (i + j) % MaxWriteOps \in Slots
  <1>1. MaxWriteOps \in Nat /\ MaxWriteOps > 0
    BY MaxWriteOpsAssumption
  <1>2. CASE i + j < MaxWriteOps
    BY <1>1, <1>2 DEF Slots
  <1>3. CASE i + j >= MaxWriteOps
    BY <1>1, <1>3 DEF Slots
  <1>4. QED
    BY <1>1, <1>2, <1>3 DEF Slots

-----------------------------------------------------------------------------
(* Typing. *)

LEMMA AddKeepsTypes ==
  ASSUME TypeOK, NEW e \in Entries, aesd_circular_buffer_add_entry(e)
  PROVE  TypeOK'
  <1>1. Advance(in_offs) \in Slots /\ Advance(out_offs) \in Slots
    BY AdvanceWraps, MaxWriteOpsAssumption DEF TypeOK, Slots
  <1>2. Overwrites \in BOOLEAN
    BY DEF Overwrites
  <1>3. (full' = TRUE \/ full' = full) /\ full' \in BOOLEAN
    BY <1>2, Zenon DEF aesd_circular_buffer_add_entry, TypeOK
  <1>4. QED
    BY <1>1, <1>3 DEF aesd_circular_buffer_add_entry, TypeOK

LEMMA EmptyIsTyped == aesd_circular_buffer_init => TypeOK
  <1>1. 0 \in Slots
    BY MaxWriteOpsAssumption DEF Slots
  <1>2. QED
    BY <1>1 DEF aesd_circular_buffer_init, TypeOK

(* No operation moves an index outside the array or stores anything but a  *)
(* caller's entry: type correctness of aesd_circular_buffer_add_entry.     *)
THEOREM TypeCorrect == Spec => []TypeOK
  <1>1. Init => TypeOK
    BY EmptyIsTyped DEF Init
  <1>2. TypeOK /\ [Next]_bufferVars => TypeOK'
    <2>1. TypeOK /\ Next => TypeOK'
      BY AddKeepsTypes DEF Next
    <2>2. TypeOK /\ UNCHANGED bufferVars => TypeOK'
      BY DEF bufferVars, TypeOK
    <2>3. QED
      BY <2>1, <2>2
  <1>3. QED
    BY <1>1, <1>2, PTL DEF Spec

-----------------------------------------------------------------------------
(* The shape of the ring. *)

(* An added entry is in use. *)
LEMMA AddFillsItsSlot ==
  ASSUME TypeOK, NEW e \in Entries, aesd_circular_buffer_add_entry(e)
  PROVE  \A i \in Slots : Occupied(i)' <=> (i = in_offs \/ Occupied(i))
  <1>1. entry' = [entry EXCEPT ![in_offs] = e]
    BY DEF aesd_circular_buffer_add_entry
  <1>2. e.size > 0
    BY EntriesAssumption
  <1>3. QED
    BY <1>1, <1>2 DEF TypeOK, Occupied

LEMMA EmptyHasShape == aesd_circular_buffer_init => RingShape
  BY MaxWriteOpsAssumption
  DEF aesd_circular_buffer_init, RingShape, Occupied, NoEntry, Slots

LEMMA AddKeepsShape ==
  ASSUME TypeOK, RingShape, NEW e \in Entries,
         aesd_circular_buffer_add_entry(e)
  PROVE  RingShape'
  <1>1. /\ \A i \in Slots : Occupied(i)' <=> (i = in_offs \/ Occupied(i))
        /\ in_offs' = Advance(in_offs)
        /\ full' = (full \/ Overwrites)
        /\ out_offs' = IF Overwrites THEN Advance(out_offs) ELSE out_offs
    BY AddFillsItsSlot DEF aesd_circular_buffer_add_entry
  <1>2. in_offs \in Slots /\ out_offs \in Slots /\ in_offs' \in Slots
    BY <1>1, AdvanceWraps, MaxWriteOpsAssumption DEF TypeOK, Slots
  <1>3. CASE Occupied(in_offs)
    <2>1. Overwrites /\ out_offs = in_offs
      BY <1>3 DEF RingShape, Overwrites, Occupied
    <2>2. out_offs' = in_offs' /\ \A i \in Slots : Occupied(i)'
      BY <1>1, <1>2, <1>3, <2>1 DEF RingShape
    <2>3. (Occupied(in_offs))'
      BY <1>2, <2>2 DEF Occupied
    <2>4. QED
      BY <2>2, <2>3 DEF RingShape, Occupied
  <1>4. CASE ~Occupied(in_offs)
    <2>1. ~Overwrites /\ out_offs' = 0 /\ ~full /\ ~full'
      <3>1. ~Overwrites
        BY <1>4 DEF Overwrites, Occupied
      <3>2. ~full
        BY <1>4 DEF RingShape
      <3>3. QED
        BY <1>1, <1>4, <3>1, <3>2 DEF RingShape
    <2>2. \A i \in Slots : Occupied(i)' <=> i <= in_offs
      BY <1>1, <1>2, <1>4 DEF RingShape, Slots
    <2>3. CASE in_offs + 1 = MaxWriteOps
      <3>1. in_offs' = 0 /\ \A i \in Slots : Occupied(i)'
        BY <1>1, <1>2, <2>2, <2>3, AdvanceWraps, MaxWriteOpsAssumption
        DEF Slots
      <3>2. (Occupied(in_offs))'
        BY <1>2, <3>1 DEF Occupied
      <3>3. QED
        BY <2>1, <3>1, <3>2 DEF RingShape, Occupied
    <2>4. CASE in_offs + 1 # MaxWriteOps
      <3>1. in_offs' = in_offs + 1
        BY <1>1, <1>2, <2>4, AdvanceWraps
      <3>2. \A i \in Slots : Occupied(i)' <=> i < in_offs'
        BY <1>2, <2>2, <3>1 DEF Slots
      <3>3. ~(Occupied(in_offs))'
        BY <1>2, <3>1, <3>2 DEF Occupied, Slots
      <3>4. QED
        BY <2>1, <3>2, <3>3 DEF RingShape, Occupied
    <2>5. QED
      BY <2>3, <2>4
  <1>5. QED
    BY <1>3, <1>4

(* The two shapes of the ring are the only ones, however many entries were *)
(* added: the indices never drift apart and the flag never claims a        *)
(* saturated ring that has room.                                           *)
THEOREM RingKeepsItsShape == Spec => []RingShape
  <1>1. Init => RingShape
    BY EmptyHasShape DEF Init
  <1>2. TypeOK /\ RingShape /\ [Next]_bufferVars => RingShape'
    <2>1. TypeOK /\ RingShape /\ Next => RingShape'
      BY AddKeepsShape DEF Next
    <2>2. RingShape /\ UNCHANGED bufferVars => RingShape'
      BY DEF bufferVars, RingShape, Occupied
    <2>3. QED
      BY <2>1, <2>2
  <1>3. QED
    BY <1>1, <1>2, TypeCorrect, PTL DEF Spec

-----------------------------------------------------------------------------
(* Refinement of the command log. *)

(* The commands held are a sequence of callers' entries, one per slot used. *)
LEMMA KeptIsASequence ==
  ASSUME TypeOK, RingShape
  PROVE  /\ Count \in 0 .. MaxWriteOps
         /\ Kept \in Seq(Entries)
         /\ Len(Kept) = Count
  <1>1. Count \in 0 .. MaxWriteOps
    BY MaxWriteOpsAssumption DEF Count, TypeOK, Slots
  <1>2. ASSUME NEW k \in 1 .. Count
        PROVE  entry[LogicalSlot(k - 1)] \in Entries
    <2>1. k - 1 \in Slots
      BY <1>1, MaxWriteOpsAssumption DEF Slots
    <2>2. LogicalSlot(k - 1) \in Slots
      BY <2>1, SlotSumWraps DEF TypeOK, LogicalSlot
    <2>3. Occupied(LogicalSlot(k - 1))
      <3>1. CASE Occupied(in_offs)
        BY <2>2, <3>1 DEF RingShape
      <3>2. CASE ~Occupied(in_offs)
        <4>1. out_offs = 0 /\ k - 1 < in_offs
          BY <1>1, <3>2 DEF RingShape, Count, TypeOK, Slots
        <4>2. LogicalSlot(k - 1) = k - 1
          BY <2>1, <4>1, MaxWriteOpsAssumption DEF LogicalSlot, Slots
        <4>3. QED
          BY <2>1, <3>2, <4>1, <4>2 DEF RingShape
      <3>3. QED
        BY <3>1, <3>2
    <2>4. entry[LogicalSlot(k - 1)] # NoEntry
      BY <2>3 DEF Occupied, NoEntry
    <2>5. QED
      BY <2>2, <2>4 DEF TypeOK
  <1>3. QED
    BY <1>1, <1>2 DEF Kept

(* Overwriting the oldest entry of a saturated ring drops the head of the  *)
(* log and puts the new entry last.                                        *)
LEMMA AddToSaturated ==
  ASSUME TypeOK, RingShape, NEW e \in Entries,
         aesd_circular_buffer_add_entry(e), Occupied(in_offs)
  PROVE  /\ Count = MaxWriteOps /\ Count' = MaxWriteOps
         /\ Kept' = Append(Tail(Kept), e)
  <1>1. /\ in_offs \in Slots
        /\ out_offs = in_offs
        /\ entry' = [entry EXCEPT ![in_offs] = e]
        /\ in_offs' = Advance(in_offs)
        /\ out_offs' = Advance(in_offs)
    BY DEF RingShape, Overwrites, Occupied, TypeOK,
           aesd_circular_buffer_add_entry
  <1>2. /\ MaxWriteOps \in Nat /\ MaxWriteOps > 0
        /\ in_offs' \in Slots
    BY <1>1, AdvanceWraps, MaxWriteOpsAssumption DEF Slots
  <1>3. Count = MaxWriteOps /\ Count' = MaxWriteOps
    <2>1. (Occupied(in_offs))'
      BY <1>2, AddFillsItsSlot DEF Occupied, RingShape
    <2>2. QED
      BY <2>1 DEF Count
  <1>4. Append(Tail(Kept), e)
          = [k \in 1 .. MaxWriteOps |->
               IF k = MaxWriteOps THEN e ELSE Kept[k + 1]]
    <2>1. Kept \in Seq(Entries) /\ Len(Kept) = MaxWriteOps /\ Kept # << >>
      BY <1>2, <1>3, KeptIsASequence
    <2>2. QED
      BY <2>1, ShiftPointwise
  <1>5. ASSUME NEW k \in 1 .. MaxWriteOps
        PROVE  entry'[(k - 1 + out_offs') % MaxWriteOps]
                 = IF k = MaxWriteOps THEN e ELSE Kept[k + 1]
    <2>1. k - 1 \in Slots
      BY <1>2 DEF Slots
    <2>2. CASE k = MaxWriteOps
      <3>1. (k - 1 + out_offs') % MaxWriteOps = in_offs
        <4>1. /\ out_offs' \in Slots
              /\ out_offs' = IF in_offs + 1 = MaxWriteOps
                             THEN 0 ELSE in_offs + 1
          BY <1>1, <1>2, AdvanceWraps
        <4>2. (k - 1 + out_offs') % MaxWriteOps
                = IF k - 1 + out_offs' < MaxWriteOps
                  THEN k - 1 + out_offs' ELSE k - 1 + out_offs' - MaxWriteOps
          BY <2>1, <4>1, SlotSumWraps
        <4>3. QED
          BY <1>1, <1>2, <2>2, <4>1, <4>2 DEF Slots
      <3>2. QED
        BY <1>1, <2>2, <3>1 DEF TypeOK
    <2>3. CASE k # MaxWriteOps
      <3>1. k \in Slots
        BY <1>2, <2>3 DEF Slots
      <3>2. /\ (k - 1 + out_offs') % MaxWriteOps
                 = (k + out_offs) % MaxWriteOps
            /\ (k + out_offs) % MaxWriteOps # in_offs
            /\ (k + out_offs) % MaxWriteOps \in Slots
        <4>1. /\ out_offs' \in Slots
              /\ out_offs' = IF in_offs + 1 = MaxWriteOps
                             THEN 0 ELSE in_offs + 1
          BY <1>1, <1>2, AdvanceWraps
        <4>2. (k - 1 + out_offs') % MaxWriteOps
                = IF k - 1 + out_offs' < MaxWriteOps
                  THEN k - 1 + out_offs' ELSE k - 1 + out_offs' - MaxWriteOps
          BY <2>1, <4>1, SlotSumWraps
        <4>3. /\ (k + in_offs) % MaxWriteOps
                   = IF k + in_offs < MaxWriteOps
                     THEN k + in_offs ELSE k + in_offs - MaxWriteOps
              /\ (k + in_offs) % MaxWriteOps \in Slots
          BY <1>1, <3>1, SlotSumWraps
        <4>4. (k + in_offs) % MaxWriteOps # in_offs
          BY <1>1, <1>2, <3>1, <4>3 DEF Slots
        <4>5. (k - 1 + out_offs') % MaxWriteOps = (k + in_offs) % MaxWriteOps
          BY <1>1, <1>2, <3>1, <4>1, <4>2, <4>3 DEF Slots
        <4>6. QED
          BY <1>1, <4>3, <4>4, <4>5
      <3>3. Kept[k + 1] = entry[(k + out_offs) % MaxWriteOps]
        BY <1>2, <1>3, <2>3 DEF Kept, LogicalSlot
      <3>4. QED
        BY <1>1, <2>3, <3>2, <3>3 DEF TypeOK
    <2>4. QED
      BY <2>2, <2>3
  <1>6. Kept' = [k \in 1 .. MaxWriteOps |->
                   entry'[(k - 1 + out_offs') % MaxWriteOps]]
    BY <1>3 DEF Kept, LogicalSlot
  <1>7. Kept' = Append(Tail(Kept), e)
    BY <1>4, <1>5, <1>6
  <1>8. QED
    BY <1>3, <1>7

(* While the ring is filling, an add puts the new entry last and drops     *)
(* nothing.                                                                *)
LEMMA AddToFilling ==
  ASSUME TypeOK, RingShape, NEW e \in Entries,
         aesd_circular_buffer_add_entry(e), ~Occupied(in_offs)
  PROVE  /\ Count < MaxWriteOps /\ Count' = Count + 1
         /\ Kept' = Append(Kept, e)
  <1>1. /\ in_offs \in Slots
        /\ out_offs = 0
        /\ entry' = [entry EXCEPT ![in_offs] = e]
        /\ in_offs' = Advance(in_offs)
        /\ out_offs' = 0
    BY DEF RingShape, Overwrites, Occupied, TypeOK,
           aesd_circular_buffer_add_entry
  <1>2. MaxWriteOps \in Nat /\ MaxWriteOps > 0 /\ in_offs' \in Slots
    BY <1>1, AdvanceWraps, MaxWriteOpsAssumption DEF Slots
  <1>3. Count = in_offs /\ Count' = in_offs + 1
    <2>1. CASE in_offs + 1 = MaxWriteOps
      <3>1. in_offs' = 0
        BY <1>1, <2>1, AdvanceWraps
      <3>2. (Occupied(in_offs))'
        BY <1>1, <1>2, <2>1, <3>1, AddFillsItsSlot
        DEF Occupied, RingShape, Slots
      <3>3. QED
        BY <2>1, <3>2 DEF Count
    <2>2. CASE in_offs + 1 # MaxWriteOps
      <3>1. in_offs' = in_offs + 1
        BY <1>1, <2>2, AdvanceWraps
      <3>2. ~(Occupied(in_offs))'
        BY <1>1, <1>2, <3>1, AddFillsItsSlot DEF Occupied, RingShape, Slots
      <3>3. QED
        BY <3>1, <3>2 DEF Count
    <2>3. QED
      BY <2>1, <2>2
  <1>4. Append(Kept, e)
          = [k \in 1 .. in_offs + 1 |->
               IF k = in_offs + 1 THEN e ELSE Kept[k]]
    <2>1. Kept \in Seq(Entries) /\ Len(Kept) = in_offs
      BY <1>3, KeptIsASequence
    <2>2. QED
      BY <2>1, AppendPointwise
  <1>5. ASSUME NEW k \in 1 .. in_offs + 1
        PROVE  entry'[(k - 1 + out_offs') % MaxWriteOps]
                 = IF k = in_offs + 1 THEN e ELSE Kept[k]
    <2>1. k - 1 \in Slots /\ (k - 1 + 0) % MaxWriteOps = k - 1
      BY <1>1, <1>2 DEF Slots
    <2>2. CASE k = in_offs + 1
      BY <1>1, <2>1, <2>2 DEF TypeOK, Slots
    <2>3. CASE k # in_offs + 1
      <3>1. Kept[k] = entry[k - 1]
        BY <1>1, <1>3, <2>1, <2>3 DEF Kept, LogicalSlot, Slots
      <3>2. QED
        BY <1>1, <2>1, <2>3, <3>1 DEF TypeOK, Slots
    <2>4. QED
      BY <2>2, <2>3
  <1>6. Kept' = [k \in 1 .. in_offs + 1 |->
                   entry'[(k - 1 + out_offs') % MaxWriteOps]]
    BY <1>3 DEF Kept, LogicalSlot
  <1>7. Kept' = Append(Kept, e)
    BY <1>4, <1>5, <1>6
  <1>8. QED
    BY <1>1, <1>2, <1>3, <1>7 DEF Slots

(* The ring implements the command log: after any number of adds, reading  *)
(* from out_offs yields the most recent MaxWriteOps entries in the order   *)
(* aesd_circular_buffer_add_entry received them.                           *)
THEOREM ImplementsCommandLog == Spec => KeepsMostRecent
  <1>1. Init => Log!Init
    <2> SUFFICES ASSUME Init PROVE Log!Init
      OBVIOUS
    <2>1. Count = 0
      BY MaxWriteOpsAssumption
      DEF Init, aesd_circular_buffer_init, Count, Occupied, NoEntry, Slots
    <2>2. QED
      BY <2>1 DEF Log!Init, Kept
  <1>2. TypeOK /\ RingShape /\ [Next]_bufferVars => [Log!Next]_Kept
    <2> SUFFICES ASSUME TypeOK, RingShape, [Next]_bufferVars
                 PROVE  [Log!Next]_Kept
      OBVIOUS
    <2>1. ASSUME NEW e \in Entries, aesd_circular_buffer_add_entry(e)
          PROVE  Log!Add(e)
      <3>1. Len(Kept) = Count /\ MaxWriteOps \in Nat
        BY KeptIsASequence, MaxWriteOpsAssumption
      <3>2. CASE Occupied(in_offs)
        <4>1. Count = MaxWriteOps /\ Kept' = Append(Tail(Kept), e)
          BY <2>1, <3>2, AddToSaturated DEF Count
        <4>2. QED
          BY <3>1, <4>1 DEF Log!Add, Log!Remember
      <3>3. CASE ~Occupied(in_offs)
        BY <2>1, <3>1, <3>3, AddToFilling DEF Log!Add, Log!Remember
      <3>4. QED
        BY <3>2, <3>3
    <2>2. CASE UNCHANGED bufferVars
      BY <2>2 DEF bufferVars, Kept, Count, Occupied, LogicalSlot
    <2>3. QED
      BY <2>1, <2>2 DEF Next, Log!Next
  <1>3. QED
    BY <1>1, <1>2, TypeCorrect, RingKeepsItsShape, PTL
    DEF Spec, KeepsMostRecent, Log!Spec

-----------------------------------------------------------------------------
(* The search. *)

(* The equation solved by the running sum of the search loop. *)
OffsetStep(n, g) ==
  [j \in 0 .. n |->
     IF j = 0 THEN 0 ELSE g[j - 1] + entry[LogicalSlot(j - 1)].size]

LEMMA OffsetsExist == \A n \in Nat : \E g : g = OffsetStep(n, g)
  <1> DEFINE T == {n \in Nat : \E g : g = OffsetStep(n, g)}
  <1>1. 0 \in T
    <2> DEFINE e == [j \in 0 .. 0 |-> 0]
    <2>1. e = OffsetStep(0, e)
      BY DEF OffsetStep
    <2>2. QED
      BY <2>1
  <1>2. ASSUME NEW n \in Nat, n \in T PROVE n + 1 \in T
    <2>1. PICK g : g = OffsetStep(n, g)
      BY <1>2
    <2> DEFINE h == [j \in 0 .. n + 1 |->
                       IF j = n + 1 THEN g[n] + entry[LogicalSlot(n)].size
                                    ELSE g[j]]
    <2>2. ASSUME NEW j \in 0 .. n + 1
          PROVE  h[j] = IF j = 0 THEN 0
                                 ELSE h[j - 1] + entry[LogicalSlot(j - 1)].size
      <3>1. CASE j = n + 1
        <4>1. j # 0 /\ j - 1 = n /\ n \in 0 .. n + 1 /\ n # n + 1
          BY <3>1
        <4>2. QED
          BY <3>1, <4>1
      <3>2. CASE j # n + 1
        <4>1. j \in 0 .. n /\ (j # 0 => j - 1 \in 0 .. n + 1 /\ j - 1 # n + 1)
          BY <3>2
        <4>2. g[j] = IF j = 0 THEN 0
                              ELSE g[j - 1] + entry[LogicalSlot(j - 1)].size
          BY <2>1, <4>1 DEF OffsetStep
        <4>3. QED
          BY <3>2, <4>1, <4>2
      <3>3. QED
        BY <3>1, <3>2
    <2> HIDE DEF h
    <2>3. h = OffsetStep(n + 1, h)
      <3>1. h = [j \in 0 .. n + 1 |-> h[j]]
        BY DEF h
      <3>2. QED
        BY <2>2, <3>1 DEF OffsetStep
    <2>4. QED
      BY <2>3
  <1> HIDE DEF T
  <1>3. Nat \subseteq T
    BY <1>1, <1>2, NatInd
  <1>4. QED
    BY <1>3 DEF T

(* CumulativeOffset is the last value of a solution. *)
LEMMA OffsetIs ==
  ASSUME NEW n \in Nat
  PROVE  \E g : g = OffsetStep(n, g) /\ CumulativeOffset(n) = g[n]
  <1> DEFINE f == CHOOSE g : g = OffsetStep(n, g)
  <1>1. f = OffsetStep(n, f)
    BY OffsetsExist
  <1>2. CumulativeOffset(n) = f[n]
    BY DEF CumulativeOffset, OffsetStep
  <1> HIDE DEF f
  <1>3. QED
    BY <1>1, <1>2

(* Solutions of different lengths agree where both are defined. *)
LEMMA OffsetsAgree ==
  ASSUME NEW n \in Nat, NEW m \in Nat, n <= m,
         NEW g, g = OffsetStep(n, g), NEW h, h = OffsetStep(m, h)
  PROVE  g[n] = h[n]
  <1> DEFINE T == {j \in Nat : j <= n => g[j] = h[j]}
  <1>1. /\ \A j \in 0 .. n :
             g[j] = IF j = 0 THEN 0
                             ELSE g[j - 1] + entry[LogicalSlot(j - 1)].size
        /\ \A j \in 0 .. m :
             h[j] = IF j = 0 THEN 0
                             ELSE h[j - 1] + entry[LogicalSlot(j - 1)].size
    BY DEF OffsetStep
  <1>2. 0 \in T
    BY <1>1
  <1>3. ASSUME NEW j \in Nat, j \in T PROVE j + 1 \in T
    <2> SUFFICES ASSUME j + 1 <= n PROVE g[j + 1] = h[j + 1]
      BY <1>3
    <2>1. g[j] = h[j]
      BY <1>3
    <2>2. /\ j + 1 \in 0 .. n /\ j + 1 \in 0 .. m /\ j + 1 # 0
          /\ (j + 1) - 1 = j
      OBVIOUS
    <2>3. QED
      BY <1>1, <2>1, <2>2
  <1> HIDE DEF T
  <1>4. Nat \subseteq T
    BY <1>2, <1>3, NatInd
  <1>5. QED
    BY <1>4 DEF T

(* One turn of the loop: cumulative_offset grows by the size it passes. *)
LEMMA OffsetRecurrence ==
  /\ CumulativeOffset(0) = 0
  /\ \A n \in Nat : CumulativeOffset(n + 1)
                      = CumulativeOffset(n) + entry[LogicalSlot(n)].size
  <1>1. CumulativeOffset(0) = 0
    <2>1. PICK g : g = OffsetStep(0, g) /\ CumulativeOffset(0) = g[0]
      BY OffsetIs
    <2>2. QED
      BY <2>1 DEF OffsetStep
  <1>2. ASSUME NEW n \in Nat
        PROVE  CumulativeOffset(n + 1)
                 = CumulativeOffset(n) + entry[LogicalSlot(n)].size
    <2>1. PICK g : g = OffsetStep(n, g) /\ CumulativeOffset(n) = g[n]
      BY OffsetIs
    <2>2. PICK h : /\ h = OffsetStep(n + 1, h)
                   /\ CumulativeOffset(n + 1) = h[n + 1]
      <3>1. n + 1 \in Nat
        OBVIOUS
      <3>2. QED
        BY <3>1, OffsetIs
    <2>3. g[n] = h[n]
      BY <2>1, <2>2, OffsetsAgree
    <2>4. n + 1 \in 0 .. n + 1 /\ n + 1 # 0 /\ (n + 1) - 1 = n
      OBVIOUS
    <2>5. h[n + 1] = h[n] + entry[LogicalSlot(n)].size
      BY <2>2, <2>4 DEF OffsetStep
    <2>6. QED
      BY <2>1, <2>2, <2>3, <2>5
  <1>3. QED
    BY <1>1, <1>2

(* No turn of the loop goes past the total, which is reached after the     *)
(* Count entries in use: the slots visited after them are empty.           *)
LEMMA OffsetsGrow ==
  ASSUME TypeOK, RingShape
  PROVE  \A n \in 0 .. MaxWriteOps :
           /\ CumulativeOffset(n) \in Nat
           /\ CumulativeOffset(n) <= CumulativeOffset(Count)
  <1>0. Count \in 0 .. MaxWriteOps /\ MaxWriteOps \in Nat
    BY KeptIsASequence, MaxWriteOpsAssumption
  <1>1. ASSUME NEW n \in Slots
        PROVE  /\ LogicalSlot(n) \in Slots
               /\ entry[LogicalSlot(n)].size \in Nat
               /\ n >= Count => entry[LogicalSlot(n)].size = 0
    <2>1. LogicalSlot(n) \in Slots
      BY SlotSumWraps DEF LogicalSlot, TypeOK
    <2>2. entry[LogicalSlot(n)].size \in Nat
      <3>1. entry[LogicalSlot(n)] \in Entries \cup {NoEntry}
        BY <2>1 DEF TypeOK
      <3>2. QED
        BY <3>1, EntriesAssumption DEF NoEntry
    <2>3. ASSUME n >= Count PROVE entry[LogicalSlot(n)].size = 0
      <3>1. ~Occupied(in_offs)
        BY <1>0, <2>3 DEF Count, Slots
      <3>2. out_offs = 0 /\ Count = in_offs
        BY <3>1 DEF RingShape, Count
      <3>3. LogicalSlot(n) = n
        BY <1>0, <3>2 DEF LogicalSlot, Slots
      <3>4. ~Occupied(n)
        BY <2>3, <3>1, <3>2 DEF RingShape, Slots, TypeOK
      <3>5. QED
        BY <2>2, <3>3, <3>4 DEF Occupied
    <2>4. QED
      BY <2>1, <2>2, <2>3
  <1> DEFINE off(n) == CumulativeOffset(n)
  <1>2. /\ off(0) = 0
        /\ \A n \in Slots : off(n + 1) = off(n) + entry[LogicalSlot(n)].size
    BY <1>0, OffsetRecurrence DEF Slots
  <1> HIDE DEF off
  <1>3. \A n \in 0 .. MaxWriteOps : off(n) \in Nat
    <2> DEFINE T == {n \in Nat : n <= MaxWriteOps => off(n) \in Nat}
    <2>1. 0 \in T
      BY <1>2
    <2>2. ASSUME NEW n \in Nat, n \in T PROVE n + 1 \in T
      <3> SUFFICES ASSUME n + 1 <= MaxWriteOps PROVE off(n + 1) \in Nat
        BY <2>2
      <3>1. n \in Slots /\ off(n) \in Nat
        BY <1>0, <2>2 DEF Slots
      <3>2. QED
        BY <1>1, <1>2, <3>1
    <2> HIDE DEF T
    <2>3. Nat \subseteq T
      BY <2>1, <2>2, NatInd
    <2>4. QED
      BY <1>0, <2>3 DEF T
  <1>4. ASSUME NEW n \in 0 .. Count PROVE off(n) <= off(Count)
    <2> DEFINE T == {k \in Nat : k <= Count => off(Count - k) <= off(Count)}
    <2>1. 0 \in T
      BY <1>0, <1>3
    <2>2. ASSUME NEW k \in Nat, k \in T PROVE k + 1 \in T
      <3> SUFFICES ASSUME k + 1 <= Count
                   PROVE  off(Count - (k + 1)) <= off(Count)
        BY <2>2
      <3> DEFINE n0 == Count - (k + 1)
      <3>1. n0 \in Slots /\ n0 + 1 = Count - k /\ off(Count - k) <= off(Count)
        BY <1>0, <2>2 DEF Slots
      <3>2. off(n0) \in Nat /\ off(n0 + 1) \in Nat /\ off(Count) \in Nat
        BY <1>0, <1>3, <3>1 DEF Slots
      <3> HIDE DEF n0
      <3>3. off(n0) <= off(n0 + 1)
        BY <1>1, <1>2, <3>1, <3>2
      <3>4. off(n0) <= off(Count)
        BY <3>1, <3>2, <3>3
      <3>5. QED
        BY <3>4 DEF n0
    <2> HIDE DEF T
    <2>3. Nat \subseteq T
      BY <2>1, <2>2, NatInd
    <2>4. Count - n \in T /\ Count - n <= Count /\ Count - (Count - n) = n
      BY <1>0, <2>3
    <2>5. QED
      BY <2>4 DEF T
  <1>5. ASSUME NEW n \in Count .. MaxWriteOps PROVE off(n) = off(Count)
    <2> DEFINE T == {k \in Nat :
                       Count + k <= MaxWriteOps => off(Count + k) = off(Count)}
    <2>1. 0 \in T
      BY <1>0
    <2>2. ASSUME NEW k \in Nat, k \in T PROVE k + 1 \in T
      <3> SUFFICES ASSUME Count + (k + 1) <= MaxWriteOps
                   PROVE  off(Count + (k + 1)) = off(Count)
        BY <2>2
      <3>1. /\ Count + k \in Slots /\ Count + k >= Count
            /\ Count + (k + 1) = (Count + k) + 1
            /\ off(Count + k) = off(Count)
        BY <1>0, <2>2 DEF Slots
      <3>2. entry[LogicalSlot(Count + k)].size = 0 /\ off(Count) \in Nat
        BY <1>0, <1>1, <1>3, <3>1
      <3>3. QED
        BY <1>2, <3>1, <3>2
    <2> HIDE DEF T
    <2>3. Nat \subseteq T
      BY <2>1, <2>2, NatInd
    <2>4. n - Count \in T /\ Count + (n - Count) = n /\ n <= MaxWriteOps
      BY <1>0, <2>3
    <2>5. QED
      BY <2>4 DEF T
  <1>6. ASSUME NEW n \in 0 .. MaxWriteOps
        PROVE  off(n) \in Nat /\ off(n) <= off(Count)
    <2>1. n \in 0 .. Count \/ n \in Count .. MaxWriteOps
      BY <1>0
    <2>2. QED
      BY <1>0, <1>3, <1>4, <1>5, <2>1
  <1>7. QED
    BY <1>6 DEF off

(* Where each byte of the contents lies in their concatenation. *)
LEMMA LayoutIs ==
  ASSUME TypeOK, RingShape
  PROVE  /\ Layout \in Seq([slot : Slots, offset : Nat])
         /\ Len(Layout) = CumulativeOffset(Count)
         /\ \A n \in 0 .. Count - 1 :
              \A b \in 0 .. entry[LogicalSlot(n)].size - 1 :
                Layout[CumulativeOffset(n) + b + 1]
                  = [slot |-> LogicalSlot(n), offset |-> b]
  <1> DEFINE R == [slot : Slots, offset : Nat]
             piece(i) == [b \in 1 .. Kept[i].size |->
                            [slot |-> LogicalSlot(i - 1), offset |-> b - 1]]
             seqs == [i \in 1 .. Count |-> piece(i)]
             acc == [i \in 0 .. Count |-> CumulativeOffset(i)]
  <1>1. /\ Count \in 0 .. MaxWriteOps /\ MaxWriteOps \in Nat
        /\ Kept \in Seq(Entries) /\ Len(Kept) = Count
    BY KeptIsASequence, MaxWriteOpsAssumption
  <1>2. ASSUME NEW i \in 1 .. Count
        PROVE  /\ i - 1 \in Slots /\ LogicalSlot(i - 1) \in Slots
               /\ Kept[i] = entry[LogicalSlot(i - 1)]
               /\ Kept[i].size \in Nat
    <2>1. i - 1 \in Slots
      BY <1>1 DEF Slots
    <2>2. LogicalSlot(i - 1) \in Slots
      BY <2>1, SlotSumWraps DEF LogicalSlot, TypeOK
    <2>3. Kept[i] = entry[LogicalSlot(i - 1)]
      BY DEF Kept
    <2>4. Kept[i] \in Entries
      BY <1>1, ElementOfSeq
    <2>5. QED
      BY <2>1, <2>2, <2>3, <2>4, EntriesAssumption
  <1>3. ASSUME NEW i \in 1 .. Count
        PROVE  piece(i) \in Seq(R) /\ Len(piece(i)) = Kept[i].size
    <2>1. \A b \in 1 .. Kept[i].size :
            [slot |-> LogicalSlot(i - 1), offset |-> b - 1] \in R
      BY <1>2
    <2> HIDE DEF R
    <2>2. QED
      BY <1>2, <2>1
  <1>4. /\ seqs \in Seq(Seq(R)) /\ Len(seqs) = Count
        /\ \A i \in 1 .. Count : seqs[i] = piece(i)
    <2> HIDE DEF R, piece
    <2>1. QED
      BY <1>1, <1>3
  <1>5. /\ acc[0] = 0
        /\ \A i \in 1 .. Len(seqs) :
             acc[i] \in Nat /\ acc[i] = acc[i - 1] + Len(seqs[i])
    <2>1. acc[0] = 0
      BY <1>1, OffsetRecurrence
    <2>2. ASSUME NEW i \in 1 .. Count
          PROVE  acc[i] \in Nat /\ acc[i] = acc[i - 1] + Len(seqs[i])
      <3>1. i - 1 \in Nat /\ (i - 1) + 1 = i /\ i \in 0 .. MaxWriteOps
            /\ i - 1 \in 0 .. Count /\ i \in 0 .. Count
        BY <1>1
      <3>2. CumulativeOffset(i)
              = CumulativeOffset(i - 1) + entry[LogicalSlot(i - 1)].size
        BY <3>1, OffsetRecurrence
      <3>3. CumulativeOffset(i) \in Nat
        BY <3>1, OffsetsGrow
      <3>4. Len(seqs[i]) = entry[LogicalSlot(i - 1)].size
        BY <1>2, <1>3, <1>4
      <3>5. acc[i] = CumulativeOffset(i) /\ acc[i - 1] = CumulativeOffset(i - 1)
        BY <3>1
      <3>6. QED
        BY <3>2, <3>3, <3>4, <3>5
    <2> HIDE DEF seqs, acc
    <2>3. QED
      BY <1>4, <2>1, <2>2
  <1>6. Layout = FlattenSeq(seqs)
    BY DEF Layout
  <1> HIDE DEF seqs, R
  <1>7. /\ Layout \in Seq(R)
        /\ Len(Layout) = acc[Count]
        /\ \A i \in 1 .. Count : \A b \in 1 .. Len(seqs[i]) :
             Layout[acc[i - 1] + b] = seqs[i][b]
    <2> HIDE DEF acc, piece
    <2>1. Starts(R, seqs, acc)
      BY <1>4, <1>5 DEF Starts
    <2>2. LaidOut(R, seqs, acc, FlattenSeq(seqs))
      BY <2>1, FlattenIndex
    <2>3. QED
      BY <1>4, <1>6, <2>2 DEF LaidOut
  <1>8. ASSUME NEW n \in 0 .. Count - 1,
               NEW b \in 0 .. entry[LogicalSlot(n)].size - 1
        PROVE  Layout[CumulativeOffset(n) + b + 1]
                 = [slot |-> LogicalSlot(n), offset |-> b]
    <2>1. n + 1 \in 1 .. Count /\ (n + 1) - 1 = n /\ n \in 0 .. Count
      BY <1>1
    <2>2. /\ Kept[n + 1].size = entry[LogicalSlot(n)].size
          /\ Kept[n + 1].size \in Nat
      BY <1>2, <2>1
    <2>3. b + 1 \in 1 .. Kept[n + 1].size /\ (b + 1) - 1 = b /\ b \in Nat
      BY <2>2
    <2>4. Layout[acc[n] + (b + 1)] = seqs[n + 1][b + 1]
      <3>1. Len(seqs[n + 1]) = Kept[n + 1].size
        BY <1>3, <1>4, <2>1
      <3>2. QED
        BY <1>7, <2>1, <2>3, <3>1
    <2>5. seqs[n + 1][b + 1] = [slot |-> LogicalSlot(n), offset |-> b]
      <3>1. seqs[n + 1] = piece(n + 1)
        BY <1>4, <2>1
      <3>2. piece(n + 1)[b + 1]
              = [slot |-> LogicalSlot((n + 1) - 1), offset |-> (b + 1) - 1]
        BY <2>3
      <3>3. QED
        BY <2>1, <2>3, <3>1, <3>2
    <2>6. acc[n] = CumulativeOffset(n) /\ CumulativeOffset(n) \in Nat
      BY <1>1, <2>1, OffsetsGrow
    <2>7. acc[n] + (b + 1) = CumulativeOffset(n) + b + 1
      BY <2>3, <2>6
    <2>8. QED
      BY <2>4, <2>5, <2>7
  <1>9. QED
    BY <1>1, <1>7, <1>8 DEF R

(* The first turn that hits is the one of the entry holding the byte. *)
LEMMA FirstHit ==
  ASSUME TypeOK, RingShape, NEW pos \in Nat, pos < CumulativeOffset(Count)
  PROVE  LET hits == {i \in Slots : CumulativeOffset(i + 1) > pos}
             m == Min(hits)
         IN  /\ hits # {}
             /\ m \in 0 .. Count - 1
             /\ CumulativeOffset(m) <= pos
             /\ pos - CumulativeOffset(m)
                  \in 0 .. entry[LogicalSlot(m)].size - 1
  <1> DEFINE hits == {i \in Slots : CumulativeOffset(i + 1) > pos}
  <1>1. Count \in 0 .. MaxWriteOps /\ MaxWriteOps \in Nat
    BY KeptIsASequence, MaxWriteOpsAssumption
  <1>2. Count - 1 \in hits
    <2>1. Count # 0
      BY OffsetRecurrence
    <2>2. Count - 1 \in Slots /\ (Count - 1) + 1 = Count
      BY <1>1, <2>1 DEF Slots
    <2>3. QED
      BY <1>1, <2>2, OffsetsGrow
  <1>3. hits \in SUBSET Nat
    BY <1>1 DEF Slots
  <1> DEFINE m == Min(hits)
  <1>4. m \in hits /\ \A i \in hits : m <= i
    <2> HIDE DEF hits
    <2>1. \E i \in hits : \A j \in hits : i <= j
      BY <1>2, <1>3, LeastNat
    <2>2. QED
      BY <2>1 DEF Min
  <1> HIDE DEF m
  <1>5. m \in Slots /\ m \in 0 .. Count - 1 /\ CumulativeOffset(m + 1) > pos
    BY <1>1, <1>2, <1>4 DEF Slots
  <1>6. CumulativeOffset(m) <= pos
    <2>1. CASE m = 0
      BY <2>1, OffsetRecurrence
    <2>2. CASE m # 0
      <3>1. /\ m - 1 \in Slots /\ (m - 1) + 1 = m
            /\ m \in 0 .. MaxWriteOps /\ ~(m <= m - 1)
        BY <1>1, <1>5, <2>2 DEF Slots
      <3>2. m - 1 \notin hits
        BY <1>4, <3>1
      <3>3. QED
        BY <3>1, <3>2, OffsetsGrow
    <2>3. QED
      BY <2>1, <2>2
  <1>7. pos - CumulativeOffset(m) \in 0 .. entry[LogicalSlot(m)].size - 1
    <2>1. m \in Nat /\ m \in 0 .. MaxWriteOps /\ m + 1 \in 0 .. MaxWriteOps
      BY <1>1, <1>5 DEF Slots
    <2>2. CumulativeOffset(m + 1)
            = CumulativeOffset(m) + entry[LogicalSlot(m)].size
      BY <2>1, OffsetRecurrence
    <2>3. CumulativeOffset(m) \in Nat
      BY <2>1, OffsetsGrow
    <2>4. entry[LogicalSlot(m)].size \in Nat
      <3>1. LogicalSlot(m) \in Slots
        BY <1>5, SlotSumWraps DEF LogicalSlot, TypeOK
      <3>2. entry[LogicalSlot(m)] \in Entries \cup {NoEntry}
        BY <3>1 DEF TypeOK
      <3>3. QED
        BY <3>2, EntriesAssumption DEF NoEntry
    <2>5. QED
      BY <1>5, <1>6, <2>2, <2>3, <2>4
  <1>8. QED
    BY <1>2, <1>5, <1>6, <1>7 DEF m

(* The search is exact in every ring that has one of the two shapes. *)
LEMMA SearchIsExact == ASSUME TypeOK, RingShape PROVE FindsEveryByte
  <1> DEFINE find(pos) == aesd_circular_buffer_find_entry_offset_for_fpos(pos)
  <1>1. Len(Layout) = CumulativeOffset(Count) /\ CumulativeOffset(Count) \in Nat
    BY LayoutIs, OffsetsGrow, KeptIsASequence
  <1>2. ASSUME NEW pos \in Nat, pos < CumulativeOffset(Count)
        PROVE  find(pos) = Layout[pos + 1]
    <2> DEFINE hits == {i \in Slots : CumulativeOffset(i + 1) > pos}
               m == Min(hits)
    <2>1. /\ hits # {}
          /\ m \in 0 .. Count - 1
          /\ CumulativeOffset(m) <= pos
          /\ pos - CumulativeOffset(m) \in 0 .. entry[LogicalSlot(m)].size - 1
      BY <1>2, FirstHit
    <2>2. find(pos)
            = [slot |-> LogicalSlot(m), offset |-> pos - CumulativeOffset(m)]
      BY <2>1 DEF aesd_circular_buffer_find_entry_offset_for_fpos
    <2> HIDE DEF m
    <2>3. Layout[CumulativeOffset(m) + (pos - CumulativeOffset(m)) + 1]
            = [slot |-> LogicalSlot(m), offset |-> pos - CumulativeOffset(m)]
      BY <2>1, LayoutIs
    <2>4. CumulativeOffset(m) \in Nat
      <3>1. m \in 0 .. MaxWriteOps
        BY <2>1, KeptIsASequence, MaxWriteOpsAssumption
      <3>2. QED
        BY <3>1, OffsetsGrow
    <2>5. CumulativeOffset(m) + (pos - CumulativeOffset(m)) + 1 = pos + 1
      BY <2>4
    <2>6. QED
      BY <2>2, <2>3, <2>5
  <1>3. ASSUME NEW pos \in Nat, ~(pos < CumulativeOffset(Count))
        PROVE  find(pos) = NULL
    <2>1. ASSUME NEW i \in Slots PROVE ~(CumulativeOffset(i + 1) > pos)
      <3>1. i + 1 \in 0 .. MaxWriteOps
        BY MaxWriteOpsAssumption DEF Slots
      <3>2. QED
        BY <1>1, <1>3, <3>1, OffsetsGrow
    <2>2. {i \in Slots : CumulativeOffset(i + 1) > pos} = {}
      BY <2>1
    <2>3. QED
      BY <2>2 DEF aesd_circular_buffer_find_entry_offset_for_fpos
  <1> HIDE DEF find
  <1>4. \A pos \in 0 .. Len(Layout) + 1 :
          find(pos) = IF pos < Len(Layout) THEN Layout[pos + 1] ELSE NULL
    BY <1>1, <1>2, <1>3
  <1>5. QED
    BY <1>4 DEF find, FindsEveryByte

(* aesd_circular_buffer_find_entry_offset_for_fpos returns, for every       *)
(* offset into the concatenated contents, the entry and the place in it    *)
(* that hold that byte, and NULL past the end: for every capacity, however *)
(* long the entries are and however often the ring has wrapped around.     *)
THEOREM SearchFindsEveryByte == Spec => []FindsEveryByte
  BY TypeCorrect, RingKeepsItsShape, SearchIsExact, PTL
=============================================================================
