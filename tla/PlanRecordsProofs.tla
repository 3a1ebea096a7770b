--------------------------- MODULE PlanRecordsProofs ---------------------------
(***************************************************************************)
(* What the plan controller records of the disks, and what the migration   *)
(* controller makes of the records, for every list of VMs with any number  *)
(* of volumes, any names and every disturbance.                            *)
(***************************************************************************)
EXTENDS PlanRecords, SequenceTheorems, WellFoundedInduction, TLAPS

-----------------------------------------------------------------------------
(* Sequences *)

(***************************************************************************)
(* A set of natural numbers has a least element.  The proofs by induction  *)
(* below look at the least number for which their statement fails: as a    *)
(* set, the statement needs no operator for a parameter.                   *)
(***************************************************************************)
LEMMA LeastNatural ==
  ASSUME NEW T \in SUBSET Nat, T # {}
  PROVE  \E x \in T : \A y \in T : ~(y < x)
<1>1. OpToRel(<, Nat) = {pair \in Nat \X Nat : pair[1] < pair[2]}
  BY Zenon DEF OpToRel
<1>2. PICK x \in T : \A y \in T : ~(<<y, x>> \in OpToRel(<, Nat))
  BY NatLessThanWellFounded, WFMin
<1>3. \A y \in T : ~(<<y, x>> \in {pair \in Nat \X Nat : pair[1] < pair[2]})
  BY <1>1, <1>2, Zenon
<1>4. ASSUME NEW y \in T, y < x PROVE FALSE
  <2>1. <<y, x>> \in Nat \X Nat /\ <<y, x>>[1] < <<y, x>>[2]
    BY <1>4
  <2>2. QED
    BY <1>3, <2>1
<1>5. QED
  BY <1>4

\* f filters the first n elements of seq.
Filters(f, seq, S, n) ==
  f = [i \in 0..n |-> IF i = 0 THEN <<>>
                      ELSE IF seq[i] \in S THEN Append(f[i - 1], seq[i]) ELSE f[i - 1]]

\* The function Filtered defines by recursion exists.
LEMMA FilterExists ==
  ASSUME NEW seq, NEW S, NEW n \in Nat
  PROVE  \E f : Filters(f, seq, S, n)
<1> SUFFICES ASSUME ~\E f : Filters(f, seq, S, n) PROVE FALSE
  OBVIOUS
<1> DEFINE T == {k \in Nat : ~\E f : Filters(f, seq, S, k)}
<1>1. PICK x \in T : \A y \in T : ~(y < x)
  <2>1. T \in SUBSET Nat /\ T # {}
    OBVIOUS
  <2> HIDE DEF T
  <2>2. QED
    BY <2>1, LeastNatural
<1>2. x \in Nat /\ ~\E f : Filters(f, seq, S, x)
  OBVIOUS
<1>3. x # 0
  <2>1. Filters([i \in 0..0 |-> <<>>], seq, S, 0)
    BY DEF Filters
  <2>2. QED
    BY <1>2, <2>1
<1>4. x - 1 \in Nat /\ x - 1 \notin T
  BY <1>1, <1>2, <1>3
<1>5. PICK g : Filters(g, seq, S, x - 1)
  BY <1>4
<1> HIDE DEF T
<1> DEFINE h == [i \in 0..x |-> IF i = x THEN (IF seq[i] \in S THEN Append(g[i - 1], seq[i]) ELSE g[i - 1]) ELSE g[i]]
<1>6. g = [i \in 0..(x - 1) |-> IF i = 0 THEN <<>>
                                ELSE IF seq[i] \in S THEN Append(g[i - 1], seq[i]) ELSE g[i - 1]]
  BY <1>5 DEF Filters
<1>7. ASSUME NEW i \in 0..(x - 1)
      PROVE  g[i] = IF i = 0 THEN <<>> ELSE IF seq[i] \in S THEN Append(g[i - 1], seq[i]) ELSE g[i - 1]
  BY <1>6, Zenon
<1>8. \A i \in 0..(x - 1) : h[i] = g[i]
  BY <1>2, <1>4
<1>9. h[x] = IF seq[x] \in S THEN Append(h[x - 1], seq[x]) ELSE h[x - 1]
  BY <1>2, <1>4, <1>8
<1>10. h = [i \in 0..x |-> h[i]]
  OBVIOUS
<1> HIDE DEF h
<1>11. ASSUME NEW i \in 0..x
       PROVE  h[i] = IF i = 0 THEN <<>> ELSE IF seq[i] \in S THEN Append(h[i - 1], seq[i]) ELSE h[i - 1]
  <2>1. CASE i = x
    BY <1>2, <1>3, <1>9, <2>1
  <2>2. CASE i = 0
    BY <1>2, <1>4, <1>7, <1>8, <2>2
  <2>3. CASE i # x /\ i # 0
    <3>1. i \in 0..(x - 1) /\ i - 1 \in 0..(x - 1)
      BY <1>2, <1>4, <2>3
    <3>2. QED
      BY <1>7, <1>8, <2>3, <3>1
  <2>4. QED
    BY <2>1, <2>2, <2>3
<1>12. Filters(h, seq, S, x)
  BY <1>10, <1>11 DEF Filters
<1>13. QED
  BY <1>2, <1>12

\* What a filter returns.
LEMMA FilteredType ==
  ASSUME NEW A, NEW seq \in Seq(A), NEW S
  PROVE  Filtered(seq, S) \in Seq(A \cap S)
<1> DEFINE f == CHOOSE g : Filters(g, seq, S, Len(seq))
<1>1. Len(seq) \in Nat
  OBVIOUS
<1>2. Filters(f, seq, S, Len(seq))
  BY <1>1, FilterExists
<1>3. Filtered(seq, S) = f[Len(seq)]
  BY DEF Filtered, Filters
<1> HIDE DEF f
<1>4. ASSUME NEW i \in 0..Len(seq)
      PROVE  f[i] = IF i = 0 THEN <<>> ELSE IF seq[i] \in S THEN Append(f[i - 1], seq[i]) ELSE f[i - 1]
  <2>1. f = [j \in 0..Len(seq) |-> IF j = 0 THEN <<>>
                                   ELSE IF seq[j] \in S THEN Append(f[j - 1], seq[j]) ELSE f[j - 1]]
    BY <1>2 DEF Filters
  <2>2. QED
    BY <2>1, Zenon
<1> DEFINE T == {k \in Nat : k <= Len(seq) /\ f[k] \notin Seq(A \cap S)}
<1>5. ASSUME T # {} PROVE FALSE
  <2>1. PICK x \in T : \A y \in T : ~(y < x)
    <3>1. T \in SUBSET Nat
      OBVIOUS
    <3> HIDE DEF T
    <3>2. QED
      BY <1>5, <3>1, LeastNatural
  <2>2. x \in 0..Len(seq) /\ f[x] \notin Seq(A \cap S)
    BY <1>1
  <2>3. x # 0
    <3>1. 0 \in 0..Len(seq)
      BY <1>1
    <3>2. f[0] = <<>>
      BY <1>4, <3>1
    <3>3. <<>> \in Seq(A \cap S)
      OBVIOUS
    <3>4. QED
      BY <2>2, <3>2, <3>3
  <2>4. x - 1 \in 0..Len(seq) /\ x - 1 \notin T /\ x \in 1..Len(seq)
    BY <1>1, <2>1, <2>2, <2>3
  <2>5. f[x - 1] \in Seq(A \cap S) /\ seq[x] \in A
    BY <1>1, <2>4
  <2>6. f[x] = IF seq[x] \in S THEN Append(f[x - 1], seq[x]) ELSE f[x - 1]
    BY <1>4, <2>2, <2>3
  <2>7. seq[x] \in S => Append(f[x - 1], seq[x]) \in Seq(A \cap S)
    BY <2>5
  <2>8. QED
    BY <2>2, <2>5, <2>6, <2>7
<1>6. f[Len(seq)] \in Seq(A \cap S)
  BY <1>1, <1>5
<1>7. QED
  BY <1>3, <1>6

-----------------------------------------------------------------------------
(* Names *)

(***************************************************************************)
(* The volumes of a VM have claims of their own, and so have their         *)
(* targets.  The code does not ask for it.                                 *)
(***************************************************************************)
DistinctNames ==
  \A v \in VMs : \A i, j \in DOMAIN Disk[v] :
    /\ Disk[v][i] = Disk[v][j] => i = j
    /\ TargetNames(v)[i] = TargetNames(v)[j] => i = j
    /\ Disk[v][i] # TargetNames(v)[j]

\* A sequence without its last element, and with one more.
LEMMA CutAndAppend ==
  ASSUME NEW A, NEW s \in Seq(A), s # <<>>, NEW a \in A
  PROVE  /\ Len(s) > 1 => SubSeq(s, 1, Len(s) - 1) \in Seq(A) /\ SubSeq(s, 1, Len(s) - 1) # <<>>
         /\ Append(s, a) \in Seq(A) /\ Append(s, a) # <<>>
         /\ Len(Append(s, a)) > 1 /\ Append(s, a)[Len(Append(s, a))] = a
         /\ SubSeq(Append(s, a), 1, Len(Append(s, a)) - 1) = s
<1>1. Len(s) \in Nat \ {0} /\ \A i \in 1..Len(s) : s[i] \in A
  BY EmptySeq, ElementOfSeq
<1>2. ASSUME Len(s) > 1 PROVE SubSeq(s, 1, Len(s) - 1) \in Seq(A) /\ SubSeq(s, 1, Len(s) - 1) # <<>>
  <2>1. \A i \in 1..(Len(s) - 1) : s[i] \in A
    BY <1>1
  <2>2. 1 \in Int /\ Len(s) - 1 \in Int
    BY <1>1
  <2>3. SubSeq(s, 1, Len(s) - 1) \in Seq(A) /\ Len(SubSeq(s, 1, Len(s) - 1)) = IF 1 <= Len(s) - 1 THEN Len(s) - 1 - 1 + 1 ELSE 0
    BY <2>1, <2>2, SubSeqProperties
  <2>4. Len(SubSeq(s, 1, Len(s) - 1)) # 0
    BY <1>1, <1>2, <2>3
  <2>5. QED
    BY <2>3, <2>4, EmptySeq
<1> DEFINE t == Append(s, a)
<1>3. t \in Seq(A) /\ Len(t) = Len(s) + 1 /\ t[Len(t)] = a /\ \A i \in 1..Len(s) : t[i] = s[i]
  BY <1>1
<1> HIDE DEF t
<1>4. SubSeq(t, 1, Len(t) - 1) = s
  <2>1. Len(t) - 1 = Len(s) /\ 1 \in Int /\ Len(s) \in Int
    BY <1>1, <1>3
  <2>2. \A i \in 1..Len(s) : t[i] \in A
    BY <1>1, <1>3
  <2>3. /\ SubSeq(t, 1, Len(s)) \in Seq(A)
        /\ Len(SubSeq(t, 1, Len(s))) = IF 1 <= Len(s) THEN Len(s) - 1 + 1 ELSE 0
        /\ \A i \in 1..(Len(s) - 1 + 1) : SubSeq(t, 1, Len(s))[i] = t[1 + i - 1]
    BY <2>1, <2>2, SubSeqProperties
  <2>4. Len(SubSeq(t, 1, Len(s))) = Len(s) /\ \A i \in 1..Len(s) : SubSeq(t, 1, Len(s))[i] = s[i]
    BY <1>1, <1>3, <2>3
  <2>5. SubSeq(t, 1, Len(s)) = s
    BY <2>3, <2>4, SeqEqual
  <2>6. QED
    BY <2>1, <2>5
<1>5. Len(t) > 1 /\ t # <<>>
  BY <1>1, <1>3, EmptySeq
<1>6. QED
  BY <1>2, <1>3, <1>4, <1>5 DEF t

\* A name keeps a part when its suffix is cut off.
LEMMA TrimType ==
  ASSUME NEW name \in Names
  PROVE  trimSuffix(name) \in Names
<1>1. name \in Seq(STRING) /\ name # <<>>
  BY DEF Names
<1>2. Len(name) > 1 => SubSeq(name, 1, Len(name) - 1) \in Names
  BY <1>1, CutAndAppend, RecordAssumption DEF Names
<1>3. QED
  BY <1>2 DEF trimSuffix

(***************************************************************************)
(* The target computed from a target is that target: a VM that has been    *)
(* swapped gets the name it has (targetPVCName).                           *)
(***************************************************************************)
LEMMA TargetOfTarget ==
  ASSUME NEW given \in Names \cup {NoName}, NEW source \in Names
  PROVE  /\ targetPVCName(given, source) \in Names
         /\ targetPVCName(given, targetPVCName(given, source)) = targetPVCName(given, source)
<1>1. CASE given # NoName
  BY <1>1 DEF targetPVCName
<1>2. CASE given = NoName
  <2> DEFINE base == trimSuffix(source)
             t == Append(base, Suffix)
  <2>1. base \in Seq(STRING) /\ base # <<>> /\ Suffix \in STRING
    <3>1. base \in Names
      BY TrimType
    <3> HIDE DEF base
    <3>2. QED
      BY <3>1, RecordAssumption DEF Names
  <2> HIDE DEF base
  <2>2. t \in Seq(STRING) /\ t # <<>> /\ Len(t) > 1 /\ t[Len(t)] = Suffix /\ SubSeq(t, 1, Len(t) - 1) = base
    BY <2>1, CutAndAppend
  <2> HIDE DEF t
  <2>4. trimSuffix(t) = base
    BY <2>2 DEF trimSuffix
  <2>5. targetPVCName(given, source) = t
    BY <1>2 DEF targetPVCName, base, t
  <2>6. targetPVCName(given, t) = t
    BY <1>2, <2>4 DEF targetPVCName, t
  <2>7. t \in Names
    BY <2>2 DEF Names
  <2>8. QED
    BY <2>5, <2>6, <2>7
<1>3. QED
  BY <1>1, <1>2

\* The names of the disks of a VM and of their targets.
LEMMA DiskNames ==
  ASSUME NEW v \in VMs
  PROVE  /\ DOMAIN Disk[v] = 1..Len(Disk[v]) /\ Len(Disk[v]) \in Nat \ {0} /\ 1 \in DOMAIN Disk[v]
         /\ Disk[v] \in [DOMAIN Disk[v] -> Names] /\ Disk[v] # <<>>
         /\ TargetNames(v) \in [DOMAIN Disk[v] -> Names]
         /\ \A i \in DOMAIN Disk[v] :
              /\ targetPVCName(Given[v][i], Disk[v][i]) = TargetNames(v)[i]
              /\ targetPVCName(Given[v][i], TargetNames(v)[i]) = TargetNames(v)[i]
<1>1. Disk[v] \in Seq(Names) /\ Disk[v] # <<>> /\ Given[v] \in [DOMAIN Disk[v] -> Names \cup {NoName}]
  BY RecordAssumption
<1>2. DOMAIN Disk[v] = 1..Len(Disk[v]) /\ Len(Disk[v]) \in Nat \ {0} /\ Disk[v] \in [DOMAIN Disk[v] -> Names]
  BY <1>1
<1>3. \A i \in DOMAIN Disk[v] : Disk[v][i] \in Names /\ Given[v][i] \in Names \cup {NoName}
  BY <1>1, <1>2
<1> DEFINE T == [i \in DOMAIN Disk[v] |-> targetPVCName(Given[v][i], Disk[v][i])]
<1>4. TargetNames(v) = T
  BY DEF TargetNames
<1>5. ASSUME NEW i \in DOMAIN Disk[v]
      PROVE  T[i] \in Names /\ T[i] = targetPVCName(Given[v][i], Disk[v][i]) /\ targetPVCName(Given[v][i], T[i]) = T[i]
  BY <1>3, TargetOfTarget
<1>6. T = [i \in DOMAIN Disk[v] |-> T[i]]
  OBVIOUS
<1> HIDE DEF T
<1>7. T \in [DOMAIN Disk[v] -> Names]
  BY <1>5, <1>6
<1>8. 1 \in DOMAIN Disk[v]
  BY <1>2
<1>9. QED
  BY <1>1, <1>2, <1>4, <1>5, <1>7, <1>8

-----------------------------------------------------------------------------
(* The invariant *)

\* No cancel has begun: the disks have not been reverted, and for a plan with
\* one migration they will not be swapped once they have.
Early ==
  /\ MaxMigs = 1
  /\ mig.phase \in {"started", "refresh", "begin", "wait", "completed"} \/ (mig.phase = "none" /\ mig.n = 0)

Fresh(v) == Early /\ vm[v].disk = Disk[v]

\* Each recorded source is a disk the VM had, or its target.
Sources(v) ==
  {s \in [DOMAIN Disk[v] -> Names] : \A i \in DOMAIN Disk[v] : s[i] \in {Disk[v][i], TargetNames(v)[i]}}

Entries ==
  {e \in [vm: VMs, src: {<<>>} \cup UNION {Sources(v) : v \in VMs},
          tgt: UNION {[DOMAIN Disk[v] -> Names \cup {NoName}] : v \in VMs}] :
     e.src \in Sources(e.vm) \cup {<<>>}}

\* The entries of VMs to be migrated.  Before the swap they have the sources.
OpenEntries == {e \in Entries : e.tgt = TargetNames(e.vm) /\ (Fresh(e.vm) => e.src = Disk[e.vm])}

\* Those of completed VMs may have been healed.
DoneEntries == {e \in Entries : e.src # <<>> => e \in OpenEntries}

RecordOK(p) ==
  /\ p = [ready |-> p.ready, invalid |-> p.invalid, inProgress |-> p.inProgress, completed |-> p.completed, cond |-> p.cond]
  /\ p.ready \in Seq(OpenEntries) /\ p.inProgress \in Seq(OpenEntries) /\ p.invalid \in Seq(OpenEntries)
  /\ p.completed \in Seq(DoneEntries)

\* The volumes of a VM move together, and with them its templates.
VMRecords(v) ==
  {r \in [disk: {Disk[v], TargetNames(v)}, dvt: [DOMAIN Disk[v] -> Names \cup {NoName}],
          inst: {<<>>, Disk[v], TargetNames(v)}, vus: BOOLEAN, fit: BOOLEAN] :
     MaxMigs = 1 => \A i \in DOMAIN Disk[v] : r.dvt[i] \in {NoName, r.disk[i]}}

DisksInv ==
  /\ vm \in [VMs -> UNION {VMRecords(v) : v \in VMs}]
  /\ \A v \in VMs : vm[v] \in VMRecords(v) /\ (Fresh(v) => vm[v].inst \in {<<>>, Disk[v]})

TaskInv ==
  /\ task = [pc |-> task.pc, entries |-> task.entries, left |-> task.left, kept |-> task.kept, reverted |-> task.reverted]
  /\ task.entries \in Seq(OpenEntries)
  /\ task.pc = "begin" => mig.phase = "begin"
  /\ task.pc = "cancel" => mig.phase = "canceling"

MigInv ==
  /\ mig = [n |-> mig.n, phase |-> mig.phase, running |-> mig.running, completed |-> mig.completed, cancelled |-> mig.cancelled]
  /\ mig.n \in Nat /\ mig.n <= MaxMigs
  /\ mig.phase # "none" => mig.n > 0

RecordsInv == spec \in Seq(VMs) /\ MigInv /\ DisksInv /\ TaskInv /\ RecordOK(status)

-----------------------------------------------------------------------------
(* The entry computed for a VM *)

\* VolumeUpdateState has the claim the instance uses in the place of a disk.
LEMMA UpdateState ==
  ASSUME DistinctNames, DisksInv, NEW v \in VMs, NEW i \in DOMAIN Disk[v],
         vm[v].disk[i] \in DOMAIN VolumeUpdateState(v)
  PROVE  /\ VolumeUpdateState(v)[vm[v].disk[i]] = vm[v].inst[i]
         /\ vm[v].inst[i] # vm[v].disk[i] /\ vm[v].inst # <<>>
<1> DEFINE moved == {k \in DOMAIN vm[v].inst : vm[v].vus /\ vm[v].inst[k] # vm[v].disk[k]}
           names == {vm[v].disk[k] : k \in moved}
           at(name) == CHOOSE k \in moved : vm[v].disk[k] = name
<1>1. VolumeUpdateState(v) = [name \in names |-> vm[v].inst[at(name)]]
  BY DEF VolumeUpdateState
<1>2. /\ vm[v].disk \in {Disk[v], TargetNames(v)}
      /\ vm[v].inst \in {<<>>, Disk[v], TargetNames(v)}
  BY DEF DisksInv, VMRecords
<1>3. DOMAIN vm[v].inst \subseteq DOMAIN Disk[v]
  BY <1>2, DiskNames
<1>4. \A k \in DOMAIN Disk[v] : vm[v].disk[k] = vm[v].disk[i] => k = i
  BY <1>2 DEF DistinctNames
<1>5. i \in moved
  BY <1>1, <1>3, <1>4
<1>6. at(vm[v].disk[i]) = i
  BY <1>3, <1>4, <1>5
<1>7. vm[v].disk[i] \in names
  BY <1>5
<1> HIDE DEF names, at
<1>8. VolumeUpdateState(v)[vm[v].disk[i]] = vm[v].inst[i]
  BY <1>1, <1>6, <1>7
<1>9. QED
  BY <1>5, <1>8

\* The source found for a volume is its disk at first, or its target.
LEMMA SourceFound ==
  ASSUME DistinctNames, DisksInv, NEW v \in VMs, NEW i \in DOMAIN Disk[v], NEW missed
  PROVE  /\ SourcePVC(v, i, missed) \in {Disk[v][i], TargetNames(v)[i]}
         /\ Fresh(v) => SourcePVC(v, i, missed) = Disk[v][i]
<1>1. /\ vm[v].disk \in {Disk[v], TargetNames(v)}
      /\ vm[v].inst \in {<<>>, Disk[v], TargetNames(v)}
      /\ Fresh(v) => vm[v].inst \in {<<>>, Disk[v]} /\ vm[v].disk = Disk[v]
  BY DEF DisksInv, VMRecords, Fresh
<1>2. \/ SourcePVC(v, i, missed) = vm[v].disk[i]
      \/ /\ vm[v].disk[i] \in DOMAIN VolumeUpdateState(v)
         /\ SourcePVC(v, i, missed) = VolumeUpdateState(v)[vm[v].disk[i]]
  BY DEF SourcePVC
<1>3. QED
  BY <1>1, <1>2, UpdateState

\* An entry with the targets.
LEMMA OpenEntry ==
  ASSUME NEW v \in VMs, NEW s \in Sources(v) \cup {<<>>}, Fresh(v) => s = Disk[v]
  PROVE  Entry(v, s, TargetNames(v)) \in OpenEntries
<1> DEFINE e == Entry(v, s, TargetNames(v))
<1>1. e = [vm |-> v, src |-> s, tgt |-> TargetNames(v)] /\ e.vm = v /\ e.src = s /\ e.tgt = TargetNames(v)
  BY DEF Entry
<1>2. TargetNames(v) \in [DOMAIN Disk[v] -> Names \cup {NoName}]
  BY DiskNames
<1>3. s \in {<<>>} \cup UNION {Sources(u) : u \in VMs}
  <2>1. CASE s = <<>>
    BY <2>1
  <2>2. CASE s \in Sources(v)
    <3>1. \E u \in VMs : s \in Sources(u)
      BY <2>2
    <3>2. s \in UNION {Sources(u) : u \in VMs}
      BY <3>1
    <3>3. QED
      BY <3>2
  <2>3. QED
    BY <2>1, <2>2
<1>4. TargetNames(v) \in UNION {[DOMAIN Disk[u] -> Names \cup {NoName}] : u \in VMs}
  BY <1>2
<1>5. e \in Entries
  BY <1>1, <1>3, <1>4 DEF Entries
<1>6. QED
  BY <1>1, <1>5 DEF OpenEntries

\* And what is known of one.
LEMMA OpenEntryFields ==
  ASSUME NEW e \in OpenEntries
  PROVE  /\ e.vm \in VMs /\ e.src \in Sources(e.vm) \cup {<<>>} /\ e.tgt = TargetNames(e.vm)
         /\ Fresh(e.vm) => e.src = Disk[e.vm]
         /\ e = Entry(e.vm, e.src, e.tgt)
         /\ e \in DoneEntries
<1>1. e \in Entries /\ e.tgt = TargetNames(e.vm) /\ (Fresh(e.vm) => e.src = Disk[e.vm])
  BY DEF OpenEntries
<1>2. e.vm \in VMs /\ e.src \in Sources(e.vm) \cup {<<>>} /\ e = [vm |-> e.vm, src |-> e.src, tgt |-> e.tgt]
  BY <1>1 DEF Entries
<1>3. QED
  BY <1>1, <1>2 DEF DoneEntries, Entry

\* Sources are not the empty list, and NoName is not among them.
LEMMA SourceFields ==
  ASSUME NEW v \in VMs, NEW s \in Sources(v)
  PROVE  /\ s # <<>> /\ DOMAIN s = DOMAIN Disk[v] /\ Len(s) = Len(Disk[v])
         /\ \A i \in DOMAIN Disk[v] : s[i] \in {Disk[v][i], TargetNames(v)[i]} /\ s[i] # NoName
<1>1. /\ s \in [DOMAIN Disk[v] -> Names]
      /\ \A i \in DOMAIN Disk[v] : s[i] \in {Disk[v][i], TargetNames(v)[i]}
  BY DEF Sources
<1>2. DOMAIN s = 1..Len(Disk[v]) /\ Len(Disk[v]) \in Nat \ {0}
  BY <1>1, DiskNames
<1>3. s \in Seq(Names) /\ Len(s) = Len(Disk[v])
  <2>1. s \in [1..Len(Disk[v]) -> Names]
    BY <1>1, DiskNames
  <2>2. QED
    BY <1>2, <2>1
<1>4. s # <<>>
  BY <1>2, <1>3, EmptySeq
<1>5. \A i \in DOMAIN Disk[v] : s[i] # NoName
  BY <1>1, RecordAssumption
<1>6. QED
  BY <1>1, <1>3, <1>4, <1>5

\* The entry computed from the VM is an open one, or has no sources.
LEMMA NewEntry ==
  ASSUME DistinctNames, DisksInv, NEW v \in VMs, NEW missed
  PROVE  /\ createStatusVM(v, missed).vm = v
         /\ createStatusVM(v, missed).src = <<>> \/ createStatusVM(v, missed) \in OpenEntries
<1> DEFINE src == [i \in DOMAIN Disk[v] |-> SourcePVC(v, i, missed)]
           tgt == [i \in DOMAIN src |-> targetPVCName(Given[v][i], src[i])]
<1>1. createStatusVM(v, missed) = Entry(v, src, tgt) \/ createStatusVM(v, missed) = Entry(v, <<>>, <<>>)
  BY DEF createStatusVM
<1>2. ASSUME NEW i \in DOMAIN Disk[v]
      PROVE  src[i] \in {Disk[v][i], TargetNames(v)[i]} /\ src[i] \in Names /\ (Fresh(v) => src[i] = Disk[v][i])
  BY SourceFound, DiskNames
<1>3. DOMAIN src = DOMAIN Disk[v] /\ src = [i \in DOMAIN Disk[v] |-> src[i]]
  OBVIOUS
<1>4. tgt = [i \in DOMAIN src |-> tgt[i]] /\ \A i \in DOMAIN src : tgt[i] = targetPVCName(Given[v][i], src[i])
  OBVIOUS
<1> HIDE DEF src, tgt
<1>5. src \in Sources(v)
  BY <1>2, <1>3 DEF Sources
<1>6. Fresh(v) => src = Disk[v]
  BY <1>2, <1>3, DiskNames
<1>7. tgt = TargetNames(v)
  <2>1. ASSUME NEW i \in DOMAIN Disk[v] PROVE tgt[i] = TargetNames(v)[i]
    <3>1. tgt[i] = targetPVCName(Given[v][i], src[i])
      BY <1>3, <1>4
    <3>2. src[i] = Disk[v][i] \/ src[i] = TargetNames(v)[i]
      BY <1>2
    <3>3. /\ targetPVCName(Given[v][i], Disk[v][i]) = TargetNames(v)[i]
          /\ targetPVCName(Given[v][i], TargetNames(v)[i]) = TargetNames(v)[i]
      BY DiskNames
    <3>4. QED
      BY <3>1, <3>2, <3>3
  <2>2. DOMAIN tgt = DOMAIN Disk[v] /\ TargetNames(v) = [i \in DOMAIN Disk[v] |-> TargetNames(v)[i]]
    BY <1>3, <1>4, DiskNames
  <2>3. tgt = [i \in DOMAIN Disk[v] |-> tgt[i]]
    BY <1>3, <1>4
  <2>4. QED
    BY <2>1, <2>2, <2>3
<1>8. Entry(v, src, tgt) \in OpenEntries
  BY <1>5, <1>6, <1>7, OpenEntry
<1>9. QED
  BY <1>1, <1>8 DEF Entry

\* The lists of a status one after the other.
LEMMA AllEntries ==
  ASSUME NEW p, RecordOK(p)
  PROVE  p.ready \o p.inProgress \o p.completed \o p.invalid \in Seq(DoneEntries)
<1>1. OpenEntries \subseteq DoneEntries
  BY OpenEntryFields
<1>2. p.ready \in Seq(DoneEntries) /\ p.inProgress \in Seq(DoneEntries) /\ p.completed \in Seq(DoneEntries) /\ p.invalid \in Seq(DoneEntries)
  BY <1>1, SeqMonotonic DEF RecordOK
<1>3. QED
  BY <1>2, ConcatProperties

\* What an entry among the completed ones is.
LEMMA DoneEntryFields ==
  ASSUME NEW e \in DoneEntries
  PROVE  e.vm \in VMs /\ (e.src # <<>> => e \in OpenEntries) /\ e = Entry(e.vm, e.src, e.tgt)
<1>1. e \in Entries /\ (e.src # <<>> => e \in OpenEntries)
  BY DEF DoneEntries
<1>2. e.vm \in VMs /\ e = [vm |-> e.vm, src |-> e.src, tgt |-> e.tgt]
  BY <1>1 DEF Entries
<1>3. QED
  BY <1>1, <1>2 DEF Entry

\* The old entry is one of the VM.
LEMMA OldEntry ==
  ASSUME NEW p, RecordOK(p), NEW v \in VMs, NEW old \in Existing(p, v)
  PROVE  old \in DoneEntries /\ old.vm = v /\ Existing(p, v) = {old}
<1> DEFINE all == p.ready \o p.inProgress \o p.completed \o p.invalid
           own == {i \in DOMAIN all : all[i].vm = v}
           last == CHOOSE i \in own : \A j \in own : j <= i
<1>1. all \in Seq(DoneEntries)
  BY AllEntries
<1>2. own # {} /\ Existing(p, v) = {all[last]}
  BY DEF Existing
<1> HIDE DEF all
<1>3. DOMAIN all = 1..Len(all) /\ Len(all) \in Nat /\ \A i \in 1..Len(all) : all[i] \in DoneEntries
  BY <1>1, LenProperties, ElementOfSeq
<1>4. \E i \in own : \A j \in own : j <= i
  <2> DEFINE T == {Len(all) - i : i \in own}
  <2>1. T \in SUBSET Nat /\ T # {}
    <3>1. own # {} /\ own \subseteq 1..Len(all) /\ Len(all) \in Nat
      BY <1>2, <1>3
    <3> HIDE DEF own, last
    <3>2. \A i \in own : Len(all) - i \in Nat
      BY <3>1
    <3>3. QED
      BY <3>1, <3>2
  <2>2. PICK x \in T : \A y \in T : ~(y < x)
    <3> HIDE DEF T
    <3>1. QED
      BY <2>1, LeastNatural
  <2>3. PICK i \in own : x = Len(all) - i
    BY <2>2
  <2>4. ASSUME NEW j \in own PROVE j <= i
    <3>1. ~(Len(all) - j < Len(all) - i)
      BY <2>2, <2>3
    <3>2. i \in Nat /\ j \in Nat
      BY <1>3
    <3>3. QED
      BY <1>3, <3>1, <3>2
  <2>5. QED
    BY <2>4
<1>5. last \in own
  BY <1>4
<1> HIDE DEF last
<1>6. QED
  BY <1>2, <1>3, <1>5

\* An open entry with other sources.
LEMMA OtherSources ==
  ASSUME NEW e \in OpenEntries, NEW s \in Sources(e.vm) \cup {<<>>}, Fresh(e.vm) => s = Disk[e.vm]
  PROVE  [e EXCEPT !.src = s] \in OpenEntries /\ [e EXCEPT !.src = s].vm = e.vm /\ [e EXCEPT !.src = s].src = s
<1>1. e.vm \in VMs /\ e = [vm |-> e.vm, src |-> e.src, tgt |-> TargetNames(e.vm)]
  BY OpenEntryFields DEF Entry
<1>2. [e EXCEPT !.src = s] = Entry(e.vm, s, TargetNames(e.vm))
  BY <1>1 DEF Entry
<1>3. QED
  BY <1>1, <1>2, OpenEntry DEF Entry

(***************************************************************************)
(* The entry of a VM with sources is an open one, whatever is remembered   *)
(* of the old one (validateStorageMigrationPossible).                      *)
(***************************************************************************)
LEMMA StatusVMOpen ==
  ASSUME DistinctNames, DisksInv, NEW p, RecordOK(p), NEW v \in VMs, NEW missed, HasSources(p, v, missed)
  PROVE  StatusVM(p, v, missed) \in OpenEntries
<1> DEFINE new == createStatusVM(v, missed)
<1>1. new.vm = v /\ (new.src = <<>> \/ new \in OpenEntries)
  BY NewEntry
<1> HIDE DEF new
<1>2. CASE Existing(p, v) = {}
  <2>1. new.src # <<>>
    BY <1>2 DEF HasSources, new
  <2>2. QED
    BY <1>1, <1>2, <2>1 DEF StatusVM, new
<1>3. ASSUME NEW old, Existing(p, v) = {old} PROVE StatusVM(p, v, missed) \in OpenEntries
  <2> DEFINE a == IF new.src = <<>> THEN old ELSE new
             b == IF old.src # <<>> /\ hasVMBeenSwapped(old.src, a.src) THEN [a EXCEPT !.src = old.src] ELSE a
             c == IF sourcesMatchTargets(b) /\ ~sourcesMatchTargets(old) THEN [b EXCEPT !.src = old.src] ELSE b
  <2>0. StatusVM(p, v, missed) = c
    <3>1. (CHOOSE x \in Existing(p, v) : TRUE) = old
      BY <1>3
    <3>2. QED
      BY <1>3, <3>1 DEF StatusVM, new
  <2>1. old \in DoneEntries /\ old.vm = v
    BY <1>3, OldEntry
  <2>2. old.src # <<>> => old \in OpenEntries /\ old.src \in Sources(v) /\ (Fresh(v) => old.src = Disk[v])
    BY <2>1, DoneEntryFields, OpenEntryFields
  <2>3. a \in OpenEntries /\ a.vm = v
    <3>1. new.src # <<>> \/ old.src # <<>>
      BY <1>3 DEF HasSources, new
    <3>2. QED
      BY <1>1, <2>1, <2>2, <3>1
  <2> HIDE DEF a
  <2>4. b \in OpenEntries /\ b.vm = v
    <3>1. CASE old.src # <<>> /\ hasVMBeenSwapped(old.src, a.src)
      <4>1. [a EXCEPT !.src = old.src] \in OpenEntries /\ [a EXCEPT !.src = old.src].vm = a.vm
        BY <2>2, <2>3, <3>1, OtherSources
      <4>2. QED
        BY <2>3, <3>1, <4>1
    <3>2. QED
      BY <2>3, <3>1
  <2> HIDE DEF b
  <2>5. CASE sourcesMatchTargets(b) /\ ~sourcesMatchTargets(old)
    <3>1. b.src = TargetNames(v)
      BY <2>4, <2>5, OpenEntryFields DEF sourcesMatchTargets
    <3>2. Disk[v] # TargetNames(v)
      <4>1. 1 \in DOMAIN Disk[v]
        BY DiskNames
      <4>2. Disk[v][1] # TargetNames(v)[1]
        BY <4>1 DEF DistinctNames
      <4>3. QED
        BY <4>2
    <3>3. ~Fresh(v)
      BY <2>4, <3>1, <3>2, OpenEntryFields
    <3>4. old.src \in Sources(v) \cup {<<>>}
      BY <2>2
    <3>5. [b EXCEPT !.src = old.src] \in OpenEntries
      BY <2>4, <3>3, <3>4, OtherSources
    <3>6. QED
      BY <2>0, <2>5, <3>5
  <2>6. QED
    BY <2>0, <2>4, <2>5
<1>4. QED
  BY <1>2, <1>3, OldEntry

-----------------------------------------------------------------------------
(* A reconcile of the plan *)

\* A condition leaves the lists alone.
LEMMA ConditionOnly ==
  ASSUME NEW p, RecordOK(p), NEW c
  PROVE  RecordOK([p EXCEPT !.cond = c])
<1> DEFINE q == [p EXCEPT !.cond = c]
<1>1. q = [ready |-> p.ready, invalid |-> p.invalid, inProgress |-> p.inProgress, completed |-> p.completed, cond |-> c]
  <2>1. p = [ready |-> p.ready, invalid |-> p.invalid, inProgress |-> p.inProgress, completed |-> p.completed,
             cond |-> p.cond]
    BY Zenon DEF RecordOK
  <2>2. QED
    BY <2>1
<1> HIDE DEF q
<1>2. RecordOK(q)
  BY <1>1 DEF RecordOK
<1>3. QED
  BY <1>2 DEF q

\* A status with these lists.
LEMMA ListsOK ==
  ASSUME NEW a \in Seq(OpenEntries), NEW b \in Seq(OpenEntries), NEW c \in Seq(OpenEntries), NEW d \in Seq(DoneEntries), NEW e,
         NEW p, p = [ready |-> a, invalid |-> b, inProgress |-> c, completed |-> d, cond |-> e]
  PROVE  RecordOK(p)
  BY DEF RecordOK

\* The loop over the VMs.
LEMMA LoopOverOK ==
  ASSUME DistinctNames, DisksInv, NEW p, RecordOK(p), NEW seen \in Seq(VMs), NEW st, NEW missed
  PROVE  RecordOK(LoopOver(p, seen, st, missed))
<1> DEFINE S == {v \in VMs : CanStorageMigrate(v) /\ HasSources(p, v, missed)}
           kept == Filtered(seen, S)
           entries == [i \in DOMAIN kept |-> StatusVM(p, kept[i], missed)]
           unfit == \E v \in Elements(seen) : ~CanStorageMigrate(v)
           ready == IF st = "notStarted" THEN entries ELSE <<>>
           inProgress == IF st = "inProgress" THEN entries ELSE <<>>
           cond == IF unfit THEN SetCondition(p.cond, Condition("NotAllVirtualMachinesReady", TRUE, "Warn", <<"unfit">>))
                   ELSE p.cond
<1>1. kept \in Seq(VMs \cap S)
  BY FilteredType
<1>2. S \subseteq VMs /\ \A v \in S : HasSources(p, v, missed)
  OBVIOUS
<1>3. LoopOver(p, seen, st, missed) = [NoStatus EXCEPT !.ready = ready, !.inProgress = inProgress, !.cond = cond]
  BY DEF LoopOver
<1> HIDE DEF S, kept
<1>4. DOMAIN kept = 1..Len(kept) /\ Len(kept) \in Nat /\ \A i \in 1..Len(kept) : kept[i] \in S
  BY <1>1, LenProperties, ElementOfSeq
<1>5. \A i \in 1..Len(kept) : StatusVM(p, kept[i], missed) \in OpenEntries
  BY <1>2, <1>4, StatusVMOpen
<1>6. entries \in [1..Len(kept) -> OpenEntries]
  BY <1>4, <1>5
<1> HIDE DEF entries
<1>7. entries \in Seq(OpenEntries) /\ <<>> \in Seq(OpenEntries) /\ <<>> \in Seq(DoneEntries)
  BY <1>4, <1>6
<1>8. ready \in Seq(OpenEntries) /\ inProgress \in Seq(OpenEntries)
  BY <1>7
<1> HIDE DEF ready, inProgress, cond
<1>9. LoopOver(p, seen, st, missed) = [ready |-> ready, invalid |-> <<>>, inProgress |-> inProgress, completed |-> <<>>, cond |-> cond]
  BY <1>3 DEF NoStatus
<1>10. QED
  BY <1>7, <1>8, <1>9, ListsOK

\* A filtered list has no other elements.
LEMMA FilteredList ==
  ASSUME NEW A, NEW seq \in Seq(A), NEW S
  PROVE  Filtered(seq, S) \in Seq(A)
<1>1. Filtered(seq, S) \in Seq(A \cap S)
  BY FilteredType
<1>2. A \cap S \subseteq A
  OBVIOUS
<1>3. QED
  BY <1>1, <1>2, SeqMonotonic

\* What follows the loop.
LEMMA ValidatedOK ==
  ASSUME NEW p, RecordOK(p), NEW now
  PROVE  RecordOK(validatePVCs(p, now))
<1> DEFINE bad == {e \in Elements(p.ready) : ~classes \/ (now = "notStarted" /\ \E i \in DOMAIN e.tgt : e.tgt[i] = e.src[i])}
           ready == Filtered(p.ready, Elements(p.ready) \ bad)
           invalid == Filtered(p.ready, bad)
<1>1. validatePVCs(p, now) = [p EXCEPT !.ready = ready, !.invalid = invalid]
  BY DEF validatePVCs
<1>2. ready \in Seq(OpenEntries) /\ invalid \in Seq(OpenEntries)
  BY FilteredList DEF RecordOK
<1> HIDE DEF ready, invalid
<1>3. validatePVCs(p, now) = [ready |-> ready, invalid |-> invalid, inProgress |-> p.inProgress, completed |-> p.completed, cond |-> p.cond]
  BY <1>1 DEF RecordOK
<1>4. QED
  BY <1>2, <1>3, ListsOK DEF RecordOK

LEMMA CheckedOK ==
  ASSUME NEW p, RecordOK(p), NEW now, NEW r \in Checked(p, now)
  PROVE  RecordOK(r)
<1> DEFINE q == validatePVCs(p, now)
           ok == [q EXCEPT !.cond = DeleteCondition(@, "InvalidPVCs")]
           failed == [q EXCEPT !.cond = SetCondition(@, Condition("InvalidPVCs", TRUE, "Critical", <<"NotReady">>))]
<1>1. RecordOK(q)
  BY ValidatedOK
<1>2. r = failed \/ \E c \in ContentTypeChecked(ok) : r = CountsChecked(c)
  BY DEF Checked
<1> HIDE DEF q
<1>3. RecordOK(ok) /\ RecordOK(failed)
  BY <1>1, ConditionOnly
<1> HIDE DEF ok, failed
<1>4. ASSUME NEW c \in ContentTypeChecked(ok) PROVE RecordOK(c)
  <2>1. \E d : c = [ok EXCEPT !.cond = d]
    BY <1>4 DEF ContentTypeChecked
  <2>2. QED
    BY <1>3, <2>1, ConditionOnly
<1>5. ASSUME NEW c, RecordOK(c) PROVE RecordOK(CountsChecked(c))
  <2>1. \E d : CountsChecked(c) = [c EXCEPT !.cond = d]
    BY DEF CountsChecked
  <2>2. QED
    BY <1>5, <2>1, ConditionOnly
<1>6. QED
  BY <1>2, <1>3, <1>4, <1>5

\* A plan whose migration is over without a record gets entries without sources.
LEMMA HealedOK ==
  ASSUME spec \in Seq(VMs), NEW p, RecordOK(p)
  PROVE  RecordOK(healCompletedMigrations(p))
<1> DEFINE healed == [i \in DOMAIN spec |-> Entry(spec[i], <<>>, Given[spec[i]])]
<1>1. DOMAIN spec = 1..Len(spec) /\ Len(spec) \in Nat /\ \A i \in 1..Len(spec) : spec[i] \in VMs
  BY LenProperties, ElementOfSeq
<1>2. ASSUME NEW v \in VMs PROVE Entry(v, <<>>, Given[v]) \in DoneEntries
  <2> DEFINE e == Entry(v, <<>>, Given[v])
  <2>1. e = [vm |-> v, src |-> <<>>, tgt |-> Given[v]] /\ e.vm = v /\ e.src = <<>>
    BY DEF Entry
  <2>2. Given[v] \in UNION {[DOMAIN Disk[u] -> Names \cup {NoName}] : u \in VMs}
    BY RecordAssumption
  <2>3. e \in Entries
    BY <2>1, <2>2 DEF Entries
  <2>4. QED
    BY <2>1, <2>3 DEF DoneEntries
<1>3. healed \in [1..Len(spec) -> DoneEntries]
  BY <1>1, <1>2
<1> HIDE DEF healed
<1>4. healed \in Seq(DoneEntries)
  BY <1>1, <1>3
<1>5. CASE healCompletedMigrations(p) = p
  BY <1>5
<1>6. CASE healCompletedMigrations(p) = [p EXCEPT !.completed = healed]
  <2>1. healCompletedMigrations(p) =
          [ready |-> p.ready, invalid |-> p.invalid, inProgress |-> p.inProgress, completed |-> healed, cond |-> p.cond]
    BY <1>6 DEF RecordOK
  <2>2. QED
    BY <1>4, <2>1, ListsOK DEF RecordOK
<1>7. QED
  BY <1>5, <1>6 DEF healCompletedMigrations, healed

\* What the migrations of the plan make of its records.
LEMMA ProcessedOK ==
  ASSUME NEW p, RecordOK(p)
  PROVE  RecordOK(processMigrations(p))
<1> DEFINE all == Elements(p.ready \o p.inProgress)
           done == {e \in all : e.vm \in mig.completed}
           a == Filtered(p.ready, all \ done)
           b == Filtered(p.inProgress, all \ done)
           c == p.completed \o Filtered(p.ready, done) \o Filtered(p.inProgress, done)
           moved == updateReadyCompletedMigrations(p)
<1>1. moved = [p EXCEPT !.completed = c, !.ready = a, !.inProgress = b]
  BY DEF updateReadyCompletedMigrations
<1>2. a \in Seq(OpenEntries) /\ b \in Seq(OpenEntries)
  BY FilteredList DEF RecordOK
<1>3. c \in Seq(DoneEntries)
  <2>1. OpenEntries \subseteq DoneEntries
    BY OpenEntryFields
  <2>2. p.completed \in Seq(DoneEntries) /\ p.ready \in Seq(DoneEntries) /\ p.inProgress \in Seq(DoneEntries)
    BY <2>1, SeqMonotonic DEF RecordOK
  <2>3. Filtered(p.ready, done) \in Seq(DoneEntries) /\ Filtered(p.inProgress, done) \in Seq(DoneEntries)
    BY <2>2, FilteredList
  <2>4. QED
    BY <2>2, <2>3, ConcatProperties
<1> HIDE DEF a, b, c, moved
<1>4. moved = [ready |-> a, invalid |-> p.invalid, inProgress |-> b, completed |-> c, cond |-> p.cond]
  BY <1>1 DEF RecordOK
<1>5. RecordOK(moved)
  BY <1>2, <1>3, <1>4, ListsOK DEF RecordOK
<1>6. \E d : processMigrations(p) = [p EXCEPT !.cond = d] \/ processMigrations(p) = [moved EXCEPT !.cond = d]
  BY DEF processMigrations, moved
<1>7. QED
  BY <1>5, <1>6, ConditionOnly

\* The statuses a reconcile may leave.
LEMMA ReconciledOK ==
  ASSUME DistinctNames, DisksInv, spec \in Seq(VMs), NEW p, RecordOK(p), NEW missed, NEW st, NEW now,
         NEW r \in Reconciled(p, missed, st, now)
  PROVE  RecordOK(r)
<1> DEFINE k == validateKubeVirtInstalled(p)
<1>1. PICK q \in Validations(p, missed, st, now) : r = ReadySet(Succeeded(q))
  BY DEF Reconciled
<1>2. RecordOK(k)
  <2>1. \E d : k = [p EXCEPT !.cond = d]
    BY DEF validateKubeVirtInstalled
  <2>2. QED
    BY <2>1, ConditionOnly
<1>3. q = k \/ q = healCompletedMigrations(k) \/ q \in Checked(LoopOver(k, spec, st, missed), now)
  BY <1>1 DEF Validations
<1> HIDE DEF k
<1>4. RecordOK(q)
  <2>1. RecordOK(LoopOver(k, spec, st, missed))
    BY <1>2, LoopOverOK
  <2>2. QED
    BY <1>2, <1>3, <2>1, HealedOK, CheckedOK
<1> DEFINE s == Succeeded(q)
<1>5. RecordOK(s)
  BY <1>4, ConditionOnly DEF Succeeded
<1>6. r = ReadySet(s)
  BY <1>1
<1> HIDE DEF s
<1>7. PICK d : ReadySet(s) = [s EXCEPT !.cond = d]
  BY DEF ReadySet
<1>8. RecordOK([s EXCEPT !.cond = d])
  BY <1>5, ConditionOnly
<1>9. QED
  BY <1>6, <1>7, <1>8

\* A reconcile that is misled or fails does no more to the records.
LEMMA PlanStepsOK ==
  ASSUME DistinctNames, RecordsInv, PlanReconcile \/ PlanReconcileMisled \/ PlanReconcileFails
  PROVE  RecordOK(status')
<1>0. DisksInv /\ spec \in Seq(VMs) /\ RecordOK(status)
  BY DEF RecordsInv
<1>1. CASE PlanReconcile
  <2>1. status' = status \/ \E p \in Reconciled(status, {}, MigrationStatus, MigrationStatus) : status' = processMigrations(p)
    BY <1>1 DEF PlanReconcile, Undisturbed
  <2>2. QED
    BY <1>0, <2>1, ReconciledOK, ProcessedOK
<1>2. CASE PlanReconcileMisled
  <2>1. \E missed, st, now : \E p \in Reconciled(status, missed, st, now) : status' \in {p, processMigrations(p)}
    BY <1>2 DEF PlanReconcileMisled
  <2>2. QED
    BY <1>0, <2>1, ReconciledOK, ProcessedOK
<1>3. CASE PlanReconcileFails
  <2> DEFINE p == [status EXCEPT !.cond = DeleteCondition(@, "StorageMigrationNotPossible")]
             all == LoopOver(p, spec, MigrationStatus, {})
             valid == validatePVCs(all, MigrationStatus)
             checked == [valid EXCEPT !.cond = DeleteCondition(@, "InvalidPVCs")]
             Failed(q) == processMigrations(ReadySet([q EXCEPT !.cond = SetReconcileFailed(@)]))
  <2>1. \/ status' = status
        \/ status' = Failed(p)
        \/ \E k \in 0..Len(spec) : status' = Failed(LoopOver(p, SubSeq(spec, 1, k), MigrationStatus, {}))
        \/ status' = Failed(checked)
    BY <1>3 DEF PlanReconcileFails
  <2>2. ASSUME NEW q, RecordOK(q) PROVE RecordOK(Failed(q))
    <3> DEFINE f == [q EXCEPT !.cond = SetReconcileFailed(@)]
    <3>1. RecordOK(f)
      BY <2>2, ConditionOnly
    <3> HIDE DEF f
    <3>2. \E d : ReadySet(f) = [f EXCEPT !.cond = d]
      BY DEF ReadySet
    <3>3. RecordOK(ReadySet(f))
      BY <3>1, <3>2, ConditionOnly
    <3>4. QED
      BY <3>3, ProcessedOK DEF f
  <2>3. RecordOK(p)
    BY <1>0, ConditionOnly
  <2> HIDE DEF p, Failed
  <2>4. RecordOK(checked)
    BY <1>0, <2>3, LoopOverOK, ValidatedOK, ConditionOnly
  <2>5. ASSUME NEW k \in 0..Len(spec) PROVE RecordOK(LoopOver(p, SubSeq(spec, 1, k), MigrationStatus, {}))
    <3>1. Len(spec) \in Nat /\ \A i \in 1..Len(spec) : spec[i] \in VMs
      BY <1>0, LenProperties, ElementOfSeq
    <3>2. 1 \in Int /\ k \in Int /\ \A i \in 1..k : spec[i] \in VMs
      BY <3>1
    <3>3. SubSeq(spec, 1, k) \in Seq(VMs)
      BY <3>2, SubSeqProperties
    <3>4. QED
      BY <1>0, <2>3, <3>3, LoopOverOK
  <2>6. QED
    BY <1>0, <2>1, <2>2, <2>3, <2>4, <2>5
<1>4. QED
  BY <1>1, <1>2, <1>3

-----------------------------------------------------------------------------
(* What a step leaves of the records *)

\* No VM gets its first disks back before a cancel.
FreshKept == \A v \in VMs : Fresh(v)' => Fresh(v)

\* An entry stays one of its kind.
LEMMA EntriesKept ==
  ASSUME FreshKept
  PROVE  OpenEntries \subseteq OpenEntries' /\ DoneEntries \subseteq DoneEntries'
<1>1. ASSUME NEW e \in OpenEntries PROVE e \in OpenEntries'
  <2>1. e \in Entries /\ e.tgt = TargetNames(e.vm) /\ (Fresh(e.vm) => e.src = Disk[e.vm]) /\ e.vm \in VMs
    BY OpenEntryFields DEF OpenEntries
  <2>2. Fresh(e.vm)' => e.src = Disk[e.vm]
    BY <2>1 DEF FreshKept
  <2>3. QED
    BY <2>1, <2>2 DEF OpenEntries
<1>2. ASSUME NEW e \in DoneEntries PROVE e \in DoneEntries'
  BY <1>1 DEF DoneEntries
<1>3. QED
  BY <1>1, <1>2

\* A status, and so does a list of entries.
LEMMA RecordsKept ==
  ASSUME FreshKept, RecordOK(status'), task'.entries \in Seq(OpenEntries)
  PROVE  RecordOK(status)' /\ task'.entries \in Seq(OpenEntries')
<1>1. OpenEntries \subseteq OpenEntries' /\ DoneEntries \subseteq DoneEntries'
  BY EntriesKept
<1>2. \A s \in Seq(OpenEntries) : s \in Seq(OpenEntries')
  BY <1>1, SeqMonotonic
<1>3. \A s \in Seq(DoneEntries) : s \in Seq(DoneEntries')
  BY <1>1, SeqMonotonic
<1>4. QED
  BY <1>2, <1>3 DEF RecordOK

\* The disks, in a step that leaves the VMs alone.
LEMMA DisksKept ==
  ASSUME DisksInv, vm' = vm, Early' => Early
  PROVE  DisksInv' /\ FreshKept
<1>1. FreshKept
  BY DEF FreshKept, Fresh
<1>2. QED
  BY <1>1 DEF DisksInv, FreshKept

\* In a step that changes one VM.
LEMMA OneVMChanges ==
  ASSUME DisksInv, NEW v \in VMs, NEW STATE r, r \in VMRecords(v), vm' = [vm EXCEPT ![v] = r], Early' => Early,
         Fresh(v)' => Fresh(v) /\ r.inst \in {<<>>, Disk[v]}
  PROVE  DisksInv' /\ FreshKept
<1>1. vm \in [VMs -> UNION {VMRecords(u) : u \in VMs}]
  BY DEF DisksInv
<1>2. vm'[v] = r /\ \A u \in VMs : u # v => vm'[u] = vm[u]
  BY <1>1
<1>3. r \in UNION {VMRecords(u) : u \in VMs}
  OBVIOUS
<1>4. vm' \in [VMs -> UNION {VMRecords(u) : u \in VMs}]
  BY <1>1, <1>3
<1>5. FreshKept
  BY <1>2 DEF FreshKept, Fresh
<1>6. ASSUME NEW u \in VMs PROVE vm'[u] \in VMRecords(u) /\ (Fresh(u)' => vm'[u].inst \in {<<>>, Disk[u]})
  <2>1. CASE u = v
    BY <1>2, <2>1
  <2>2. CASE u # v
    BY <1>2, <1>5, <2>2 DEF DisksInv, FreshKept
  <2>3. QED
    BY <2>1, <2>2
<1>7. QED
  BY <1>4, <1>5, <1>6 DEF DisksInv

-----------------------------------------------------------------------------
(* The steps *)

\* What is known of the migration and of the task after a step.
LEMMA InvAfter ==
  ASSUME RecordsInv, MigInv', DisksInv', FreshKept, spec' \in Seq(VMs), RecordOK(status'),
         task' = [pc |-> task'.pc, entries |-> task'.entries, left |-> task'.left, kept |-> task'.kept, reverted |-> task'.reverted],
         task'.entries \in Seq(OpenEntries),
         task'.pc = "begin" => mig'.phase = "begin",
         task'.pc = "cancel" => mig'.phase = "canceling"
  PROVE  RecordsInv'
<1>1. RecordOK(status)' /\ task'.entries \in Seq(OpenEntries')
  BY RecordsKept
<1>2. TaskInv'
  BY <1>1 DEF TaskInv
<1>3. QED
  BY <1>1, <1>2 DEF RecordsInv

\* A reconcile of the plan.
LEMMA PlanStep ==
  ASSUME DistinctNames, RecordsInv, PlanReconcile \/ PlanReconcileMisled \/ PlanReconcileFails
  PROVE  RecordsInv'
<1>1. RecordOK(status')
  BY PlanStepsOK
<1>2. Persisted
  BY DEF PlanReconcile, PlanReconcileMisled, PlanReconcileFails
<1>3. vm' = vm /\ task' = task /\ spec' = spec /\ (mig' = mig \/ (mig.phase = "refresh" /\ mig' = [mig EXCEPT !.phase = "begin"]))
  BY <1>2 DEF Persisted
<1>4. mig = [n |-> mig.n, phase |-> mig.phase, running |-> mig.running, completed |-> mig.completed, cancelled |-> mig.cancelled]
  BY DEF RecordsInv, MigInv
<1>5. MigInv' /\ (Early' => Early)
  BY <1>3, <1>4 DEF RecordsInv, MigInv, Early
<1>6. DisksInv' /\ FreshKept
  BY <1>3, <1>5, DisksKept DEF RecordsInv
<1>7. task.pc \in {"begin", "cancel"} => mig' = mig
  BY <1>3 DEF RecordsInv, TaskInv
<1>8. QED
  BY <1>1, <1>3, <1>5, <1>6, <1>7, InvAfter DEF RecordsInv, TaskInv

\* The steps that move the migration on.
PhaseStep ==
  \/ CreateMigration \/ RefreshPlan \/ BeginDone \/ (\E v \in VMs : VMCompletes(v)) \/ MigrationCompletes
  \/ DeleteMigration \/ CancelDone \/ CleanupCancelled

LEMMA PhaseStepKeeps ==
  ASSUME RecordsInv, PhaseStep
  PROVE  RecordsInv'
<1>0. /\ mig = [n |-> mig.n, phase |-> mig.phase, running |-> mig.running, completed |-> mig.completed, cancelled |-> mig.cancelled]
      /\ mig.n \in Nat /\ mig.n <= MaxMigs /\ (mig.phase # "none" => mig.n > 0) /\ MaxMigs \in Nat
  BY RecordAssumption DEF RecordsInv, MigInv
<1>1. vm' = vm /\ spec' = spec /\ status' = status /\ (task' = task \/ task' = IdleTask)
  BY DEF PhaseStep, CreateMigration, RefreshPlan, BeginDone, VMCompletes, MigrationCompletes, DeleteMigration,
         CancelDone, CleanupCancelled, Elsewhere
<1>2. /\ mig' = [n |-> mig'.n, phase |-> mig'.phase, running |-> mig'.running, completed |-> mig'.completed, cancelled |-> mig'.cancelled]
      /\ mig'.n \in Nat /\ mig'.n <= MaxMigs /\ (mig'.phase # "none" => mig'.n > 0)
      /\ Early' => Early
  <2>1. CASE CreateMigration
    BY <1>0, <2>1 DEF CreateMigration, NoMig, Early
  <2>2. CASE RefreshPlan \/ BeginDone \/ (\E v \in VMs : VMCompletes(v)) \/ MigrationCompletes
    BY <1>0, <2>2 DEF RefreshPlan, BeginDone, VMCompletes, MigrationCompletes, Early, RecordsInv, TaskInv
  <2>3. CASE DeleteMigration \/ CleanupCancelled
    BY <1>0, <2>3 DEF DeleteMigration, CleanupCancelled, NoMig, Early
  <2>4. CASE CancelDone
    BY <1>0, <2>4 DEF CancelDone, Early, RecordsInv, TaskInv
  <2>5. QED
    BY <2>1, <2>2, <2>3, <2>4 DEF PhaseStep
<1>3. MigInv' /\ DisksInv' /\ FreshKept
  BY <1>1, <1>2, DisksKept DEF RecordsInv, MigInv
<1>4. /\ task'.pc = "begin" => mig'.phase = "begin"
      /\ task'.pc = "cancel" => mig'.phase = "canceling"
  <2>1. /\ task.pc = "begin" => mig.phase = "begin"
        /\ task.pc = "cancel" => mig.phase = "canceling"
    BY DEF RecordsInv, TaskInv
  <2>2. CASE task' = IdleTask
    BY <2>2 DEF IdleTask
  <2>3. CASE task' = task /\ (mig.phase \notin {"begin", "canceling"} \/ task.pc = "idle")
    BY <2>1, <2>3
  <2>4. \/ task' = IdleTask
        \/ task' = task /\ (mig.phase \notin {"begin", "canceling"} \/ task.pc = "idle")
    BY DEF PhaseStep, CreateMigration, RefreshPlan, BeginDone, VMCompletes, MigrationCompletes, DeleteMigration,
           CancelDone, CleanupCancelled
  <2>5. QED
    BY <2>2, <2>3, <2>4
<1>5. /\ task' = [pc |-> task'.pc, entries |-> task'.entries, left |-> task'.left, kept |-> task'.kept, reverted |-> task'.reverted]
      /\ task'.entries \in Seq(OpenEntries)
  <2>1. IdleTask = [pc |-> "idle", entries |-> <<>>, left |-> {}, kept |-> {}, reverted |-> {}] /\ <<>> \in Seq(OpenEntries)
    BY DEF IdleTask
  <2>2. CASE task' = IdleTask
    BY <2>1, <2>2
  <2>3. CASE task' = task
    BY <2>3 DEF RecordsInv, TaskInv
  <2>4. QED
    BY <1>1, <2>2, <2>3
<1>6. QED
  BY <1>1, <1>3, <1>4, <1>5, InvAfter DEF RecordsInv

\* The task reads the entries, drops them, and what is around it changes.
LEMMA OtherStepKeeps ==
  ASSUME RecordsInv, ReadPlan \/ TaskFails \/ KubeVirtChanges \/ StorageClassChanges \/ AddVM
  PROVE  RecordsInv'
<1>1. vm' = vm /\ mig' = mig /\ status' = status
  BY DEF ReadPlan, TaskFails, KubeVirtChanges, StorageClassChanges, AddVM, Elsewhere
<1>2. MigInv' /\ (Early' => Early)
  BY <1>1 DEF RecordsInv, MigInv, Early
<1>3. DisksInv' /\ FreshKept
  BY <1>1, <1>2, DisksKept DEF RecordsInv
<1>4. spec' \in Seq(VMs)
  <2>1. CASE AddVM
    <3>1. Order \in Seq(VMs) /\ Len(spec) + 1 \in Int /\ 1 \in Int /\ Len(spec) + 1 <= Len(Order) /\ Len(Order) \in Nat /\ Len(spec) \in Nat
      BY <2>1, RecordAssumption DEF AddVM, RecordsInv
    <3>2. \A i \in 1..(Len(spec) + 1) : Order[i] \in VMs
      <4>1. \A i \in 1..Len(Order) : Order[i] \in VMs
        BY <3>1, ElementOfSeq
      <4>2. QED
        BY <3>1, <4>1
    <3>3. SubSeq(Order, 1, Len(spec) + 1) \in Seq(VMs)
      BY <3>1, <3>2, SubSeqProperties
    <3>4. QED
      BY <2>1, <3>3 DEF AddVM
  <2>2. CASE ~AddVM
    BY <2>2 DEF ReadPlan, TaskFails, KubeVirtChanges, StorageClassChanges, Elsewhere, RecordsInv
  <2>3. QED
    BY <2>1, <2>2
<1> DEFINE open == status.ready \o status.inProgress
<1>5. <<>> \in Seq(OpenEntries) /\ open \in Seq(OpenEntries)
  <2>1. status.ready \in Seq(OpenEntries) /\ status.inProgress \in Seq(OpenEntries)
    BY DEF RecordsInv, RecordOK
  <2>2. QED
    BY <2>1, ConcatProperties
<1>6. \/ task' = task
      \/ task' = IdleTask
      \/ mig.phase = "begin" /\ task' = [IdleTask EXCEPT !.pc = "begin", !.entries = open]
      \/ mig.phase = "canceling" /\ task' = [IdleTask EXCEPT !.pc = "cancel", !.entries = open, !.left = mig.running]
  BY DEF ReadPlan, TaskFails, KubeVirtChanges, StorageClassChanges, AddVM
<1> HIDE DEF open
<1>7. /\ task' = [pc |-> task'.pc, entries |-> task'.entries, left |-> task'.left, kept |-> task'.kept, reverted |-> task'.reverted]
      /\ task'.entries \in Seq(OpenEntries)
      /\ task'.pc = "begin" => mig'.phase = "begin"
      /\ task'.pc = "cancel" => mig'.phase = "canceling"
  <2>1. CASE task' = task
    BY <1>1, <2>1 DEF RecordsInv, TaskInv
  <2>2. CASE task' = IdleTask
    BY <1>5, <2>2 DEF IdleTask
  <2>3. CASE mig.phase = "begin" /\ task' = [IdleTask EXCEPT !.pc = "begin", !.entries = open]
    BY <1>1, <1>5, <2>3 DEF IdleTask
  <2>4. CASE mig.phase = "canceling" /\ task' = [IdleTask EXCEPT !.pc = "cancel", !.entries = open, !.left = mig.running]
    BY <1>1, <1>5, <2>4 DEF IdleTask
  <2>5. QED
    BY <1>6, <2>1, <2>2, <2>3, <2>4
<1>8. RecordOK(status')
  BY <1>1 DEF RecordsInv
<1>9. QED
  BY <1>2, <1>3, <1>4, <1>7, <1>8, InvAfter

\* The disks and the targets of the VMs differ, volume by volume.
LEMMA NamesDiffer ==
  ASSUME DistinctNames, NEW v \in VMs
  PROVE  Disk[v] # TargetNames(v)
<1>1. 1 \in DOMAIN Disk[v]
  BY DiskNames
<1>2. Disk[v][1] # TargetNames(v)[1]
  BY <1>1 DEF DistinctNames
<1>3. QED
  BY <1>2

(***************************************************************************)
(* The volumes of a VM with an entry of its own, and the templates found   *)
(* by the sources (prepareVMForStorageMigration).                          *)
(***************************************************************************)
LEMMA Prepared ==
  ASSUME DistinctNames, NEW v \in VMs, NEW r \in VMRecords(v), NEW e,
         e.src \in Sources(v) \cup {<<>>}, e.tgt \in {Disk[v], TargetNames(v)},
         MaxMigs = 1 => e.tgt = r.disk \/ e.src = r.disk
  PROVE  /\ prepareVM(r, e) \in VMRecords(v)
         /\ prepareVM(r, e).disk = e.tgt /\ prepareVM(r, e).inst = r.inst
<1> DEFINE found(i) == {j \in DOMAIN e.src : e.src[j] = r.dvt[i]}
           at(i) == CHOOSE j \in found(i) : \A k \in found(i) : k <= j
           dvt == [i \in DOMAIN r.dvt |-> IF found(i) = {} THEN r.dvt[i] ELSE e.tgt[at(i)]]
<1>1. /\ r = [disk |-> r.disk, dvt |-> r.dvt, inst |-> r.inst, vus |-> r.vus, fit |-> r.fit]
      /\ r.disk \in {Disk[v], TargetNames(v)} /\ r.dvt \in [DOMAIN Disk[v] -> Names \cup {NoName}]
      /\ r.inst \in {<<>>, Disk[v], TargetNames(v)} /\ r.vus \in BOOLEAN /\ r.fit \in BOOLEAN
      /\ MaxMigs = 1 => \A i \in DOMAIN Disk[v] : r.dvt[i] \in {NoName, r.disk[i]}
  BY DEF VMRecords
<1>2. prepareVM(r, e) = [r EXCEPT !.disk = e.tgt, !.dvt = dvt]
  BY DEF prepareVM
<1>3. /\ DOMAIN dvt = DOMAIN Disk[v] /\ dvt = [i \in DOMAIN Disk[v] |-> dvt[i]]
      /\ \A i \in DOMAIN Disk[v] : dvt[i] = IF found(i) = {} THEN r.dvt[i] ELSE e.tgt[at(i)]
  <2>1. DOMAIN r.dvt = DOMAIN Disk[v]
    BY <1>1
  <2> HIDE DEF found, at
  <2>2. QED
    BY <2>1
<1>4. \A j \in DOMAIN e.src : j \in DOMAIN Disk[v] /\ e.src[j] \in {Disk[v][j], TargetNames(v)[j]} /\ e.src[j] # NoName
  <2>1. CASE e.src = <<>>
    BY <2>1
  <2>2. CASE e.src \in Sources(v)
    BY <2>2, SourceFields
  <2>3. QED
    BY <2>1, <2>2
<1>5. \A i, j \in DOMAIN Disk[v] : \A x \in {Disk[v][i], TargetNames(v)[i]} : x \in {Disk[v][j], TargetNames(v)[j]} => i = j
  BY DEF DistinctNames
<1>6. \A i \in DOMAIN Disk[v] : r.disk[i] \in {Disk[v][i], TargetNames(v)[i]} /\ e.tgt[i] \in {Disk[v][i], TargetNames(v)[i]}
  BY <1>1
<1>7. ASSUME NEW i, NEW j \in found(i) PROVE at(i) = j
  <2>1. \A k \in found(i) : k = j
    BY <1>4, <1>5
  <2>2. j \in Nat
    BY <1>4, DiskNames
  <2>3. \A k \in found(i) : k <= j
    BY <2>1, <2>2
  <2> HIDE DEF found
  <2>4. QED
    BY <2>1, <2>3
<1>8. ASSUME NEW i \in DOMAIN Disk[v] PROVE dvt[i] \in Names \cup {NoName}
  <2>1. CASE found(i) = {}
    BY <1>1, <1>3, <2>1
  <2>2. ASSUME NEW j \in found(i) PROVE dvt[i] \in Names \cup {NoName}
    <3>1. dvt[i] = e.tgt[j] /\ j \in DOMAIN Disk[v]
      BY <1>3, <1>4, <1>7, <2>2
    <3>2. QED
      BY <3>1, DiskNames
  <2>3. QED
    BY <2>1, <2>2
<1>9. ASSUME MaxMigs = 1, NEW i \in DOMAIN Disk[v] PROVE dvt[i] \in {NoName, e.tgt[i]}
  <2>1. r.dvt[i] \in {NoName, r.disk[i]}
    BY <1>1, <1>9
  <2>2. CASE found(i) = {}
    <3>1. dvt[i] = r.dvt[i]
      BY <1>3, <2>2
    <3>2. CASE r.dvt[i] = NoName
      BY <3>1, <3>2
    <3>3. CASE r.dvt[i] = r.disk[i]
      <4>1. e.src # r.disk
        <5>1. DOMAIN r.disk = DOMAIN Disk[v]
          BY <1>1, DiskNames
        <5>2. QED
          BY <2>2, <3>3, <5>1
      <4>2. QED
        BY <1>9, <3>1, <3>3, <4>1
    <3>4. QED
      BY <2>1, <3>2, <3>3
  <2>3. ASSUME NEW j \in found(i) PROVE dvt[i] = e.tgt[i]
    <3>1. j \in DOMAIN Disk[v] /\ e.src[j] = r.dvt[i] /\ r.dvt[i] # NoName /\ r.dvt[i] \in {Disk[v][j], TargetNames(v)[j]}
      BY <1>4, <2>3
    <3>2. r.dvt[i] \in {Disk[v][i], TargetNames(v)[i]}
      BY <1>6, <2>1, <3>1
    <3>3. i = j
      BY <1>5, <3>1, <3>2
    <3>4. dvt[i] = e.tgt[at(i)] /\ at(i) = j
      BY <1>3, <1>7, <2>3
    <3>5. QED
      BY <3>3, <3>4
  <2>4. QED
    BY <2>2, <2>3
<1> HIDE DEF dvt
<1>10. dvt \in [DOMAIN Disk[v] -> Names \cup {NoName}]
  BY <1>3, <1>8
<1>11. prepareVM(r, e) = [disk |-> e.tgt, dvt |-> dvt, inst |-> r.inst, vus |-> r.vus, fit |-> r.fit]
  BY <1>1, <1>2
<1>12. QED
  BY <1>1, <1>9, <1>10, <1>11 DEF VMRecords

\* A swap has the entry's targets in place of its sources.
LEMMA BeginStep ==
  ASSUME DistinctNames, RecordsInv, BeginVM
  PROVE  /\ RecordsInv'
         /\ MaxMigs = 1 => \A v \in VMs : vm'[v].disk # vm[v].disk => vm[v].disk = Head(task.entries).src
<1> DEFINE e == Head(task.entries)
<1>1. task.pc = "begin" /\ task.entries # <<>> /\ mig.phase = "begin" /\ task.entries \in Seq(OpenEntries)
  BY DEF BeginVM, RecordsInv, TaskInv
<1>2. e \in OpenEntries /\ Tail(task.entries) \in Seq(OpenEntries)
  BY <1>1
<1>0. PICK v \in VMs : v = e.vm
  BY <1>2, OpenEntryFields
<1>3. /\ e.src \in Sources(v) \cup {<<>>} /\ e.tgt = TargetNames(v)
      /\ Fresh(v) => e.src = Disk[v]
  BY <1>0, <1>2, OpenEntryFields
<1>4. /\ vm' = vm \/ vm' = [vm EXCEPT ![v] = prepareVM(vm[v], e)]
      /\ mig' = mig \/ mig' = [mig EXCEPT !.running = @ \cup {v}]
      /\ task' = IdleTask \/ task' = [task EXCEPT !.entries = Tail(@)]
      /\ spec' = spec /\ status' = status
  BY <1>0 DEF BeginVM, Elsewhere
<1> HIDE DEF e
<1>5. vm[v] \in VMRecords(v) /\ vm[v].disk \in {Disk[v], TargetNames(v)} /\ vm \in [VMs -> UNION {VMRecords(u) : u \in VMs}]
  BY <1>3 DEF RecordsInv, DisksInv, VMRecords
<1>6. MaxMigs = 1 => (vm[v].disk = Disk[v] => e.src = Disk[v])
  BY <1>1, <1>3 DEF Fresh, Early
<1>7. prepareVM(vm[v], e) \in VMRecords(v) /\ prepareVM(vm[v], e).disk = TargetNames(v)
  BY <1>3, <1>5, <1>6, Prepared
<1>8. MigInv' /\ mig'.phase = mig.phase /\ mig'.n = mig.n
  <2>1. mig = [n |-> mig.n, phase |-> mig.phase, running |-> mig.running, completed |-> mig.completed, cancelled |-> mig.cancelled]
    BY DEF RecordsInv, MigInv
  <2>2. QED
    BY <1>4, <2>1 DEF RecordsInv, MigInv
<1>9. Early' => Early
  BY <1>8 DEF Early
<1>10. DisksInv' /\ FreshKept
  <2>1. CASE vm' = vm
    BY <1>9, <2>1, DisksKept DEF RecordsInv
  <2>2. CASE vm' = [vm EXCEPT ![v] = prepareVM(vm[v], e)]
    <3>1. vm'[v].disk = TargetNames(v)
      BY <1>3, <1>5, <1>7, <2>2
    <3>2. ~Fresh(v)'
      <4>1. vm'[v].disk # Disk[v]
        BY <1>3, <3>1, NamesDiffer
      <4>2. QED
        BY <4>1 DEF Fresh
    <3>3. QED
      BY <1>3, <1>7, <1>9, <2>2, <3>2, OneVMChanges DEF RecordsInv
  <2>3. QED
    BY <1>4, <2>1, <2>2
<1>11. /\ task' = [pc |-> task'.pc, entries |-> task'.entries, left |-> task'.left, kept |-> task'.kept, reverted |-> task'.reverted]
       /\ task'.entries \in Seq(OpenEntries) /\ task'.pc \in {"begin", "idle"}
  <2>1. CASE task' = IdleTask
    BY <2>1 DEF IdleTask
  <2>2. CASE task' = [task EXCEPT !.entries = Tail(@)]
    <3>1. task = [pc |-> task.pc, entries |-> task.entries, left |-> task.left, kept |-> task.kept, reverted |-> task.reverted]
      BY DEF RecordsInv, TaskInv
    <3>2. QED
      BY <1>1, <1>2, <2>2, <3>1
  <2>3. QED
    BY <1>4, <2>1, <2>2
<1>12. RecordsInv'
  BY <1>1, <1>4, <1>8, <1>10, <1>11, InvAfter DEF RecordsInv
<1>13. ASSUME MaxMigs = 1, NEW u \in VMs, vm'[u].disk # vm[u].disk PROVE vm[u].disk = e.src
  <2>1. vm' = [vm EXCEPT ![v] = prepareVM(vm[v], e)] /\ u = v
    BY <1>3, <1>4, <1>5, <1>13
  <2>2. vm'[v].disk = TargetNames(v)
    BY <1>3, <1>5, <1>7, <2>1
  <2>3. vm[v].disk = Disk[v]
    BY <1>5, <1>13, <2>1, <2>2
  <2>4. QED
    BY <1>6, <1>13, <2>1, <2>3
<1>14. QED
  BY <1>12, <1>13 DEF e

\* The names VolumeUpdateState knows are those of the disks.
LEMMA StateNames ==
  ASSUME DisksInv, NEW v \in VMs, NEW name \in DOMAIN VolumeUpdateState(v)
  PROVE  \E i \in DOMAIN Disk[v] : name = vm[v].disk[i]
<1> DEFINE moved == {k \in DOMAIN vm[v].inst : vm[v].vus /\ vm[v].inst[k] # vm[v].disk[k]}
<1>1. \E i \in moved : name = vm[v].disk[i]
  BY DEF VolumeUpdateState
<1>2. vm[v].inst \in {<<>>, Disk[v], TargetNames(v)}
  BY DEF DisksInv, VMRecords
<1>3. DOMAIN vm[v].inst \subseteq DOMAIN Disk[v]
  BY <1>2, DiskNames
<1>4. QED
  BY <1>1, <1>3

\* The entry a cancel works with, unless it can revert nothing.
LEMMA EntryToCancel ==
  ASSUME TaskInv, NEW v \in VMs, NEW from, canRevert(CancelEntry(v), from)
  PROVE  CancelEntry(v) \in OpenEntries /\ CancelEntry(v).vm = v
<1> DEFINE own == {i \in DOMAIN task.entries : task.entries[i].vm = v}
           first == CHOOSE i \in own : \A j \in own : i <= j
<1>1. CancelEntry(v) = IF own = {} THEN Entry(v, <<>>, <<NoName>>) ELSE task.entries[first]
  BY DEF CancelEntry
<1>2. Len(CancelEntry(v).src) = Len(CancelEntry(v).tgt)
  BY DEF canRevert
<1>3. own # {}
  <2>1. ASSUME own = {} PROVE FALSE
    <3>1. CancelEntry(v).src = <<>> /\ CancelEntry(v).tgt = <<NoName>>
      BY <1>1, <2>1 DEF Entry
    <3>2. QED
      BY <1>2, <3>1
  <2>2. QED
    BY <2>1
<1>4. /\ task.entries \in Seq(OpenEntries)
      /\ DOMAIN task.entries = 1..Len(task.entries) /\ Len(task.entries) \in Nat
      /\ \A i \in 1..Len(task.entries) : task.entries[i] \in OpenEntries
  BY LenProperties, ElementOfSeq DEF TaskInv
<1>5. \E i \in own : \A j \in own : i <= j
  <2>1. own \in SUBSET Nat
    BY <1>4
  <2> HIDE DEF own
  <2>2. PICK i \in own : \A j \in own : ~(j < i)
    BY <1>3, <2>1, LeastNatural
  <2>3. \A j \in own : i <= j
    BY <2>1, <2>2
  <2>4. QED
    BY <2>3
<1>6. first \in own
  BY <1>5
<1> HIDE DEF first
<1>7. QED
  BY <1>1, <1>3, <1>4, <1>6

\* A revert goes back to the disks the VM had at first (recoverCorruptedSourcePVCs).
LEMMA Recovered ==
  ASSUME DistinctNames, DisksInv, NEW v \in VMs, NEW e \in OpenEntries, e.vm = v, canRevert(e, VolumeUpdateState(v))
  PROVE  recoveredSources(e, VolumeUpdateState(v)) = Disk[v]
<1> DEFINE from == VolumeUpdateState(v)
           src == recoveredSources(e, from)
<1>1. e.src \in Sources(v) \cup {<<>>} /\ e.tgt = TargetNames(v)
  BY OpenEntryFields
<1>2. Len(e.src) = Len(e.tgt) /\ \A i \in DOMAIN src : src[i] # NoName /\ src[i] # e.tgt[i]
  BY DEF canRevert
<1>3. e.src \in Sources(v)
  <2>1. TargetNames(v) \in Sources(v)
    BY DiskNames DEF Sources
  <2>2. Len(e.tgt) = Len(Disk[v]) /\ Len(Disk[v]) # 0
    BY <1>1, <2>1, SourceFields, DiskNames
  <2>3. e.src # <<>>
    BY <1>2, <2>2
  <2>4. QED
    BY <1>1, <2>3
<1>4. DOMAIN e.src = DOMAIN Disk[v] /\ \A i \in DOMAIN Disk[v] : e.src[i] \in {Disk[v][i], TargetNames(v)[i]}
  BY <1>3, SourceFields
<1>5. /\ DOMAIN src = DOMAIN Disk[v] /\ src = [i \in DOMAIN Disk[v] |-> src[i]]
      /\ \A i \in DOMAIN Disk[v] :
           src[i] = IF e.src[i] # e.tgt[i] THEN e.src[i]
                    ELSE IF e.tgt[i] \in DOMAIN from THEN from[e.tgt[i]] ELSE NoName
  BY <1>4 DEF recoveredSources
<1> HIDE DEF src, from
<1>6. ASSUME NEW i \in DOMAIN Disk[v] PROVE src[i] = Disk[v][i]
  <2>1. CASE e.src[i] # e.tgt[i]
    BY <1>1, <1>4, <1>5, <2>1
  <2>2. CASE e.src[i] = e.tgt[i]
    <3>1. TargetNames(v)[i] \in DOMAIN from /\ src[i] = from[TargetNames(v)[i]]
      BY <1>1, <1>2, <1>5, <2>2
    <3>2. vm[v].disk \in {Disk[v], TargetNames(v)} /\ vm[v].inst \in {<<>>, Disk[v], TargetNames(v)}
      BY DEF DisksInv, VMRecords
    <3>3. \E k \in DOMAIN Disk[v] : TargetNames(v)[i] = vm[v].disk[k]
      BY <3>1, StateNames DEF from
    <3>4. vm[v].disk = TargetNames(v)
      BY <3>2, <3>3 DEF DistinctNames
    <3>5. from[vm[v].disk[i]] = vm[v].inst[i] /\ vm[v].inst[i] # vm[v].disk[i] /\ vm[v].inst # <<>>
      BY <3>1, <3>4, UpdateState DEF from
    <3>6. vm[v].inst = Disk[v]
      BY <3>2, <3>4, <3>5
    <3>7. QED
      BY <3>1, <3>4, <3>5, <3>6
  <2>3. QED
    BY <2>1, <2>2
<1>7. src = Disk[v]
  BY <1>5, <1>6, DiskNames
<1>8. QED
  BY <1>7 DEF src, from

\* A cancel leaves the volumes alone, or brings all of them back.
LEMMA CancelStep ==
  ASSUME DistinctNames, RecordsInv, NEW v \in VMs, CancelVM(v)
  PROVE  RecordsInv'
<1> DEFINE e == CancelEntry(v)
           from == VolumeUpdateState(v)
           back == revertPlanVolumes(e, from)
<1>1. /\ task.pc = "cancel" /\ mig' = mig /\ spec' = spec /\ status' = status
      /\ \/ vm' = vm
         \/ canRevert(e, from) /\ vm' = [vm EXCEPT ![v] = prepareVM(vm[v], back)]
      /\ task' = IdleTask \/ \E kept, reverted : task' = [task EXCEPT !.left = @ \ {v}, !.kept = @ \cup kept, !.reverted = @ \cup reverted]
  BY DEF CancelVM, Elsewhere
<1>2. mig.phase = "canceling" /\ ~Early /\ ~Early'
  BY <1>1 DEF RecordsInv, TaskInv, Early
<1>3. MigInv'
  BY <1>1 DEF RecordsInv, MigInv
<1>4. DisksInv' /\ FreshKept
  <2>1. CASE vm' = vm
    BY <1>2, <2>1, DisksKept DEF RecordsInv
  <2>2. CASE canRevert(e, from) /\ vm' = [vm EXCEPT ![v] = prepareVM(vm[v], back)]
    <3>1. e \in OpenEntries /\ e.vm = v
      BY <2>2, EntryToCancel DEF RecordsInv
    <3>2. e.tgt = TargetNames(v) /\ e = [vm |-> e.vm, src |-> e.src, tgt |-> e.tgt]
      BY <3>1, OpenEntryFields DEF Entry
    <3>3. recoveredSources(e, from) = Disk[v]
      BY <2>2, <3>1, Recovered DEF RecordsInv
    <3>4. back = [e EXCEPT !.src = e.tgt, !.tgt = recoveredSources(e, from)]
      BY DEF revertPlanVolumes
    <3> HIDE DEF e, from, back
    <3>5. back.src = TargetNames(v) /\ back.tgt = Disk[v]
      BY <3>2, <3>3, <3>4
    <3>6. TargetNames(v) \in Sources(v)
      BY DiskNames DEF Sources
    <3>7. vm[v] \in VMRecords(v) /\ vm[v].disk \in {Disk[v], TargetNames(v)}
      BY DEF RecordsInv, DisksInv, VMRecords
    <3>8. prepareVM(vm[v], back) \in VMRecords(v)
      BY <3>5, <3>6, <3>7, Prepared
    <3>9. QED
      BY <1>2, <2>2, <3>8, OneVMChanges DEF RecordsInv, Fresh
  <2>3. QED
    BY <1>1, <2>1, <2>2
<1>5. /\ task' = [pc |-> task'.pc, entries |-> task'.entries, left |-> task'.left, kept |-> task'.kept, reverted |-> task'.reverted]
      /\ task'.entries \in Seq(OpenEntries) /\ task'.pc \in {"cancel", "idle"}
  <2>1. CASE task' = IdleTask
    BY <2>1 DEF IdleTask
  <2>2. ASSUME NEW kept, NEW reverted, task' = [task EXCEPT !.left = @ \ {v}, !.kept = @ \cup kept, !.reverted = @ \cup reverted]
        PROVE  /\ task' = [pc |-> task'.pc, entries |-> task'.entries, left |-> task'.left, kept |-> task'.kept, reverted |-> task'.reverted]
               /\ task'.entries \in Seq(OpenEntries) /\ task'.pc \in {"cancel", "idle"}
    <3>1. /\ task = [pc |-> task.pc, entries |-> task.entries, left |-> task.left, kept |-> task.kept, reverted |-> task.reverted]
          /\ task.entries \in Seq(OpenEntries)
      BY DEF RecordsInv, TaskInv
    <3>2. QED
      BY <1>1, <2>2, <3>1
  <2>3. QED
    BY <1>1, <2>1, <2>2
<1>6. QED
  BY <1>1, <1>2, <1>3, <1>4, <1>5, InvAfter DEF RecordsInv

\* KubeVirt moves the instance to the disks of the VM.
LEMMA ClusterStep ==
  ASSUME DistinctNames, RecordsInv, NEW v \in VMs, KubeVirtMoves(v) \/ FitnessChanges(v)
  PROVE  RecordsInv'
<1> DEFINE shown == [vm[v] EXCEPT !.vus = TRUE]
           there == [vm[v] EXCEPT !.inst = vm[v].disk, !.vus = FALSE]
           flip == ~vm[v].fit
           other == [vm[v] EXCEPT !.fit = flip]
<1>0. /\ vm \in [VMs -> UNION {VMRecords(u) : u \in VMs}] /\ vm[v] \in VMRecords(v)
      /\ Fresh(v) => vm[v].inst \in {<<>>, Disk[v]} /\ vm[v].disk = Disk[v]
  BY DEF RecordsInv, DisksInv, Fresh
<1>1. mig' = mig /\ task' = task /\ spec' = spec /\ status' = status
  BY DEF KubeVirtMoves, FitnessChanges, Elsewhere
<1>2. \/ vm' = [vm EXCEPT ![v] = shown]
      \/ vm' = [vm EXCEPT ![v] = there]
      \/ vm' = [vm EXCEPT ![v] = other]
  BY <1>0 DEF KubeVirtMoves, FitnessChanges
<1>3. /\ vm[v] = [disk |-> vm[v].disk, dvt |-> vm[v].dvt, inst |-> vm[v].inst, vus |-> vm[v].vus, fit |-> vm[v].fit]
      /\ vm[v].disk \in {Disk[v], TargetNames(v)} /\ vm[v].dvt \in [DOMAIN Disk[v] -> Names \cup {NoName}]
      /\ vm[v].inst \in {<<>>, Disk[v], TargetNames(v)} /\ vm[v].vus \in BOOLEAN /\ vm[v].fit \in BOOLEAN
      /\ MaxMigs = 1 => \A i \in DOMAIN Disk[v] : vm[v].dvt[i] \in {NoName, vm[v].disk[i]}
  BY <1>0 DEF VMRecords
<1>a. flip \in BOOLEAN
  BY Zenon
<1> HIDE DEF flip
<1>4. /\ shown = [disk |-> vm[v].disk, dvt |-> vm[v].dvt, inst |-> vm[v].inst, vus |-> TRUE, fit |-> vm[v].fit]
      /\ there = [disk |-> vm[v].disk, dvt |-> vm[v].dvt, inst |-> vm[v].disk, vus |-> FALSE, fit |-> vm[v].fit]
      /\ other = [disk |-> vm[v].disk, dvt |-> vm[v].dvt, inst |-> vm[v].inst, vus |-> vm[v].vus, fit |-> flip]
  <2> DEFINE r == vm[v]
  <2>1. r = [disk |-> r.disk, dvt |-> r.dvt, inst |-> r.inst, vus |-> r.vus, fit |-> r.fit]
    BY <1>3
  <2> HIDE DEF r
  <2>2. ASSUME NEW b PROVE [r EXCEPT !.vus = b] = [disk |-> r.disk, dvt |-> r.dvt, inst |-> r.inst, vus |-> b, fit |-> r.fit]
    BY <2>1
  <2>3. ASSUME NEW a, NEW b
        PROVE  [r EXCEPT !.inst = a, !.vus = b] = [disk |-> r.disk, dvt |-> r.dvt, inst |-> a, vus |-> b, fit |-> r.fit]
    <3> DEFINE s == [r EXCEPT !.inst = a]
    <3>1. s = [disk |-> r.disk, dvt |-> r.dvt, inst |-> a, vus |-> r.vus, fit |-> r.fit]
      BY <2>1
    <3>2. [r EXCEPT !.inst = a, !.vus = b] = [s EXCEPT !.vus = b]
      OBVIOUS
    <3> HIDE DEF s
    <3>3. QED
      BY <3>1, <3>2
  <2>4. [r EXCEPT !.fit = flip] = [disk |-> r.disk, dvt |-> r.dvt, inst |-> r.inst, vus |-> r.vus, fit |-> flip]
    BY <2>1
  <2>5. QED
    BY <2>2, <2>3, <2>4, Zenon DEF r
<1> HIDE DEF shown, there, other
<1>5. shown \in VMRecords(v) /\ there \in VMRecords(v) /\ other \in VMRecords(v)
  <2>1. TRUE \in BOOLEAN /\ FALSE \in BOOLEAN
    OBVIOUS
  <2>2. shown \in VMRecords(v)
    BY <1>3, <1>4, <2>1 DEF VMRecords
  <2>3. there \in VMRecords(v)
    BY <1>3, <1>4, <2>1 DEF VMRecords
  <2>4. other \in VMRecords(v)
    BY <1>3, <1>4, <1>a DEF VMRecords
  <2>5. QED
    BY <2>2, <2>3, <2>4
<1>6. Early' => Early
  BY <1>1 DEF Early
<1>7. ASSUME NEW STATE r, r \in {shown, there, other}, vm' = [vm EXCEPT ![v] = r]
      PROVE  DisksInv' /\ FreshKept
  <2>1. r.disk = vm[v].disk /\ r.inst \in {vm[v].inst, vm[v].disk} /\ r \in VMRecords(v)
    <3>1. /\ shown.disk = vm[v].disk /\ there.disk = vm[v].disk /\ other.disk = vm[v].disk
          /\ shown.inst = vm[v].inst /\ there.inst = vm[v].disk /\ other.inst = vm[v].inst
      BY <1>4
    <3>2. QED
      BY <1>5, <1>7, <3>1
  <2>2. vm'[v] = r
    BY <1>0, <1>7
  <2>3. Fresh(v)' => Fresh(v) /\ r.inst \in {<<>>, Disk[v]}
    BY <1>0, <1>6, <2>1, <2>2 DEF Fresh
  <2>4. QED
    BY <1>6, <1>7, <2>1, <2>3, OneVMChanges DEF RecordsInv
<1>8. DisksInv' /\ FreshKept
  BY <1>2, <1>7
<1>9. MigInv'
  BY <1>1 DEF RecordsInv, MigInv
<1>10. QED
  BY <1>1, <1>8, <1>9, InvAfter DEF RecordsInv, TaskInv

-----------------------------------------------------------------------------
(* Theorems *)

LEMMA RecordsAtFirst ==
  ASSUME DistinctNames, RecordInit
  PROVE  RecordsInv
<1>1. mig = [n |-> 0, phase |-> "none", running |-> {}, completed |-> {}, cancelled |-> {}] /\ MaxMigs \in Nat
  BY RecordAssumption DEF RecordInit, NoMig
<1>2. MigInv
  BY <1>1 DEF MigInv
<1>3. TaskInv
  BY DEF RecordInit, IdleTask, TaskInv
<1>4. RecordOK(status)
  <2>1. status = [ready |-> <<>>, invalid |-> <<>>, inProgress |-> <<>>, completed |-> <<>>, cond |-> <<>>]
    BY DEF RecordInit, NoStatus
  <2>2. <<>> \in Seq(OpenEntries) /\ <<>> \in Seq(DoneEntries)
    OBVIOUS
  <2>3. QED
    BY <2>1, <2>2, ListsOK
<1>5. spec \in Seq(VMs)
  <2>1. Order \in Seq(VMs) /\ Order # <<>>
    BY RecordAssumption
  <2>2. Order[1] \in VMs
    BY <2>1
  <2>3. <<Order[1]>> \in Seq(VMs)
    BY <2>2
  <2>4. QED
    BY <2>1, <2>3 DEF RecordInit
<1>6. DisksInv
  <2>1. /\ vm \in [VMs -> UNION {VMInit(v) : v \in VMs}]
        /\ \A v \in VMs : vm[v] \in VMInit(v)
    BY DEF RecordInit
  <2>2. ASSUME NEW v \in VMs PROVE vm[v] \in VMRecords(v) /\ vm[v].inst \in {<<>>, Disk[v]}
    <3> DEFINE dvt == [i \in DOMAIN Disk[v] |-> IF v \in Templated THEN Disk[v][i] ELSE NoName]
    <3>1. \E inst \in {<<>>, Disk[v]} : vm[v] = [disk |-> Disk[v], dvt |-> dvt, inst |-> inst, vus |-> FALSE, fit |-> TRUE]
      BY <2>1 DEF VMInit
    <3>2. dvt \in [DOMAIN Disk[v] -> Names \cup {NoName}] /\ \A i \in DOMAIN Disk[v] : dvt[i] \in {NoName, Disk[v][i]}
      BY DiskNames
    <3> HIDE DEF dvt
    <3>3. QED
      BY <3>1, <3>2 DEF VMRecords
  <2>3. \A v \in VMs : vm[v] \in UNION {VMRecords(u) : u \in VMs}
    BY <2>2
  <2>4. vm \in [VMs -> UNION {VMRecords(u) : u \in VMs}]
    BY <2>1, <2>3
  <2>5. QED
    BY <2>2, <2>4 DEF DisksInv
<1>7. QED
  BY <1>2, <1>3, <1>4, <1>5, <1>6 DEF RecordsInv

LEMMA RecordsStay ==
  ASSUME DistinctNames, RecordsInv, RecordNext
  PROVE  RecordsInv'
<1>1. CASE PlanReconcile \/ PlanReconcileMisled \/ PlanReconcileFails
  BY <1>1, PlanStep
<1>2. CASE PhaseStep
  BY <1>2, PhaseStepKeeps
<1>3. CASE ReadPlan \/ TaskFails \/ KubeVirtChanges \/ StorageClassChanges \/ AddVM
  BY <1>3, OtherStepKeeps
<1>4. CASE BeginVM
  BY <1>4, BeginStep
<1>5. ASSUME NEW v \in VMs, CancelVM(v) PROVE RecordsInv'
  BY <1>5, CancelStep
<1>6. ASSUME NEW v \in VMs, KubeVirtMoves(v) \/ FitnessChanges(v) PROVE RecordsInv'
  BY <1>6, ClusterStep
<1>7. QED
  BY <1>1, <1>2, <1>3, <1>4, <1>5, <1>6 DEF RecordNext, PhaseStep

LEMMA RecordsStutter ==
  ASSUME RecordsInv, UNCHANGED recordVars
  PROVE  RecordsInv'
<1>1. vm' = vm /\ mig' = mig /\ task' = task /\ spec' = spec /\ status' = status
  BY DEF recordVars
<1>2. MigInv' /\ (Early' => Early)
  BY <1>1 DEF RecordsInv, MigInv, Early
<1>3. DisksInv' /\ FreshKept
  BY <1>1, <1>2, DisksKept DEF RecordsInv
<1>4. QED
  BY <1>1, <1>2, <1>3, InvAfter DEF RecordsInv, TaskInv

\* The invariant, for any number of migrations one after the other.
LEMMA RecordsInvariant ==
  ASSUME DistinctNames
  PROVE  RecordSpec => []RecordsInv
<1>1. RecordInit => RecordsInv
  BY RecordsAtFirst
<1>2. RecordsInv /\ [RecordNext]_recordVars => RecordsInv'
  BY RecordsStay, RecordsStutter
<1>3. QED
  BY <1>1, <1>2, PTL DEF RecordSpec

(***************************************************************************)
(* The target of a volume never changes once it is recorded, whatever      *)
(* errors, cancels and migrations there are and however often the records  *)
(* are lost: the name computed from a target is that target, and a source  *)
(* found is the disk of the volume or its target (targetPVCName,           *)
(* validateStorageMigrationPossible).                                      *)
(***************************************************************************)
THEOREM TargetsStayFixed ==
  ASSUME DistinctNames
  PROVE  RecordSpec => []TargetsFixed
<1>1. ASSUME RecordsInv PROVE TargetsFixed
  <2> DEFINE listed == status.ready \o status.inProgress \o status.completed \o status.invalid
  <2>1. listed \in Seq(DoneEntries)
    BY <1>1, AllEntries DEF RecordsInv
  <2> HIDE DEF listed
  <2>2. task.entries \in Seq(DoneEntries)
    <3>1. OpenEntries \subseteq DoneEntries
      BY OpenEntryFields
    <3>2. QED
      BY <1>1, <3>1, SeqMonotonic DEF RecordsInv, TaskInv
  <2>3. listed \o task.entries \in Seq(DoneEntries)
    BY <2>1, <2>2, ConcatProperties
  <2>4. ASSUME NEW e \in Elements(listed \o task.entries), e.src # <<>> PROVE e.tgt = TargetNames(e.vm)
    <3>1. e \in DoneEntries
      BY <2>3, <2>4 DEF Elements
    <3>2. QED
      BY <2>4, <3>1, DoneEntryFields, OpenEntryFields
  <2>5. QED
    BY <2>4 DEF TargetsFixed, listed
<1>2. RecordsInv => TargetsFixed
  BY <1>1
<1>3. QED
  BY <1>2, RecordsInvariant, PTL

(***************************************************************************)
(* A VM never has a mix of disks and targets, nor a template that names    *)
(* another claim than its volume, in a plan with one migration: the swap   *)
(* finds each template by the source recorded for its volume, and a cancel *)
(* recovers every source or reverts nothing (prepareVMForStorageMigration, *)
(* revertPlanVolumes).                                                     *)
(***************************************************************************)
THEOREM DisksStayTogether ==
  ASSUME DistinctNames, MaxMigs = 1
  PROVE  RecordSpec => []DisksTogether
<1>1. ASSUME RecordsInv PROVE DisksTogether
  <2>1. ASSUME NEW v \in VMs
        PROVE  /\ vm[v].disk \in {Disk[v], TargetNames(v)}
               /\ \A i \in DOMAIN vm[v].dvt : vm[v].dvt[i] \in {NoName, vm[v].disk[i]}
    BY <1>1 DEF RecordsInv, DisksInv, VMRecords
  <2>2. QED
    BY <2>1 DEF DisksTogether
<1>2. RecordsInv => DisksTogether
  BY <1>1
<1>3. QED
  BY <1>2, RecordsInvariant, PTL

(***************************************************************************)
(* The migration controller swaps a VM away from the claims its entry has  *)
(* for sources, although it read the entry long before, in a plan with one *)
(* migration: until a VM is swapped every record of it, also one it only   *)
(* read, has its disks (validateStorageMigrationPossible, beginMigration). *)
(***************************************************************************)
THEOREM VMsLeaveTheirSources ==
  ASSUME DistinctNames, MaxMigs = 1
  PROVE  RecordSpec => SwapsItsSources
<1> DEFINE Leaves == task.pc = "begin" => \A v \in VMs : vm'[v].disk # vm[v].disk => vm[v].disk = Head(task.entries).src
<1>1. ASSUME RecordsInv, [RecordNext]_recordVars PROVE Leaves
  <2>1. CASE BeginVM
    BY <1>1, <2>1, BeginStep
  <2>2. CASE vm' = vm
    BY <2>2
  <2>3. ASSUME NEW v \in VMs, CancelVM(v) PROVE Leaves
    BY <2>3 DEF CancelVM
  <2>4. ASSUME NEW v \in VMs, KubeVirtMoves(v) \/ FitnessChanges(v) PROVE \A u \in VMs : vm'[u].disk = vm[u].disk
    <3>1. vm \in [VMs -> UNION {VMRecords(u) : u \in VMs}] /\ vm[v] \in VMRecords(v)
      BY <1>1 DEF RecordsInv, DisksInv
    <3>2. \E r : vm' = [vm EXCEPT ![v] = r] /\ r.disk = vm[v].disk
      <4>1. vm[v] = [disk |-> vm[v].disk, dvt |-> vm[v].dvt, inst |-> vm[v].inst, vus |-> vm[v].vus, fit |-> vm[v].fit]
        BY <3>1 DEF VMRecords
      <4>2. QED
        BY <2>4, <3>1, <4>1 DEF KubeVirtMoves, FitnessChanges
    <3>3. QED
      BY <3>1, <3>2
  <2>5. CASE RecordNext /\ vm' # vm /\ ~BeginVM
    <3>1. \E v \in VMs : CancelVM(v) \/ KubeVirtMoves(v) \/ FitnessChanges(v)
      BY <2>5 DEF RecordNext, PlanReconcile, PlanReconcileMisled, PlanReconcileFails, Persisted, CreateMigration, RefreshPlan,
                  ReadPlan, BeginDone, VMCompletes, MigrationCompletes, DeleteMigration, CancelDone, CleanupCancelled,
                  TaskFails, KubeVirtChanges, StorageClassChanges, AddVM
    <3>2. QED
      BY <2>3, <2>4, <3>1
  <2>6. QED
    BY <1>1, <2>1, <2>2, <2>5 DEF recordVars
<1>2. RecordsInv /\ [RecordNext]_recordVars => [Leaves]_recordVars
  BY <1>1
<1>3. SwapsItsSources <=> [][Leaves]_recordVars
  BY DEF SwapsItsSources
<1> HIDE DEF Leaves
<1>4. QED
  BY <1>2, <1>3, RecordsInvariant, PTL DEF RecordSpec
================================================================================
