-------------------------- MODULE DataImageProofs --------------------------
(***************************************************************************)
(* Three results, for every size of sector and partition, every image and  *)
(* everything the flash may hold: the firmware never reads outside the     *)
(* partition, an image written to its end is served as it was packed, and  *)
(* each of its presets plays what was written for it.  The second needs    *)
(* the layout of the packer first, then what the bootloader has written,   *)
(* then what the firmware has read of it; the third, what the managers     *)
(* take from the directory and in which order.                             *)
(***************************************************************************)
EXTENDS DataImage, FiniteSetTheorems, SequenceTheorems, WellFoundedInduction, TLAPS

(* What the loop of QspiStorage::Init has established of the entries it    *)
(* has accepted, while the flash stays as it is.                           *)
Accepted ==
  \A i \in DOMAIN dir :
    /\ dir[i].offset \in Word /\ dir[i].length \in Word
    /\ Valid(dir[i], flash[0].count)

SeenInv ==
  /\ \E S : dir \in Seq(S)
  /\ phase \in {"off", "bootloader"} => dir = <<>>
  /\ phase \in {"scan", "on"} /\ status = "OK" => Accepted
  /\ phase = "on" => Checked

(* The fields of an entry are 32-bit words, whatever the cells hold.       *)
LEMMA EntryWords ==
  ASSUME NEW i, NEW e \in EntriesAt(i)
  PROVE  e.offset \in Word /\ e.length \in Word
BY DEF EntriesAt

(* Appending one accepted entry keeps all of them accepted.                *)
LEMMA AcceptedAppend ==
  ASSUME NEW S, dir \in Seq(S), Accepted,
         NEW e, e.offset \in Word, e.length \in Word, Valid(e, flash[0].count),
         dir' = Append(dir, e), flash' = flash
  PROVE  Accepted' /\ dir' \in Seq(S \cup {e})
<1>1. dir \in Seq(S \cup {e}) /\ e \in S \cup {e}
  <2>1. PICK n \in Nat : dir \in [1..n -> S]
    BY SeqDef
  <2>2. dir \in [1..n -> S \cup {e}]
    BY <2>1
  <2> QED BY <2>2, SeqDef
<1>2. /\ dir' \in Seq(S \cup {e})
      /\ DOMAIN dir' = 1..(Len(dir) + 1) /\ DOMAIN dir = 1..Len(dir)
      /\ \A i \in 1..Len(dir) : dir'[i] = dir[i]
      /\ dir'[Len(dir) + 1] = e
  BY <1>1
<1>3. ASSUME NEW i \in DOMAIN dir'
      PROVE  /\ dir'[i].offset \in Word /\ dir'[i].length \in Word
             /\ Valid(dir'[i], flash'[0].count)
  <2>1. CASE i \in DOMAIN dir
    BY <1>2, <2>1 DEF Accepted
  <2>2. CASE i = Len(dir) + 1
    BY <1>2, <2>2
  <2> QED BY <1>2, <1>3, <2>1, <2>2
<1> QED BY <1>2, <1>3 DEF Accepted, Word

LEMMA SeenInit == Init => SeenInv
BY DEF Init, SeenInv, Accepted, Checked

LEMMA SeenStep == SeenInv /\ [Next]_vars => SeenInv'
<1> SUFFICES ASSUME SeenInv, [Next]_vars PROVE SeenInv'
  OBVIOUS
<1>1. PICK S : dir \in Seq(S)
  BY DEF SeenInv
<1> USE DEF SeenInv, Checked
<1>2. ASSUME NEW img \in Image, Flash(img) PROVE SeenInv'
  BY <1>2 DEF Flash, Forgotten
<1>3. CASE WriteSector
  BY <1>1, <1>3 DEF WriteSector, firmware
<1>4. CASE Finish
  BY <1>1, <1>4 DEF Finish, firmware
<1>5. CASE Interrupt
  BY <1>1, <1>5 DEF Interrupt, firmware
<1>6. CASE PowerOff
  BY <1>6 DEF PowerOff, Forgotten
<1>7. CASE Boot
  BY <1>1, <1>7 DEF Boot, store, Accepted
<1>8. CASE ScanEntry
  <2>1. PICK e \in EntriesAt(Len(dir) + 1) :
          IF Valid(e, flash[0].count)
            THEN dir' = Append(dir, e) /\ UNCHANGED status
            ELSE dir' = <<>> /\ status' = "BAD_MAGIC"
    BY <1>8 DEF ScanEntry
  <2>2. phase = "scan" /\ phase' = "scan" /\ flash' = flash /\ status = "OK"
    BY <1>8 DEF ScanEntry, store
  <2>3. CASE Valid(e, flash[0].count)
    BY <1>1, <2>1, <2>2, <2>3, AcceptedAppend, EntryWords
  <2>4. CASE ~Valid(e, flash[0].count)
    BY <2>1, <2>2, <2>4
  <2> QED BY <2>3, <2>4
<1>9. CASE IndexAssets
  BY <1>1, <1>9 DEF IndexAssets, store, Accepted
<1>10. CASE UNCHANGED vars
  BY <1>1, <1>10 DEF vars, store, firmware, Accepted
<1> QED
  BY <1>2, <1>3, <1>4, <1>5, <1>6, <1>7, <1>8, <1>9, <1>10 DEF Next

(* Whatever an interrupted write left behind, whatever a blob says when it *)
(* is read as a directory: a directory that QspiStorage::Init accepts      *)
(* points into the partition only (src/QspiStorage.cpp:42-60).             *)
THEOREM BlobsStayInPartition == Spec => []BlobsInPartition
<1>1. SeenInv => BlobsInPartition
  <2> SUFFICES ASSUME SeenInv, phase = "on", status = "OK", NEW i \in DOMAIN dir
               PROVE  /\ dir[i].offset >= DirEnd(Len(dir))
                      /\ dir[i].offset + dir[i].length <= Partition
    BY DEF BlobsInPartition
  <2>1. /\ dir[i].offset \in 0..MaxWord /\ dir[i].length \in 0..MaxWord
        /\ Valid(dir[i], Len(dir))
    BY DEF SeenInv, Accepted, Checked, Word
  <2> QED BY <2>1, ImageAssumption DEF Valid
<1> QED BY <1>1, SeenInit, SeenStep, PTL DEF Spec

-----------------------------------------------------------------------------
(* Whole division, as the later proofs use it.                             *)
LEMMA Division ==
  ASSUME NEW u \in Nat, NEW d \in Nat \ {0}
  PROVE  /\ u \div d \in Nat
         /\ (u \div d) * d <= u /\ u < (u \div d) * d + d
  OBVIOUS

(* align_up of tools/build_data_image.py never goes back.                  *)
LEMMA AlignUpFacts ==
  ASSUME NEW u \in Nat
  PROVE  AlignUp(u) \in Nat /\ AlignUp(u) >= u
<1> DEFINE v == u + Sector - 1
           q == v \div Sector
<1>1. v \in Nat /\ Sector \in Nat \ {0}
  BY ImageAssumption
<1> HIDE DEF v
<1>2. q \in Nat /\ q * Sector <= v /\ v < q * Sector + Sector
  BY <1>1, Division
<1> HIDE DEF q
<1>3. q * Sector \in Nat
  BY <1>1, <1>2
<1>4. AlignUp(u) = q * Sector
  BY DEF AlignUp, q, v
<1> QED BY <1>1, <1>2, <1>3, <1>4 DEF v

(* Induction over a bounded range, from the least counterexample.          *)
LEMMA RangeInduction ==
  ASSUME NEW m \in Nat, NEW S, 0 \in S, \A k \in 0..(m - 1) : k \in S => k + 1 \in S
  PROVE  0..m \subseteq S
<1> DEFINE T == {k \in 0..m : k \notin S}
<1> SUFFICES ASSUME T # {} PROVE FALSE
  OBVIOUS
<1>1. T \subseteq Nat
  OBVIOUS
<1>2. PICK k \in T : \A j \in T : ~(j < k)
  <2>1. PICK k \in T : \A j \in T : <<j, k>> \notin OpToRel(<, Nat)
    BY <1>1, WFMin, NatLessThanWellFounded
  <2>2. \A j \in T : j < k => <<j, k>> \in OpToRel(<, Nat)
    BY <1>1 DEF OpToRel
  <2> QED BY <2>1, <2>2, Zenon
<1>3. k \in 1..m /\ k - 1 \in 0..(m - 1)
  BY <1>2
<1>4. k - 1 \in S
  BY <1>2, <1>3
<1>5. (k - 1) + 1 \in S
  BY <1>3, <1>4
<1> QED BY <1>2, <1>3, <1>5

(* f is what the packer's loop has computed after n rounds.  That the loop *)
(* has such a result, whatever the files, is an induction on n.            *)
OffsetsTo(files, n, f) ==
  f = [i \in 1..n |-> IF i = 1 THEN AlignUp(DirEnd(Len(files)))
                               ELSE AlignUp(f[i-1] + BlobLength(files[i-1]))]

LEMMA OffsetsExist ==
  ASSUME NEW files, NEW n \in Nat
  PROVE  \E f : OffsetsTo(files, n, f)
<1> DEFINE S == {k \in Nat : \E f : OffsetsTo(files, k, f)}
<1>1. 0 \in S
  <2>1. OffsetsTo(files, 0, [i \in 1..0 |-> 0])
    BY DEF OffsetsTo
  <2> QED BY <2>1
<1>2. ASSUME NEW k \in 0..(n - 1), k \in S PROVE k + 1 \in S
  <2>1. PICK f : OffsetsTo(files, k, f)
    BY <1>2
  <2> DEFINE g == [i \in 1..(k + 1) |->
                     IF i = 1 THEN AlignUp(DirEnd(Len(files)))
                     ELSE AlignUp(f[i-1] + BlobLength(files[i-1]))]
  <2>2. \A i \in 1..k : g[i] = f[i]
    BY <2>1 DEF OffsetsTo
  <2>3. OffsetsTo(files, k + 1, g)
    <3>1. \A i \in 2..(k + 1) : i - 1 \in 1..k
      OBVIOUS
    <3>2. \A i \in 1..(k + 1) : g[i] = IF i = 1 THEN AlignUp(DirEnd(Len(files)))
                     ELSE AlignUp(g[i-1] + BlobLength(files[i-1]))
      <4> SUFFICES ASSUME NEW i \in 2..(k + 1)
                   PROVE  g[i] = AlignUp(g[i-1] + BlobLength(files[i-1]))
        <5>1. 1 \in 1..(k + 1) /\ \A i \in 1..(k + 1) : i = 1 \/ i \in 2..(k + 1)
          OBVIOUS
        <5> QED BY <5>1
      <4>1. g[i] = AlignUp(f[i-1] + BlobLength(files[i-1]))
        OBVIOUS
      <4>2. g[i-1] = f[i-1]
        BY <2>2, <3>1
      <4> QED BY <4>1, <4>2
    <3> QED BY <3>2, Zenon DEF OffsetsTo
  <2> QED BY <2>3
<1> HIDE DEF S
<1>3. n \in S
  BY <1>1, <1>2, RangeInduction
<1> QED BY <1>3 DEF S

(* So Offsets, chosen by its recursive equation, satisfies it.            *)
LEMMA OffsetsDef ==
  ASSUME NEW files, Len(files) \in Nat
  PROVE  OffsetsTo(files, Len(files) + 1, Offsets(files))
<1>1. \E f : OffsetsTo(files, Len(files) + 1, f)
  BY OffsetsExist
<1>2. Offsets(files) = CHOOSE f : OffsetsTo(files, Len(files) + 1, f)
  BY DEF Offsets, OffsetsTo
<1> QED BY <1>1, <1>2

(* Where the packer puts things.                                           *)
Packing(files) ==
  LET off == Offsets(files)  n == Len(files) IN
  /\ \A i \in 1..(n + 1) : off[i] \in Nat
  /\ off[1] >= DirEnd(n)
  /\ \A i \in 1..n : off[i + 1] >= off[i] + BlobLength(files[i])

(* No blob is empty: a model, a preset and a trimmed cabinet all have      *)
(* at least a unit.                                                        *)
LEMMA BlobLengths ==
  ASSUME NEW a \in Asset
  PROVE  BlobLength(a) \in Nat /\ BlobLength(a) > 0
  BY ImageAssumption DEF BlobLength

(* The packer leaves room for the directory, and for each blob before the  *)
(* next.                                                                   *)
LEMMA OffsetsPack ==
  ASSUME NEW files \in Seq(Asset)
  PROVE  Packing(files)
<1> DEFINE n == Len(files)
           off == Offsets(files)
           S == {k \in Nat : k = 0 \/ off[k] \in Nat}
<1>1. n \in Nat /\ \A i \in 1..n : files[i] \in Asset
  OBVIOUS
<1>2. off = [i \in 1..(n + 1) |-> IF i = 1 THEN AlignUp(DirEnd(n))
                                  ELSE AlignUp(off[i-1] + BlobLength(files[i-1]))]
  BY <1>1, OffsetsDef DEF OffsetsTo
<1> HIDE DEF n, off
<1>3. off[1] = AlignUp(DirEnd(n)) /\ DirEnd(n) \in Nat
  BY <1>1, <1>2 DEF DirEnd
<1>4. ASSUME NEW i \in 1..n
      PROVE  off[i + 1] = AlignUp(off[i] + BlobLength(files[i]))
  <2>1. i + 1 \in 1..(n + 1) /\ i + 1 # 1 /\ (i + 1) - 1 = i
    BY <1>1
  <2> QED BY <1>2, <2>1
<1>5. ASSUME NEW k \in 0..n, k \in S PROVE k + 1 \in S
  <2>1. CASE k = 0
    BY <1>3, <2>1, AlignUpFacts
  <2>2. CASE k # 0
    <3>1. k \in 1..n /\ off[k] \in Nat /\ off[k] + BlobLength(files[k]) \in Nat
      BY <1>1, <1>5, <2>2, BlobLengths
    <3>2. off[k + 1] \in Nat
      BY <1>4, <3>1, AlignUpFacts
    <3> QED BY <3>1, <3>2
  <2> QED BY <2>1, <2>2
<1>6. 0..(n + 1) \subseteq S
  <2>1. 0 \in S /\ n + 1 \in Nat /\ (n + 1) - 1 = n
    BY <1>1
  <2> HIDE DEF S
  <2> QED BY <1>5, <2>1, RangeInduction
<1>7. \A i \in 1..(n + 1) : off[i] \in Nat
  BY <1>1, <1>6
<1>8. off[1] >= DirEnd(n)
  BY <1>3, AlignUpFacts
<1>9. ASSUME NEW i \in 1..n
      PROVE  off[i + 1] >= off[i] + BlobLength(files[i])
  <2>1. off[i] + BlobLength(files[i]) \in Nat
    BY <1>1, <1>7, BlobLengths
  <2> QED BY <1>4, <2>1, AlignUpFacts
<1> QED BY <1>7, <1>8, <1>9 DEF Packing, n, off

(* No file comes before its predecessors, or after the total.              *)
LEMMA OffsetsMono ==
  ASSUME NEW files \in Seq(Asset), NEW i \in 1..(Len(files) + 1), NEW j \in i..(Len(files) + 1)
  PROVE  Offsets(files)[i] <= Offsets(files)[j]
<1> DEFINE n == Len(files)
           off == Offsets(files)
           m == n + 1 - i
           S == {k \in Nat : off[i] <= off[i + k]}
<1>1. /\ n \in Nat /\ m \in Nat /\ i \in Nat /\ i >= 1
      /\ \A k \in 1..(n + 1) : off[k] \in Nat
      /\ \A k \in 1..n : files[k] \in Asset /\ off[k + 1] >= off[k] + BlobLength(files[k])
  BY OffsetsPack DEF Packing
<1> HIDE DEF n, off
<1>2. 0 \in S
  BY <1>1
<1>3. ASSUME NEW k \in 0..(m - 1), k \in S PROVE k + 1 \in S
  <2>1. i + k \in 1..n /\ k + 1 \in Nat /\ i + (k + 1) = (i + k) + 1 /\ i + (k + 1) \in 1..(n + 1)
    BY <1>1
  <2>2. BlobLength(files[i + k]) \in Nat
    BY <1>1, <2>1, BlobLengths
  <2>3. off[i] \in Nat /\ off[i + k] \in Nat /\ off[i + (k + 1)] \in Nat
    BY <1>1, <2>1 DEF n
  <2>4. off[i] <= off[i + k] /\ off[i + (k + 1)] >= off[i + k] + BlobLength(files[i + k])
    BY <1>1, <1>3, <2>1
  <2>5. off[i] <= off[i + (k + 1)]
    BY <2>2, <2>3, <2>4
  <2> QED BY <2>1, <2>5
<1> HIDE DEF S, m
<1>4. 0..m \subseteq S
  BY <1>1, <1>2, <1>3, RangeInduction
<1>5. j - i \in 0..m /\ i + (j - i) = j
  BY <1>1 DEF m, n
<1>6. j - i \in S
  BY <1>4, <1>5
<1> QED BY <1>5, <1>6 DEF S, off

(* The files whose blobs cover a cell.                                     *)
BlobsAt(files, u) ==
  {i \in 1..Len(files) : u \in Offsets(files)[i]..(Offsets(files)[i] + BlobLength(files[i]) - 1)}

(* None covers a cell of the directory, and no two cover the same cell.    *)
LEMMA BlobsApart ==
  ASSUME NEW files \in Seq(Asset), NEW u \in Nat
  PROVE  /\ u < DirEnd(Len(files)) => BlobsAt(files, u) = {}
         /\ \A i \in BlobsAt(files, u) : BlobsAt(files, u) = {i} /\ u >= DirEnd(Len(files))
<1> DEFINE n == Len(files)
           off == Offsets(files)
<1>1. /\ n \in Nat /\ DirEnd(n) \in Nat
      /\ \A i \in 1..(n + 1) : off[i] \in Nat
      /\ \A i \in 1..n : files[i] \in Asset
      /\ off[1] >= DirEnd(n)
      /\ \A i \in 1..n : off[i + 1] >= off[i] + BlobLength(files[i])
  BY OffsetsPack DEF Packing, DirEnd
<1>2. \A i \in 1..n : \A j \in i..(n + 1) : off[i] <= off[j]
  BY <1>1, OffsetsMono
<1>3. BlobsAt(files, u) = {i \in 1..n : u \in off[i]..(off[i] + BlobLength(files[i]) - 1)}
  BY DEF BlobsAt
<1> HIDE DEF n, off
<1>4. \A i \in BlobsAt(files, u) : /\ i \in 1..n /\ off[i] \in Nat /\ BlobLength(files[i]) \in Nat
                                   /\ off[i] <= u /\ u < off[i] + BlobLength(files[i])
  BY <1>1, <1>3, BlobLengths
<1>5. ASSUME NEW i \in BlobsAt(files, u) PROVE u >= DirEnd(n)
  <2>1. 1 \in 1..n /\ i \in 1..(n + 1) /\ off[1] \in Nat
    BY <1>1, <1>4
  <2>2. off[1] <= off[i]
    BY <1>2, <1>4, <2>1
  <2> QED BY <1>1, <1>4, <2>1, <2>2
<1>6. ASSUME NEW i \in BlobsAt(files, u), NEW j \in BlobsAt(files, u) PROVE ~(i < j)
  <2> SUFFICES ASSUME i < j PROVE FALSE
    OBVIOUS
  <2>1. i \in 1..n /\ j \in 1..n /\ i + 1 \in 1..n /\ j \in (i + 1)..(n + 1)
    BY <1>1, <1>4
  <2>2. off[i + 1] <= off[j] /\ off[i + 1] >= off[i] + BlobLength(files[i])
    BY <1>1, <1>2, <2>1
  <2>3. off[i + 1] \in Nat /\ off[j] \in Nat /\ off[i] \in Nat
    BY <1>1, <2>1
  <2> QED BY <1>4, <2>2, <2>3
<1>7. ASSUME NEW i \in BlobsAt(files, u), NEW j \in BlobsAt(files, u) PROVE i = j
  BY <1>1, <1>4, <1>6
<1>8. u < DirEnd(n) => BlobsAt(files, u) = {}
  <2> SUFFICES ASSUME u < DirEnd(n), NEW i \in BlobsAt(files, u) PROVE FALSE
    BY Zenon
  <2> QED BY <1>1, <1>5
<1>9. \A i \in BlobsAt(files, u) : BlobsAt(files, u) = {i} /\ u >= DirEnd(n)
  BY <1>5, <1>7
<1> QED BY <1>8, <1>9 DEF n

(* A cell of the image, by where it lies.                                  *)
LEMMA CellCases ==
  ASSUME NEW img, img.files \in Seq(Asset), NEW u \in Nat
  PROVE  LET files == img.files
             n == Len(files)
             entry == (u + 1) \div 2
         IN  /\ u = 0 => CellOf(img, u) = Header(img.version, n)
             /\ u # 0 /\ u < DirEnd(n) /\ u % 2 = 1
                  => CellOf(img, u) = Naming(TypeOf[files[entry]], Encoded[Stem[files[entry]]])
             /\ u # 0 /\ u < DirEnd(n) /\ u % 2 = 0
                  => CellOf(img, u) = Placing(Offsets(files)[u \div 2], BlobLength(files[u \div 2]))
             /\ \A i \in BlobsAt(files, u) :
                  CellOf(img, u) = Datum(files[i], u - Offsets(files)[i] + 1)
<1> DEFINE files == img.files
           n == Len(files)
           blobs == BlobsAt(files, u)
           dirend == DirEnd(n)
           header == Header(img.version, n)
           naming == Naming(TypeOf[files[(u + 1) \div 2]], Encoded[Stem[files[(u + 1) \div 2]]])
           placing == Placing(Offsets(files)[u \div 2], BlobLength(files[u \div 2]))
           data(i) == Datum(files[i], u - Offsets(files)[i] + 1)
<1>1. dirend \in Nat /\ dirend >= 1
  BY DEF DirEnd
<1>2. /\ u < dirend => blobs = {}
      /\ \A i \in blobs : blobs = {i} /\ u >= dirend
  BY BlobsApart
<1>3. CellOf(img, u) =
        CASE u = 0 -> header
          [] u \in 1..(dirend - 1) /\ u % 2 = 1 -> naming
          [] u \in 1..(dirend - 1) /\ u % 2 = 0 -> placing
          [] blobs # {} -> data(CHOOSE j \in blobs : TRUE)
          [] OTHER -> Zero
  BY Zenon DEF CellOf, BlobsAt
<1>4. \A i \in blobs : data(CHOOSE j \in blobs : TRUE) = data(i)
  BY <1>2
<1> HIDE DEF files, n, blobs, dirend, header, naming, placing, data
<1>5. u = 0 => CellOf(img, u) = header
  BY <1>1, <1>2, <1>3
<1>6. u # 0 /\ u < dirend /\ u % 2 = 1 => CellOf(img, u) = naming
  BY <1>1, <1>2, <1>3
<1>7. u # 0 /\ u < dirend /\ u % 2 = 0 => CellOf(img, u) = placing
  BY <1>1, <1>2, <1>3
<1>8. ASSUME NEW i \in blobs PROVE CellOf(img, u) = data(i)
  <2>1. u >= dirend /\ blobs # {} /\ u # 0 /\ u \notin 1..(dirend - 1)
    BY <1>1, <1>2
  <2>2. CellOf(img, u) = data(CHOOSE j \in blobs : TRUE)
    BY <1>3, <2>1
  <2> QED BY <1>4, <2>2
<1> QED BY <1>5, <1>6, <1>7, <1>8 DEF files, n, blobs, dirend, header, naming, placing, data

(* A packed image, cell by cell.                                           *)
LEMMA PackedCells ==
  ASSUME NEW img, img.files \in Seq(Asset)
  PROVE  LET files == img.files
             off == Offsets(files)
         IN  /\ CellOf(img, 0) = Header(img.version, Len(files))
             /\ \A i \in 1..Len(files) :
                  /\ CellOf(img, 2 * i - 1) = Naming(TypeOf[files[i]], Encoded[Stem[files[i]]])
                  /\ CellOf(img, 2 * i) = Placing(off[i], BlobLength(files[i]))
                  /\ \A k \in 1..BlobLength(files[i]) :
                       CellOf(img, off[i] + k - 1) = Datum(files[i], k)
<1> DEFINE files == img.files
           off == Offsets(files)
           n == Len(files)
<1>1. CellOf(img, 0) = Header(img.version, n)
  BY CellCases
<1>2. n \in Nat /\ DirEnd(n) = 1 + 2 * n
  BY DEF DirEnd
<1> HIDE DEF n
<1>3. ASSUME NEW i \in 1..n
      PROVE  /\ CellOf(img, 2 * i - 1) = Naming(TypeOf[files[i]], Encoded[Stem[files[i]]])
             /\ CellOf(img, 2 * i) = Placing(off[i], BlobLength(files[i]))
  <2>1. /\ 2 * i - 1 \in Nat /\ 2 * i - 1 # 0 /\ 2 * i - 1 < DirEnd(n)
        /\ (2 * i - 1) % 2 = 1 /\ ((2 * i - 1) + 1) \div 2 = i
    BY <1>2
  <2>2. /\ 2 * i \in Nat /\ 2 * i # 0 /\ 2 * i < DirEnd(n)
        /\ (2 * i) % 2 = 0 /\ (2 * i) \div 2 = i
    BY <1>2
  <2>3. CellOf(img, 2 * i - 1) = Naming(TypeOf[files[i]], Encoded[Stem[files[i]]])
    BY <2>1, CellCases DEF n
  <2>4. CellOf(img, 2 * i) = Placing(off[i], BlobLength(files[i]))
    BY <2>2, CellCases DEF n
  <2> QED BY <2>3, <2>4
<1>4. ASSUME NEW i \in 1..n, NEW k \in 1..BlobLength(files[i])
      PROVE  CellOf(img, off[i] + k - 1) = Datum(files[i], k)
  <2>1. off[i] \in Nat /\ BlobLength(files[i]) \in Nat
    BY <1>2, <1>3, OffsetsPack, BlobLengths DEF Packing, n
  <2>2. /\ off[i] + k - 1 \in off[i]..(off[i] + BlobLength(files[i]) - 1)
        /\ off[i] + k - 1 \in Nat /\ (off[i] + k - 1) - off[i] + 1 = k
    BY <2>1
  <2>3. i \in BlobsAt(files, off[i] + k - 1)
    BY <2>2 DEF BlobsAt, n
  <2> QED BY <2>2, <2>3, CellCases
<1> QED BY <1>1, <1>3, <1>4 DEF n

(* The cells of the sector the bootloader writes.                          *)
LEMMA SectorBounds ==
  ASSUME NEW u \in Nat, NEW k \in Nat
  PROVE  /\ InSector(u, k) <=> k * Sector <= u /\ u < k * Sector + Sector
         /\ (k + 1) * Sector = k * Sector + Sector /\ k * Sector \in Nat
<1> DEFINE q == u \div Sector
<1>1. Sector \in Nat \ {0}
  BY ImageAssumption
<1>2. q \in Nat /\ q * Sector <= u /\ u < q * Sector + Sector
  BY <1>1, Division
<1> HIDE DEF q
<1>3. (k + 1) * Sector = k * Sector + Sector /\ k * Sector \in Nat
  BY <1>1
<1>4. ASSUME NEW a \in Nat, NEW b \in Nat, a < b
      PROVE  a * Sector + Sector <= b * Sector
  <2>1. PICK d \in Nat : b = a + 1 + d
    <3>1. b - a - 1 \in Nat /\ b = a + 1 + (b - a - 1)
      BY <1>4
    <3> QED BY <3>1
  <2>2. b * Sector = a * Sector + Sector + d * Sector /\ d * Sector \in Nat /\ a * Sector \in Nat
    BY <1>1, <2>1
  <2> QED BY <1>1, <2>2
<1>5. ASSUME k * Sector <= u, u < k * Sector + Sector PROVE q = k
  <2>1. q * Sector \in Nat
    BY <1>1, <1>2
  <2>2. ~(q < k)
    <3> SUFFICES ASSUME q < k PROVE FALSE
      OBVIOUS
    <3>1. q * Sector + Sector <= k * Sector
      BY <1>2, <1>4
    <3> QED BY <1>1, <1>2, <1>3, <1>5, <2>1, <3>1
  <2>3. ~(k < q)
    <3> SUFFICES ASSUME k < q PROVE FALSE
      OBVIOUS
    <3>1. k * Sector + Sector <= q * Sector
      BY <1>2, <1>4
    <3> QED BY <1>1, <1>2, <1>3, <1>5, <2>1, <3>1
  <2> QED BY <1>2, <2>2, <2>3
<1>6. q = k => k * Sector <= u /\ u < k * Sector + Sector
  BY <1>2
<1> QED BY <1>3, <1>5, <1>6 DEF q, InSector

Cell == 0..(Partition - 1)

(* The directory entry of file i.                                          *)
EntryOf(files, i) ==
  [type |-> TypeOf[files[i]], name |-> Encoded[Stem[files[i]]],
   offset |-> Offsets(files)[i], length |-> BlobLength(files[i])]

(* While an image is written the cells before the sector reached are its,  *)
(* whatever the others hold; once written to its end, all of its cells,    *)
(* and nothing but the next image disturbs them.                           *)
WrittenInv ==
  /\ DOMAIN flash = Cell
  /\ phase \in {"off", "bootloader", "scan", "on"}
  /\ phase = "bootloader" =>
       /\ ~complete
       /\ written \in Nat /\ image \in Image /\ Fits(image)
       /\ \A u \in Cell : u < written * Sector => flash[u] = CellOf(image, u)
  /\ complete =>
       /\ image \in Image /\ Fits(image)
       /\ \A u \in Cell : u < Total(image.files) => flash[u] = CellOf(image, u)

(* What QspiStorage::Init has read of a complete image is the packer's     *)
(* directory, in order, and it has rejected none of it.                    *)
ReadInv ==
  /\ \E S : dir \in Seq(S)
  /\ phase \in {"off", "bootloader"} => dir = <<>>
  /\ phase \in {"scan", "on"} /\ complete /\ image.version = 1 =>
       /\ status = "OK"
       /\ Len(dir) <= Len(image.files)
       /\ \A i \in 1..Len(dir) : dir[i] = EntryOf(image.files, i)
  /\ phase = "on" => Checked

ImageInv == WrittenInv /\ ReadInv

(* An image that fits lies in the partition, cell by cell.                 *)
LEMMA PackedFits ==
  ASSUME NEW img \in Image, Fits(img)
  PROVE  LET files == img.files
             n == Len(files)
             off == Offsets(files)
         IN  /\ files \in Seq(Asset) /\ n \in Nat /\ Total(files) \in Nat
             /\ \A u \in 0..(DirEnd(n) - 1) : u \in Cell /\ u < Total(files)
             /\ \A i \in 1..n :
                  /\ off[i] \in Nat /\ off[i] >= DirEnd(n)
                  /\ BlobLength(files[i]) \in Nat
                  /\ off[i] + BlobLength(files[i]) <= Total(files)
                  /\ \A k \in 1..BlobLength(files[i]) :
                       off[i] + k - 1 \in Cell /\ off[i] + k - 1 < Total(files)
<1> DEFINE files == img.files
           n == Len(files)
           off == Offsets(files)
           total == Total(files)
<1>1. files \in Seq(Asset)
  BY ImageAssumption
<1>2. n \in Nat /\ \A i \in 1..n : files[i] \in Asset
  BY <1>1
<1>3. /\ \A i \in 1..(n + 1) : off[i] \in Nat
      /\ off[1] >= DirEnd(n)
      /\ \A i \in 1..n : off[i + 1] >= off[i] + BlobLength(files[i])
  BY <1>1, OffsetsPack DEF Packing
<1>4. \A i \in 1..(n + 1) : off[i] <= off[n + 1] /\ off[1] <= off[i]
  BY <1>1, <1>2, OffsetsMono
<1>5. total = off[n + 1] /\ total \in Nat /\ Partition \in Nat
  BY <1>2, <1>3, ImageAssumption DEF Total
<1>6. total <= Partition
  BY DEF Fits
<1> HIDE DEF files, n, off, total
<1>7. DirEnd(n) \in Nat /\ DirEnd(n) <= total
  <2>1. 1 \in 1..(n + 1) /\ off[1] \in Nat /\ off[1] <= off[n + 1]
    BY <1>2, <1>3, <1>4
  <2> QED BY <1>2, <1>3, <1>5, <2>1 DEF DirEnd
<1>8. \A u \in 0..(DirEnd(n) - 1) : u \in Cell /\ u < total
  BY <1>5, <1>6, <1>7 DEF Cell
<1>9. ASSUME NEW i \in 1..n
      PROVE  /\ off[i] \in Nat /\ off[i] >= DirEnd(n)
             /\ BlobLength(files[i]) \in Nat
             /\ off[i] + BlobLength(files[i]) <= total
             /\ \A k \in 1..BlobLength(files[i]) :
                  off[i] + k - 1 \in Cell /\ off[i] + k - 1 < total
  <2>1. /\ i \in 1..(n + 1) /\ i + 1 \in 1..(n + 1) /\ 1 \in 1..(n + 1)
    BY <1>2
  <2>2. off[1] \in Nat /\ off[i] \in Nat /\ off[i + 1] \in Nat /\ BlobLength(files[i]) \in Nat
    BY <1>2, <1>3, <2>1, BlobLengths
  <2>3. off[1] <= off[i] /\ off[i + 1] <= total /\ off[i + 1] >= off[i] + BlobLength(files[i])
    BY <1>3, <1>4, <1>5, <2>1
  <2>4. off[i] >= DirEnd(n) /\ off[i] + BlobLength(files[i]) <= total
    BY <1>3, <1>5, <1>7, <2>2, <2>3
  <2> QED BY <1>5, <1>6, <2>2, <2>4 DEF Cell
<1> QED BY <1>1, <1>2, <1>5, <1>8, <1>9 DEF files, n, off, total

(* A complete image in flash is the packed one.                            *)
LEMMA FlashPacked ==
  ASSUME WrittenInv, complete
  PROVE  LET files == image.files
             off == Offsets(files)
         IN  /\ files \in Seq(Asset)
             /\ flash[0] = Header(image.version, Len(files))
             /\ \A i \in 1..Len(files) :
                  /\ flash[2 * i - 1] = Naming(TypeOf[files[i]], Encoded[Stem[files[i]]])
                  /\ flash[2 * i] = Placing(off[i], BlobLength(files[i]))
                  /\ \A k \in 1..BlobLength(files[i]) :
                       flash[off[i] + k - 1] = Datum(files[i], k)
<1> DEFINE files == image.files
           n == Len(files)
           off == Offsets(files)
<1>1. /\ image \in Image /\ Fits(image)
      /\ \A u \in Cell : u < Total(image.files) => flash[u] = CellOf(image, u)
  BY DEF WrittenInv
<1>2. /\ files \in Seq(Asset) /\ n \in Nat
      /\ \A u \in 0..(DirEnd(n) - 1) : u \in Cell /\ u < Total(files)
      /\ \A i \in 1..n : \A k \in 1..BlobLength(files[i]) :
           off[i] + k - 1 \in Cell /\ off[i] + k - 1 < Total(files)
  BY <1>1, PackedFits
<1>3. /\ CellOf(image, 0) = Header(image.version, n)
      /\ \A i \in 1..n :
           /\ CellOf(image, 2 * i - 1) = Naming(TypeOf[files[i]], Encoded[Stem[files[i]]])
           /\ CellOf(image, 2 * i) = Placing(off[i], BlobLength(files[i]))
           /\ \A k \in 1..BlobLength(files[i]) : CellOf(image, off[i] + k - 1) = Datum(files[i], k)
  BY <1>2, PackedCells
<1> HIDE DEF n
<1>4. 0 \in 0..(DirEnd(n) - 1)
  BY <1>2 DEF DirEnd
<1>5. \A i \in 1..n : 2 * i - 1 \in 0..(DirEnd(n) - 1) /\ 2 * i \in 0..(DirEnd(n) - 1)
  BY <1>2 DEF DirEnd
<1>6. flash[0] = Header(image.version, n)
  BY <1>1, <1>2, <1>3, <1>4
<1>7. ASSUME NEW i \in 1..n
      PROVE  /\ flash[2 * i - 1] = Naming(TypeOf[files[i]], Encoded[Stem[files[i]]])
             /\ flash[2 * i] = Placing(off[i], BlobLength(files[i]))
  BY <1>1, <1>2, <1>3, <1>5
<1>8. ASSUME NEW i \in 1..n, NEW k \in 1..BlobLength(files[i])
      PROVE  flash[off[i] + k - 1] = Datum(files[i], k)
  BY <1>1, <1>2, <1>3
<1> QED BY <1>2, <1>6, <1>7, <1>8 DEF n

(* Erased flash, and no directory read.                                    *)
LEMMA ImageStart == Init => ImageInv
<1> SUFFICES ASSUME Init PROVE ImageInv
  OBVIOUS
<1>1. WrittenInv
  BY DEF Init, WrittenInv, Cell
<1>2. ReadInv
  <2>1. \E S : dir \in Seq(S)
    <3>1. dir \in Seq({})
      BY DEF Init
    <3> QED BY <3>1
  <2> QED BY <2>1 DEF Init, ReadInv
<1> QED BY <1>1, <1>2 DEF ImageInv

(* A new image is on its way: nothing of it is in flash yet.               *)
LEMMA FlashStep ==
  ASSUME ImageInv, NEW img \in Image, Flash(img)
  PROVE  ImageInv'
<1>1. WrittenInv'
  <2>1. /\ DOMAIN flash' = Cell /\ phase' = "bootloader" /\ complete' = FALSE
        /\ written' = 0 /\ image' = img
    BY DEF ImageInv, WrittenInv, Flash
  <2>2. Fits(img)
    BY DEF Flash
  <2>3. \A u \in Cell : ~(u < 0 * Sector)
    BY ImageAssumption DEF Cell
  <2> QED BY <2>1, <2>2, <2>3 DEF WrittenInv, Fits
<1>2. ReadInv'
  <2>1. dir' = <<>> /\ phase' = "bootloader"
    BY DEF Flash, Forgotten
  <2>2. dir' \in Seq({})
    BY <2>1
  <2> QED BY <2>1, <2>2 DEF ReadInv
<1> QED BY <1>1, <1>2 DEF ImageInv

(* One more sector holds what the image says, and the others what they     *)
(* held.                                                                   *)
LEMMA WriteSectorStep ==
  ASSUME ImageInv, WriteSector
  PROVE  ImageInv'
<1>1. /\ DOMAIN flash = Cell /\ ~complete /\ written \in Nat /\ image \in Image /\ Fits(image)
      /\ \A u \in Cell : u < written * Sector => flash[u] = CellOf(image, u)
  BY DEF ImageInv, WrittenInv, WriteSector
<1>2. /\ flash' = [u \in Cell |-> IF InSector(u, written) THEN CellOf(image, u) ELSE flash[u]]
      /\ written' = written + 1 /\ image' = image /\ complete' = complete
      /\ phase' = "bootloader" /\ phase = "bootloader" /\ dir' = dir /\ status' = status
  BY <1>1 DEF WriteSector, firmware
<1>3. ASSUME NEW u \in Cell, u < (written + 1) * Sector
      PROVE  flash'[u] = CellOf(image, u)
  <2>1. CASE InSector(u, written)
    BY <1>2, <2>1
  <2>2. CASE ~InSector(u, written)
    <3>1. u \in Nat /\ Sector \in Nat
      BY ImageAssumption DEF Cell
    <3>2. u < written * Sector
      BY <1>1, <1>3, <2>2, <3>1, SectorBounds
    <3> QED BY <1>1, <1>2, <2>2, <3>2
  <2> QED BY <2>1, <2>2
<1>4. WrittenInv'
  <2>1. written' \in Nat /\ DOMAIN flash' = Cell
    BY <1>1, <1>2
  <2>2. Fits(image)'
    BY <1>1, <1>2 DEF Fits
  <2>3. \A u \in Cell : u < written' * Sector => flash'[u] = CellOf(image', u)
    BY <1>2, <1>3
  <2> QED BY <1>1, <1>2, <2>1, <2>2, <2>3 DEF WrittenInv, Cell
<1>5. ReadInv'
  BY <1>2 DEF ImageInv, ReadInv
<1> QED BY <1>4, <1>5 DEF ImageInv

(* The last sector has been written, so every cell of the image has.       *)
LEMMA FinishStep ==
  ASSUME ImageInv, Finish
  PROVE  ImageInv'
<1>1. /\ DOMAIN flash = Cell /\ written \in Nat /\ image \in Image /\ Fits(image)
      /\ \A u \in Cell : u < written * Sector => flash[u] = CellOf(image, u)
      /\ written * Sector >= Total(image.files)
  BY DEF ImageInv, WrittenInv, Finish
<1>2. UNCHANGED <<flash, image, dir>> /\ phase' = "off" /\ phase = "bootloader"
  BY DEF Finish, firmware
<1>3. ASSUME NEW u \in Cell, u < Total(image.files)
      PROVE  flash[u] = CellOf(image, u)
  <2>1. Total(image.files) \in Nat /\ written * Sector \in Nat /\ u \in Nat
    BY <1>1, PackedFits, SectorBounds DEF Cell
  <2> QED BY <1>1, <1>3, <2>1
<1>4. WrittenInv'
  <2>1. Fits(image)' /\ DOMAIN flash' = Cell /\ image' \in Image
    BY <1>1, <1>2 DEF Fits
  <2>3. \A u \in Cell : u < Total(image'.files) => flash'[u] = CellOf(image', u)
    BY <1>2, <1>3
  <2> QED BY <1>2, <2>1, <2>3 DEF WrittenInv, Cell
<1>5. ReadInv'
  BY <1>2 DEF ImageInv, ReadInv
<1> QED BY <1>4, <1>5 DEF ImageInv

(* An interrupted write leaves an image that is not complete.              *)
LEMMA InterruptStep ==
  ASSUME ImageInv, Interrupt
  PROVE  ImageInv'
<1>1. DOMAIN flash = Cell /\ ~complete /\ dir = <<>>
  BY DEF ImageInv, WrittenInv, ReadInv, Interrupt
<1>2. UNCHANGED <<complete, dir>> /\ phase' = "off" /\ DOMAIN flash' = Cell
  BY <1>1 DEF Interrupt, firmware
<1>3. WrittenInv'
  BY <1>1, <1>2 DEF WrittenInv
<1>4. ReadInv'
  BY <1>1, <1>2 DEF ImageInv, ReadInv
<1> QED BY <1>3, <1>4 DEF ImageInv

(* Power off forgets the directory and leaves the flash.                   *)
LEMMA PowerOffStep ==
  ASSUME ImageInv, PowerOff
  PROVE  ImageInv'
<1>1. UNCHANGED <<flash, image, written, complete>> /\ phase' = "off" /\ dir' = <<>>
  BY DEF PowerOff, Forgotten, store
<1>2. WrittenInv'
  BY <1>1 DEF ImageInv, WrittenInv
<1>3. ReadInv'
  <2>1. dir' \in Seq({})
    BY <1>1
  <2> QED BY <1>1, <2>1 DEF ReadInv
<1> QED BY <1>2, <1>3 DEF ImageInv

(* The header of a complete image of version 1 is accepted.                *)
LEMMA BootStep ==
  ASSUME ImageInv, Boot
  PROVE  ImageInv'
<1>1. UNCHANGED <<flash, image, written, complete, dir>> /\ phase' = "scan" /\ dir = <<>>
  BY DEF Boot, store, ImageInv, ReadInv
<1>2. WrittenInv'
  BY <1>1 DEF ImageInv, WrittenInv
<1>3. ASSUME complete, image.version = 1
      PROVE  status' = "OK" /\ Len(dir) <= Len(image.files)
  <2>1. flash[0] = Header(1, Len(image.files)) /\ image.files \in Seq(Asset)
    BY <1>3, FlashPacked DEF ImageInv
  <2>2. flash[0].kind = "header" /\ flash[0].version = 1
    BY <2>1 DEF Header
  <2>3. status' = "OK"
    BY <2>2 DEF Boot
  <2> QED BY <1>1, <2>1, <2>3
<1>4. ReadInv'
  BY <1>1, <1>3 DEF ImageInv, ReadInv
<1> QED BY <1>2, <1>4 DEF ImageInv

(* The two cells of an entry of a complete image say what the packer       *)
(* packed, and pass the checks of QspiStorage::Init.                       *)
LEMMA PackedEntry ==
  ASSUME WrittenInv, complete, NEW i \in 1..Len(image.files), NEW e \in EntriesAt(i)
  PROVE  e = EntryOf(image.files, i) /\ Valid(e, Len(image.files))
<1> DEFINE files == image.files
           a == files[i]
           off == Offsets(files)
           len == BlobLength(a)
<1>1. /\ flash[2 * i - 1] = Naming(TypeOf[a], Encoded[Stem[a]])
      /\ flash[2 * i] = Placing(off[i], len)
  BY FlashPacked
<1>2. /\ files \in Seq(Asset) /\ Total(files) <= Partition /\ Total(files) \in Nat
      /\ off[i] \in Nat /\ off[i] >= DirEnd(Len(files)) /\ len \in Nat
      /\ off[i] + len <= Total(files)
  BY PackedFits DEF WrittenInv, Fits
<1>3. TypeOf[a] \in Types
  BY <1>2, ImageAssumption
<1> HIDE DEF files, off, len
<1>4. NamingIn(flash[2 * i - 1]) = {[type |-> TypeOf[a], name |-> Encoded[Stem[a]]]}
  BY <1>1 DEF NamingIn, Naming
<1>5. PlacingIn(flash[2 * i]) = {[offset |-> off[i], length |-> len]}
  BY <1>1 DEF PlacingIn, Placing
<1>6. PICK t \in NamingIn(flash[2 * i - 1]), p \in PlacingIn(flash[2 * i]) :
        e = [type |-> t.type, name |-> t.name, offset |-> p.offset, length |-> p.length]
  BY DEF EntriesAt
<1>7. e = [type |-> TypeOf[a], name |-> Encoded[Stem[a]], offset |-> off[i], length |-> len]
  BY <1>4, <1>5, <1>6
<1>8. e.type <= PRESET
  BY <1>3, <1>7 DEF Types, PRESET
<1>9. off[i] <= Partition /\ len <= Partition - off[i]
  BY <1>2, ImageAssumption
<1>10. Valid(e, Len(files))
  BY <1>2, <1>7, <1>8, <1>9 DEF Valid
<1> QED BY <1>7, <1>10 DEF EntryOf, files, off, len

(* One round of the loop of QspiStorage::Init.                             *)
LEMMA ScanEntryStep ==
  ASSUME ImageInv, ScanEntry
  PROVE  ImageInv'
<1> DEFINE i == Len(dir) + 1
           n == Len(image.files)
<1>1. UNCHANGED <<flash, image, written, complete, phase>> /\ phase = "scan"
  BY DEF ScanEntry, store
<1>2. WrittenInv'
  BY <1>1 DEF ImageInv, WrittenInv
<1>3. PICK S : dir \in Seq(S)
  BY DEF ImageInv, ReadInv
<1>4. PICK e \in EntriesAt(i) :
        IF Valid(e, flash[0].count)
          THEN dir' = Append(dir, e) /\ UNCHANGED status
          ELSE dir' = <<>> /\ status' = "BAD_MAGIC"
  BY DEF ScanEntry
<1>5. \E T : dir' \in Seq(T)
  <2>1. dir \in Seq(S \cup {e})
    BY <1>3
  <2>2. Append(dir, e) \in Seq(S \cup {e})
    BY <2>1
  <2>3. <<>> \in Seq(S)
    OBVIOUS
  <2> QED BY <1>4, <2>2, <2>3
<1>6. ASSUME complete, image.version = 1
      PROVE  /\ status' = "OK" /\ Len(dir') <= n
             /\ \A j \in 1..Len(dir') : dir'[j] = EntryOf(image.files, j)
  <2>1. flash[0] = Header(1, n) /\ image.files \in Seq(Asset)
    BY <1>6, FlashPacked DEF ImageInv
  <2>2. /\ status = "OK" /\ Len(dir) <= n
        /\ \A j \in 1..Len(dir) : dir[j] = EntryOf(image.files, j)
    BY <1>1, <1>6 DEF ImageInv, ReadInv
  <2>3. flash[0].count = n /\ n \in Nat /\ Len(dir) \in Nat
    BY <1>3, <2>1 DEF Header
  <2>4. Len(dir) # n
    BY <2>2, <2>3 DEF ScanEntry, Checked
  <2>5. i \in 1..n
    BY <2>2, <2>3, <2>4
  <2>6. e = EntryOf(image.files, i) /\ Valid(e, n)
    BY <1>4, <1>6, <2>5, PackedEntry DEF ImageInv
  <2>7. dir' = Append(dir, e) /\ status' = status
    BY <1>4, <2>3, <2>6
  <2>8. /\ Len(dir') = Len(dir) + 1
        /\ \A j \in 1..Len(dir) : dir'[j] = dir[j]
        /\ dir'[Len(dir) + 1] = e
    <3>1. dir \in Seq(S \cup {e}) /\ e \in S \cup {e}
      BY <1>3
    <3> QED BY <2>7, <3>1, AppendProperties
  <2>9. ASSUME NEW j \in 1..Len(dir') PROVE dir'[j] = EntryOf(image.files, j)
    <3>1. j \in 1..Len(dir) \/ j = i
      BY <2>3, <2>8
    <3> QED BY <2>2, <2>6, <2>8, <3>1
  <2> QED BY <2>2, <2>3, <2>5, <2>7, <2>8, <2>9
<1>7. ReadInv'
  BY <1>1, <1>5, <1>6 DEF ReadInv
<1> QED BY <1>2, <1>7 DEF ImageInv

(* Indexing the assets leaves the directory as it was read.               *)
LEMMA IndexAssetsStep ==
  ASSUME ImageInv, IndexAssets
  PROVE  ImageInv'
<1>1. /\ UNCHANGED <<flash, image, written, complete, status, dir>>
      /\ phase = "scan" /\ phase' = "on" /\ Checked
  BY DEF IndexAssets, store
<1>2. WrittenInv'
  BY <1>1 DEF ImageInv, WrittenInv
<1>3. Checked'
  BY <1>1 DEF Checked
<1>4. ReadInv'
  BY <1>1, <1>3 DEF ImageInv, ReadInv
<1> QED BY <1>2, <1>4 DEF ImageInv

(* Every step keeps the invariant.                                         *)
LEMMA ImageStep == ImageInv /\ [Next]_vars => ImageInv'
<1> SUFFICES ASSUME ImageInv, [Next]_vars PROVE ImageInv'
  OBVIOUS
<1>1. CASE \E img \in Image : Flash(img)
  BY <1>1, FlashStep
<1>2. CASE WriteSector
  BY <1>2, WriteSectorStep
<1>3. CASE Finish
  BY <1>3, FinishStep
<1>4. CASE Interrupt
  BY <1>4, InterruptStep
<1>5. CASE PowerOff
  BY <1>5, PowerOffStep
<1>6. CASE Boot
  BY <1>6, BootStep
<1>7. CASE ScanEntry
  BY <1>7, ScanEntryStep
<1>8. CASE IndexAssets
  BY <1>8, IndexAssetsStep
<1>9. CASE UNCHANGED vars
  BY <1>9 DEF vars, store, firmware, ImageInv, WrittenInv, ReadInv, Checked, Fits
<1> QED BY <1>1, <1>2, <1>3, <1>4, <1>5, <1>6, <1>7, <1>8, <1>9, Zenon DEF Next

(* The invariant says what is served.                                      *)
LEMMA ImageServes == ImageInv => ServedAsPacked
<1> SUFFICES ASSUME ImageInv, Whole
             PROVE  /\ status = "OK" /\ Len(dir) = Len(image.files)
                    /\ \A i \in DOMAIN dir :
                         LET a == image.files[i] IN
                         /\ dir[i].type = TypeOf[a] /\ dir[i].name = Encoded[Stem[a]]
                         /\ \A k \in 1..dir[i].length : flash[dir[i].offset + k - 1] = Datum(a, k)
  BY DEF ServedAsPacked
<1>1. PICK S : dir \in Seq(S)
  BY DEF ImageInv, ReadInv
<1>2. /\ flash[0] = Header(1, Len(image.files))
      /\ \A i \in 1..Len(image.files) : \A k \in 1..BlobLength(image.files[i]) :
           flash[Offsets(image.files)[i] + k - 1] = Datum(image.files[i], k)
  BY FlashPacked DEF ImageInv, Whole
<1>3. /\ status = "OK" /\ Checked
      /\ \A i \in 1..Len(dir) : dir[i] = EntryOf(image.files, i)
  BY DEF ImageInv, ReadInv, Whole
<1>4. Len(dir) = Len(image.files)
  BY <1>2, <1>3 DEF Checked, Header
<1>5. ASSUME NEW i \in DOMAIN dir
      PROVE  LET a == image.files[i] IN
             /\ dir[i].type = TypeOf[a] /\ dir[i].name = Encoded[Stem[a]]
             /\ \A k \in 1..dir[i].length : flash[dir[i].offset + k - 1] = Datum(a, k)
  <2>1. i \in 1..Len(dir)
    BY <1>1, LenProperties
  <2>2. /\ dir[i].type = TypeOf[image.files[i]]
        /\ dir[i].name = Encoded[Stem[image.files[i]]]
        /\ dir[i].offset = Offsets(image.files)[i]
        /\ dir[i].length = BlobLength(image.files[i])
    <3>1. dir[i] = EntryOf(image.files, i)
      BY <1>3, <2>1, Zenon
    <3> QED BY <3>1, SMT DEF EntryOf
  <2>3. \A k \in 1..BlobLength(image.files[i]) :
          flash[Offsets(image.files)[i] + k - 1] = Datum(image.files[i], k)
    <3>1. i \in 1..Len(image.files)
      BY <1>4, <2>1
    <3> QED BY <1>2, <3>1, Zenon
  <2> QED BY <2>2, <2>3
<1> QED BY <1>3, <1>4, <1>5

(* An image the bootloader wrote to its end is served as it was packed:    *)
(* the directory the firmware reads is the packer's, entry by entry, and   *)
(* every unit of every blob is where its entry says, whatever was in flash *)
(* before, however many writes were interrupted and whatever the sizes of  *)
(* sector and partition (tools/build_data_image.py, src/QspiStorage.cpp).  *)
THEOREM ImageServed == Spec => []ServedAsPacked
<1>1. Init => ImageInv
  BY ImageStart
<1>2. ImageInv /\ [Next]_vars => ImageInv'
  BY ImageStep
<1>3. ImageInv => ServedAsPacked
  BY ImageServes
<1> QED BY <1>1, <1>2, <1>3, PTL DEF Spec

-----------------------------------------------------------------------------
(* Among the numbers of a set up to m there is one of each rank.           *)
LEMMA RanksTaken ==
  ASSUME NEW S, NEW n \in Nat, S \subseteq 1..n
  PROVE  /\ Cardinality(S) \in Nat /\ (Cardinality(S) = 0 <=> S = {})
         /\ \A r \in 1..Cardinality(S) : \E i \in S : Rank(S, i) = r
<1> DEFINE Low(m) == {j \in S : j <= m}
           Taken(m) == \A r \in 1..Cardinality(Low(m)) : \E i \in Low(m) : Rank(S, i) = r
           D == {m \in Nat : Taken(m)}
<1>1. \A T : T \subseteq 1..n =>
        IsFiniteSet(T) /\ Cardinality(T) \in Nat /\ (Cardinality(T) = 0 <=> T = {})
  <2> SUFFICES ASSUME NEW T, T \subseteq 1..n
               PROVE  IsFiniteSet(T) /\ Cardinality(T) \in Nat /\ (Cardinality(T) = 0 <=> T = {})
    OBVIOUS
  <2>1. IsFiniteSet(1..n)
    BY FS_Interval
  <2>2. IsFiniteSet(T)
    BY <2>1, FS_Subset
  <2> QED BY <2>2, FS_CardinalityType, FS_EmptySet
<1>0. \A j \in S : j \in Nat /\ 1 <= j /\ j <= n
  OBVIOUS
<1>2. \A m \in Nat : Low(m) \subseteq 1..n
  OBVIOUS
<1>3. 0 \in D
  <2>1. Low(0) = {}
    <3>1. \A j \in S : ~(j <= 0)
      BY <1>0
    <3> QED BY <3>1
  <2>2. Cardinality(Low(0)) = 0
    BY <1>1, <2>1
  <2> HIDE DEF Low
  <2> QED BY <2>2
<1>4. ASSUME NEW m \in 0..(n - 1), m \in D PROVE m + 1 \in D
  <2>1. CASE m + 1 \notin S
    <3>1. Low(m + 1) = Low(m)
      <4>1. \A j \in S : j <= m + 1 <=> j <= m
        BY <1>0, <1>4, <2>1
      <4> QED BY <4>1
    <3> HIDE DEF Low
    <3> QED BY <1>4, <3>1
  <2>2. CASE m + 1 \in S
    <3>1. Low(m + 1) = Low(m) \cup {m + 1} /\ m + 1 \notin Low(m)
      <4>1. \A j \in S : j <= m + 1 <=> j <= m \/ j = m + 1
        BY <1>0, <1>4
      <4>2. ~(m + 1 <= m)
        BY <1>4
      <4> QED BY <2>2, <4>1, <4>2, Zenon
    <3>2. Rank(S, m + 1) = Cardinality(Low(m + 1))
      BY DEF Rank
    <3>3. Taken(m) /\ m \in Nat /\ m + 1 \in Nat
      BY <1>4
    <3> HIDE DEF Low
    <3>4. Cardinality(Low(m + 1)) = Cardinality(Low(m)) + 1 /\ Cardinality(Low(m)) \in Nat
      BY <1>1, <1>2, <3>1, <3>3, FS_AddElement
    <3>5. ASSUME NEW r \in 1..Cardinality(Low(m + 1))
          PROVE  \E i \in Low(m + 1) : Rank(S, i) = r
      <4>1. CASE r \in 1..Cardinality(Low(m))
        BY <3>1, <3>3, <4>1
      <4>2. CASE r = Cardinality(Low(m)) + 1
        BY <3>1, <3>2, <3>4, <4>2
      <4> QED BY <3>4, <4>1, <4>2
    <3> QED BY <3>3, <3>5
  <2> QED BY <2>1, <2>2
<1>5. n \in D
  <2> HIDE DEF D
  <2>1. 0..n \subseteq D
    BY <1>3, <1>4, RangeInduction
  <2> QED BY <2>1
<1>6. Low(n) = S
  BY <1>0
<1>7. Taken(n)
  BY <1>5
<1> HIDE DEF Low
<1> QED BY <1>1, <1>6, <1>7

LEMMA InOrderIs ==
  ASSUME NEW S, NEW n \in Nat, S \subseteq 1..n
  PROVE  /\ InOrder(S) \in Seq(S) /\ Len(InOrder(S)) = Cardinality(S) /\ Cardinality(S) \in Nat
         /\ \A k \in 1..Len(InOrder(S)) : InOrder(S)[k] \in S
         /\ InOrder(S) = <<>> <=> S = {}
<1> DEFINE c == Cardinality(S)
           q == InOrder(S)
<1>1. c \in Nat /\ (c = 0 <=> S = {}) /\ \A r \in 1..c : \E i \in S : Rank(S, i) = r
  BY RanksTaken
<1>2. q = [r \in 1..c |-> CHOOSE i \in S : Rank(S, i) = r]
  BY DEF InOrder
<1> HIDE DEF c, q
<1>3. \A r \in 1..c : q[r] \in S
  BY <1>1, <1>2
<1>4. q \in [1..c -> S]
  BY <1>2, <1>3
<1>5. q \in Seq(S) /\ Len(q) = c
  BY <1>1, <1>4, SeqDef
<1>6. q = <<>> <=> c = 0
  BY <1>1, <1>5
<1> QED BY <1>1, <1>3, <1>5, <1>6 DEF c, q

LEMMA UpToIs ==
  ASSUME NEW S, NEW s \in Seq(S), NEW n \in Nat \ {0}
  PROVE  /\ UpTo(n, s) \in Seq(S) /\ Len(UpTo(n, s)) <= n /\ Len(UpTo(n, s)) <= Len(s)
         /\ \A k \in 1..Len(s) : k <= n => k \in 1..Len(UpTo(n, s))
         /\ \A k \in 1..Len(UpTo(n, s)) : k \in 1..Len(s) /\ k <= n /\ UpTo(n, s)[k] = s[k]
         /\ UpTo(n, s) = <<>> <=> s = <<>>
<1> DEFINE m == IF Len(s) < n THEN Len(s) ELSE n
           u == SubSeq(s, 1, m)
<1>1. /\ Len(s) \in Nat /\ m \in Nat /\ m <= n /\ m <= Len(s) /\ (m = 0 <=> Len(s) = 0)
      /\ \A k \in 1..Len(s) : s[k] \in S /\ (k <= n => k <= m)
  BY LenProperties
<1>2. UpTo(n, s) = u
  BY DEF UpTo
<1> HIDE DEF m
<1>3. \A k \in 1..m : s[k] \in S
  BY <1>1
<1>4. u \in Seq(S) /\ Len(u) = m /\ \A k \in 1..m : u[k] = s[k]
  <2>1. /\ u \in Seq(S) /\ Len(u) = IF 1 <= m THEN m - 1 + 1 ELSE 0
        /\ \A k \in 1..(m - 1 + 1) : u[k] = s[1 + k - 1]
    BY <1>1, <1>3, SubSeqProperties
  <2> QED BY <1>1, <2>1
<1> HIDE DEF u
<1>5. (u = <<>> <=> m = 0) /\ (s = <<>> <=> Len(s) = 0)
  BY <1>1, <1>4
<1> QED BY <1>1, <1>2, <1>4, <1>5

(* The least number of a set.                                              *)
LEMMA MinIs ==
  ASSUME NEW T, T \subseteq Nat, T # {}
  PROVE  Min(T) \in T
<1>1. PICK k \in T : \A j \in T : <<j, k>> \notin OpToRel(<, Nat)
  BY WFMin, NatLessThanWellFounded
<1>2. \A j \in T : j < k => <<j, k>> \in OpToRel(<, Nat)
  BY DEF OpToRel
<1>3. \A j \in T : ~(j < k)
  BY <1>1, <1>2, Zenon
<1>4. \A j \in T : k <= j
  BY <1>3
<1> QED BY <1>4 DEF Min

(* What the firmware makes of a directory depends on nothing else.         *)
LEMMA PresetInKept ==
  ASSUME flash' = flash, NEW e PROVE PresetIn(e)' = PresetIn(e)
BY DEF PresetIn

LEMMA PresetsOfKept ==
  ASSUME flash' = flash, dir' = dir, NEW ms
  PROVE  OfModels' = OfModels /\ OfPresets' = OfPresets /\ PresetsOf(ms)' = PresetsOf(ms)
<1>1. OfModels' = OfModels
  BY DEF OfModels
<1>2. OfPresets' = OfPresets
  BY DEF OfPresets
<1>3. ASSUME NEW files PROVE Stored(files)' = Stored(files)
  BY PresetInKept DEF Stored
<1>4. MadeUp(ms)' = MadeUp(ms)
  BY DEF MadeUp
<1> QED BY <1>1, <1>2, <1>3, <1>4 DEF PresetsOf

(* What IndexAssets made of it, as long as the firmware runs.              *)
IndexInv ==
  phase = "on" =>
    \E ms : /\ models = ms /\ ms = UpTo(MaxModels, InOrder(OfModels))
           /\ presets \in PresetsOf(ms)

LEMMA IndexStep == IndexInv /\ [Next]_vars => IndexInv'
<1> SUFFICES ASSUME IndexInv, [Next]_vars PROVE IndexInv'
  OBVIOUS
<1>1. CASE IndexAssets
  <2>1. /\ models' = UpTo(MaxModels, InOrder(OfModels)) /\ presets' \in PresetsOf(models')
        /\ flash' = flash /\ dir' = dir
    BY <1>1 DEF IndexAssets, store
  <2>2. PICK ms : models' = ms /\ presets' \in PresetsOf(ms)
    BY <2>1
  <2>3. OfModels' = OfModels /\ PresetsOf(ms)' = PresetsOf(ms)
    BY <2>1, PresetsOfKept
  <2> QED BY <2>1, <2>2, <2>3 DEF IndexInv
<1>2. CASE UNCHANGED <<phase, flash, dir, models, presets>> /\ phase = "on"
  <2>1. PICK ms : /\ models = ms /\ ms = UpTo(MaxModels, InOrder(OfModels))
                  /\ presets \in PresetsOf(ms)
    BY <1>2 DEF IndexInv
  <2>2. OfModels' = OfModels /\ PresetsOf(ms)' = PresetsOf(ms)
    BY <1>2, PresetsOfKept
  <2> QED BY <1>2, <2>1, <2>2 DEF IndexInv
<1>3. CASE phase' # "on"
  BY <1>3 DEF IndexInv
<1> QED BY <1>1, <1>2, <1>3
      DEF Next, Flash, WriteSector, Finish, Interrupt, PowerOff, Boot, ScanEntry, vars, store, firmware

(* A name in flash is one that a file has, a header counts no more entries *)
(* than the partition holds, and so the directory has names of files too.  *)
Readable(cell) ==
  /\ cell.kind = "naming" => cell.name \in Name
  /\ cell.kind = "header" => cell.count \in Nat /\ DirEnd(cell.count) <= Partition

NamesInv ==
  /\ \A u \in DOMAIN flash : Readable(flash[u])
  /\ phase \in {"off", "bootloader"} => dir = <<>>
  /\ phase = "scan" /\ status = "OK" =>
       flash[0].kind = "header" /\ Len(dir) <= flash[0].count
  /\ \E S : dir \in Seq(S)
  /\ \A i \in 1..Len(dir) : dir[i].name \in Name

LEMMA NamesStart == Init => NamesInv
BY EmptySeq DEF Init, NamesInv, Readable, Erased

LEMMA EntryNames ==
  ASSUME NamesInv, NEW i \in Nat \ {0}, 2 * i - 1 \in DOMAIN flash, NEW e \in EntriesAt(i)
  PROVE  e.name \in Name
<1>1. PICK t \in NamingIn(flash[2 * i - 1]) : e.name = t.name
  BY DEF EntriesAt
<1>2. Empty \in Name
  BY DEF Name
<1> QED BY <1>1, <1>2 DEF NamingIn, NamesInv, Readable

LEMMA CellNames ==
  ASSUME NEW img \in Image, Fits(img), NEW u \in Nat
  PROVE  Readable(CellOf(img, u))
<1> DEFINE files == img.files
           n == Len(files)
           entry == (u + 1) \div 2
<1>1. files \in Seq(Asset) /\ n \in Nat /\ \A i \in 1..n : files[i] \in Asset
  BY ImageAssumption
<1>2. CASE u = 0
  <2>1. CellOf(img, u) = Header(img.version, n)
    BY <1>1, <1>2, CellCases
  <2>2. DirEnd(n) <= Partition
    <3>1. DirEnd(n) - 1 \in 0..(DirEnd(n) - 1)
      BY <1>1 DEF DirEnd
    <3>2. DirEnd(n) - 1 \in Cell
      BY <3>1, PackedFits
    <3> QED BY <1>1, <3>2, ImageAssumption DEF Cell, DirEnd
  <2> QED BY <1>1, <2>1, <2>2 DEF Header, Readable
<1>3. CASE u # 0 /\ u < DirEnd(n) /\ u % 2 = 1
  <2>1. entry \in 1..n
    BY <1>1, <1>3 DEF DirEnd
  <2>2. CellOf(img, u) = Naming(TypeOf[files[entry]], Encoded[Stem[files[entry]]])
    BY <1>1, <1>3, CellCases
  <2>3. Stem[files[entry]] \in Stems
    BY <1>1, <2>1 DEF Stems
  <2> QED BY <2>2, <2>3 DEF Naming, Name, Readable
<1>4. CASE u # 0 /\ u < DirEnd(n) /\ u % 2 = 0
  BY <1>1, <1>4, CellCases DEF Placing, Readable
<1>5. CASE u >= DirEnd(n)
  <2>1. \E c : c.kind \notin {"naming", "header"} /\ CellOf(img, u) = c
    <3>1. u # 0 /\ u \notin 1..(DirEnd(n) - 1)
      BY <1>1, <1>5 DEF DirEnd
    <3>2. /\ Zero.kind \notin {"naming", "header"}
          /\ \A a, k : Datum(a, k).kind \notin {"naming", "header"}
      BY DEF Zero, Datum
    <3>3. CellOf(img, u) = Zero \/ \E a, k : CellOf(img, u) = Datum(a, k)
      BY <3>1, Zenon DEF CellOf
    <3> QED BY <3>2, <3>3
  <2> QED BY <2>1 DEF Readable
<1> QED BY <1>1, <1>2, <1>3, <1>4, <1>5 DEF DirEnd

LEMMA NamesStep == ImageInv /\ NamesInv /\ [Next]_vars => NamesInv'
<1> SUFFICES ASSUME ImageInv, NamesInv, [Next]_vars PROVE NamesInv'
  OBVIOUS
<1>1. DOMAIN flash = Cell /\ Cell \subseteq Nat
  BY ImageAssumption DEF ImageInv, WrittenInv, Cell
<1>2. CASE WriteSector
  <2>1. /\ image \in Image /\ Fits(image) /\ phase' = "bootloader" /\ dir' = dir /\ dir = <<>>
        /\ DOMAIN flash' = DOMAIN flash
        /\ \A u \in DOMAIN flash : flash'[u] = CellOf(image, u) \/ flash'[u] = flash[u]
    BY <1>2 DEF WriteSector, firmware, NamesInv, ImageInv, WrittenInv
  <2>2. \A u \in DOMAIN flash' : Readable(flash'[u])
    BY <1>1, <2>1, CellNames DEF NamesInv
  <2> QED BY <2>1, <2>2, EmptySeq DEF NamesInv
<1>3. CASE Interrupt
  <2>1. /\ dir' = dir /\ dir = <<>> /\ phase' = "off" /\ DOMAIN flash' = DOMAIN flash
        /\ \A u \in DOMAIN flash : flash'[u] = Erased \/ flash'[u] = flash[u]
    BY <1>3 DEF Interrupt, firmware, NamesInv
  <2>2. \A u \in DOMAIN flash' : Readable(flash'[u])
    BY <2>1 DEF NamesInv, Erased, Readable
  <2> QED BY <2>1, <2>2, EmptySeq DEF NamesInv
<1>4. CASE ScanEntry
  <2>1. PICK e \in EntriesAt(Len(dir) + 1) :
          IF Valid(e, flash[0].count)
            THEN dir' = Append(dir, e) /\ UNCHANGED status
            ELSE dir' = <<>> /\ status' = "BAD_MAGIC"
    BY <1>4 DEF ScanEntry
  <2>2. UNCHANGED <<flash, phase>> /\ phase = "scan" /\ status = "OK" /\ Len(dir) # flash[0].count
    BY <1>4 DEF ScanEntry, store, Checked
  <2>3. CASE dir' = <<>> /\ status' = "BAD_MAGIC"
    BY <2>2, <2>3, EmptySeq DEF NamesInv
  <2>4. CASE dir' = Append(dir, e) /\ status' = status
    <3>1. PICK S : dir \in Seq(S)
      BY DEF NamesInv
    <3>2. dir \in Seq(S \cup {e}) /\ e \in S \cup {e} /\ Len(dir) \in Nat
      BY <3>1, LenProperties, SeqMonotonic
    <3>3. /\ dir' \in Seq(S \cup {e}) /\ Len(dir') = Len(dir) + 1
          /\ dir'[Len(dir) + 1] = e /\ \A j \in 1..Len(dir) : dir'[j] = dir[j]
      BY <2>4, <3>2, AppendProperties
    <3>4. /\ flash[0].kind = "header" /\ flash[0].count \in Nat
          /\ DirEnd(flash[0].count) <= Partition /\ Len(dir) < flash[0].count
      <4>1. 0 \in DOMAIN flash
        BY <1>1, ImageAssumption DEF Cell
      <4>2. flash[0].kind = "header" /\ Len(dir) <= flash[0].count
        BY <2>2 DEF NamesInv
      <4>3. flash[0].count \in Nat /\ DirEnd(flash[0].count) <= Partition
        BY <4>1, <4>2 DEF NamesInv, Readable
      <4> QED BY <2>2, <3>2, <4>2, <4>3
    <3>5. e.name \in Name
      <4>1. 2 * (Len(dir) + 1) - 1 \in DOMAIN flash
        BY <1>1, <3>2, <3>4, ImageAssumption DEF Cell, DirEnd
      <4>2. Len(dir) + 1 \in Nat \ {0}
        BY <3>2
      <4> QED BY <4>1, <4>2, EntryNames
    <3>6. \A j \in 1..Len(dir') : dir'[j].name \in Name
      <4>1. \A j \in 1..Len(dir') : j \in 1..Len(dir) \/ j = Len(dir) + 1
        BY <3>2, <3>3
      <4> QED BY <3>3, <3>5, <4>1 DEF NamesInv
    <3>7. Len(dir') <= flash'[0].count /\ flash'[0].kind = "header"
      BY <2>2, <3>2, <3>3, <3>4
    <3> QED BY <2>2, <3>3, <3>6, <3>7 DEF NamesInv
  <2> QED BY <2>1, <2>3, <2>4
<1>5. CASE \E img \in Image : Flash(img)
  BY <1>5, EmptySeq DEF Flash, Forgotten, NamesInv
<1>6. CASE PowerOff
  BY <1>6, EmptySeq DEF PowerOff, Forgotten, store, NamesInv
<1>7. CASE Boot
  <2>1. /\ dir = <<>> /\ dir' = dir /\ flash' = flash /\ phase' = "scan"
        /\ (status' = "OK" => flash[0].kind = "header")
    BY <1>7 DEF Boot, store, NamesInv
  <2>2. status' = "OK" => Len(dir') <= flash'[0].count
    <3>1. 0 \in DOMAIN flash
      BY <1>1, ImageAssumption DEF Cell
    <3> QED BY <2>1, <3>1 DEF NamesInv, Readable
  <2> QED BY <2>1, <2>2 DEF NamesInv
<1>8. CASE Finish \/ IndexAssets \/ UNCHANGED vars
  BY <1>8 DEF Finish, IndexAssets, vars, store, firmware, NamesInv
<1> QED BY <1>2, <1>3, <1>4, <1>5, <1>6, <1>7, <1>8, Zenon DEF Next

(* A name stands for the first model, or the first entry, that has it.     *)
ModelsInv ==
  /\ models \in Seq(OfModels) /\ OfModels \subseteq 1..Len(dir)
  /\ \A m \in DOMAIN models : models[m] \in OfModels

LEMMA ModelForIs ==
  ASSUME ModelsInv, NEW p
  PROVE  \/ ModelFor(p) = 0 /\ \A m \in DOMAIN models : dir[models[m]].name # p.model
         \/ \E m \in DOMAIN models : /\ ModelFor(p) = models[m] /\ dir[models[m]].name = p.model
                                     /\ ModelFor(p) # 0
<1> DEFINE hits == {m \in DOMAIN models : dir[models[m]].name = p.model}
<1>1. hits \subseteq Nat
  BY LenProperties DEF ModelsInv
<1>2. ModelFor(p) = IF hits = {} THEN 0 ELSE models[Min(hits)]
  BY DEF ModelFor
<1>3. CASE hits = {}
  BY <1>2, <1>3
<1>4. CASE hits # {}
  <2>1. Min(hits) \in hits
    BY <1>1, <1>4, MinIs
  <2>2. models[Min(hits)] # 0
    <3>1. models[Min(hits)] \in 1..Len(dir)
      BY <2>1 DEF ModelsInv
    <3> QED BY <3>1
  <2> QED BY <1>2, <1>4, <2>1, <2>2
<1> QED BY <1>3, <1>4

LEMMA FindEntryIs ==
  ASSUME NEW S, dir \in Seq(S), NEW type, NEW name,
         NEW i \in DOMAIN dir, dir[i].type = type, dir[i].name = name,
         \A j \in DOMAIN dir : dir[j].type = type /\ dir[j].name = name => j = i
  PROVE  FindEntry(type, name) = i
<1> DEFINE hits == {j \in DOMAIN dir : dir[j].type = type /\ dir[j].name = name}
<1>1. hits = {i}
  OBVIOUS
<1>2. i \in Nat
  BY LenProperties
<1>3. Min({i}) = i
  BY <1>2, MinIs
<1>4. FindEntry(type, name) = IF hits = {} THEN 0 ELSE Min(hits)
  BY DEF FindEntry
<1> QED BY <1>1, <1>3, <1>4

LEMMA ModelsAre ==
  ASSUME NamesInv, IndexInv, phase = "on"
  PROVE  ModelsInv
<1>1. PICK S : dir \in Seq(S)
  BY DEF NamesInv
<1>2. Len(dir) \in Nat /\ OfModels \subseteq 1..Len(dir)
  BY <1>1, LenProperties DEF OfModels
<1>3. InOrder(OfModels) \in Seq(OfModels)
  BY <1>2, InOrderIs
<1>4. models = UpTo(MaxModels, InOrder(OfModels))
  BY DEF IndexInv
<1>5. models \in Seq(OfModels)
  BY <1>3, <1>4, UpToIs, ImageAssumption
<1>6. \A m \in DOMAIN models : models[m] \in OfModels
  BY <1>5, LenProperties
<1> QED BY <1>2, <1>5, <1>6 DEF ModelsInv

(* The presets are those in flash, or one for each model, or the last      *)
(* resort.                                                                 *)
LEMMA PresetsAre ==
  ASSUME NamesInv, IndexInv, phase = "on"
  PROVE  LET at == UpTo(MaxPresets, InOrder(OfPresets)) IN
         /\ \E S : presets \in Seq(S)
         /\ Len(presets) \in 1..MaxPresets
         /\ at # <<>> =>
              Len(presets) = Len(at) /\ \A j \in 1..Len(at) : presets[j] \in PresetIn(dir[at[j]])
         /\ at = <<>> => \A m \in DOMAIN models : m <= MaxPresets =>
              presets[m].model = dir[models[m]].name /\ presets[m].off = FALSE
<1> DEFINE at == UpTo(MaxPresets, InOrder(OfPresets))
           made == MadeUp(models)
<1>1. PICK S : dir \in Seq(S)
  BY DEF NamesInv
<1>2. Len(dir) \in Nat /\ OfPresets \subseteq 1..Len(dir)
  BY <1>1, LenProperties DEF OfPresets
<1>3. InOrder(OfPresets) \in Seq(OfPresets) /\ MaxPresets \in Nat \ {0}
  BY <1>2, InOrderIs, ImageAssumption
<1>4. at \in Seq(OfPresets) /\ Len(at) <= MaxPresets /\ Len(at) \in Nat
  BY <1>3, UpToIs, LenProperties
<1>5. presets \in PresetsOf(models)
  BY DEF IndexInv
<1> HIDE DEF at
<1>6. PresetsOf(models) = CASE at # <<>> -> Stored(at)
                            [] at = <<>> /\ models # <<>> -> {UpTo(MaxPresets, made)}
                            [] OTHER -> {<<Direct>>}
  BY DEF PresetsOf, at
<1>7. ModelsInv /\ Len(models) \in Nat /\ DOMAIN models = 1..Len(models)
  BY ModelsAre, LenProperties DEF ModelsInv
<1>8. CASE at # <<>>
  <2>1. presets \in Stored(at)
    BY <1>5, <1>6, <1>8
  <2>2. PICK T : presets \in [1..Len(at) -> T] /\ \A j \in 1..Len(at) : presets[j] \in PresetIn(dir[at[j]])
    BY <2>1, Zenon DEF Stored
  <2>3. presets \in Seq(T) /\ Len(presets) = Len(at)
    BY <1>4, <2>2, SeqDef
  <2>4. Len(at) # 0
    BY <1>4, <1>8, EmptySeq
  <2> QED BY <1>4, <1>8, <2>2, <2>3, <2>4 DEF at
<1>9. CASE at = <<>> /\ models # <<>>
  <2>1. presets = UpTo(MaxPresets, made)
    BY <1>5, <1>6, <1>9
  <2>2. /\ made \in Seq({made[m] : m \in 1..Len(models)}) /\ Len(made) = Len(models)
        /\ \A m \in 1..Len(models) : made[m].model = dir[models[m]].name /\ made[m].off = FALSE
    <3> DEFINE rec(m) == [Direct EXCEPT !.model = dir[models[m]].name, !.off = FALSE,
                                        !.set["freq"] = Default["freq"]]
    <3>1. made = [m \in 1..Len(models) |-> rec(m)]
      BY DEF MadeUp
    <3>2. \A m : rec(m).model = dir[models[m]].name /\ rec(m).off = FALSE
      BY DEF Direct
    <3> HIDE DEF rec, made
    <3>3. made \in [1..Len(models) -> {made[m] : m \in 1..Len(models)}]
      BY <3>1
    <3> QED BY <1>7, <3>1, <3>2, <3>3, SeqDef
  <2> HIDE DEF made
  <2>3. Len(made) # 0 /\ made # <<>>
    BY <1>7, <1>9, <2>2, EmptySeq
  <2>4. /\ presets \in Seq({made[m] : m \in 1..Len(models)}) /\ Len(presets) <= MaxPresets
        /\ presets # <<>>
        /\ \A m \in 1..Len(made) : m <= MaxPresets => m \in 1..Len(presets)
        /\ \A m \in 1..Len(presets) : presets[m] = made[m]
    BY <1>3, <2>1, <2>2, <2>3, UpToIs
  <2>5. Len(presets) \in 1..MaxPresets
    BY <1>3, <2>4, LenProperties, EmptySeq
  <2> QED BY <1>7, <1>9, <2>2, <2>4, <2>5 DEF at
<1>10. CASE at = <<>> /\ models = <<>>
  <2>1. presets = <<Direct>>
    BY <1>5, <1>6, <1>10
  <2>2. presets \in Seq({Direct}) /\ Len(presets) = 1 /\ DOMAIN models = {}
    BY <1>10, <2>1
  <2> QED BY <1>3, <1>10, <2>2 DEF at
<1> QED BY <1>8, <1>9, <1>10

(* A preset whose name is no name is bypassed.                             *)
LEMMA JunkBypassed ==
  ASSUME NamesInv, ModelsInv, NEW p, p.model = Junk
  PROVE  Bypassed(p)
<1>1. p.model # Empty
  BY JunkAssumption DEF Name
<1>2. \A m \in DOMAIN models : dir[models[m]].name # p.model
  <2>1. \A m \in DOMAIN models : dir[models[m]].name \in Name
    BY DEF NamesInv, ModelsInv
  <2> QED BY <2>1, JunkAssumption
<1>3. ModelFor(p) = 0
  BY <1>2, ModelForIs
<1> QED BY <1>1, <1>3 DEF Bypassed

(* The numbers of a preset as they are in flash.                           *)
SetIn(p) == [f \in Field |-> IF Kept(f, Units[p]) THEN Packed(p)[f] ELSE 0]

LEMMA NumbersGiven ==
  ASSUME NEW p \in Asset, TypeOf[p] = PRESET, NEW preset, preset.set = SetIn(p)
  PROVE  NumbersPlay(p, preset)
<1> DEFINE kept(f) == Kept(f, Units[p])
           zero(f) == f = "threshold" /\ Authored[p][f] = 0
           v(f) == preset.set[f]
<1>1. \A f \in Field :
        /\ kept(f) /\ Authored[p][f] # Absent => v(f) = Authored[p][f]
        /\ kept(f) /\ Authored[p][f] = Absent => v(f) = PackedDefault[f]
        /\ ~kept(f) => v(f) = 0
  BY DEF SetIn, Packed
<1>2. \A f \in Field : /\ Authored[p][f] \in Int \cup {Absent}
                       /\ PackedDefault[f] \in Int /\ Default[f] \in Int
                       /\ Bounds[f][1] \in Int /\ Bounds[f][2] \in Int
                       /\ Bounds[f][1] <= Bounds[f][2]
  BY NumbersAssumption
<1>3. \A f \in Field : v(f) \in Int
  BY <1>1, <1>2
<1>4. Given(preset) = [f \in Field |->
        LET or_default == IF v(f) > 0 THEN v(f) ELSE Default[f] IN
        CASE f = "level"     -> v(f)
          [] f = "freq"      -> or_default
          [] f = "threshold" -> Clamp(f, IF v(f) = 0 THEN Default[f] ELSE v(f))
          [] f = "ratio"     -> Clamp(f, or_default)
          [] f = "mix"       -> Clamp(f, v(f))]
  BY DEF Given
<1> HIDE DEF v
<1>5. /\ Given(preset)["level"] = v("level")
      /\ Given(preset)["freq"] = IF v("freq") > 0 THEN v("freq") ELSE Default["freq"]
      /\ Given(preset)["threshold"] =
           Clamp("threshold", IF v("threshold") = 0 THEN Default["threshold"] ELSE v("threshold"))
      /\ Given(preset)["ratio"] =
           Clamp("ratio", IF v("ratio") > 0 THEN v("ratio") ELSE Default["ratio"])
      /\ Given(preset)["mix"] = Clamp("mix", v("mix"))
  BY <1>4 DEF Field
<1>6. \A f \in Field, u \in Int :
        InBounds(f, Clamp(f, u)) /\ (InBounds(f, u) => Clamp(f, u) = u)
  BY <1>2 DEF InBounds, Clamp
<1> DEFINE Plays(f) ==
      /\ kept(f) /\ Authored[p][f] # Absent /\ ~zero(f)
            /\ (f = "level" \/ InBounds(f, Authored[p][f]))
            => Given(preset)[f] = Authored[p][f]
      /\ kept(f) /\ Authored[p][f] # Absent /\ zero(f) => Given(preset)[f] = Default[f]
      /\ kept(f) /\ Authored[p][f] = Absent => Given(preset)[f] = PackedDefault[f]
      /\ ~kept(f) => Given(preset)[f] = IF f = "mix" THEN Clamp(f, 0) ELSE Default[f]
      /\ f \in {"threshold", "ratio", "mix"} => InBounds(f, Given(preset)[f])
<1> HIDE DEF kept
<1>7. Plays("level")
  <2>1. kept("level")
    BY DEF kept, Kept
  <2> QED BY <1>1, <1>5, <2>1 DEF Field
<1>8. Plays("freq")
  <2>1. Bounds["freq"][1] > 0 /\ PackedDefault["freq"] > 0
    BY NumbersAssumption
  <2> QED BY <1>1, <1>2, <1>3, <1>5, <2>1 DEF Field, InBounds
<1>9. Plays("threshold")
  <2>1. /\ PackedDefault["threshold"] # 0 /\ InBounds("threshold", PackedDefault["threshold"])
        /\ InBounds("threshold", Default["threshold"])
    BY NumbersAssumption
  <2> QED BY <1>1, <1>2, <1>3, <1>5, <1>6, <2>1 DEF Field
<1>10. Plays("ratio")
  <2>1. /\ PackedDefault["ratio"] > 0 /\ InBounds("ratio", PackedDefault["ratio"])
        /\ InBounds("ratio", Default["ratio"]) /\ Bounds["ratio"][1] > 0
    BY NumbersAssumption
  <2>2. \A u \in Int : InBounds("ratio", u) => u > 0
    BY <1>2, <2>1 DEF InBounds, Field
  <2> QED BY <1>1, <1>2, <1>3, <1>5, <1>6, <2>1, <2>2 DEF Field
<1>11. Plays("mix")
  <2>1. InBounds("mix", PackedDefault["mix"])
    BY NumbersAssumption
  <2> QED BY <1>1, <1>2, <1>3, <1>5, <1>6, <2>1 DEF Field
<1>12. \A f \in Field : Plays(f)
  BY <1>7, <1>8, <1>9, <1>10, <1>11 DEF Field
<1> HIDE DEF v
<1> QED BY <1>12, Zenon DEF NumbersPlay, kept

(* The presets that were packed, in the order of the directory.            *)
LEMMA StoredAre ==
  ASSUME NEW S, dir \in Seq(S), Len(dir) = Len(image.files), image.files \in Seq(Asset),
         \A i \in 1..Len(dir) : dir[i] = EntryOf(image.files, i)
  PROVE  /\ Len(StoredPresets) = Len(InOrder(OfPresets))
         /\ \A j \in 1..Len(StoredPresets) : StoredPresets[j] = image.files[InOrder(OfPresets)[j]]
         /\ StoredPresets = <<>> <=> InOrder(OfPresets) = <<>>
         /\ OfPresets \subseteq 1..Len(dir)
         /\ \A j \in 1..Len(InOrder(OfPresets)) : InOrder(OfPresets)[j] \in OfPresets
         /\ InOrder(OfPresets) \in Seq(OfPresets)
<1> DEFINE at == InOrder(OfPresets)
<1>1. /\ DOMAIN dir = 1..Len(dir) /\ DOMAIN image.files = 1..Len(image.files) /\ Len(dir) \in Nat
      /\ \A i \in 1..Len(dir) : image.files[i] \in Asset
  BY LenProperties
<1>2. ASSUME NEW i \in 1..Len(dir)
      PROVE  /\ dir[i].type = TypeOf[image.files[i]] /\ dir[i].length >= 1
             /\ dir[i].length = BlobLength(image.files[i])
  <2>1. dir[i].type = TypeOf[image.files[i]] /\ dir[i].length = BlobLength(image.files[i])
    <3>1. dir[i] = EntryOf(image.files, i)
      OBVIOUS
    <3> QED BY <3>1, SMT DEF EntryOf
  <2>2. BlobLength(image.files[i]) \in Nat /\ BlobLength(image.files[i]) > 0
    BY <1>1, BlobLengths
  <2> QED BY <2>1, <2>2
<1>3. OfPresets = {i \in DOMAIN image.files : TypeOf[image.files[i]] = PRESET}
  BY <1>1, <1>2 DEF OfPresets
<1>4. OfPresets \subseteq 1..Len(dir)
  BY <1>1 DEF OfPresets
<1>5. at \in Seq(OfPresets) /\ \A j \in 1..Len(at) : at[j] \in OfPresets
  BY <1>1, <1>4, InOrderIs
<1>6. StoredPresets = [j \in DOMAIN at |-> image.files[at[j]]]
  BY <1>3 DEF StoredPresets
<1>7. DOMAIN at = 1..Len(at) /\ Len(at) \in Nat
  BY <1>5, LenProperties
<1> HIDE DEF at
<1>8. StoredPresets \in [1..Len(at) -> Asset]
  <2>1. \A j \in 1..Len(at) : image.files[at[j]] \in Asset
    BY <1>1, <1>4, <1>5
  <2> QED BY <1>6, <1>7, <2>1
<1>9. StoredPresets \in Seq(Asset) /\ Len(StoredPresets) = Len(at)
  BY <1>7, <1>8, SeqDef
<1>10. StoredPresets = <<>> <=> at = <<>>
  BY <1>5, <1>7, <1>9, EmptySeq
<1> QED BY <1>4, <1>5, <1>6, <1>7, <1>9, <1>10 DEF at

(* A complete image, as the firmware has it.                               *)
LEMMA WholeServed ==
  ASSUME ImageInv, Whole
  PROVE  /\ image \in Image /\ image.files \in Seq(Asset)
         /\ \E S : dir \in Seq(S)
         /\ Len(dir) = Len(image.files) /\ Len(dir) \in Nat
         /\ \A i \in 1..Len(dir) : /\ dir[i] = EntryOf(image.files, i)
                                   /\ image.files[i] \in Asset
                                   /\ flash[dir[i].offset] = Datum(image.files[i], 1)
<1>1. PICK S : dir \in Seq(S)
  BY DEF ImageInv, ReadInv
<1>2. image \in Image /\ image.files \in Seq(Asset)
  BY FlashPacked DEF ImageInv, WrittenInv, Whole
<1>3. /\ Len(dir) = Len(image.files)
      /\ \A i \in DOMAIN dir : \A k \in 1..dir[i].length :
           flash[dir[i].offset + k - 1] = Datum(image.files[i], k)
  BY ImageServes DEF ServedAsPacked
<1>4. /\ Len(dir) \in Nat /\ DOMAIN dir = 1..Len(dir)
      /\ \A i \in 1..Len(dir) : image.files[i] \in Asset
  BY <1>1, <1>2, <1>3, LenProperties
<1>5. \A i \in 1..Len(dir) : dir[i] = EntryOf(image.files, i)
  BY DEF ImageInv, ReadInv, Whole
<1>6. ASSUME NEW i \in 1..Len(dir)
      PROVE  flash[dir[i].offset] = Datum(image.files[i], 1)
  <2>1. dir[i].length = BlobLength(image.files[i]) /\ dir[i].offset = Offsets(image.files)[i]
    <3>1. dir[i] = EntryOf(image.files, i)
      BY <1>5
    <3> QED BY <3>1, SMT DEF EntryOf
  <2>2. 1 \in 1..dir[i].length
    BY <1>4, <2>1, BlobLengths
  <2>3. dir[i].offset \in Int
    <3>1. i \in 1..(Len(image.files) + 1)
      BY <1>3, <1>4
    <3> QED BY <1>2, <2>1, <3>1, OffsetsPack DEF Packing
  <2>4. flash[dir[i].offset + 1 - 1] = Datum(image.files[i], 1)
    BY <1>3, <1>4, <2>2
  <2> QED BY <2>3, <2>4
<1> QED BY <1>1, <1>2, <1>3, <1>4, <1>5, <1>6

(* So a preset comes out of flash as it went in,                           *)
Written(p) == [model |-> Encoded[Uses[p].model], ir |-> Encoded[Uses[p].ir],
               off |-> Uses[p].off, set |-> SetIn(p)]

LEMMA PresetInIs ==
  ASSUME NEW e, NEW p \in Asset, TypeOf[p] = PRESET, flash[e.offset] = Datum(p, 1),
         e.length = BlobLength(p)
  PROVE  PresetIn(e) = {Written(p)}
<1>1. e.length = Units[p]
  BY DEF BlobLength, PRESET, IR
<1>2. /\ flash[e.offset].kind = "datum" /\ flash[e.offset].of = p /\ flash[e.offset].unit = 1
  BY DEF Datum
<1>3. PresetIn(e) =
        {[model |-> Encoded[Uses[p].model], ir |-> Encoded[Uses[p].ir], off |-> Uses[p].off,
          set |-> [f \in Field |-> IF Kept(f, Units[p]) THEN Packed(p)[f] ELSE 0]]}
  BY <1>1, <1>2 DEF PresetIn
<1> QED BY <1>3 DEF Written, SetIn

(* and finds what it names.                                                *)
LEMMA NamesFound ==
  ASSUME NamesApart, ImageInv, NamesInv, IndexInv, Whole,
         NEW p \in Asset, TypeOf[p] = PRESET, NEW preset, preset = Written(p)
  PROVE  NamesPlay(p, preset)
<1> DEFINE files == image.files
<1>1. /\ image \in Image /\ files \in Seq(Asset) /\ (\E S : dir \in Seq(S))
      /\ DOMAIN dir = 1..Len(dir) /\ DOMAIN files = 1..Len(dir) /\ Len(dir) \in Nat
      /\ \A i \in 1..Len(dir) : dir[i] = EntryOf(files, i) /\ files[i] \in Asset
  BY WholeServed, LenProperties
<1>2. /\ preset.model = Encoded[Uses[p].model] /\ preset.ir = Encoded[Uses[p].ir]
      /\ preset.off = Uses[p].off
  BY DEF Written
<1>3. \A i \in 1..Len(dir) :
        /\ dir[i].type = TypeOf[files[i]] /\ dir[i].name = Encoded[Stem[files[i]]]
        /\ dir[i].length = BlobLength(files[i])
  <2> SUFFICES ASSUME NEW i \in 1..Len(dir)
               PROVE  /\ dir[i].type = TypeOf[files[i]] /\ dir[i].name = Encoded[Stem[files[i]]]
                      /\ dir[i].length = BlobLength(files[i])
    OBVIOUS
  <2>1. dir[i] = EntryOf(files, i)
    BY <1>1
  <2> QED BY <2>1, SMT DEF EntryOf
<1>4. ASSUME NEW i \in 1..Len(dir), NEW j \in 1..Len(dir),
             dir[i].type # PRESET, dir[i].type = dir[j].type, dir[i].name = dir[j].name
      PROVE  i = j
  BY <1>1, <1>3, <1>4 DEF NamesApart
<1>5. ModelsInv /\ \A m \in DOMAIN models : /\ models[m] \in 1..Len(dir)
                                            /\ dir[models[m]].type = MODEL
  <2>1. ModelsInv
    BY ModelsAre DEF Whole
  <2> QED BY <2>1 DEF ModelsInv, OfModels
<1> HIDE DEF files
<1>6. ASSUME NEW m \in DOMAIN models, Stem[files[models[m]]] = Uses[p].model
      PROVE  ModelFor(preset) = models[m] /\ Bypassed(preset) = Uses[p].off
  <2>1. dir[models[m]].name = preset.model
    BY <1>2, <1>3, <1>5, <1>6
  <2>2. PICK k \in DOMAIN models : /\ ModelFor(preset) = models[k] /\ ModelFor(preset) # 0
                                  /\ dir[models[k]].name = preset.model
    BY <1>5, <2>1, ModelForIs
  <2>3. models[k] = models[m]
    BY <1>4, <1>5, <2>1, <2>2 DEF MODEL, PRESET
  <2>4. Bypassed(preset) = Uses[p].off
    BY <1>2, <2>2, UsesAssumption DEF Bypassed
  <2> QED BY <2>2, <2>3, <2>4
<1>7. ASSUME NEW i \in DOMAIN files, TypeOf[files[i]] = IR, Stem[files[i]] = Uses[p].ir
      PROVE  CabinetFor(preset) = IF BlobLength(files[i]) <= MaxTaps THEN i ELSE 0
  <2>1. i \in DOMAIN dir /\ i \in 1..Len(dir) /\ dir[i].type = IR /\ dir[i].name = preset.ir
    BY <1>1, <1>2, <1>3, <1>7 DEF files
  <2>2. \A j \in DOMAIN dir : dir[j].type = IR /\ dir[j].name = preset.ir => j = i
    BY <1>1, <1>4, <2>1 DEF IR, PRESET
  <2>3. FindEntry(IR, preset.ir) = i
    BY <1>1, <2>1, <2>2, FindEntryIs
  <2>4. dir[i].length = BlobLength(files[i]) /\ BlobLength(files[i]) \in Nat \ {0} /\ i # 0
    <3>1. files[i] \in Asset /\ dir[i].length = BlobLength(files[i])
      BY <1>1, <1>3, <2>1 DEF files
    <3> QED BY <2>1, <3>1, BlobLengths
  <2>5. MaxTaps \in Nat
    BY ImageAssumption
  <2> QED BY <2>3, <2>4, <2>5 DEF CabinetFor
<1> QED BY <1>6, <1>7 DEF NamesPlay, files

PlayInv == ImageInv /\ NamesInv /\ IndexInv

LEMMA PresetsDoPlay ==
  ASSUME NamesApart, PlayInv
  PROVE  PresetsPlay
<1> SUFFICES ASSUME phase = "on"
             PROVE  /\ Len(presets) \in 1..MaxPresets
                    /\ Whole => \A j \in 1..Len(StoredPresets) : j <= MaxPresets =>
                         /\ NamesPlay(StoredPresets[j], presets[j])
                         /\ NumbersPlay(StoredPresets[j], presets[j])
                    /\ Whole /\ StoredPresets = <<>> =>
                         \A m \in DOMAIN models : m <= MaxPresets =>
                           dir[ModelFor(presets[m])].name = dir[models[m]].name /\ ~Bypassed(presets[m])
                    /\ \A j \in DOMAIN presets : presets[j].model = Junk => Bypassed(presets[j])
  BY DEF PresetsPlay
<1> USE DEF PlayInv
<1> DEFINE order == InOrder(OfPresets)
           at == UpTo(MaxPresets, order)
<1>1. /\ Len(presets) \in 1..MaxPresets
      /\ at # <<>> =>
           Len(presets) = Len(at) /\ \A j \in 1..Len(at) : presets[j] \in PresetIn(dir[at[j]])
      /\ at = <<>> => \A m \in DOMAIN models : m <= MaxPresets =>
           presets[m].model = dir[models[m]].name /\ presets[m].off = FALSE
  BY PresetsAre
<1>2. ModelsInv
  BY ModelsAre
<1>3. MaxPresets \in Nat \ {0}
  BY ImageAssumption
<1>4. ASSUME Whole, NEW j \in 1..Len(StoredPresets), j <= MaxPresets
      PROVE  NamesPlay(StoredPresets[j], presets[j]) /\ NumbersPlay(StoredPresets[j], presets[j])
  <2>1. /\ image.files \in Seq(Asset) /\ (\E S : dir \in Seq(S)) /\ Len(dir) = Len(image.files)
        /\ \A i \in 1..Len(dir) : /\ dir[i] = EntryOf(image.files, i)
                                  /\ image.files[i] \in Asset
                                  /\ flash[dir[i].offset] = Datum(image.files[i], 1)
    BY <1>4, WholeServed
  <2>2. /\ Len(StoredPresets) = Len(order) /\ StoredPresets[j] = image.files[order[j]]
        /\ OfPresets \subseteq 1..Len(dir) /\ order[j] \in OfPresets /\ order \in Seq(OfPresets)
    BY <2>1, StoredAre
  <2> HIDE DEF order
  <2>3. j \in 1..Len(at) /\ at[j] = order[j] /\ at # <<>>
    <3>1. j \in 1..Len(order)
      BY <2>2
    <3>2. j \in 1..Len(at) /\ at[j] = order[j] /\ (at = <<>> <=> order = <<>>)
      BY <1>3, <1>4, <2>2, <3>1, UpToIs
    <3> QED BY <2>2, <3>1, <3>2
  <2> DEFINE i == order[j]
             p == image.files[i]
  <2>4. presets[j] \in PresetIn(dir[i])
    BY <1>1, <2>3
  <2> HIDE DEF at
  <2>5. i \in 1..Len(dir) /\ p \in Asset /\ flash[dir[i].offset] = Datum(p, 1)
    BY <2>1, <2>2
  <2>6. dir[i].type = TypeOf[p] /\ dir[i].length = BlobLength(p) /\ dir[i].type = PRESET
    <3>1. dir[i] = EntryOf(image.files, i) /\ dir[i].type = PRESET
      BY <2>1, <2>2, <2>5 DEF OfPresets
    <3> QED BY <3>1, SMT DEF EntryOf
  <2> HIDE DEF i, p
  <2>7. presets[j] = Written(p)
    <3>1. PresetIn(dir[i]) = {Written(p)}
      BY <2>5, <2>6, PresetInIs
    <3> QED BY <2>4, <3>1
  <2>8. NamesPlay(p, presets[j])
    BY <1>4, <2>5, <2>6, <2>7, NamesFound
  <2>9. NumbersPlay(p, presets[j])
    <3>1. presets[j].set = SetIn(p) /\ p \in Asset /\ TypeOf[p] = PRESET
      BY <2>5, <2>6, <2>7 DEF Written
    <3> QED BY <3>1, NumbersGiven
  <2>10. StoredPresets[j] = p
    BY <2>2 DEF i, p
  <2> QED BY <2>8, <2>9, <2>10
<1>5. ASSUME Whole, StoredPresets = <<>>, NEW m \in DOMAIN models, m <= MaxPresets
      PROVE  dir[ModelFor(presets[m])].name = dir[models[m]].name /\ ~Bypassed(presets[m])
  <2>1. /\ image.files \in Seq(Asset) /\ (\E S : dir \in Seq(S)) /\ Len(dir) = Len(image.files)
        /\ \A i \in 1..Len(dir) : dir[i] = EntryOf(image.files, i)
    BY <1>5, WholeServed
  <2>2. order = <<>> /\ order \in Seq(OfPresets)
    BY <1>5, <2>1, StoredAre
  <2> HIDE DEF order
  <2>3. at = <<>>
    BY <1>3, <2>2, UpToIs
  <2>4. presets[m].model = dir[models[m]].name /\ presets[m].off = FALSE
    BY <1>1, <1>5, <2>3
  <2>5. \E k \in DOMAIN models : /\ ModelFor(presets[m]) = models[k] /\ ModelFor(presets[m]) # 0
                                 /\ dir[models[k]].name = presets[m].model
    BY <1>2, <1>5, <2>4, ModelForIs
  <2> QED BY <2>4, <2>5 DEF Bypassed
<1>6. ASSUME NEW j \in DOMAIN presets, presets[j].model = Junk PROVE Bypassed(presets[j])
  BY <1>2, <1>6, JunkBypassed
<1> QED BY <1>1, <1>4, <1>5, <1>6

(* Whatever is in flash there is a preset, and a preset of a complete      *)
(* image plays the assets and the numbers that were written for it         *)
(* (PresetsPlay, src/PresetManager.cpp:19-145): for all assets, images and *)
(* limits of the firmware, as long as no two models or cabinets of an      *)
(* image share the part of their names that a directory entry holds.  A    *)
(* cabinet that is longer than the firmware takes is not played.           *)
THEOREM PresetsAlwaysPlay ==
  ASSUME NamesApart
  PROVE  Spec => []PresetsPlay
<1>1. Init => PlayInv
  BY ImageStart, NamesStart DEF PlayInv, IndexInv, Init
<1>2. PlayInv /\ [Next]_vars => PlayInv'
  BY ImageStep, NamesStep, IndexStep DEF PlayInv
<1>3. PlayInv => PresetsPlay
  BY PresetsDoPlay
<1> QED BY <1>1, <1>2, <1>3, PTL DEF Spec
=============================================================================
