------------------------------ MODULE DataImage ------------------------------
(***************************************************************************)
(* The data partition: an image packed by tools/build_data_image.py,       *)
(* written sector by sector by the bootloader, where the power may fail,   *)
(* and read in place by the firmware that boots next: QspiStorage::Init,   *)
(* ModelManager::Init, PresetManager::Init and the look-ups by name.       *)
(*                                                                         *)
(* Flash is a row of cells.  The header takes one, a directory entry two   *)
(* (its type and name; its offset and length), one unit of a blob one, so  *)
(* that an entry can straddle two sectors as the 48-byte entries do.       *)
(* Bytes read as what they are not may be anything.                        *)
(***************************************************************************)
EXTENDS Integers, Sequences, FiniteSetsExt

CONSTANTS
  Asset,      \* the files that may be packed
  TypeOf,     \* TypeOf[a]: the NamEntryType of a
  Stem,       \* Stem[a]: the name a has on disk
  Units,      \* Units[a]: the length of its blob, for a cabinet in taps
  Uses,       \* Uses[p]: the stems preset p names and its bypass, [model, ir, off]
  Authored,   \* Authored[p][f]: the value presets.json gives field f, or Absent
  Bounds,     \* Bounds[f]: the least and the largest value the engine is given
  Default,    \* Default[f]: what the firmware takes a missing value for
  PackedDefault, \* PackedDefault[f]: what the packer writes for one
  Absent,
  Encoded,    \* Encoded[s]: what encode_name leaves of stem s
  Empty,      \* the empty name
  Trim,       \* --max-taps, 0 for no limit
  MaxTaps, MaxModels, MaxPresets,  \* the firmware's limits
  Sector, Partition,               \* sizes in cells
  MaxWord,    \* largest value of a 32-bit field
  Wild,       \* bound: what a field may hold where a blob is read as one
  Image       \* images that may be packed: a version, and files in order

Types == {0, 1, 2}
MODEL == 0
IR == 1
PRESET == 2
Stems == {Stem[a] : a \in Asset}

(* The numbers of a preset, one field for each way ApplyPreset treats      *)
(* them: the levels; the EQ frequencies; the thresholds and the echo's     *)
(* tone; ratio, times and delay; the echo's repeats and mix.               *)
Field == {"level", "freq", "threshold", "ratio", "mix"}

ASSUME ImageAssumption ==
  /\ TypeOf \in [Asset -> Types]
  /\ Units \in [Asset -> Nat \ {0}]
  /\ Image \subseteq [version : Nat, files : Seq(Asset)]
  /\ Sector \in Nat \ {0} /\ Partition \in Nat \ {0} /\ Partition < MaxWord
  /\ MaxWord \in Nat /\ Wild \subseteq 0..MaxWord /\ Trim \in Nat
  /\ MaxTaps \in Nat /\ MaxModels \in Nat \ {0} /\ MaxPresets \in Nat \ {0}

InBounds(f, v) == Bounds[f][1] <= v /\ v <= Bounds[f][2]

ASSUME UsesAssumption == \A p \in Asset : TypeOf[p] = PRESET => Uses[p].off \in BOOLEAN

(* The defaults can be told from a missing value and are in bounds, and a  *)
(* number of which only a positive one is taken as given is positive.      *)
ASSUME NumbersAssumption ==
  /\ \A f \in Field :
       /\ Bounds[f] \in Int \X Int /\ Bounds[f][1] <= Bounds[f][2]
       /\ Default[f] \in Int /\ PackedDefault[f] \in Int
       /\ \A p \in Asset : TypeOf[p] = PRESET => Authored[p][f] \in Int \cup {Absent}
  /\ \A f \in {"freq", "ratio"} : Bounds[f][1] > 0
  /\ \A f \in {"freq", "ratio"} : PackedDefault[f] > 0
  /\ PackedDefault["threshold"] # 0
  /\ \A f \in {"threshold", "ratio"} : InBounds(f, Default[f])
  /\ \A f \in {"threshold", "ratio", "mix"} : InBounds(f, PackedDefault[f])

VARIABLES
  flash,     \* the partition
  image,     \* the image being written, or last written
  written,   \* sectors of it written, or Idle
  complete,  \* the image was written to its end
  phase,     \* the bootloader, the firmware, or neither has the processor
  status,    \* QspiStorage::status_
  dir,       \* the directory as the firmware reads it
  models,    \* ModelManager::entries_, as indices into dir
  presets    \* PresetManager::presets_

store == <<flash, image, written, complete>>
firmware == <<status, dir, models, presets>>
vars == <<store, phase, firmware>>

Idle == -1
NoImage == [version |-> 0, files |-> <<>>]

Erased == [kind |-> "erased"]
Zero == [kind |-> "zero"]
Header(v, n) == [kind |-> "header", version |-> v, count |-> n]
Naming(t, s) == [kind |-> "naming", type |-> t, name |-> s]
Placing(o, n) == [kind |-> "placing", offset |-> o, length |-> n]
Datum(a, k) == [kind |-> "datum", of |-> a, unit |-> k]

-----------------------------------------------------------------------------
(* build_data_image.py: the directory, then every blob on a sector.        *)
AlignUp(u) == ((u + Sector - 1) \div Sector) * Sector
DirEnd(n) == 1 + 2 * n

BlobLength(a) ==
  IF TypeOf[a] = IR /\ Trim > 0 /\ Units[a] > Trim THEN Trim ELSE Units[a]

(* Slip: the directory is taken to end one entry early.                    *)
OffsetsEarly(files) ==
  LET off[i \in 1..Len(files) + 1] ==
        IF i = 1 THEN AlignUp(DirEnd(Len(files) - 1))
                 ELSE AlignUp(off[i-1] + BlobLength(files[i-1]))
  IN off

Offsets(files) ==
  LET off[i \in 1..Len(files) + 1] ==
        IF i = 1 THEN AlignUp(DirEnd(Len(files)))
                 ELSE AlignUp(off[i-1] + BlobLength(files[i-1]))
  IN off

Total(files) == Offsets(files)[Len(files) + 1]

CellOf(img, u) ==
  LET files == img.files
      off == Offsets(files)
      blobs == {i \in 1..Len(files) : u \in off[i]..(off[i] + BlobLength(files[i]) - 1)}
      entry == (u + 1) \div 2
  IN CASE u = 0 -> Header(img.version, Len(files))
       [] u \in 1..(DirEnd(Len(files)) - 1) /\ u % 2 = 1 ->
            Naming(TypeOf[files[entry]], Encoded[Stem[files[entry]]])
       [] u \in 1..(DirEnd(Len(files)) - 1) /\ u % 2 = 0 ->
            Placing(off[u \div 2], BlobLength(files[u \div 2]))
       [] blobs # {} ->
            LET i == CHOOSE j \in blobs : TRUE IN Datum(files[i], u - off[i] + 1)
       [] OTHER -> Zero

(* An image that does not fit is not written.                              *)
Fits(img) == Total(img.files) <= Partition

-----------------------------------------------------------------------------
(* What two cells say when they are taken for a directory entry.           *)
Word == 0..MaxWord
Name == {Encoded[s] : s \in Stems} \cup {Empty}

NamingIn(cell) ==
  CASE cell.kind = "naming" -> {[type |-> cell.type, name |-> cell.name]}
    [] cell.kind = "zero"   -> {[type |-> MODEL, name |-> Empty]}
    [] cell.kind = "datum"  -> [type : Types \cup {255}, name : {Empty}]
    [] OTHER                -> {[type |-> 255, name |-> Empty]}

PlacingIn(cell) ==
  CASE cell.kind = "placing" -> {[offset |-> cell.offset, length |-> cell.length]}
    [] cell.kind = "zero"    -> {[offset |-> 0, length |-> 0]}
    [] cell.kind = "datum"   -> [offset : Wild, length : Wild]
    [] OTHER                 -> {[offset |-> MaxWord, length |-> MaxWord]}

Entry == [type : Types, name : Name, offset : Word, length : Word]

EntriesAt(i) ==
  {[type |-> t.type, name |-> t.name, offset |-> p.offset, length |-> p.length] :
     t \in NamingIn(flash[2 * i - 1]),
     p \in PlacingIn(flash[2 * i]) \cap [offset : Word, length : Word]}

(* Slip: the end is computed first, in 32 bits.                            *)
ValidWrapped(e, n) ==
  /\ e.type <= PRESET
  /\ e.offset >= DirEnd(n)
  /\ (e.offset + e.length) % (MaxWord + 1) <= Partition

Valid(e, n) ==
  /\ e.type <= PRESET
  /\ e.offset >= DirEnd(n)
  /\ e.offset <= Partition
  /\ e.length <= Partition - e.offset

-----------------------------------------------------------------------------
(* The presets.                                                            *)
Junk == "junk"
ASSUME JunkAssumption == Junk \notin Name
Preset == [model : Name \cup {Junk}, ir : Name \cup {Junk}, off : BOOLEAN,
           set : [Field -> Int]]

(* pack_preset.  Records of the oldest packer end with the levels and      *)
(* bypass, one unit here; the EQ made them two, the effects three.         *)
Packed(p) ==
  [f \in Field |-> IF Authored[p][f] = Absent THEN PackedDefault[f] ELSE Authored[p][f]]

Kept(f, length) ==
  f = "level" \/ (f = "freq" /\ length >= 2) \/ length >= 3

(* A blob too short for the record is skipped; one without the appended    *)
(* fields is filled with zeros.  Erased flash is a name of no file and a   *)
(* bypass that is set; other foreign bytes may be any names.  (Their       *)
(* numbers are left out: zeros here.)                                      *)
NoNumbers == [f \in Field |-> 0]

PresetIn(e) ==
  LET cell == flash[e.offset]
      packed == cell.kind = "datum" /\ TypeOf[cell.of] = PRESET /\ cell.unit = 1
  IN CASE packed ->
            {[model |-> Encoded[Uses[cell.of].model], ir |-> Encoded[Uses[cell.of].ir],
              off |-> Uses[cell.of].off,
              set |-> [f \in Field |->
                         IF Kept(f, e.length) THEN Packed(cell.of)[f] ELSE 0]]}
       [] ~packed /\ cell.kind = "erased" ->
            [model : {Junk}, ir : {Junk}, off : {TRUE}, set : {NoNumbers}]
       [] ~packed /\ cell.kind = "zero" ->
            [model : {Empty}, ir : {Empty}, off : {FALSE}, set : {NoNumbers}]
       [] OTHER ->
            [model : {Empty, Junk}, ir : {Empty, Junk}, off : BOOLEAN, set : {NoNumbers}]

OfModels  == {i \in 1..Len(dir) : dir[i].type = MODEL}
OfPresets == {i \in 1..Len(dir) : dir[i].type = PRESET /\ dir[i].length >= 1}

UpTo(n, s) == SubSeq(s, 1, IF Len(s) < n THEN Len(s) ELSE n)

(* The numbers of a set, the least first.                                  *)
Rank(S, i) == Cardinality({j \in S : j <= i})
InOrder(S) == [n \in 1..Cardinality(S) |-> CHOOSE i \in S : Rank(S, i) = n]

Direct == [model |-> Empty, ir |-> Empty, off |-> TRUE,
           set |-> [NoNumbers EXCEPT !["level"] = PackedDefault["level"]]]

-----------------------------------------------------------------------------
FlashTypeOK ==
  /\ image \in Image \cup {NoImage}
  /\ written \in {Idle} \cup 0..(Partition \div Sector)
  /\ complete \in BOOLEAN
  /\ phase \in {"off", "bootloader", "scan", "on"}

FirmwareTypeOK ==
  /\ status \in {"OK", "BAD_MAGIC", "VERSION_ERROR", "NOT_INIT"}
  /\ dir \in Seq(Entry)
  /\ models \in Seq(Nat) /\ presets \in Seq(Preset)

TypeOK == FlashTypeOK /\ FirmwareTypeOK

Init ==
  /\ flash = [u \in 0..(Partition - 1) |-> Erased]
  /\ image = NoImage
  /\ written = Idle /\ complete = FALSE
  /\ phase = "off"
  /\ status = "NOT_INIT" /\ dir = <<>> /\ models = <<>> /\ presets = <<>>

(* The firmware's memory does not survive.                                 *)
Forgotten ==
  /\ status' = "NOT_INIT" /\ dir' = <<>> /\ models' = <<>> /\ presets' = <<>>

(* flash_data.sh: the pedal is in its bootloader, a new image on its way.  *)
Flash(img) ==
  /\ phase \in {"off", "on"} /\ Fits(img)
  /\ phase' = "bootloader"
  /\ image' = img /\ written' = 0 /\ complete' = FALSE
  /\ Forgotten
  /\ UNCHANGED flash

InSector(u, k) == u \div Sector = k

WriteSector ==
  /\ phase = "bootloader" /\ written * Sector < Total(image.files)
  /\ flash' = [u \in DOMAIN flash |->
       IF InSector(u, written) THEN CellOf(image, u) ELSE flash[u]]
  /\ written' = written + 1
  /\ UNCHANGED <<image, complete, phase, firmware>>

Finish ==
  /\ phase = "bootloader" /\ written * Sector >= Total(image.files)
  /\ complete' = TRUE /\ written' = Idle /\ phase' = "off"
  /\ UNCHANGED <<flash, image, firmware>>

(* The cable is pulled: between two sectors, or in one that is erased.     *)
Interrupt ==
  /\ phase = "bootloader"
  /\ \/ UNCHANGED flash
     \/ /\ written * Sector < Total(image.files)
        /\ flash' = [u \in DOMAIN flash |->
             IF InSector(u, written) THEN Erased ELSE flash[u]]
  /\ written' = Idle /\ phase' = "off"
  /\ UNCHANGED <<image, complete, firmware>>

PowerOff ==
  /\ phase \in {"scan", "on"}
  /\ phase' = "off" /\ Forgotten
  /\ UNCHANGED store

-----------------------------------------------------------------------------
(* QspiStorage::Init.                                                      *)
Boot ==
  /\ phase = "off"
  /\ phase' = "scan"
  /\ status' = CASE flash[0].kind # "header" -> "BAD_MAGIC"
                 [] flash[0].kind = "header" /\ flash[0].version # 1 -> "VERSION_ERROR"
                 [] OTHER -> "OK"
  /\ UNCHANGED <<store, dir, models, presets>>

Checked == status = "OK" => Len(dir) = flash[0].count

ScanEntry ==
  /\ phase = "scan" /\ ~Checked
  /\ \E e \in EntriesAt(Len(dir) + 1) :
       IF Valid(e, flash[0].count)
         THEN dir' = Append(dir, e) /\ UNCHANGED status
         ELSE dir' = <<>> /\ status' = "BAD_MAGIC"
  /\ UNCHANGED <<store, phase, models, presets>>

(* ModelManager::Init, then PresetManager::Init, which makes up a preset   *)
(* for each model when there is none, and one for nothing at all.          *)
Stored(files) ==
  {ps \in [1..Len(files) -> UNION {PresetIn(dir[files[j]]) : j \in 1..Len(files)}] :
     \A j \in 1..Len(files) : ps[j] \in PresetIn(dir[files[j]])}

MadeUp(ms) ==
  [j \in 1..Len(ms) |-> [Direct EXCEPT !.model = dir[ms[j]].name, !.off = FALSE,
                                        !.set["freq"] = Default["freq"]]]

PresetsOf(ms) ==
  LET stored == UpTo(MaxPresets, InOrder(OfPresets)) IN
  CASE stored # <<>> -> Stored(stored)
    [] stored = <<>> /\ ms # <<>> -> {UpTo(MaxPresets, MadeUp(ms))}
    [] OTHER -> {<<Direct>>}

IndexAssets ==
  /\ phase = "scan" /\ Checked
  /\ phase' = "on"
  /\ models' = UpTo(MaxModels, InOrder(OfModels))
  /\ presets' \in PresetsOf(models')
  /\ UNCHANGED <<store, status, dir>>

Next ==
  \/ \E img \in Image : Flash(img)
  \/ WriteSector \/ Finish \/ Interrupt \/ PowerOff
  \/ Boot \/ ScanEntry \/ IndexAssets

Spec == Init /\ [][Next]_vars

-----------------------------------------------------------------------------
(* ApplyPreset: the numbers the engine is given, the first model and the   *)
(* first cabinet of the preset's names, and bypass if the model is not     *)
(* found.                                                                  *)
Clamp(f, v) ==
  IF v < Bounds[f][1] THEN Bounds[f][1] ELSE IF v > Bounds[f][2] THEN Bounds[f][2] ELSE v

(* Slip: a threshold is taken for missing like the other numbers are.      *)
GivenPositive(p) ==
  [f \in Field |->
     LET v == p.set[f]  or_default == IF v > 0 THEN v ELSE Default[f] IN
     CASE f = "level"  -> v
       [] f = "freq"   -> or_default
       [] f \in {"threshold", "ratio"} -> Clamp(f, or_default)
       [] f = "mix"    -> Clamp(f, v)]

Given(p) ==
  [f \in Field |->
     LET v == p.set[f]  or_default == IF v > 0 THEN v ELSE Default[f] IN
     CASE f = "level"     -> v
       [] f = "freq"      -> or_default
       [] f = "threshold" -> Clamp(f, IF v = 0 THEN Default[f] ELSE v)
       [] f = "ratio"     -> Clamp(f, or_default)
       [] f = "mix"       -> Clamp(f, v)]

FindEntry(type, name) ==
  LET hits == {i \in DOMAIN dir : dir[i].type = type /\ dir[i].name = name}
  IN  IF hits = {} THEN 0 ELSE Min(hits)

ModelFor(p) ==
  LET hits == {m \in DOMAIN models : dir[models[m]].name = p.model}
  IN  IF hits = {} THEN 0 ELSE models[Min(hits)]

Bypassed(p) == p.off \/ (p.model # Empty /\ ModelFor(p) = 0)

CabinetFor(p) ==
  LET i == FindEntry(IR, p.ir)
  IN IF i = 0 \/ dir[i].length \notin 1..MaxTaps THEN 0 ELSE i

-----------------------------------------------------------------------------
(* Properties.                                                             *)

(* Whatever an interrupted write left in flash, once the firmware accepts  *)
(* the directory every blob it will read lies between the directory and    *)
(* the end of the partition (src/QspiStorage.cpp:48-52).                   *)
BlobsInPartition ==
  phase = "on" /\ status = "OK" =>
    \A i \in DOMAIN dir :
      /\ dir[i].offset >= DirEnd(Len(dir))
      /\ dir[i].offset + dir[i].length <= Partition

(* An image that was written to its end is served as it was packed: every  *)
(* entry in its place, every unit of every blob where the entry says.      *)
Whole == phase = "on" /\ complete /\ image.version = 1

ServedAsPacked ==
  Whole =>
    /\ status = "OK" /\ Len(dir) = Len(image.files)
    /\ \A i \in DOMAIN dir :
         LET a == image.files[i] IN
         /\ dir[i].type = TypeOf[a] /\ dir[i].name = Encoded[Stem[a]]
         /\ \A k \in 1..dir[i].length : flash[dir[i].offset + k - 1] = Datum(a, k)

(* No two models, and no two cabinets, of an image have the same name when *)
(* it is cut to the length of a directory entry.                           *)
NamesApart ==
  \A img \in Image : \A i, j \in DOMAIN img.files :
    LET a == img.files[i]  b == img.files[j] IN
    TypeOf[a] # PRESET /\ TypeOf[a] = TypeOf[b] /\ Encoded[Stem[a]] = Encoded[Stem[b]]
      => i = j

(* A preset stored in the image plays the model that presets.json named,   *)
(* if it was packed and the firmware has room for it, and the cabinet, if  *)
(* it was packed and was short or trimmed enough: otherwise none           *)
(* (src/PresetManager.cpp:116-145).                                        *)
StoredPresets ==
  LET at == InOrder({i \in DOMAIN image.files : TypeOf[image.files[i]] = PRESET})
  IN  [j \in DOMAIN at |-> image.files[at[j]]]

NamesPlay(p, preset) ==
  /\ \A m \in DOMAIN models :
       Stem[image.files[models[m]]] = Uses[p].model
         => ModelFor(preset) = models[m] /\ Bypassed(preset) = Uses[p].off
  /\ \A i \in DOMAIN image.files :
       TypeOf[image.files[i]] = IR /\ Stem[image.files[i]] = Uses[p].ir
         => CabinetFor(preset) = IF BlobLength(image.files[i]) <= MaxTaps THEN i ELSE 0

(* A level plays as presets.json gives it, any other number if it is in    *)
(* range, save that a threshold or tone of 0 plays as the default; one     *)
(* that it, or the packer of its day, leaves out plays as the default; and *)
(* what is bounded is in range whatever was given                          *)
(* (src/PresetManager.cpp:91-111, src/data_format.h:81-118).               *)
NumbersPlay(p, preset) ==
  \A f \in Field :
    LET v == Authored[p][f]
        kept == Kept(f, Units[p])
        zero == f = "threshold" /\ v = 0
    IN /\ kept /\ v # Absent /\ ~zero /\ (f = "level" \/ InBounds(f, v))
            => Given(preset)[f] = v
       /\ kept /\ v # Absent /\ zero => Given(preset)[f] = Default[f]
       /\ kept /\ v = Absent => Given(preset)[f] = PackedDefault[f]
       /\ ~kept => Given(preset)[f] = IF f = "mix" THEN Clamp(f, 0) ELSE Default[f]
       /\ f \in {"threshold", "ratio", "mix"} => InBounds(f, Given(preset)[f])

(* Whatever is in flash, there is a preset to show and to step from; a     *)
(* complete image without presets has one for each model; and a record     *)
(* whose flash is still erased is bypassed, and never heard with what its  *)
(* bytes would say (src/PresetManager.cpp:44-74, 91, 127).                 *)
PresetsPlay ==
  phase = "on" =>
    /\ Len(presets) \in 1..MaxPresets
    /\ Whole => \A j \in 1..Len(StoredPresets) : j <= MaxPresets =>
         /\ NamesPlay(StoredPresets[j], presets[j])
         /\ NumbersPlay(StoredPresets[j], presets[j])
    /\ Whole /\ StoredPresets = <<>> =>
         \A m \in DOMAIN models : m <= MaxPresets =>
           dir[ModelFor(presets[m])].name = dir[models[m]].name /\ ~Bypassed(presets[m])
    /\ \A j \in DOMAIN presets : presets[j].model = Junk => Bypassed(presets[j])
=============================================================================
