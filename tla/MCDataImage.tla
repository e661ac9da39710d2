---------------------------- MODULE MCDataImage ----------------------------
(***************************************************************************)
(* How the pedal is supplied: the line over USB that puts it into its      *)
(* bootloader, and the image that is then written and booted.  They share  *)
(* nothing, so a behaviour moves one of them.                              *)
(*                                                                         *)
(* The image: a partition of six sectors of four cells.  Three models,     *)
(* one of two sectors, and three presets are one more than the firmware    *)
(* has room for; of two cabinets one is too long for it even when trimmed. *)
(* The presets are of the three lengths that packers have written.  The    *)
(* directory of three files straddles two sectors, and their blobs may     *)
(* fill the partition; one image is too large, one of a later version.     *)
(***************************************************************************)
EXTENDS DataImage, MCBootLine

CONSTANTS lead, twang, fuzz, box, hall, p1, p2, p3, p4

MCModels  == {lead, twang, fuzz}
MCPresets == {p1, p2, p3, p4}
MCAsset == MCModels \cup {box, hall} \cup MCPresets
MCTypeOf == [a \in MCAsset |->
  IF a \in MCModels THEN MODEL ELSE IF a \in MCPresets THEN PRESET ELSE IR]
MCStem == [a \in MCAsset |->
  CASE a = lead -> "lead" [] a = twang -> "twang" [] a = fuzz -> "fuzz"
    [] a = box -> "box" [] a = hall -> "hall"
    [] a = p1 -> "p1" [] a = p2 -> "p2" [] a = p3 -> "p3" [] OTHER -> "p4"]
MCUnits == [a \in MCAsset |->
  CASE a = twang -> 5 [] a = box -> 4 [] a \in {lead, p1, p3} -> 3
    [] a \in {hall, p4} -> 2 [] OTHER -> 1]
MCUses == [a \in MCPresets |->
  CASE a = p1 -> [model |-> "twang", ir |-> "box", off |-> FALSE]
    [] a = p2 -> [model |-> "lead", ir |-> "none", off |-> FALSE]
    [] a = p3 -> [model |-> "twang", ir |-> "none", off |-> TRUE]
    [] OTHER  -> [model |-> "lead", ir |-> "hall", off |-> FALSE]]
(* p1 has a level and a ratio that are too large, p2 has levels only, p4   *)
(* no effects, and p3 has numbers that are 0, too large or left out.       *)
Numbers(level, freq, threshold, ratio, mix) ==
  [f \in {"level", "freq", "threshold", "ratio", "mix"} |->
     CASE f = "level" -> level [] f = "freq" -> freq [] f = "threshold" -> threshold
       [] f = "ratio" -> ratio [] OTHER -> mix]
MCAbsent == 99
MCAuthored == [a \in MCPresets |->
  CASE a = p1 -> Numbers(3, 9, -6, 5, 1)
    [] a = p2 -> Numbers(2, MCAbsent, MCAbsent, MCAbsent, MCAbsent)
    [] a = p3 -> Numbers(MCAbsent, MCAbsent, 0, MCAbsent, 0)
    [] OTHER  -> Numbers(1, 3, -1, 3, 9)]
MCBounds == Numbers(<<0, 2>>, <<1, 9>>, <<-6, 0>>, <<1, 4>>, <<0, 2>>)
MCDefault == Numbers(1, 5, -2, 2, 0)
MCPackedDefault == Numbers(1, 5, -2, 2, 1)
MCEncoded ==
  [s \in {MCStem[a] : a \in MCAsset} \cup {"none"} |-> IF s = "none" THEN "" ELSE s]
MCImage == [version : {1}, files : {
    <<box, twang, p1>>, <<lead, twang, p1>>, <<twang>>, <<p1, p2, p4>>,
    <<p3, lead, p2>>, <<p3, twang>>, <<hall, lead, p4>>, <<lead, twang, fuzz>>,
    <<box, lead, twang, p1>>}]
  \cup {[version |-> 2, files |-> <<box>>]}
(* The two models' names differ only past the thirtieth character. (With   *)
(* Encoded <- MCTruncated, and without Apart below, PresetsPlay fails:     *)
(* README.md, Disagreements.)                                              *)
MCTruncated == [MCEncoded EXCEPT !["twang"] = "lead"]

(* The images of this instance are of the kind that PresetsAlwaysPlay of   *)
(* DataImageProofs is about.                                               *)
ASSUME Apart == NamesApart

VARIABLE part

SupplyInit == Init /\ LineInit /\ part \in {"image", "usb"}

ImageStep == part = "image" /\ Next /\ UNCHANGED <<part, usb>>
UsbStep   == part = "usb" /\ LineNext /\ UNCHANGED <<part, vars>>

SupplyNext == ImageStep \/ UsbStep

SupplySpec ==
  /\ SupplyInit
  /\ [][SupplyNext]_<<vars, usb, part>>
=============================================================================
