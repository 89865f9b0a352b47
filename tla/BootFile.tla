------------------------------- MODULE BootFile -------------------------------
(***************************************************************************)
(* The disk around BootDisk's block: 16 blocks, block_data in              *)
(* usb_descriptors.cpp, which hold a FAT12 volume with one file.  A boot   *)
(* loader or a PC finds that file the way a FAT driver does, from the boot *)
(* sector, the table and the directory, and reads the block they lead to   *)
(* with tud_msc_read10_cb; what the firmware sets is worth something only  *)
(* if that block, cut to the length in the directory, is the line.         *)
(*                                                                         *)
(* Block 0 and 1 are written by nobody in the model and appear as the      *)
(* numbers a driver takes from them; the directory entry changes when the  *)
(* PC saves the file with another length, after or before its content.     *)
(*                                                                         *)
(* A definition marked "Slip" is the next one with a plausible mistake in  *)
(* it; no specification uses it.  The README says which property notices.  *)
(***************************************************************************)
EXTENDS BootDisk

CONSTANT Sizes  \* lengths with which the PC saves the file

ASSUME SizesAssumption == Sizes \subseteq Nat

DISK_BLOCK_NUM == 16
DISK_BLOCK_SIZE == 512

\* Block 0, from byte 11 on
BootSector ==
  [sectorSize |-> 512, perCluster |-> 1, reserved |-> 1, fats |-> 1,
   entries |-> 16, sectors |-> 16, perFat |-> 1]

\* Block 1: F8 FF FF FF 0F, three entries of twelve bits, from cluster 0 on
FatTable == [cluster \in 0..2 |-> IF cluster = 0 THEN 4088 ELSE 4095]

\* Slip: what the comment on the size in block 2 says, "4 bytes".
EntryOfFour == [cluster |-> 2, size |-> 4]

\* Block 2, the second entry: boot.cfg
Entry == [cluster |-> 2, size |-> 16]

\* How a FAT driver gets from there to a block.
RootBlock == BootSector.reserved + BootSector.fats * BootSector.perFat

RootBlocks == (BootSector.entries * 32) \div BootSector.sectorSize

BlockOf(cluster) == RootBlock + RootBlocks + (cluster - 2) * BootSector.perCluster

LastCluster(cluster) == FatTable[cluster] >= 4088

\* tud_msc_capacity_cb, and the check of read10 and write10
OnDisk(lba) == lba < DISK_BLOCK_NUM

VARIABLES
  entry,  \* the directory entry of boot.cfg, in block 2
  found   \* the entry the PC has read, and follows

fileVars == <<vars, entry, found>>

NotFound == [cluster |-> 0, size |-> 0]

FileInit == Init /\ entry = Entry /\ found = NotFound

-----------------------------------------------------------------------------
\* read10 of blocks 0, 1 and 2
FindFile ==
  /\ op[Host] = "idle" /\ found = NotFound
  /\ found' = entry
  /\ UNCHANGED <<vars, entry>>

\* write10 of block 2
SaveEntry ==
  /\ op[Host] = "idle" /\ found = NotFound
  /\ \E n \in Sizes : entry' = [entry EXCEPT !.size = n]
  /\ UNCHANGED <<vars, found>>

\* The PC reads the file where it has found it, and looks it up anew each
\* time; it writes the block itself.
DiskSteps ==
  /\ Next
  /\ op[Host] = "idle" /\ op'[Host] = "read10" =>
       found # NotFound /\ OnDisk(BlockOf(found.cluster))
  /\ op[Host] = "idle" /\ op'[Host] = "write10" => found = NotFound
  /\ found' = IF op[Host] = "done" /\ op'[Host] = "idle" THEN NotFound ELSE found
  /\ UNCHANGED entry

FileNext == FindFile \/ SaveEntry \/ DiskSteps

FileSpec == FileInit /\ [][FileNext]_fileVars

-----------------------------------------------------------------------------
\* The file as the directory entry found cuts it: 13 bytes are cell 1.
FileCells == found.size - 12

\* Whoever reads boot.cfg while nobody writes is led by boot sector, table and
\* directory to the block that set_boot_select prints into, whatever length
\* the PC has given the file, and finds there the line last set, by a user or
\* by the PC.  The length in the image, which set_boot_select never changes,
\* lets through the whole number, for each of the 256; and the line to its
\* end, newline included, if and only if the number has one digit.
FileIsTheLine ==
  [][op[Host] = "read10" /\ op'[Host] = "done" /\ clean[Host] /\ whole =>
       /\ BlockOf(found.cluster) = 3 /\ LastCluster(found.cluster)
       /\ \A v \in 0..255 : last \in {Format(v), Pad(Format(v))} =>
            /\ Holds(copy', Format(v))
            /\ found = Entry =>
                 /\ FileCells > Len(Digits(v))
                 /\ FileCells = Len(Format(v)) - 1 <=> v \in Digit]_fileVars
=============================================================================
