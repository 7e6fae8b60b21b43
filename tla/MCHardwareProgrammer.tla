------------------------ MODULE MCHardwareProgrammer ------------------------
(* Files around every size at which FpgaImageReader decides: the minimum,  *)
(* the first read, one block, two blocks, an odd number of words, an image *)
(* longer than the buffer and a block; and words missing from the image,   *)
(* or following it in the file.                                            *)
EXTENDS HardwareProgrammer

MCNoItem == << >>

Bit(header, size, missing, id) ==
  [kind |-> "bit", header |-> header, size |-> size, length |-> header + size - missing, id |-> id]
Longer(header, size, more) ==
  [kind |-> "bit", header |-> header, size |-> size, length |-> header + size + more,
   id |-> "none"]
Bin(kind, size, id) ==
  [kind |-> kind, header |-> 0, size |-> size, length |-> size, id |-> id]

MCBitImages ==
  {Bit(1, size, missing, "right") : size \in {2, 7}, missing \in {0, 1}}
  \cup {Bit(1, 4, 0, "none"), Bit(1, 13, 0, "right"), Bit(1, 7, 0, "wrong"),
        Bit(4, 2, 0, "right")}
  \cup {Longer(1, 2, 1), Longer(3, 2, 2), Longer(1, 7, 2)}
MCBinImages ==
  {Bin("bin", size, "none") : size \in {1, 3, 9}}
  \cup {Bin("partial", 5, id) : id \in {"right", "wrong"}} \cup {Bin("other", 5, "none")}
MCImages == MCBitImages \cup MCBinImages

(* Complete .bit files, whose header lies inside the first read.           *)
MCWindowImages == {Bit(2, size, 0, "right") : size \in {2, 3, 7}}
=============================================================================
