-------------------------- MODULE HardwareContext --------------------------
(***************************************************************************)
(* HardwareContext (hardware.cpp): how programs open the devices of the    *)
(* driver, and how they find one that nobody uses.                         *)
(*                                                                         *)
(* A search opens one device after the other, and each open() is a step:   *)
(* other programs open and close devices meanwhile.  The driver gives a    *)
(* device to one program at a time, and answers EBUSY to the others.  A    *)
(* DMA node counts as two devices, one to read from and one to write to.   *)
(***************************************************************************)
EXTENDS Integers

CONSTANTS
  Programs,    \* the processes that use the driver
  Devices,     \* [kind -> how many the context's prefix has]: "r", "w" (fifos), "dr", "dw" (DMA)
  Counted,     \* [{"r", "w"} -> how many files /dev/dyplor%d, /dev/dyplow%d there are]
  Searched     \* how many DMA nodes openAvailableDMA tries: 31

DMA == {"dr", "dw"}

ASSUME ContextAssumption ==
  /\ DOMAIN Devices \subseteq {"r", "w"} \cup DMA /\ Searched \in Nat
  /\ \A k \in DOMAIN Devices : Devices[k] \in Nat
  /\ \A k \in DOMAIN Devices \ DMA : Counted[k] \in Nat

VARIABLES
  owner,      \* [device -> the program that has it open, or "nobody"]
  search,     \* [Programs -> [kind, index, count, result]]
  seen        \* [Programs -> the devices in use at some moment of the search]

contextVars == << owner, search, seen >>

Nodes    == UNION {{k} \X (0 .. Devices[k] - 1) : k \in DOMAIN Devices}
NoSearch == [kind |-> "none", index |-> 0, count |-> 0, result |-> "none"]

ContextInit ==
  /\ owner  = [n \in Nodes |-> "nobody"]
  /\ search = [p \in Programs |-> NoSearch]
  /\ seen   = [p \in Programs |-> {}]

Taken == {n \in Nodes : owner[n] # "nobody"}

(* openFifo, openDMA.  The device is there and free, is there and in use   *)
(* (EBUSY), or is not there.                                               *)
OpenSucceeds(n) == n \in Nodes /\ owner[n] = "nobody"
OpenIsBusy(n)   == n \in Nodes /\ owner[n] # "nobody"

Opened(p, n) ==
  /\ owner' = [owner EXCEPT ![n] = p]
  /\ seen'  = [o \in Programs |-> seen[o] \cup {n}]
OpenDevice(p, n) ==
  IF OpenSucceeds(n) THEN Opened(p, n) /\ UNCHANGED search ELSE UNCHANGED contextVars

(* The destructor of File.                                                 *)
CloseDevice(p, n) ==
  /\ owner[n] = p /\ owner' = [owner EXCEPT ![n] = "nobody"]
  /\ UNCHANGED << search, seen >>

-----------------------------------------------------------------------------
(* openAvailableDMA, openAvailableReadFifo, openAvailableWriteFifo.        *)

(* How many devices a search tries.  count_numbered_files counts the files *)
(* of the default prefix, whatever the prefix of the context is; DMA nodes *)
(* are not counted.                                                        *)
Bound(k) == IF k \in DMA THEN Searched ELSE Counted[k]

searchFrom0(p, k, count) ==
  /\ search[p] = NoSearch
  /\ search' = [search EXCEPT ![p] =
                  [kind |-> k, index |-> 0, count |-> count, result |-> "searching"]]
  /\ seen' = [seen EXCEPT ![p] = Taken]
  /\ UNCHANGED owner

openAvailable(p, k) == searchFrom0(p, k, Bound(k))

At(p) == << search[p].kind, search[p].index >>
Searching(p) == search[p].result = "searching" /\ search[p].index < search[p].count

TryOpens(p) ==
  /\ Searching(p) /\ OpenSucceeds(At(p)) /\ Opened(p, At(p))
  /\ search' = [search EXCEPT ![p].result = "open"]

(* EBUSY: go on with the next one (and as if it were an error).            *)
TryBusyThrows(p) ==
  /\ Searching(p) /\ OpenIsBusy(At(p))
  /\ search' = [search EXCEPT ![p].result = "error"]
  /\ UNCHANGED << owner, seen >>
TryBusy(p) ==
  /\ Searching(p) /\ OpenIsBusy(At(p))
  /\ search' = [search EXCEPT ![p].index = @ + 1]
  /\ UNCHANGED << owner, seen >>

(* Any other answer is thrown.                                             *)
TryMissing(p) ==
  /\ Searching(p) /\ At(p) \notin Nodes
  /\ search' = [search EXCEPT ![p].result = "error"]
  /\ UNCHANGED << owner, seen >>

(* Behind the last one: ENODEV.                                            *)
TryNoMore(p) ==
  /\ search[p].result = "searching" /\ search[p].index >= search[p].count
  /\ search' = [search EXCEPT ![p].result = "ENODEV"]
  /\ UNCHANGED << owner, seen >>

Try(p) == TryOpens(p) \/ TryBusy(p) \/ TryMissing(p) \/ TryNoMore(p)

SearchReturns(p) ==
  /\ search[p].result \in {"open", "error", "ENODEV"}
  /\ search' = [search EXCEPT ![p] = NoSearch]
  /\ UNCHANGED << owner, seen >>

-----------------------------------------------------------------------------
(* There are files /dev/dyplor%d and /dev/dyplow%d for all the fifos of    *)
(* the context.  Those of a context with the default prefix are these      *)
(* files; with another prefix there may be fewer files than fifos.         *)
AllCounted == \A k \in DOMAIN Devices \ DMA : Devices[k] <= Counted[k]

(* A search fails only if each device of its kind, of the DMA nodes each   *)
(* of the first 31, was in use at some moment of the search: one that      *)
(* stays free is found, whatever the other programs open and close         *)
(* meanwhile.  It is so if AllCounted; if not, the search of a fifo ends   *)
(* in ENODEV before it comes to the last ones.                             *)
FreeDeviceFound ==
  \A p \in Programs :
    search[p].result \in {"error", "ENODEV"} =>
      \A n \in Nodes :
        n[1] = search[p].kind /\ (n[1] \in DMA => n[2] < Searched) => n \in seen[p]
=============================================================================
