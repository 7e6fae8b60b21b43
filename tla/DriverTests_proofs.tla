------------------------- MODULE DriverTests_proofs -------------------------
(***************************************************************************)
(* The searches of HardwareContext: proof, for any numbers of devices and  *)
(* whichever of the test programs run, that a device that stays free is    *)
(* found.                                                                  *)
(***************************************************************************)
EXTENDS DriverTests, TLAPS

(* Stress::openAvailableFifo, which does not count the fifos, reaches all  *)
(* of them.                                                                *)
FifosInReach == \A k \in DOMAIN Devices \ DMA : Devices[k] <= Searched

(* The devices that a search is about.                                     *)
Sought(s) == {n \in Nodes : n[1] = s.kind /\ (n[1] \in DMA => n[2] < Searched)}

(* A search knows of every device that is in use now, and those behind it  *)
(* have been in use; when it gives up, all are behind it.                  *)
SearchOf(p) ==
  search[p].result # "none" =>
    /\ search[p].index \in Nat
    /\ Taken \subseteq seen[p]
    /\ \A n \in Sought(search[p]) :
         /\ search[p].count \in Nat /\ n[2] < search[p].count
         /\ n[2] < search[p].index => n \in seen[p]
         /\ search[p].result \in {"error", "ENODEV"} => n \in seen[p]

SearchInv ==
  /\ DOMAIN owner = Nodes /\ DOMAIN search = Programs /\ DOMAIN seen = Programs
  /\ \A p \in Programs : SearchOf(p)

(* What is known of the devices.                                           *)
LEMMA NodesAre ==
  \A n \in Nodes : /\ n[1] \in DOMAIN Devices /\ n[2] \in Nat /\ n = << n[1], n[2] >>
                   /\ Devices[n[1]] \in Nat /\ Searched \in Nat
                   /\ n[2] < Devices[n[1]]
<1> TAKE n \in Nodes
<1>1. PICK k \in DOMAIN Devices : n \in {k} \X (0 .. Devices[k] - 1)
  BY DEF Nodes
<1>2. Devices[k] \in Nat /\ Searched \in Nat
  BY ContextAssumption
<1> QED
  BY <1>1, <1>2

(* Which pairs are devices.                                                *)
LEMMA NodesHave ==
  ASSUME NEW k \in DOMAIN Devices, NEW i \in Nat, i < Devices[k]
  PROVE  << k, i >> \in Nodes
<1>1. Devices[k] \in Nat
  BY ContextAssumption
<1>2. << k, i >> \in {k} \X (0 .. Devices[k] - 1)
  BY <1>1
<1> QED
  BY <1>2 DEF Nodes

(* A search that is as it was, of devices that are in use or have been.    *)
LEMMA SearchGoesOn ==
  ASSUME NEW p \in Programs, SearchOf(p), search'[p] = search[p],
         seen[p] \subseteq seen'[p], Taken' \subseteq Taken \cup seen'[p]
  PROVE  SearchOf(p)'
BY DEF SearchOf, Sought, Nodes

(* Opening and closing.                                                    *)
LEMMA DeviceOpens ==
  ASSUME SearchInv, NEW p, NEW n \in Nodes, Opened(p, n)
  PROVE  /\ DOMAIN owner' = Nodes /\ DOMAIN seen' = Programs
         /\ \A o \in Programs : seen[o] \subseteq seen'[o] /\ n \in seen'[o]
         /\ \A o \in Programs : Taken' \subseteq Taken \cup seen'[o]
BY DEF SearchInv, Opened, Taken, Nodes

(* close(): a device less is in use.                                       *)
LEMMA DeviceCloses ==
  ASSUME SearchInv, NEW p, NEW n, CloseDevice(p, n)
  PROVE  SearchInv'
<1>1. DOMAIN owner' = Nodes /\ UNCHANGED << search, seen >> /\ Taken' \subseteq Taken
  BY DEF SearchInv, CloseDevice, Taken, Nodes
<1>2. ASSUME NEW o \in Programs PROVE SearchOf(o)'
  BY <1>1, SearchGoesOn DEF SearchInv
<1> QED
  BY <1>1, <1>2 DEF SearchInv, Nodes

(* open() outside a search.                                                *)
LEMMA OpenKeeps ==
  ASSUME SearchInv, NEW p, NEW n, OpenDevice(p, n)
  PROVE  SearchInv'
<1>1. CASE UNCHANGED contextVars
  BY <1>1 DEF SearchInv, SearchOf, Sought, Taken, Nodes, contextVars
<1>2. CASE OpenSucceeds(n) /\ Opened(p, n) /\ UNCHANGED search
  <2>1. n \in Nodes
    BY <1>2 DEF OpenSucceeds
  <2>2. ASSUME NEW o \in Programs PROVE SearchOf(o)'
    BY <1>2, <2>1, DeviceOpens, SearchGoesOn DEF SearchInv
  <2> QED
    BY <1>2, <2>1, <2>2, DeviceOpens DEF SearchInv, Nodes
<1> QED
  BY <1>1, <1>2 DEF OpenDevice

(* A search begins: it knows what is in use, and it will come to all.      *)
LEMMA SearchBegins ==
  ASSUME SearchInv, AllCounted, FifosInReach, NEW p \in Programs, NEW k,
         openAvailable(p, k) \/ openAvailableFifo(p, k)
  PROVE  SearchInv'
<1>1. PICK upto : /\ searchFrom0(p, k, upto)
                  /\ upto = Bound(k) \/ upto = Searched
  BY DEF openAvailable, openAvailableFifo
<1>2. /\ search' = [search EXCEPT ![p] =
                     [kind |-> k, index |-> 0, count |-> upto, result |-> "searching"]]
      /\ seen' = [seen EXCEPT ![p] = Taken] /\ owner' = owner
  BY <1>1 DEF searchFrom0
<1>3. /\ DOMAIN owner' = Nodes /\ DOMAIN search' = Programs /\ DOMAIN seen' = Programs
      /\ Taken' = Taken
  BY <1>2 DEF SearchInv, Taken, Nodes
<1>4. ASSUME NEW n \in Nodes, n[1] = k, n[1] \in DMA => n[2] < Searched
      PROVE  upto \in Nat /\ n[2] < upto /\ ~ n[2] < 0
  <2>1. /\ k \in DOMAIN Devices /\ n[2] \in Nat /\ Devices[k] \in Nat /\ Searched \in Nat
        /\ n[2] < Devices[k]
    BY <1>4, NodesAre
  <2>2. CASE k \in DMA
    <3>1. upto = Searched /\ n[2] < Searched
      BY <1>1, <1>4, <2>2 DEF Bound
    <3> QED
      BY <2>1, <3>1
  <2>3. CASE k \notin DMA
    <3>1. Counted[k] \in Nat /\ Devices[k] <= Counted[k] /\ Devices[k] <= Searched
      BY <2>1, <2>3, ContextAssumption DEF AllCounted, FifosInReach
    <3>2. upto = Counted[k] \/ upto = Searched
      BY <1>1, <2>3 DEF Bound
    <3> QED
      BY <2>1, <3>1, <3>2
  <2> QED
    BY <2>2, <2>3
<1>5. SearchOf(p)'
  <2>1. /\ search'[p] = [kind |-> k, index |-> 0, count |-> upto, result |-> "searching"]
        /\ seen'[p] = Taken
    BY <1>2 DEF SearchInv
  <2>2. Sought(search'[p]) = {n \in Nodes : n[1] = k /\ (n[1] \in DMA => n[2] < Searched)}
    BY <2>1 DEF Sought
  <2>3. Sought(search[p])' = Sought(search'[p])
    BY DEF Sought, Nodes
  <2> QED
    BY <1>3, <1>4, <2>1, <2>2, <2>3 DEF SearchOf
<1>6. ASSUME NEW o \in Programs, o # p PROVE SearchOf(o)'
  <2>1. search'[o] = search[o] /\ seen'[o] = seen[o]
    BY <1>2, <1>6 DEF SearchInv
  <2> QED
    BY <1>3, <1>6, <2>1, SearchGoesOn DEF SearchInv
<1> QED
  BY <1>3, <1>5, <1>6 DEF SearchInv, Nodes

(* One step of a search.                                                   *)
LEMMA SearchTries ==
  ASSUME SearchInv, NEW p \in Programs, Try(p)
  PROVE  SearchInv'
<1> DEFINE s == search[p]
<1>1. CASE TryOpens(p)
  <2>1. /\ At(p) \in Nodes /\ Opened(p, At(p))
        /\ search' = [search EXCEPT ![p].result = "open"]
    BY <1>1 DEF TryOpens, OpenSucceeds
  <2>2. /\ DOMAIN owner' = Nodes /\ DOMAIN seen' = Programs /\ DOMAIN search' = Programs
        /\ \A o \in Programs : seen[o] \subseteq seen'[o]
        /\ \A o \in Programs : Taken' \subseteq Taken \cup seen'[o]
    BY <2>1, DeviceOpens DEF SearchInv
  <2>3. SearchOf(p)'
    <3>1. /\ s.result = "searching" /\ search'[p].result = "open"
          /\ search'[p].kind = s.kind /\ search'[p].index = s.index
          /\ search'[p].count = s.count
      BY <1>1, <2>1 DEF SearchInv, TryOpens, Searching
    <3>2. Sought(search[p])' = Sought(search[p])
      BY <3>1 DEF Sought, Nodes
    <3> QED
      BY <2>2, <3>1, <3>2 DEF SearchInv, SearchOf
  <2>4. ASSUME NEW o \in Programs, o # p PROVE SearchOf(o)'
    BY <2>1, <2>2, <2>4, SearchGoesOn DEF SearchInv
  <2> QED
    BY <2>2, <2>3, <2>4 DEF SearchInv, Nodes
<1>2. ASSUME UNCHANGED << owner, seen >>, SearchOf(p)',
             \E t : search' = [search EXCEPT ![p] = t]
      PROVE  SearchInv'
  <2>1. Taken' = Taken
    BY <1>2 DEF Taken, Nodes
  <2>2. ASSUME NEW o \in Programs, o # p PROVE SearchOf(o)'
    <3>1. search'[o] = search[o] /\ seen'[o] = seen[o]
      BY <1>2, <2>2 DEF SearchInv
    <3> QED
      BY <2>1, <3>1, SearchGoesOn DEF SearchInv
  <2> QED
    BY <1>2, <2>2 DEF SearchInv, Nodes
<1>3. CASE TryBusy(p)
  <2>1. /\ s.result = "searching" /\ At(p) \in Taken /\ UNCHANGED << owner, seen >>
        /\ search' = [search EXCEPT ![p].index = @ + 1]
    BY <1>3 DEF TryBusy, Searching, OpenIsBusy, Taken
  <2>2. /\ search'[p].result = s.result /\ search'[p].kind = s.kind
        /\ search'[p].index = s.index + 1 /\ search'[p].count = s.count
    BY <2>1 DEF SearchInv
  <2>3. Sought(search[p])' = Sought(search[p])
    BY <2>2 DEF Sought, Nodes
  <2>4. s.index \in Nat /\ Taken \subseteq seen[p]
    BY <2>1 DEF SearchInv, SearchOf
  <2>5. ASSUME NEW n \in Sought(search[p]), n[2] < s.index + 1 PROVE n \in seen[p]
    <3>1. n \in Nodes /\ n[1] = s.kind /\ n[2] \in Nat /\ n = << n[1], n[2] >>
      BY NodesAre DEF Sought
    <3>2. CASE n[2] < s.index
      BY <2>1, <3>2 DEF SearchInv, SearchOf
    <3>3. CASE n[2] = s.index
      BY <2>1, <2>4, <3>1, <3>3 DEF At
    <3> QED
      BY <2>4, <2>5, <3>1, <3>2, <3>3
  <2>6. SearchOf(p)'
    <3>1. Taken' = Taken
      BY <2>1 DEF Taken, Nodes
    <3> QED
      BY <2>1, <2>2, <2>3, <2>4, <2>5, <3>1 DEF SearchInv, SearchOf
  <2> QED
    BY <1>2, <2>1, <2>6
<1>4. CASE TryMissing(p) \/ TryNoMore(p)
  <2>1. /\ s.result = "searching" /\ UNCHANGED << owner, seen >>
        /\ \E no \in {"error", "ENODEV"} : search' = [search EXCEPT ![p].result = no]
    BY <1>4 DEF TryMissing, TryNoMore, Searching
  <2>2. /\ search'[p].result \in {"error", "ENODEV"} /\ search'[p].kind = s.kind
        /\ search'[p].index = s.index /\ search'[p].count = s.count
    BY <2>1 DEF SearchInv
  <2>3. Sought(search[p])' = Sought(search[p])
    BY <2>2 DEF Sought, Nodes
  <2>4. s.index \in Nat /\ Taken \subseteq seen[p]
    BY <2>1 DEF SearchInv, SearchOf
  <2>5. ASSUME NEW n \in Sought(search[p]) PROVE n \in seen[p]
    <3>1. /\ n[1] \in DOMAIN Devices /\ n[1] = s.kind /\ n[2] \in Nat
          /\ Devices[n[1]] \in Nat /\ n[2] < Devices[n[1]]
      BY NodesAre DEF Sought
    <3>2. s.count \in Nat /\ n[2] < s.count /\ (n[2] < s.index => n \in seen[p])
      BY <2>1 DEF SearchInv, SearchOf
    <3>3. CASE TryNoMore(p)
      <4>1. s.index >= s.count
        BY <3>3 DEF TryNoMore
      <4> QED
        BY <2>4, <3>1, <3>2, <4>1
    <3>4. CASE TryMissing(p)
      <4>1. << s.kind, s.index >> \notin Nodes
        BY <3>4 DEF TryMissing, At
      <4>2. ~ (s.index < Devices[s.kind])
        BY <2>4, <3>1, <4>1, NodesHave
      <4>3. n[2] < s.index
        BY <2>4, <3>1, <4>2
      <4> QED
        BY <3>2, <4>3
    <3> QED
      BY <1>4, <3>3, <3>4
  <2>6. SearchOf(p)'
    <3>1. Taken' = Taken
      BY <2>1 DEF Taken, Nodes
    <3> QED
      BY <2>1, <2>2, <2>3, <2>4, <2>5, <3>1 DEF SearchInv, SearchOf
  <2> QED
    BY <1>2, <2>1, <2>6
<1> QED
  BY <1>1, <1>3, <1>4 DEF Try

(* The search returns, with a device or without.                           *)
LEMMA SearchEnds ==
  ASSUME SearchInv, NEW p \in Programs, SearchReturns(p)
  PROVE  SearchInv'
<1>1. search' = [search EXCEPT ![p] = NoSearch] /\ UNCHANGED << owner, seen >>
  BY DEF SearchReturns
<1>2. Taken' = Taken
  BY <1>1 DEF Taken, Nodes
<1>3. SearchOf(p)'
  BY <1>1 DEF SearchInv, SearchOf, NoSearch
<1>4. ASSUME NEW o \in Programs, o # p PROVE SearchOf(o)'
  BY <1>1, <1>2, <1>4, SearchGoesOn DEF SearchInv
<1> QED
  BY <1>1, <1>3, <1>4 DEF SearchInv, Nodes

(* The calls of the test programs that have to do with devices.            *)
LEMMA NextSearch == SearchInv /\ AllCounted /\ FifosInReach /\ [Next]_vars => SearchInv'
<1> SUFFICES ASSUME SearchInv, AllCounted, FifosInReach, [Next]_vars PROVE SearchInv'
  OBVIOUS
<1>1. CASE UNCHANGED contextVars
  BY <1>1 DEF SearchInv, SearchOf, Sought, Taken, Nodes, contextVars
<1>2. ASSUME NEW t \in Programs, OpenCall(t) PROVE SearchInv'
  BY <1>2, OpenKeeps DEF OpenCall
<1>3. ASSUME NEW t \in Programs, SearchCall(t) PROVE SearchInv'
  BY <1>3, SearchBegins, SearchTries, SearchEnds DEF SearchCall
<1>4. ASSUME NEW t \in Programs, CloseCall(t) \/ CloseAll(t) PROVE SearchInv'
  BY <1>1, <1>4, DeviceCloses DEF CloseCall, CloseAll
<1>5. ASSUME NEW t \in Programs,
             \/ Immediate(t) \/ Poll(t) \/ WriteCall(t) \/ ReadCall(t) \/ FillCall(t)
             \/ DrainCall(t) \/ StartsPump(t) \/ StartThread(t) \/ JoinThread(t)
      PROVE  UNCHANGED contextVars
  BY <1>5 DEF Immediate, StartsPump, Poll, WriteCall, ReadCall, FillCall, DrainCall,
              StartThread, JoinThread
<1>6. Logic \/ UNCHANGED vars => UNCHANGED contextVars
  BY DEF Logic, vars
<1> QED
  BY <1>1, <1>2, <1>3, <1>4, <1>5, <1>6 DEF Next, Thread

(* A search that fails has met every device in use (of the DMA nodes, each *)
(* of the first 31): HardwareContext finds one that stays free, whatever   *)
(* the other programs open and close.  The searches of fifos do so if the  *)
(* hard-coded /dev/dyplor%d and /dev/dyplow%d of count_numbered_files are  *)
(* as many as the fifos of the context, as they are with the default       *)
(* prefix, and if Stress::openAvailableFifo tries that many.               *)
THEOREM FreeDevicesAreFound ==
  ASSUME AllCounted, FifosInReach
  PROVE  Spec => []FreeDeviceFound
<1>1. Init => SearchInv
  BY DEF Init, ContextInit, SearchInv, SearchOf, NoSearch
<1>2. SearchInv /\ [Next]_vars => SearchInv'
  BY NextSearch
<1>3. SearchInv => FreeDeviceFound
  BY DEF SearchInv, SearchOf, FreeDeviceFound, Sought
<1> QED
  BY <1>1, <1>2, <1>3, PTL DEF Spec
=============================================================================
