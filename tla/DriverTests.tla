----------------------------- MODULE DriverTests -----------------------------
(***************************************************************************)
(* The test programs, run on the driver and the logic: two threads (or two *)
(* programs) make the calls of their scripts, while the logic moves words  *)
(* whenever it likes.  A blocking read or write is in progress until all   *)
(* of its words are through.  The timeouts of the polls that must see data *)
(* are long enough.                                                        *)
(***************************************************************************)
EXTENDS DyploLogic, DriverTestPrograms

CONSTANT Tests   \* the names of the programs that are run

ASSUME TestsAssumption == Tests \subseteq DOMAIN Main /\ Programs = {"main", "other"}

VARIABLES
  test,     \* the program
  at,       \* [Programs -> the call], 0 for a thread that is not started
  count,    \* [Programs -> the words that the call in progress has moved]
  failed    \* has a CHECK, EQUAL or ASSERT_THROW failed?

vars == << contextVars, logic, test, at, count, failed >>

Init ==
  /\ ContextInit /\ LogicInit
  /\ test \in Tests
  /\ at = [t \in Programs |-> IF t = "main" THEN 1 ELSE 0]
  /\ count = [t \in Programs |-> 0] /\ failed = FALSE

Script(t)  == IF t = "main" THEN Main[test] ELSE Other(test)
Instr(t)   == Script(t)[at[t]]
Calls(t, name) == at[t] \in DOMAIN Script(t) /\ Instr(t)[1] = name
Device(t)  == Instr(t)[2]

CHECK(ok)  == failed' = (failed \/ ~ ok)
Return(t)  == at' = [at EXCEPT ![t] = @ + 1] /\ count' = [count EXCEPT ![t] = 0]
Continue(t) == count' = [count EXCEPT ![t] = @ + 1] /\ UNCHANGED at

-----------------------------------------------------------------------------
(* Opening and closing.                                                    *)
OpenCall(t) ==
  /\ Calls(t, "open") /\ Return(t)
  /\ OpenDevice(t, Device(t)) /\ CHECK(OpenSucceeds(Device(t)) = Instr(t)[3])
  /\ UNCHANGED << logic, test >>

(* Stress::openAvailableFifo does not count the fifos before it searches.  *)
openAvailableFifo(p, k) == searchFrom0(p, k, Searched)

SearchCall(t) ==
  /\ Calls(t, "available") \/ Calls(t, "openAvailableFifo")
  /\ \/ /\ IF Calls(t, "available") THEN openAvailable(t, Device(t))
                                     ELSE openAvailableFifo(t, Device(t))
        /\ UNCHANGED << at, count, failed >>
     \/ Try(t) /\ UNCHANGED << at, count, failed >>
     \/ /\ SearchReturns(t) /\ Return(t)
        /\ CHECK(Instr(t)[3] = "any" \/ (Instr(t)[3] = "open" <=> search[t].result = "open"))
  /\ UNCHANGED << logic, test >>

CloseCall(t) ==
  /\ Calls(t, "close") /\ Return(t) /\ CloseDevice(t, Device(t))
  /\ logic' = [logic EXCEPT !.nonblocking = @ \ {Device(t)}]
  /\ UNCHANGED << test, failed >>

(* The destructors, one after the other.                                   *)
CloseAll(t) ==
  /\ Calls(t, "close_all")
  /\ IF \E n \in Nodes : owner[n] = t
       THEN (\E n \in Nodes : CloseDevice(t, n)) /\ UNCHANGED << at, count >>
       ELSE Return(t) /\ UNCHANGED contextVars
  /\ UNCHANGED << logic, test, failed >>

-----------------------------------------------------------------------------
(* Calls that come back at once: what they do, and what the test expects.  *)
Immediate(t) ==
  /\ \/ Calls(t, "route") /\ addRoute(Device(t), Instr(t)[3])
        /\ CHECK((IsSource(Device(t)) /\ IsSink(Instr(t)[3])) = Instr(t)[4])
     \/ Calls(t, "unroute") /\ routeDelete(Device(t)) /\ CHECK(TRUE)
     \/ Calls(t, "unroute_all") /\ routeDeleteAll /\ CHECK(TRUE)
     \/ Calls(t, "routes") /\ UNCHANGED logic /\ CHECK(Routes = Device(t))
     \/ Calls(t, "enable") /\ enableNode(Device(t), Instr(t)[3]) /\ CHECK(TRUE)
     \/ Calls(t, "is_enabled") /\ UNCHANGED logic
        /\ CHECK((Device(t) \in logic.enabled) = Instr(t)[3])
     \/ Calls(t, "configure") /\ Configure(Device(t), Instr(t)[3]) /\ CHECK(TRUE)
     \/ Calls(t, "run") /\ StartStop(Device(t), Instr(t)[3]) /\ CHECK(TRUE)
     \/ Calls(t, "no_error") /\ UNCHANGED logic /\ CHECK(~ logic.error)
     \/ Calls(t, "reset") /\ reset(Device(t)) /\ CHECK(TRUE)
     \/ Calls(t, "nonblock") /\ fcntl_set_flag(Device(t)) /\ CHECK(TRUE)
     \/ Calls(t, "signal") /\ setUserSignal(Device(t), Instr(t)[3]) /\ CHECK(TRUE)
     \/ Calls(t, "signal_is") /\ UNCHANGED logic
        /\ CHECK(getUserSignal(Device(t)) = Instr(t)[3])
     \/ Calls(t, "treshold") /\ setDataTreshold(Device(t), Instr(t)[3])
        /\ CHECK((Device(t) \notin logic.primed) = Instr(t)[4])
     \/ Calls(t, "eagain") /\ UNCHANGED logic
        /\ CHECK(Device(t) \in logic.nonblocking /\ ~ Ready(Device(t)))
  /\ Return(t) /\ UNCHANGED << contextVars, test >>

(* A poll or a read starts the data pump of a DMA node, if it has to.      *)
StartsPump(t) ==
  /\ \E call \in {"poll_in", "wait_in", "read", "drain"} : Calls(t, call)
  /\ ~ Started(Device(t)) /\ StartPump(Device(t))
  /\ UNCHANGED << contextVars, test, at, count, failed >>

(* select(), with a timeout of 0 and with one that data must beat.         *)
Poll(t) ==
  /\ \/ /\ Calls(t, "poll_in") /\ Started(Device(t))
        /\ CHECK(Ready(Device(t)) = Instr(t)[3])
     \/ Calls(t, "poll_out") /\ CHECK((Room(Device(t)) > 0) = Instr(t)[3])
     \/ Calls(t, "wait_in") /\ Ready(Device(t)) /\ UNCHANGED failed
  /\ Return(t) /\ UNCHANGED << contextVars, logic, test >>

-----------------------------------------------------------------------------
(* Data.                                                                   *)
WriteCall(t) ==
  /\ Calls(t, "write") /\ Write(Device(t))
  /\ IF count[t] + 1 = Instr(t)[3] THEN Return(t) ELSE Continue(t)
  /\ UNCHANGED << contextVars, test, failed >>

(* A read that has all its words returns; one that meets another signal    *)
(* returns what it has; a DMA node gives one buffer.                       *)
ReadCall(t) ==
  LET e == Device(t)  n == Instr(t)[3]  expected == Instr(t)[4] IN
  /\ Calls(t, "read") /\ Ready(e)
  /\ \/ /\ SignalChanges(e) /\ TakeSignal(e)
        /\ CHECK(count[t] = expected) /\ Return(t)
     \/ /\ ~ SignalChanges(e) /\ e[1] = "r" /\ Take(e, 1)
        /\ CHECK(Arrive(e, 1, Instr(t)[5]) /\ (count[t] + 1 = n => n = expected))
        /\ IF count[t] + 1 = n THEN Return(t) ELSE Continue(t)
     \/ /\ e[1] = "dr" /\ Take(e, Readable(e, n))
        /\ CHECK(Arrive(e, Readable(e, n), Instr(t)[5]) /\ Readable(e, n) = expected)
        /\ Return(t)
  /\ UNCHANGED << contextVars, test >>

(* fill_fifo_to_the_brim: writes until there is no room (for 2 ms).  A DMA  *)
(* node takes whole buffers.                                               *)
FillCall(t) ==
  LET e      == Device(t)
      buffer == IF e[1] = "dw" THEN Treshold ELSE 1
  IN /\ Calls(t, "fill") /\ e \in logic.nonblocking
     /\ IF Room(e) >= buffer \/ logic.written % buffer # 0
          THEN Write(e) /\ UNCHANGED << at, count >>
          ELSE (Instr(t)[3] => Settled) /\ UNCHANGED logic /\ Return(t)
     /\ UNCHANGED << contextVars, test, failed >>

(* while (total_read < total_written), with a poll where there is nothing. *)
DrainCall(t) ==
  LET e == Device(t) IN
  /\ Calls(t, "drain")
  /\ IF logic.got \cup logic.discarded = 1 .. logic.written
       THEN Return(t) /\ UNCHANGED << logic, failed >>
       ELSE /\ Ready(e) /\ Take(e, Readable(e, logic.treshold[e]))
            /\ CHECK(Arrive(e, Readable(e, logic.treshold[e]), Instr(t)[3]))
            /\ UNCHANGED << at, count >>
  /\ UNCHANGED << contextVars, test >>

-----------------------------------------------------------------------------
(* Thread::start, Thread::join.                                            *)
StartThread(t) ==
  /\ Calls(t, "start") /\ at' = [at EXCEPT ![t] = @ + 1, !["other"] = 1]
  /\ UNCHANGED << contextVars, logic, test, count, failed >>
JoinThread(t) ==
  /\ Calls(t, "join") /\ at["other"] > Len(Script("other")) /\ Return(t)
  /\ UNCHANGED << contextVars, logic, test, failed >>

Thread(t) ==
  \/ OpenCall(t) \/ SearchCall(t) \/ CloseCall(t) \/ CloseAll(t) \/ Immediate(t)
  \/ StartsPump(t) \/ Poll(t)
  \/ WriteCall(t) \/ ReadCall(t) \/ FillCall(t) \/ DrainCall(t)
  \/ StartThread(t) \/ JoinThread(t)

Logic ==
  /\ \E e \in Ends : Move(e) \/ Generate(e) \/ Compare(e)
  /\ UNCHANGED << contextVars, test, at, count, failed >>

Next == Logic \/ \E t \in Programs : Thread(t)
Spec == Init /\ [][Next]_vars

(* The threads run, and the logic moves what it can move.                  *)
FairSpec == Spec /\ WF_vars(Logic) /\ \A t \in Programs : WF_vars(Thread(t))

-----------------------------------------------------------------------------
(* None of the expectations in the scripts fails, whenever the logic moves *)
(* the data and whatever the other thread is doing.  The two that do       *)
(* depend on it are not in the scripts, see there: that words which may be *)
(* on their way are gone after two resets (testdyplodriver.cpp:477), and   *)
(* that there is no room right after a fill (testdyplodriver.cpp:831).     *)
ChecksHold == ~ failed

(* The reads, writes, searches and joins of a test all come back, also     *)
(* "writing to the cpu node will not block" (testdyplodriver.cpp:1419)     *)
(* when more words are written than its fifo holds, as the DMA node at its *)
(* other end has been polled.                                              *)
ProgramsEnd == <>(\A t \in Programs : at[t] \notin DOMAIN Script(t) /\
                                      (at[t] = 0 => Script(t) = << >>))
=============================================================================
