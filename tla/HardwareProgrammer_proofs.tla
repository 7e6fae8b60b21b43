---------------------- MODULE HardwareProgrammer_proofs ----------------------
(***************************************************************************)
(* FpgaImageReader and HardwareProgrammer: proof, for any images and any   *)
(* sizes of buffers that are multiples of each other, that fromFile        *)
(* returns normally only when it has sent the whole image, that no word of *)
(* a partial image goes to the ICAP when it was made for another static    *)
(* image, that the words of one program reach the ICAP in their order, and *)
(* that NOPs are sent only to fill the last block.  A call that writes     *)
(* past processFile's buffer ends there (Overrun): nothing is said of what *)
(* the program does afterwards.                                            *)
(*                                                                         *)
(* The order needs an invariant of what is ahead of the ICAP: what it got, *)
(* then the blocks the driver has in turn, then the block being filled     *)
(* (StreamInv).  It rests on who has which block (OwnInv), on what the     *)
(* block being filled holds at each place of fromFile (StageInv), and on   *)
(* the words of a block being even in number (EvenInv).                    *)
(***************************************************************************)
EXTENDS HardwareProgrammer, TLAPS

Program == [file : Images, via : {"dma", "cpu", "file"}, sent : Nat,
            result : {"none", "ok", "io", "truncated", "unrecognized", "mismatch"}]

(* Where the first round of a .bit file may end, and no later one: it may  *)
(* go on after an image that ends in it.                                   *)
Longest(f) == IF f.size < ALIGN_SIZE THEN ALIGN_SIZE ELSE f.size

(* Where the object is in fromFile, and what a round still has to do: what *)
(* was sent is in the file, and a round of a .bit file stays in the image  *)
(* or in the ALIGN_SIZE words of the first one.                            *)
CallInv ==
  /\ via = Current.via /\ programs # << >>
  /\ at = "open" => total = 0
  /\ at \in {"begin", "fill"} =>
       /\ VerifyStaticID
       /\ file.header + total <= file.length
       /\ file.kind = "bit" => total + chunk <= Longest(file)

ProgramInv ==
  /\ programs \in Seq(Program)
  /\ via \in {"none", "dma", "cpu", "file"} /\ chunk \in Nat
  /\ at \in {"idle", "open", "begin", "fill", "overrun", "nop", "send", "flush", "flushing"}
  /\ at \in {"open", "begin", "fill"} => CallInv
  /\ ImageProgrammed

(* The constants.                                                          *)
LEMMA ImagesAre ==
  /\ ALIGN_SIZE \in Nat \ {0} /\ BUFFER_SIZE \in Nat \ {0}
  /\ programmer_blocksize \in Nat \ {0} /\ MinimumSize \in Nat \ {0}
  /\ \A image \in Images :
       /\ image.header \in Nat /\ image.size \in Nat /\ image.length \in Nat
       /\ image.kind # "bit" => image.header = 0 /\ image.length = image.size
BY ProgrammerAssumption

(* The call that is in progress.                                           *)
LEMMA CurrentCall ==
  ASSUME programs \in Seq(Program), programs # << >>
  PROVE  /\ Len(programs) \in Nat \ {0} /\ Len(programs) \in DOMAIN programs
         /\ DOMAIN programs = 1 .. Len(programs)
         /\ Current \in Program /\ file \in Images /\ total \in Nat
         /\ file.header \in Nat /\ file.size \in Nat /\ file.length \in Nat
         /\ file.kind # "bit" => file.header = 0 /\ file.length = file.size
<1>1. Len(programs) \in Nat \ {0} /\ DOMAIN programs = 1 .. Len(programs)
  OBVIOUS
<1>2. Current \in Program
  BY <1>1 DEF Current
<1>3. file \in Images /\ total \in Nat
  BY <1>2 DEF Program, file, total
<1> QED
  BY <1>1, <1>2, <1>3, ImagesAre

(* The first chunk.                                                        *)
LEMMA FirstChunkFits ==
  ASSUME programs \in Seq(Program), programs # << >>, Refused = "none"
  PROVE  /\ FirstChunk \in Nat /\ VerifyStaticID /\ file.header <= file.length
         /\ file.header + FirstChunk <= file.length
         /\ file.kind = "bit" => FirstChunk <= Longest(file)
<1>1. ReadFirst \in Nat /\ ReadFirst <= file.length /\ ReadFirst <= ALIGN_SIZE
  BY CurrentCall, ImagesAre DEF ReadFirst
<1>2. /\ VerifyStaticID /\ ~ file.header >= ReadFirst
      /\ ~ file.header + FirstChunk > file.length
  BY DEF Refused
<1>3. FirstChunk \in Nat /\ (file.kind = "bit" => FirstChunk <= Longest(file))
  <2> DEFINE n == ReadFirst - file.header  m == n % ALIGN_SIZE
  <2>1. n \in Nat /\ n <= ALIGN_SIZE
    BY <1>1, <1>2, CurrentCall, ImagesAre
  <2>2. m \in 0 .. ALIGN_SIZE - 1 /\ (n < ALIGN_SIZE => m = n) /\ (n = ALIGN_SIZE => m = 0)
    <3> HIDE DEF n
    <3> QED
      BY <2>1, ImagesAre
  <2>3. FirstChunk = IF file.kind # "bit" THEN ReadFirst
                     ELSE IF n >= file.size THEN file.size
                     ELSE n + (IF m = 0 THEN 0 ELSE ALIGN_SIZE - m)
    BY DEF FirstChunk
  <2>4. file.size \in Nat
    BY CurrentCall
  <2> HIDE DEF n, m
  <2> QED
    BY <1>1, <2>1, <2>2, <2>3, <2>4, ImagesAre DEF Longest
<1> QED
  BY <1>1, <1>2, <1>3, CurrentCall

(* Only the call in progress changes, and how it ends.                     *)
Later(sent, result) ==
  programs' = [programs EXCEPT ![Len(programs)] = [@ EXCEPT !.sent = sent, !.result = result]]

(* The other calls stay as they were.                                      *)
LEMMA CallGoesOn ==
  ASSUME programs \in Seq(Program), programs # << >>, NEW s \in Nat,
         NEW result \in {"none", "ok", "io", "truncated", "unrecognized", "mismatch"},
         Later(s, result), ImageProgrammed, result = "ok" => s >= file.size,
         s > file.size => file.kind = "bit" /\ s <= ALIGN_SIZE
  PROVE  /\ programs' \in Seq(Program) /\ programs' # << >> /\ Len(programs') = Len(programs)
         /\ Current' = [Current EXCEPT !.sent = s, !.result = result]
         /\ file' = file /\ total' = s /\ Current'.via = Current.via
         /\ DOMAIN programs' = DOMAIN programs
         /\ \A p \in DOMAIN programs : /\ programs'[p].file = programs[p].file
                                       /\ programs'[p].via = programs[p].via
         /\ ImageProgrammed'
<1> DEFINE n == Len(programs)  c == [Current EXCEPT !.sent = s, !.result = result]
<1>1. n \in 1 .. n /\ DOMAIN programs = 1 .. n /\ Current \in Program
  BY CurrentCall
<1>2. c \in Program /\ c.file = Current.file /\ c.via = Current.via
      /\ c.sent = s /\ c.result = result
  BY <1>1 DEF Program
<1>3. programs' = [programs EXCEPT ![n] = c]
  BY DEF Later, Current
<1> HIDE DEF c
<1>4. /\ programs' \in Seq(Program) /\ Len(programs') = n /\ programs'[n] = c
      /\ DOMAIN programs' = 1 .. n /\ programs' # << >>
      /\ \A p \in 1 .. n : p # n => programs'[p] = programs[p]
  <2>1. programs \in [1 .. n -> Program] /\ n \in Nat
    BY <1>1
  <2> HIDE DEF n
  <2>2. /\ programs' \in [1 .. n -> Program] /\ programs'[n] = c
        /\ \A p \in 1 .. n : p # n => programs'[p] = programs[p]
    BY <1>1, <1>2, <1>3, <2>1
  <2>3. programs' \in Seq(Program) /\ Len(programs') = n
    BY <2>1, <2>2
  <2> QED
    BY <1>1, <2>2, <2>3
<1>5. Current' = c /\ file' = file /\ total' = s
  BY <1>2, <1>4 DEF Current, file, total
<1>6. \A p \in DOMAIN programs : programs'[p].file = programs[p].file
                                 /\ programs'[p].via = programs[p].via
  BY <1>1, <1>2, <1>4 DEF Current
<1>7. ImageProgrammed'
  <2> SUFFICES ASSUME NEW p \in 1 .. n
               PROVE  /\ programs'[p].result = "ok" => programs'[p].sent >= programs'[p].file.size
                      /\ programs'[p].sent > programs'[p].file.size =>
                           programs'[p].file.kind = "bit" /\ programs'[p].sent <= ALIGN_SIZE
    BY <1>4 DEF ImageProgrammed
  <2>1. CASE p = n
    BY <1>2, <1>4, <2>1 DEF file
  <2>2. CASE p # n
    BY <1>1, <1>4, <2>2 DEF ImageProgrammed
  <2> QED
    BY <2>1, <2>2
<1> QED
  BY <1>1, <1>2, <1>4, <1>5, <1>6, <1>7 DEF c

(* The steps of fromFile.                                                  *)
LEMMA CallBegins ==
  ASSUME ProgramInv, CallFromFile
  PROVE  ProgramInv'
<1>1. PICK image \in Images :
        programs' = Append(programs, [file |-> image, via |-> via, sent |-> 0,
                                     result |-> "none"])
  BY DEF CallFromFile
<1> DEFINE c == [file |-> image, via |-> via, sent |-> 0, result |-> "none"]
           n == Len(programs)
<1>2. /\ via \in {"dma", "cpu", "file"} /\ via' = via /\ at' = "open" /\ chunk' = 0
      /\ programs \in Seq(Program) /\ n \in Nat
  BY DEF ProgramInv, CallFromFile
<1>3. c \in Program /\ programs' = Append(programs, c)
  BY <1>1, <1>2 DEF Program
<1> HIDE DEF c
<1>4. /\ programs' \in Seq(Program) /\ Len(programs') = n + 1 /\ programs'[n + 1] = c
      /\ \A p \in 1 .. n : programs'[p] = programs[p]
      /\ DOMAIN programs' = 1 .. n + 1 /\ DOMAIN programs = 1 .. n /\ programs' # << >>
  BY <1>2, <1>3
<1>5. Current' = c
  BY <1>4 DEF Current
<1>6. CallInv'
  BY <1>2, <1>4, <1>5 DEF CallInv, total, c
<1>7. ImageProgrammed'
  <2>1. ASSUME NEW p \in 1 .. n + 1 PROVE p \in 1 .. n \/ p = n + 1
    BY <1>2, <2>1
  <2>2. c.result = "none" /\ c.sent = 0 /\ c.file.size \in Nat
    BY ImagesAre DEF c
  <2>3. ~ c.sent > c.file.size
    BY <2>2
  <2> QED
    BY <1>2, <1>4, <2>1, <2>2, <2>3 DEF ProgramInv, ImageProgrammed
<1> QED
  BY <1>2, <1>4, <1>6, <1>7 DEF ProgramInv

(* fromFile returns, or throws.                                            *)
LEMMA CallReturns ==
  ASSUME ProgramInv, at \in {"open", "fill"}, at' = "idle", via' = via, chunk' \in Nat,
         NEW result \in {"ok", "io", "truncated", "unrecognized", "mismatch"}, Returns(result),
         result = "ok" => total >= file.size
  PROVE  ProgramInv'
<1>1. programs \in Seq(Program) /\ programs # << >> /\ ImageProgrammed
  BY DEF ProgramInv, CallInv
<1>2. total \in Nat /\ Len(programs) \in DOMAIN programs /\ Current \in Program
  BY <1>1, CurrentCall
<1>3. Later(total, result)
  <2>1. [Current EXCEPT !.result = result] = [Current EXCEPT !.sent = total, !.result = result]
    BY <1>2 DEF Program, total
  <2> QED
    BY <1>2, <2>1 DEF Returns, Later, Current
<1>4. total > file.size => file.kind = "bit" /\ total <= ALIGN_SIZE
  BY <1>1, <1>2 DEF ImageProgrammed, total, file, Current
<1>5. programs' \in Seq(Program) /\ ImageProgrammed'
  BY <1>1, <1>2, <1>3, <1>4, CallGoesOn
<1> QED
  BY <1>5 DEF ProgramInv

(* processFile up to the first beginProcessData.                           *)
LEMMA ImageOpens ==
  ASSUME ProgramInv, OpenImage
  PROVE  ProgramInv'
<1>1. CASE \E result \in {Refused, "io"} \ {"none"} : Returns(result) /\ at' = "idle"
  <2>1. PICK result \in {Refused, "io"} \ {"none"} : Returns(result)
    BY <1>1
  <2>2. result \in {"io", "truncated", "unrecognized", "mismatch"}
    BY DEF Refused
  <2>3. at \in {"open", "fill"} /\ at' = "idle" /\ via' = via /\ chunk' \in Nat
    BY <1>1 DEF OpenImage, ProgramInv
  <2> QED
    BY <2>1, <2>2, <2>3, CallReturns
<1>2. CASE Refused = "none" /\ at' = "begin" /\ chunk' = FirstChunk /\ UNCHANGED programs
  <2>1. /\ programs \in Seq(Program) /\ programs # << >> /\ via = Current.via /\ total = 0
        /\ via' = via
    BY DEF OpenImage, ProgramInv, CallInv
  <2>2. /\ FirstChunk \in Nat /\ VerifyStaticID /\ file.header <= file.length
        /\ file.kind = "bit" => FirstChunk <= Longest(file)
    BY <1>2, <2>1, FirstChunkFits
  <2>3. Current' = Current /\ file' = file /\ total' = total
    BY <1>2 DEF Current, file, total
  <2>4. VerifyStaticID'
    BY <2>1, <2>2, <2>3 DEF VerifyStaticID
  <2>5. file.header + 0 <= file.length /\ (file.kind = "bit" => 0 + FirstChunk <= Longest(file))
    BY <2>1, <2>2, CurrentCall
  <2>6. CallInv'
    BY <1>2, <2>1, <2>3, <2>4, <2>5 DEF CallInv
  <2> QED
    BY <1>2, <2>1, <2>2, <2>6 DEF ProgramInv, ImageProgrammed
<1> QED
  BY <1>1, <1>2 DEF OpenImage

(* beginProcessData: a round is at most as long as its memory.             *)
LEMMA RoundBegins ==
  ASSUME ProgramInv, beginProcessData
  PROVE  ProgramInv'
<1>1. /\ at = "begin" /\ at' = "fill" /\ UNCHANGED << via, programs >>
      /\ chunk' = IF chunk < MemorySize THEN chunk ELSE MemorySize
  BY DEF beginProcessData
<1>2. /\ programs \in Seq(Program) /\ programs # << >> /\ chunk \in Nat /\ MemorySize \in Nat
  BY <1>1, ImagesAre DEF ProgramInv, CallInv, MemorySize
<1>3. Current' = Current /\ file' = file /\ total' = total /\ (VerifyStaticID => VerifyStaticID')
  BY <1>1 DEF Current, file, total, VerifyStaticID
<1>4. chunk' \in Nat /\ chunk' <= chunk
  BY <1>1, <1>2
<1>5. file.kind = "bit" => total + chunk' <= Longest(file)
  BY <1>1, <1>2, <1>4, CurrentCall, ImagesAre DEF ProgramInv, CallInv, Longest
<1>6. CallInv'
  BY <1>1, <1>3, <1>5 DEF ProgramInv, CallInv
<1> QED
  BY <1>1, <1>4, <1>6 DEF ProgramInv, ImageProgrammed

(* read_all and endProcessData.                                            *)
LEMMA RoundSends ==
  ASSUME ProgramInv, Fill
  PROVE  ProgramInv'
<1> DEFINE n == IF chunk < Available THEN chunk ELSE Available
           Result(a) == IF a < n THEN "truncated"
                        ELSE IF file.kind = "bit" /\ total + a >= file.size THEN "ok" ELSE "none"
<1>1. PICK a \in 0 .. n :
        /\ Later(total + a, Result(a))
        /\ IF Result(a) # "none"
             THEN at' = "idle" /\ UNCHANGED chunk
             ELSE /\ at' = "begin"
                  /\ chunk' = IF file.kind = "bit" THEN file.size - (total + a) ELSE BUFFER_SIZE
  BY DEF Fill, ToRead, Later
<1>2. /\ at = "fill" /\ via' = via /\ n > 0 /\ (file.kind = "bit" => n = chunk)
  BY DEF Fill, ToRead
<1>3. /\ programs \in Seq(Program) /\ programs # << >> /\ chunk \in Nat /\ ImageProgrammed
      /\ via = Current.via /\ VerifyStaticID /\ file.header + total <= file.length
      /\ file.kind = "bit" => total + chunk <= Longest(file)
      /\ via \in {"none", "dma", "cpu", "file"}
  BY <1>2 DEF ProgramInv, CallInv
<1>4. /\ total \in Nat /\ file.header \in Nat /\ file.size \in Nat /\ file.length \in Nat
      /\ file.kind # "bit" => file.header = 0 /\ file.length = file.size
  BY <1>3, CurrentCall
<1>5. Available \in Nat /\ Available = (file.length - file.header) - total
  BY <1>3, <1>4 DEF Available
<1>6. n \in Nat /\ n <= Available /\ n <= chunk
  BY <1>3, <1>5
<1> DEFINE s == total + a  result == Result(a)
<1>7. /\ a \in Nat /\ a <= n /\ s \in Nat
      /\ file.header + s <= file.length /\ (file.kind = "bit" => s <= Longest(file))
  <2>1. Longest(file) \in Nat
    BY <1>4, ImagesAre DEF Longest
  <2> HIDE DEF n
  <2> QED
    BY <1>2, <1>3, <1>4, <1>5, <1>6, <2>1
<1>8. /\ result \in {"none", "ok", "truncated"}
      /\ result = "ok" => file.kind = "bit" /\ s >= file.size
  BY <1>7
<1>9. Later(s, result)
  BY <1>1
<1> HIDE DEF s, result, n, Result
<1>10. /\ result = "ok" => s >= file.size
       /\ s > file.size => file.kind = "bit" /\ s <= ALIGN_SIZE
  BY <1>4, <1>7, <1>8, ImagesAre DEF Longest
<1>11. /\ programs' \in Seq(Program) /\ programs' # << >> /\ file' = file /\ total' = s
       /\ Current'.via = Current.via /\ ImageProgrammed'
  BY <1>3, <1>7, <1>8, <1>9, <1>10, CallGoesOn
<1>12. CASE result # "none"
  BY <1>1, <1>2, <1>3, <1>11, <1>12 DEF ProgramInv, result
<1>13. CASE result = "none"
  <2>1. /\ at' = "begin"
        /\ chunk' = IF file.kind = "bit" THEN file.size - s ELSE BUFFER_SIZE
    BY <1>1, <1>13 DEF result, s
  <2>2. file.kind = "bit" => ~ s >= file.size
    BY <1>13 DEF result, Result, s
  <2>3. chunk' \in Nat /\ (file.kind = "bit" => s + chunk' <= Longest(file))
    BY <1>4, <1>7, <2>1, <2>2, ImagesAre DEF Longest
  <2>4. VerifyStaticID'
    BY <1>2, <1>3, <1>11 DEF VerifyStaticID
  <2>5. CallInv'
    BY <1>2, <1>3, <1>7, <1>11, <2>1, <2>3, <2>4 DEF CallInv
  <2> QED
    BY <1>2, <1>3, <1>11, <2>1, <2>3, <2>5 DEF ProgramInv
<1> QED
  BY <1>12, <1>13

(* The end of the file, or an error.                                       *)
LEMMA RoundEnds ==
  ASSUME ProgramInv, FillEnds
  PROVE  ProgramInv'
<1>1. at = "fill" /\ at' = "idle" /\ via' = via /\ chunk' \in Nat
  BY DEF FillEnds, ProgramInv
<1>2. /\ programs \in Seq(Program) /\ programs # << >> /\ file.header + total <= file.length
  BY <1>1 DEF ProgramInv, CallInv
<1>3. PICK result \in {"ok", "io", "truncated"} :
        Returns(result) /\ (result = "ok" => Available = 0 /\ file.kind # "bit")
  BY DEF FillEnds
<1>4. result = "ok" => total >= file.size
  BY <1>2, <1>3, CurrentCall DEF Available
<1> QED
  BY <1>1, <1>3, <1>4, CallReturns

(* Every step keeps ProgramInv.                                            *)
LEMMA NextProgram == ProgramInv /\ [Next]_progVars => ProgramInv'
<1> SUFFICES ASSUME ProgramInv, [Next]_progVars PROVE ProgramInv'
  OBVIOUS
<1>1. CASE /\ UNCHANGED << programs, chunk >>
           /\ via' \in {"none", "dma", "cpu", "file"}
           /\ at' \in {"idle", "overrun", "nop", "send", "flush", "flushing"}
  BY <1>1 DEF ProgramInv, ImageProgrammed
<1>2. CASE UNCHANGED << programs, chunk, via, at >>
  BY <1>2 DEF ProgramInv, CallInv, ImageProgrammed, Current, file, total, VerifyStaticID
<1>3. CASE Construct
  <2>1. at \notin {"open", "begin", "fill"}
    <3>1. programs \in Seq(Program) /\ programs # << >> => Current.via # "none"
      BY CurrentCall DEF Program
    <3> QED
      BY <1>3, <3>1 DEF Construct, ProgramInv, CallInv
  <2> QED
    BY <1>1, <1>3, <2>1 DEF Construct, ProgramInv
<1>4. CASE Destroy \/ SendNOP \/ Flushing \/ DeleteWriter
  BY <1>1, <1>4 DEF Destroy, SendNOP, Flushing, DeleteWriter, ProgramInv
<1>5. CASE ConstructFails \/ Configure \/ UNCHANGED progVars
  BY <1>2, <1>5 DEF ConstructFails, Configure, progVars
<1>6. CASE Overrun
  BY <1>1, <1>6 DEF Overrun, ProgramInv
<1> QED
  BY <1>3, <1>4, <1>5, <1>6, CallBegins, ImageOpens, RoundBegins, RoundSends, RoundEnds DEF Next

(* fromFile returns normally only if the whole image was sent, and what    *)
(* follows the image in its file is sent in the first round or not at all, *)
(* for all files, complete or not, that do not make processFile write past *)
(* its buffer.                                                             *)
THEOREM ImagesAreWhole == Spec => []ImageProgrammed
<1>1. Init => ProgramInv
  BY DEF Init, ProgramInv, ImageProgrammed
<1>2. ProgramInv => ImageProgrammed
  BY DEF ProgramInv
<1> QED
  BY <1>1, <1>2, NextProgram, PTL DEF Spec

-----------------------------------------------------------------------------
(* The words of the calls that may send to the ICAP, and NOPs.             *)
Senders ==
  {0} \cup {p \in DOMAIN programs : programs[p].via = "file" \/ programs[p].file.id # "wrong"}
Word == Senders \X Nat \X BOOLEAN

(* The blocks of the DMA node.  What is queued has been filled with such   *)
(* words, and what the ICAP or the file got are such words.                *)
Memory == [data : BOOLEAN, state : BOOLEAN, content : {NoItem} \cup Seq(Word)]
Filled == {i \in Indices("icap") : blocks["icap"][i].content \in Seq(Word)}

SinkInv ==
  /\ DOMAIN blocks = {"icap"} /\ DOMAIN blocks_head = {"icap"}
  /\ DOMAIN held = {"icap"} /\ DOMAIN queued = {"icap"}
  /\ blocks["icap"] \in Seq(Memory)
  /\ blocks["icap"] # << >> => blocks_head["icap"] \in Indices("icap")
  /\ held["icap"] \in Seq(Indices("icap"))
  /\ queued["icap"] \in Seq(Filled)
  /\ sink \in Seq(Word)

(* Calls go on, and their words stay words.                                *)
LEMMA LargerSeq ==
  ASSUME NEW S, NEW T, S \subseteq T, NEW s \in Seq(S)
  PROVE  s \in Seq(T)
OBVIOUS

(* A call that may send stays one.                                         *)
LEMMA SendersStay ==
  ASSUME DOMAIN programs \subseteq DOMAIN programs',
         \A p \in DOMAIN programs : /\ programs'[p].file = programs[p].file
                                   /\ programs'[p].via = programs[p].via
  PROVE  Senders \subseteq Senders' /\ Word \subseteq Word'
BY DEF Senders, Word

(* Steps that leave the fifo and the sink alone.                           *)
LEMMA MemoryStays ==
  ASSUME SinkInv, Word \subseteq Word', UNCHANGED << blocks, blocks_head, held, queued, sink >>
  PROVE  SinkInv'
<1>1. \A s \in Seq(Word) : s \in Seq(Word')
  BY LargerSeq
<1>2. Seq(Word)' = Seq(Word')
  OBVIOUS
<1>3. Memory \subseteq Memory' /\ Filled \subseteq Filled'
  BY <1>1 DEF Memory, Filled, Indices
<1>4. blocks["icap"] \in Seq(Memory') /\ queued["icap"] \in Seq(Filled') /\ sink \in Seq(Word')
  BY <1>1, <1>3, LargerSeq DEF SinkInv
<1> QED
  BY <1>4 DEF SinkInv, Indices

(* Steps of the fifo that leave what the blocks hold, and queue nothing.   *)
LEMMA ContentStays ==
  ASSUME SinkInv, Word' = Word, DOMAIN blocks' = {"icap"}, DOMAIN blocks_head' = {"icap"},
         DOMAIN held' = {"icap"}, DOMAIN queued' = {"icap"},
         blocks'["icap"] \in Seq(Memory), Len(blocks'["icap"]) = Len(blocks["icap"]),
         \A i \in Indices("icap") : blocks'["icap"][i].content = blocks["icap"][i].content,
         blocks["icap"] # << >> => blocks_head'["icap"] \in Indices("icap"),
         held'["icap"] \in Seq(Indices("icap")), queued'["icap"] \in Seq(Filled),
         sink' \in Seq(Word)
  PROVE  SinkInv'
<1>1. Indices("icap")' = Indices("icap") /\ Memory' = Memory
  BY DEF Indices, Memory
<1>2. Filled' = Filled
  BY <1>1 DEF Filled
<1>3. blocks'["icap"] # << >> => blocks["icap"] # << >>
  BY DEF SinkInv
<1> QED
  BY <1>1, <1>2, <1>3 DEF SinkInv

(* dequeue() and flush() take back the block at the head.                  *)
LEMMA TakesHead ==
  ASSUME SinkInv, TakeHead("icap")
  PROVE  /\ DOMAIN blocks' = {"icap"} /\ DOMAIN blocks_head' = {"icap"}
         /\ blocks'["icap"] \in Seq(Memory) /\ Len(blocks'["icap"]) = Len(blocks["icap"])
         /\ \A i \in Indices("icap") : blocks'["icap"][i].content = blocks["icap"][i].content
         /\ blocks["icap"] # << >> => blocks_head'["icap"] \in Indices("icap")
<1> DEFINE B == blocks["icap"]  h == blocks_head["icap"]  n == Len(B)
<1>1. /\ DOMAIN blocks = {"icap"} /\ DOMAIN blocks_head = {"icap"} /\ B \in Seq(Memory)
      /\ n \in Nat /\ Indices("icap") = 1 .. n /\ (B # << >> => h \in 1 .. n)
      /\ (1 .. n # {} => B # << >>)
  BY DEF SinkInv, Indices
<1>2. blocks_head' = [blocks_head EXCEPT !["icap"] = IF h = n THEN 1 ELSE h + 1]
  BY DEF TakeHead, After
<1>3. DOMAIN blocks_head' = {"icap"} /\ (B # << >> => blocks_head'["icap"] \in 1 .. n)
  BY <1>1, <1>2
<1>4. CASE UNCHANGED blocks
  BY <1>1, <1>3, <1>4
<1>5. CASE blocks' = [blocks EXCEPT !["icap"][h].state = FALSE]
  <2> DEFINE c == [B[h] EXCEPT !.state = FALSE]
  <2>1. B \in [1 .. n -> Memory]
    BY <1>1
  <2>2. h \in 1 .. n => c \in Memory /\ c.content = B[h].content
    BY <1>1, <2>1 DEF Memory
  <2>3. DOMAIN blocks' = {"icap"} /\ blocks'["icap"] = [B EXCEPT ![h] = c]
    BY <1>1, <1>5
  <2> HIDE DEF c, B, n
  <2>4. /\ blocks'["icap"] \in [1 .. n -> Memory]
        /\ \A i \in 1 .. n : blocks'["icap"][i].content = B[i].content
    BY <2>1, <2>2, <2>3
  <2>5. blocks'["icap"] \in Seq(Memory) /\ Len(blocks'["icap"]) = n
    BY <1>1, <2>4
  <2> QED
    BY <1>1, <1>3, <2>3, <2>4, <2>5 DEF B, n
<1> QED
  BY <1>4, <1>5 DEF TakeHead, DriverReturns

(* dequeue().                                                              *)
LEMMA Dequeues ==
  ASSUME SinkInv, Word' = Word, sink' = sink, dequeue("icap")
  PROVE  SinkInv'
<1>1. /\ TakeHead("icap") /\ Len(held["icap"]) < Len(blocks["icap"]) /\ queued' = queued
      /\ held' = [held EXCEPT !["icap"] = Append(@, blocks_head["icap"])]
  BY DEF dequeue
<1>2. blocks["icap"] # << >> /\ blocks_head["icap"] \in Indices("icap")
  BY <1>1 DEF SinkInv
<1>3. DOMAIN held' = {"icap"} /\ held'["icap"] \in Seq(Indices("icap"))
  BY <1>1, <1>2 DEF SinkInv
<1>4. DOMAIN queued' = {"icap"} /\ queued'["icap"] \in Seq(Filled) /\ sink' \in Seq(Word)
  BY <1>1 DEF SinkInv
<1> QED
  BY <1>1, <1>2, <1>3, <1>4, TakesHead, ContentStays

(* flush(), the call and one block of it.                                  *)
LEMMA Flushes ==
  ASSUME SinkInv, Word' = Word, sink' = sink,
         CallFlush("icap") \/ Flush("icap")
  PROVE  SinkInv'
<1>1. held' = held /\ queued' = queued
  BY DEF CallFlush, Flush, driverVars
<1>2. /\ DOMAIN held' = {"icap"} /\ held'["icap"] \in Seq(Indices("icap"))
      /\ DOMAIN queued' = {"icap"} /\ queued'["icap"] \in Seq(Filled) /\ sink' \in Seq(Word)
  BY <1>1 DEF SinkInv
<1>3. CASE CallFlush("icap")
  <2>1. UNCHANGED << blocks, blocks_head >>
    BY <1>3 DEF CallFlush
  <2> QED
    BY <1>1, <2>1, MemoryStays
<1>4. CASE Flush("icap")
  BY <1>2, <1>4, TakesHead, ContentStays DEF Flush
<1> QED
  BY <1>3, <1>4

(* enqueue(): the block is filled with words of those that may send.       *)
LEMMA Enqueues ==
  ASSUME SinkInv, Word' = Word, sink' = sink, NEW item \in Seq(Word), enqueue("icap", item)
  PROVE  SinkInv'
<1> DEFINE B == blocks["icap"]  i == Head(held["icap"])  n == Len(B)
           c == [B[i] EXCEPT !.state = TRUE, !.content = item]
<1>1. /\ held["icap"] # << >> /\ blocks' = [blocks EXCEPT !["icap"][i] = c]
      /\ queued' = [queued EXCEPT !["icap"] = Append(@, i)]
      /\ held' = [held EXCEPT !["icap"] = Tail(@)] /\ blocks_head' = blocks_head
  BY DEF enqueue
<1>2. /\ B \in Seq(Memory) /\ n \in Nat /\ Indices("icap") = 1 .. n /\ i \in 1 .. n
      /\ B \in [1 .. n -> Memory]
      /\ Tail(held["icap"]) \in Seq(1 .. n)
  BY <1>1 DEF SinkInv, Indices
<1>3. c \in Memory /\ c.content = item
  BY <1>2 DEF Memory
<1>4. /\ DOMAIN blocks' = {"icap"} /\ blocks'["icap"] = [B EXCEPT ![i] = c]
      /\ DOMAIN held' = {"icap"} /\ held'["icap"] = Tail(held["icap"])
      /\ DOMAIN queued' = {"icap"} /\ queued'["icap"] = Append(queued["icap"], i)
      /\ DOMAIN blocks_head' = {"icap"} /\ blocks_head'["icap"] = blocks_head["icap"]
  BY <1>1 DEF SinkInv
<1> HIDE DEF c
<1>5. /\ blocks'["icap"] \in [1 .. n -> Memory] /\ blocks'["icap"][i] = c
      /\ \A k \in 1 .. n : k # i => blocks'["icap"][k] = B[k]
  <2> HIDE DEF B, i, n
  <2> QED
    BY <1>2, <1>3, <1>4
<1>6. blocks'["icap"] \in Seq(Memory) /\ Len(blocks'["icap"]) = n
  <2> DEFINE d == blocks'["icap"]
  <2>1. d \in [1 .. n -> Memory] /\ n \in Nat
    BY <1>2, <1>5
  <2> HIDE DEF d, n
  <2>2. d \in Seq(Memory) /\ Len(d) = n
    BY <2>1
  <2> QED
    BY <2>2 DEF d
<1>7. Indices("icap")' = 1 .. n /\ Memory' = Memory
  BY <1>6 DEF Indices, Memory
<1>8. Filled \subseteq Filled' /\ i \in Filled'
  <2> HIDE DEF i
  <2>1. \A k \in Filled : k \in 1 .. n /\ B[k].content \in Seq(Word)
    BY <1>2 DEF Filled
  <2>2. \A k \in Filled : blocks'["icap"][k].content \in Seq(Word)
    BY <1>3, <1>5, <2>1
  <2>3. Filled' = {k \in 1 .. n : blocks'["icap"][k].content \in Seq(Word)}
    BY <1>7 DEF Filled
  <2> QED
    BY <1>2, <1>3, <1>5, <2>1, <2>2, <2>3
<1>9. queued'["icap"] \in Seq(Filled')
  <2>1. queued["icap"] \in Seq(Filled')
    BY <1>8, LargerSeq DEF SinkInv
  <2> HIDE DEF i
  <2> QED
    BY <1>4, <1>8, <2>1
<1>10. blocks'["icap"] # << >> => blocks_head'["icap"] \in 1 .. n
  <2>1. n > 0
    BY <1>2
  <2>2. B # << >>
    BY <2>1
  <2> QED
    BY <1>2, <1>4, <2>2 DEF SinkInv
<1> HIDE DEF B, i, n
<1> QED
  BY <1>2, <1>4, <1>6, <1>7, <1>9, <1>10 DEF SinkInv

(* reconfigure() and dispose(): nothing is queued that was not.            *)
LEMMA Reconfigures ==
  ASSUME SinkInv, Word' = Word, sink' = sink, Reconfigure("icap", programmer_numblocks)
  PROVE  SinkInv'
<1> DEFINE n == programmer_numblocks  d == blocks'["icap"]
<1>1. n \in Nat \ {0}
  BY ProgrammerAssumption, FifoAssumption
<1>2. /\ DOMAIN blocks' = {"icap"} /\ DOMAIN blocks_head' = {"icap"} /\ DOMAIN held' = {"icap"}
      /\ DOMAIN queued' = {"icap"}
      /\ blocks_head'["icap"] = 1 /\ held'["icap"] = << >> /\ queued'["icap"] = << >>
  BY DEF SinkInv, Reconfigure, MayReconfigure, DriverForgets, Rewind
<1>3. d = [i \in 1 .. n |-> Block(TRUE, FALSE)]
  BY DEF SinkInv, Reconfigure
<1>4. Block(TRUE, FALSE) \in Memory
  BY DEF Block, Memory
<1> HIDE DEF n, d
<1>5. d \in [1 .. n -> Memory]
  BY <1>3, <1>4
<1>6. d \in Seq(Memory) /\ Len(d) = n
  BY <1>1, <1>5
<1>7. Memory' = Memory /\ Indices("icap")' = 1 .. n
  BY <1>6 DEF Memory, Indices, d
<1>8. blocks_head'["icap"] \in 1 .. n /\ held'["icap"] \in Seq(1 .. n)
      /\ queued'["icap"] \in Seq(Filled')
  BY <1>1, <1>2
<1>9. sink' \in Seq(Word')
  BY DEF SinkInv
<1> QED
  BY <1>2, <1>6, <1>7, <1>8, <1>9 DEF SinkInv, d

(* dispose(), and a reconfigure() that is refused.                         *)
LEMMA Unmaps ==
  ASSUME SinkInv, Word' = Word, sink' = sink, ReconfigureRefused("icap") \/ dispose("icap")
  PROVE  SinkInv'
<1> DEFINE B == blocks["icap"]  n == Len(B)  d == blocks'["icap"]
<1>1. /\ DOMAIN blocks' = {"icap"} /\ blocks_head' = blocks_head /\ held' = held
      /\ DOMAIN queued' = {"icap"} /\ queued'["icap"] \in {queued["icap"], << >>}
      /\ d = [i \in 1 .. n |-> [B[i] EXCEPT !.data = FALSE]]
  BY DEF SinkInv, ReconfigureRefused, dispose, MayReconfigure, DriverForgets, Unmapped, Indices
<1>2. n \in Nat /\ B \in [1 .. n -> Memory]
  BY DEF SinkInv
<1> HIDE DEF d, B, n
<1>3. ASSUME NEW i \in 1 .. n
      PROVE  d[i] \in Memory /\ d[i].content = B[i].content
  <2>1. d[i] = [B[i] EXCEPT !.data = FALSE] /\ B[i] \in Memory
    BY <1>1, <1>2
  <2> QED
    BY <2>1 DEF Memory
<1>4. d \in [1 .. n -> Memory]
  BY <1>1, <1>3
<1>5. d \in Seq(Memory) /\ Len(d) = n
  BY <1>2, <1>4
<1>6. queued'["icap"] \in Seq(Filled) /\ sink' \in Seq(Word)
  <2>1. queued["icap"] \in Seq(Filled) /\ sink \in Seq(Word)
    BY DEF SinkInv
  <2>2. << >> \in Seq(Filled)
    OBVIOUS
  <2> QED
    BY <1>1, <2>1, <2>2
<1>7. /\ DOMAIN blocks_head' = {"icap"} /\ DOMAIN held' = {"icap"}
      /\ blocks["icap"] # << >> => blocks_head'["icap"] \in Indices("icap")
      /\ held'["icap"] \in Seq(Indices("icap"))
  BY <1>1 DEF SinkInv
<1>8. \A i \in Indices("icap") : blocks'["icap"][i].content = blocks["icap"][i].content
  BY <1>3 DEF Indices, d, B, n
<1>9. blocks'["icap"] \in Seq(Memory) /\ Len(blocks'["icap"]) = Len(blocks["icap"])
  BY <1>5 DEF d, B, n
<1> QED
  BY <1>1, <1>6, <1>7, <1>8, <1>9, ContentStays

(* The words that are sent: those of the call in progress, and NOPs.       *)
LEMMA NopIsWord == Nop \in Word
BY DEF Nop, Word, Senders

(* What sendNOP sends.                                                     *)
LEMMA NOPsAreWords == NOPs \in Seq(Word)
<1> DEFINE m == (ESTIMATED_FIFO_SIZE + 1) \div 2  n == 2 * m
           l == IF via = "dma" /\ n > programmer_blocksize THEN programmer_blocksize ELSE n
<1>1. m \in Nat
  BY ProgrammerAssumption
<1>2. n \in Nat
  <2> HIDE DEF m
  <2> QED
    BY <1>1
<1>3. l \in Nat
  <2> HIDE DEF n
  <2> QED
    BY <1>2, ImagesAre
<1>4. NOPs = [k \in 1 .. l |-> Nop]
  BY DEF NOPs
<1> HIDE DEF l
<1> QED
  BY <1>3, <1>4, NopIsWord

(* What endProcessData makes of a piece of an odd length.                  *)
LEMMA PaddedAreWords ==
  ASSUME NEW words \in Seq(Word)
  PROVE  Padded(words) \in Seq(Word)
<1>1. Padded(words) = words \/ Padded(words) = Append(words, Nop)
  BY DEF Padded
<1>2. Append(words, Nop) \in Seq(Word)
  BY NopIsWord
<1> QED
  BY <1>1, <1>2

(* A piece of the image: its call was not refused for its ID.              *)
LEMMA ImageWords ==
  ASSUME ProgramInv, at = "fill", NEW n \in Nat
  PROVE  Words(n) \in Seq(Word) /\ Len(Words(n)) = n
<1>1. programs \in Seq(Program) /\ programs # << >> /\ via = Current.via /\ VerifyStaticID
  BY DEF ProgramInv, CallInv
<1>2. Len(programs) \in Senders
  BY <1>1, CurrentCall DEF Senders, VerifyStaticID, file, Current
<1>3. \A k \in 1 .. n : << Len(programs), total + k, file.kind = "bit" >> \in Word
  <2>1. total \in Nat
    BY <1>1, CurrentCall
  <2>2. (file.kind = "bit") \in BOOLEAN
    OBVIOUS
  <2> DEFINE b == file.kind = "bit"  p == Len(programs)
  <2> HIDE DEF b, p
  <2>3. \A k \in 1 .. n : << p, total + k, b >> \in Senders \X Nat \X BOOLEAN
    <3>1. p \in Senders /\ b \in BOOLEAN
      BY <1>2, <2>2 DEF b, p
    <3>2. \A k \in 1 .. n : total + k \in Nat
      BY <2>1
    <3> QED
      BY <3>1, <3>2
  <2> QED
    BY <2>3 DEF Word, b, p
<1>4. Words(n) \in [1 .. n -> Word]
  BY <1>3 DEF Words
<1> DEFINE w == Words(n)
<1> HIDE DEF w
<1>5. w \in Seq(Word) /\ Len(w) = n
  BY <1>4 DEF w
<1> QED
  BY <1>5 DEF w

-----------------------------------------------------------------------------
(* The steps of the object and of the ICAP.                                *)
LEMMA SameSenders ==
  ASSUME DOMAIN programs' = DOMAIN programs,
         \A p \in DOMAIN programs : /\ programs'[p].file = programs[p].file
                                   /\ programs'[p].via = programs[p].via
  PROVE  Word' = Word
BY DEF Senders, Word

(* endProcessData: the piece goes to a block, or to the CPU fifo or file.  *)
LEMMA SinkFills ==
  ASSUME ProgramInv, SinkInv, Fill
  PROVE  SinkInv'
<1> DEFINE n == IF chunk < Available THEN chunk ELSE Available
           Result(a) == IF a < n THEN "truncated"
                        ELSE IF file.kind = "bit" /\ total + a >= file.size THEN "ok" ELSE "none"
<1>1. PICK a \in 0 .. n :
        EndProcessData(Words(n), a) /\ Later(total + a, Result(a))
  BY DEF Fill, ToRead, Later
<1>2. at = "fill" /\ programs \in Seq(Program) /\ programs # << >> /\ chunk \in Nat
      /\ file.header + total <= file.length
  BY DEF Fill, ProgramInv, CallInv
<1>3. Available \in Nat /\ total \in Nat
  BY <1>2, CurrentCall DEF Available
<1> HIDE DEF Result
<1>4. n \in Nat /\ a \in Nat /\ a <= n
  BY <1>2, <1>3
<1> DEFINE words == Words(n)
<1> HIDE DEF n
<1>5. words \in Seq(Word) /\ Len(words) = n
  BY <1>2, <1>4, ImageWords
<1>6. Word' = Word
  <2>1. /\ DOMAIN programs' = DOMAIN programs
        /\ \A p \in DOMAIN programs : /\ programs'[p].file = programs[p].file
                                      /\ programs'[p].via = programs[p].via
    <3> DEFINE l == Len(programs)
               c == [programs[l] EXCEPT !.sent = total + a, !.result = Result(a)]
    <3>1. programs' = [programs EXCEPT ![l] = c]
      BY <1>1 DEF Later
    <3>2. c.file = programs[l].file /\ c.via = programs[l].via
      BY <1>2, CurrentCall DEF Program, Current
    <3> HIDE DEF c
    <3> QED
      BY <1>2, <3>1, <3>2
  <2> QED
    BY <2>1, SameSenders
<1> HIDE DEF words
<1>7. CASE via = "dma"
  <2>1. enqueue("icap", Padded(words)) /\ sink' = sink
    BY <1>1, <1>7 DEF EndProcessData, words
  <2> QED
    BY <1>5, <1>6, <2>1, PaddedAreWords, Enqueues
<1>8. CASE via # "dma"
  <2>1. sink' = sink \o SubSeq(words, 1, a) /\ UNCHANGED << blocks, blocks_head, held, queued >>
    BY <1>1, <1>8 DEF EndProcessData, fifoVars, driverVars, words
  <2>2. SubSeq(words, 1, a) \in Seq(Word)
    BY <1>4, <1>5
  <2>3. sink' \in Seq(Word)
    BY <2>1, <2>2 DEF SinkInv
  <2>4. Memory' = Memory /\ Indices("icap")' = Indices("icap") /\ Filled' = Filled
    BY <1>6, <2>1 DEF Memory, Indices, Filled
  <2> QED
    BY <1>6, <2>1, <2>3, <2>4 DEF SinkInv
<1> QED
  BY <1>7, <1>8

(* The ICAP takes the oldest block.                                        *)
LEMMA SinkConfigures ==
  ASSUME SinkInv, Configure
  PROVE  SinkInv'
<1> DEFINE q == queued["icap"]  content == blocks["icap"][Head(q)].content
<1>1. /\ q # << >> /\ sink' = sink \o content /\ queued' = [queued EXCEPT !["icap"] = Tail(@)]
      /\ UNCHANGED << blocks, blocks_head, held, programs >>
  BY DEF Configure
<1>2. q \in Seq(Filled) /\ sink \in Seq(Word)
  BY DEF SinkInv
<1>3. Head(q) \in Filled /\ Tail(q) \in Seq(Filled)
  BY <1>1, <1>2
<1>4. content \in Seq(Word)
  BY <1>3 DEF Filled
<1>5. Word' = Word
  BY <1>1 DEF Word, Senders
<1>6. Memory' = Memory /\ Indices("icap")' = Indices("icap") /\ Filled' = Filled
  BY <1>1, <1>5 DEF Memory, Indices, Filled
<1>7. DOMAIN queued' = {"icap"} /\ queued'["icap"] \in Seq(Filled)
  BY <1>1, <1>3 DEF SinkInv
<1>8. sink' \in Seq(Word)
  <2> HIDE DEF content
  <2> QED
    BY <1>1, <1>2, <1>4
<1> QED
  BY <1>1, <1>5, <1>6, <1>7, <1>8 DEF SinkInv

(* The destructor without a DMA node writes its NOPs itself.               *)
LEMMA SinkDestroyed ==
  ASSUME ProgramInv, SinkInv, Destroy
  PROVE  SinkInv'
<1>1. UNCHANGED << blocks, blocks_head, held, queued, programs >>
  BY DEF Destroy, fifoVars, driverVars
<1>2. sink' = sink \/ sink' = sink \o NOPs
  <2>1. via \in {"dma", "cpu", "file"}
    BY DEF Destroy, ProgramInv
  <2> QED
    BY <2>1 DEF Destroy
<1>3. sink' \in Seq(Word)
  <2> DEFINE W == Word  nops == NOPs
  <2>1. sink \in Seq(W) /\ nops \in Seq(W)
    BY NOPsAreWords DEF SinkInv
  <2>2. sink' = sink \/ sink' = sink \o nops
    BY <1>2
  <2> HIDE DEF W, nops
  <2>3. sink \o nops \in Seq(W)
    BY <2>1
  <2>4. sink' \in Seq(W)
    BY <2>1, <2>2, <2>3
  <2> QED
    BY <2>4 DEF W
<1>4. Word' = Word
  BY <1>1 DEF Word, Senders
<1>5. Memory' = Memory /\ Indices("icap")' = Indices("icap") /\ Filled' = Filled
  BY <1>1, <1>4 DEF Memory, Indices, Filled
<1> QED
  BY <1>1, <1>3, <1>4, <1>5 DEF SinkInv

(* Every step keeps SinkInv.                                               *)
LEMMA NextSink == ProgramInv /\ SinkInv /\ [Next]_progVars => SinkInv'
<1> SUFFICES ASSUME ProgramInv, SinkInv, [Next]_progVars PROVE SinkInv'
  OBVIOUS
<1>1. ASSUME UNCHANGED programs PROVE Word' = Word
  BY <1>1 DEF Word, Senders
<1>2. ASSUME Word \subseteq Word', UNCHANGED << fifoVars, sink >> PROVE SinkInv'
  BY <1>2, MemoryStays DEF fifoVars, driverVars
<1>3. CASE Construct \/ ConstructFails
  <2>1. UNCHANGED << programs, sink >>
    BY <1>3 DEF Construct, ConstructFails
  <2>2. \/ Reconfigure("icap", programmer_numblocks) \/ ReconfigureRefused("icap")
        \/ UNCHANGED fifoVars
    BY <1>3 DEF Construct, ConstructFails
  <2> QED
    BY <1>1, <1>2, <2>1, <2>2, Reconfigures, Unmaps
<1>4. CASE CallFromFile
  <2>1. PICK c : programs' = Append(programs, c)
    BY <1>4 DEF CallFromFile
  <2>2. /\ DOMAIN programs \subseteq DOMAIN programs'
        /\ \A p \in DOMAIN programs : programs'[p] = programs[p]
    BY <2>1 DEF ProgramInv
  <2>3. UNCHANGED << fifoVars, sink >>
    BY <1>4 DEF CallFromFile
  <2> QED
    BY <1>2, <2>2, <2>3, SendersStay
<1>5. CASE OpenImage \/ FillEnds
  <2>1. programs' = programs \/ \E result : Returns(result)
    BY <1>5 DEF OpenImage, FillEnds
  <2>2. programs \in Seq(Program) /\ programs # << >>
    BY <1>5 DEF OpenImage, FillEnds, ProgramInv, CallInv
  <2>3. /\ DOMAIN programs' = DOMAIN programs
        /\ \A p \in DOMAIN programs : /\ programs'[p].file = programs[p].file
                                      /\ programs'[p].via = programs[p].via
    BY <2>1, <2>2, CurrentCall DEF Returns, Program, Current
  <2>4. UNCHANGED << fifoVars, sink >>
    BY <1>5 DEF OpenImage, FillEnds
  <2> QED
    BY <1>2, <2>3, <2>4, SendersStay
<1>6. CASE beginProcessData \/ SendNOP
  <2>1. UNCHANGED << programs, sink >>
    BY <1>6 DEF beginProcessData, SendNOP
  <2>2. dequeue("icap") \/ enqueue("icap", NOPs) \/ UNCHANGED fifoVars
    BY <1>6 DEF beginProcessData, SendNOP, GetBlock
  <2> QED
    BY <1>1, <1>2, <2>1, <2>2, Dequeues, Enqueues, NOPsAreWords
<1>7. CASE Flushing
  <2>1. UNCHANGED << programs, sink >> /\ (CallFlush("icap") \/ Flush("icap"))
    BY <1>7 DEF Flushing
  <2> QED
    BY <1>1, <2>1, Flushes
<1>8. CASE DeleteWriter
  <2>1. UNCHANGED << programs, sink >> /\ dispose("icap")
    BY <1>8 DEF DeleteWriter
  <2> QED
    BY <1>1, <2>1, Unmaps
<1>9. CASE Overrun \/ UNCHANGED progVars
  BY <1>1, <1>2, <1>9 DEF Overrun, progVars
<1> QED
  BY <1>3, <1>4, <1>5, <1>6, <1>7, <1>8, <1>9, SinkFills, SinkConfigures, SinkDestroyed DEF Next

(* A call that was refused sends no word.                                  *)
LEMMA SinkSafe == ProgramInv /\ SinkInv => WrongIdNotSent
<1> SUFFICES ASSUME ProgramInv, SinkInv, NEW p \in DOMAIN programs,
                    programs[p].via # "file", programs[p].file.id = "wrong"
             PROVE  /\ ~ HasWordOf(p, sink)
                    /\ \A k \in DOMAIN queued["icap"] :
                         ~ HasWordOf(p, blocks["icap"][queued["icap"][k]].content)
  BY DEF WrongIdNotSent
<1>1. p \notin Senders
  BY DEF ProgramInv, Senders
<1>2. ASSUME NEW words \in Seq(Word) PROVE ~ HasWordOf(p, words)
  <2>1. \A k \in DOMAIN words : words[k] \in Word
    BY <1>2
  <2>2. \A w \in Word : w[1] \in Senders
    BY DEF Word
  <2> QED
    BY <1>1, <2>1, <2>2 DEF HasWordOf
<1>3. ASSUME NEW k \in DOMAIN queued["icap"]
      PROVE  blocks["icap"][queued["icap"][k]].content \in Seq(Word)
  <2>1. queued["icap"][k] \in Filled
    BY DEF SinkInv
  <2> QED
    BY <2>1 DEF Filled
<1> QED
  BY <1>2, <1>3 DEF SinkInv

(* Nothing of a partial image made for another static image is sent to the *)
(* ICAP, nor waits in a block to be sent.                                  *)
THEOREM WrongImagesAreNotSent == Spec => []WrongIdNotSent
<1>1. Init => ProgramInv /\ SinkInv
  <2> SUFFICES ASSUME Init PROVE ProgramInv /\ SinkInv
    OBVIOUS
  <2>1. ProgramInv
    BY DEF Init, ProgramInv, ImageProgrammed
  <2>2. Fifos = {"icap"}
    BY ProgrammerAssumption
  <2>3. SinkInv
    BY <2>2 DEF Init, FifoInit, SinkInv, Indices
  <2> QED
    BY <2>1, <2>3
<1> QED
  BY <1>1, NextProgram, NextSink, SinkSafe, PTL DEF Spec
-----------------------------------------------------------------------------
(* The stream of words to the ICAP, in parts: what becomes of their order  *)
(* and of the padding when parts are added and when they are put together. *)

(* No padding comes after a word of image p.                               *)
Open(p, parts) ==
  \A a, b \in Places(parts) :
    WordAt(parts, a)[1] = p /\ WordAt(parts, b) = Nop => ~ Before(a, b)

(* All the words of a stream.                                              *)
WordsOf(parts) == {WordAt(parts, a) : a \in Places(parts)}

(* Padding that comes between words of one image.                          *)
LEMMA ClosedMeans ==
  ASSUME NEW parts
  PROVE  Closed(parts) <=>
           \A a, b, c \in Places(parts) :
             WordAt(parts, b) = Nop /\ Before(a, b) /\ Before(b, c)
             /\ WordAt(parts, a)[1] = WordAt(parts, c)[1] => WordAt(parts, a)[1] = 0
<1>1. Nop[1] = 0
  BY DEF Nop
<1> QED
  BY <1>1 DEF Closed, ImagesOf

(* The same words in the same order, in other parts.                       *)
LEMMA StreamRearranged ==
  ASSUME NEW parts, NEW next, NEW back \in [Places(next) -> Places(parts)],
         \A b \in Places(next) : WordAt(parts, back[b]) = WordAt(next, b),
         \A b, c \in Places(next) : Before(b, c) => Before(back[b], back[c]),
         \A a \in Places(parts) : \E b \in Places(next) : back[b] = a
  PROVE  /\ WordsOf(next) = WordsOf(parts)
         /\ InOrder(parts) => InOrder(next)
         /\ Closed(parts) => Closed(next)
         /\ \A p \in Nat : Open(p, parts) => Open(p, next)
<1>1. WordsOf(next) = WordsOf(parts)
  BY DEF WordsOf
<1>2. InOrder(parts) => InOrder(next)
  BY DEF InOrder, ImagePlaces
<1>3. Closed(parts) => Closed(next)
  BY ClosedMeans
<1>4. ASSUME NEW p \in Nat, Open(p, parts) PROVE Open(p, next)
  BY <1>4 DEF Open
<1> QED
  BY <1>1, <1>2, <1>3, <1>4

(* Some words are added at the end, from place base + 1 of part j on.      *)
Extends(parts, next, words, j, base) ==
  /\ \A a \in Places(parts) :
       /\ a \in Places(next) /\ WordAt(next, a) = WordAt(parts, a)
       /\ \A k \in DOMAIN words : Before(a, << j, base + k >>) /\ ~ Before(<< j, base + k >>, a)
  /\ \A k \in DOMAIN words :
       << j, base + k >> \in Places(next) /\ WordAt(next, << j, base + k >>) = words[k]
  /\ \A b \in Places(next) : b \in Places(parts) \/ \E k \in DOMAIN words : b = << j, base + k >>

(* NOPs alone do no harm when no call is in progress.                      *)
LEMMA NopsAdded ==
  ASSUME NEW parts, NEW next, NEW words, NEW j, NEW base,
         Extends(parts, next, words, j, base), \A k \in DOMAIN words : words[k] = Nop
  PROVE  /\ WordsOf(next) \ {Nop} = WordsOf(parts) \ {Nop}
         /\ InOrder(parts) => InOrder(next)
         /\ Closed(parts) => Closed(next)
<1>1. WordsOf(next) \ {Nop} = WordsOf(parts) \ {Nop}
  <2>1. ASSUME NEW a \in Places(parts) PROVE WordAt(parts, a) \in WordsOf(next)
    BY <2>1 DEF Extends, WordsOf
  <2>2. ASSUME NEW b \in Places(next)
        PROVE  WordAt(next, b) = Nop \/ WordAt(next, b) \in WordsOf(parts)
    BY <2>2 DEF Extends, WordsOf
  <2> QED
    BY <2>1, <2>2 DEF WordsOf
<1>2. ImagePlaces(next) = ImagePlaces(parts)
  BY DEF Extends, ImagePlaces
<1>3. \A a \in ImagePlaces(parts) : WordAt(next, a) = WordAt(parts, a)
  BY DEF Extends, ImagePlaces
<1>4. InOrder(parts) => InOrder(next)
  BY <1>2, <1>3 DEF InOrder
<1>5. ASSUME Closed(parts),
             NEW a \in Places(next), NEW b \in Places(next), NEW c \in Places(next),
             WordAt(next, b) = Nop, Before(a, b), Before(b, c),
             WordAt(next, a)[1] = WordAt(next, c)[1]
      PROVE  WordAt(next, a)[1] = 0
  <2>1. CASE c \notin Places(parts)
    <3>1. WordAt(next, c) = Nop
      BY <2>1 DEF Extends
    <3> QED
      BY <1>5, <3>1 DEF Nop
  <2>2. CASE c \in Places(parts)
    <3>1. b \in Places(parts)
      BY <1>5, <2>2 DEF Extends
    <3>2. a \in Places(parts)
      BY <1>5, <3>1 DEF Extends
    <3> QED
      BY <1>5, <2>2, <3>1, <3>2, ClosedMeans DEF Extends
  <2> QED
    BY <2>1, <2>2
<1> QED
  BY <1>1, <1>4, <1>5, ClosedMeans

(* The next words of image p, from the k-th on, and at most one NOP.       *)
NextWords(words, p, sent, m, bit) ==
  /\ DOMAIN words \in {1 .. m, 1 .. m + 1}
  /\ \A k \in DOMAIN words : words[k] = IF k <= m THEN << p, sent + k, bit >> ELSE Nop

(* No word comes after the first ones of image p.                          *)
UpTo(parts, p, sent) ==
  \A a \in ImagePlaces(parts) :
    LET w == WordAt(parts, a) IN
    w[1] \in Nat /\ w[2] \in Nat /\ (w[1] < p \/ (w[1] = p /\ w[2] <= sent))

(* What that makes of the stream.                                          *)
ImageGrown(parts, next, p, sent, m, bit) ==
  /\ \A w : w \in WordsOf(next) \ {Nop} <=>
       w \in WordsOf(parts) \ {Nop} \/ \E k \in 1 .. m : w = << p, sent + k, bit >>
  /\ InOrder(next) /\ Closed(next)

(* Words of the image in progress are added behind those that are there.   *)
LEMMA ImageAdded ==
  ASSUME NEW parts, NEW next, NEW words, NEW j \in Nat, NEW base \in Nat,
         NEW p \in Nat \ {0}, NEW sent \in Nat, NEW m \in Nat, NEW bit \in BOOLEAN,
         Extends(parts, next, words, j, base), NextWords(words, p, sent, m, bit), Open(p, parts),
         InOrder(parts), Closed(parts), UpTo(parts, p, sent)
  PROVE  /\ ImageGrown(parts, next, p, sent, m, bit)
         /\ DOMAIN words = 1 .. m => Open(p, next)
<1> DEFINE New(k) == << j, base + k >>
<1>1. \A k \in 1 .. m : << p, sent + k, bit >> # Nop
  BY DEF Nop
<1>2. ASSUME NEW k \in DOMAIN words
      PROVE  /\ k \in Nat \ {0} /\ New(k) \in Places(next)
             /\ WordAt(next, New(k)) = IF k <= m THEN << p, sent + k, bit >> ELSE Nop
             /\ k <= m => k \in 1 .. m
             /\ k > m => k = m + 1
  <2>1. k \in 1 .. m \/ k \in 1 .. m + 1
    BY <1>2 DEF NextWords
  <2>2. k \in Nat \ {0} /\ (k <= m => k \in 1 .. m) /\ (k > m => k = m + 1)
    BY <2>1
  <2>3. New(k) \in Places(next) /\ WordAt(next, New(k)) = words[k]
    BY <1>2 DEF Extends
  <2>4. words[k] = IF k <= m THEN << p, sent + k, bit >> ELSE Nop
    BY <1>2 DEF NextWords
  <2> QED
    BY <2>2, <2>3, <2>4
<1>3. 1 .. m \subseteq DOMAIN words
  BY DEF NextWords
<1>4. ASSUME NEW k \in DOMAIN words, NEW l \in DOMAIN words PROVE Before(New(k), New(l)) => k < l
  <2>1. k \in Nat /\ l \in Nat
    BY <1>2, <1>4
  <2>2. Before(New(k), New(l)) => j < j \/ base + k < base + l
    BY DEF Before
  <2>3. ~ j < j
    OBVIOUS
  <2> QED
    BY <2>1, <2>2, <2>3
<1>5. ASSUME NEW b \in Places(next)
      PROVE  \/ b \in Places(parts) /\ WordAt(next, b) = WordAt(parts, b)
             \/ \E k \in DOMAIN words : b = New(k)
  BY DEF Extends
<1>6. \A w : w \in WordsOf(next) \ {Nop} <=>
        w \in WordsOf(parts) \ {Nop} \/ \E k \in 1 .. m : w = << p, sent + k, bit >>
  <2>1. ASSUME NEW a \in Places(parts) PROVE WordAt(parts, a) \in WordsOf(next)
    BY <2>1 DEF Extends, WordsOf
  <2>2. ASSUME NEW k \in 1 .. m PROVE << p, sent + k, bit >> \in WordsOf(next)
    <3>1. k \in DOMAIN words /\ k <= m
      BY <1>3
    <3>2. New(k) \in Places(next) /\ WordAt(next, New(k)) = << p, sent + k, bit >>
      BY <1>2, <3>1
    <3> HIDE DEF New
    <3> QED
      BY <3>2 DEF WordsOf
  <2>3. ASSUME NEW b \in Places(next), WordAt(next, b) # Nop
        PROVE  \/ WordAt(next, b) \in WordsOf(parts)
               \/ \E k \in 1 .. m : WordAt(next, b) = << p, sent + k, bit >>
    BY <1>2, <1>5, <2>3 DEF WordsOf
  <2>4. \A w \in WordsOf(parts) : w \in WordsOf(next)
    BY <2>1 DEF WordsOf
  <2>5. \A w \in WordsOf(next) \ {Nop} :
          w \in WordsOf(parts) \/ \E k \in 1 .. m : w = << p, sent + k, bit >>
    BY <2>3 DEF WordsOf
  <2> QED
    BY <1>1, <2>2, <2>4, <2>5
<1>7. InOrder(next)
  <2> SUFFICES ASSUME NEW a \in ImagePlaces(next), NEW b \in ImagePlaces(next), Before(a, b)
               PROVE  Follows(WordAt(next, a), WordAt(next, b))
    BY DEF InOrder
  <2>1. a \in Places(next) /\ b \in Places(next) /\ WordAt(next, a) # Nop /\ WordAt(next, b) # Nop
    BY DEF ImagePlaces
  <2>2. CASE a \in Places(parts) /\ b \in Places(parts)
    <3>1. /\ a \in ImagePlaces(parts) /\ b \in ImagePlaces(parts)
          /\ WordAt(next, a) = WordAt(parts, a) /\ WordAt(next, b) = WordAt(parts, b)
      BY <2>1, <2>2 DEF ImagePlaces, Extends
    <3> QED
      BY <3>1 DEF InOrder
  <2>3. CASE a \notin Places(parts) /\ b \in Places(parts)
    BY <2>1, <2>3 DEF Extends
  <2>4. ASSUME NEW l \in DOMAIN words, b = New(l)
        PROVE  WordAt(next, b) = << p, sent + l, bit >> /\ l \in 1 .. m
    BY <1>2, <2>1, <2>4
  <2>5. ASSUME NEW l \in DOMAIN words, b = New(l), a \in Places(parts)
        PROVE  Follows(WordAt(next, a), WordAt(next, b))
    <3>1. a \in ImagePlaces(parts) /\ WordAt(next, a) = WordAt(parts, a)
      BY <2>1, <2>5 DEF ImagePlaces, Extends
    <3> DEFINE w == WordAt(parts, a)
    <3>2. w[1] \in Nat /\ w[2] \in Nat /\ (w[1] < p \/ (w[1] = p /\ w[2] <= sent))
      BY <3>1 DEF UpTo
    <3> HIDE DEF w
    <3>3. w[1] < p \/ (w[1] = p /\ w[2] < sent + l)
      BY <2>4, <2>5, <3>2
    <3> QED
      BY <2>4, <2>5, <3>1, <3>3 DEF Follows, w
  <2>6. ASSUME NEW k \in DOMAIN words, NEW l \in DOMAIN words, a = New(k), b = New(l)
        PROVE  Follows(WordAt(next, a), WordAt(next, b))
    <3>1. k < l
      BY <1>4, <2>6
    <3>2. WordAt(next, a) = << p, sent + k, bit >> /\ WordAt(next, b) = << p, sent + l, bit >>
      BY <1>2, <2>1, <2>6
    <3>3. k \in Nat /\ l \in Nat
      BY <1>2, <2>6
    <3>4. sent + k < sent + l
      BY <3>1, <3>3
    <3> QED
      BY <3>2, <3>4 DEF Follows
  <2> QED
    BY <1>5, <2>1, <2>2, <2>3, <2>5, <2>6
<1>8. ASSUME NEW a \in Places(next), NEW b \in Places(next), NEW c \in Places(next),
             WordAt(next, b) = Nop, Before(a, b), Before(b, c),
             WordAt(next, a)[1] = WordAt(next, c)[1]
      PROVE  WordAt(next, a)[1] = 0
  <2>1. CASE c \in Places(parts)
    <3>1. b \in Places(parts)
      BY <1>8, <2>1 DEF Extends
    <3>2. a \in Places(parts)
      BY <1>8, <3>1 DEF Extends
    <3> QED
      BY <1>8, <2>1, <3>1, <3>2, ClosedMeans DEF Extends
  <2>2. ASSUME NEW l \in DOMAIN words, c = New(l)
        PROVE  WordAt(next, a)[1] = 0
    <3> DEFINE word == WordAt(next, New(l))
    <3>0. /\ l \in Nat /\ (l > m \/ l <= m) /\ word[1] = WordAt(next, a)[1]
          /\ word = IF l <= m THEN << p, sent + l, bit >> ELSE Nop
      BY <1>2, <1>8, <2>2
    <3> HIDE DEF word
    <3>1. CASE ~ l <= m
      BY <3>0, <3>1 DEF Nop
    <3>2. CASE l <= m
      <4>1. WordAt(next, a)[1] = p
        BY <3>0, <3>2
      <4>2. b \in Places(parts)
        <5> SUFFICES ASSUME NEW k \in DOMAIN words, b = New(k) PROVE FALSE
          BY <1>5
        <5>1. k < l
          BY <1>4, <1>8, <2>2
        <5>2. k \in Nat
          BY <1>2
        <5>3. k <= m
          BY <3>0, <3>2, <5>1, <5>2
        <5>4. k \in 1 .. m /\ WordAt(next, b) = << p, sent + k, bit >>
          BY <1>2, <5>3
        <5> QED
          BY <1>1, <1>8, <5>4
      <4>3. a \in Places(parts)
        BY <1>8, <4>2 DEF Extends
      <4> QED
        BY <1>8, <4>1, <4>2, <4>3 DEF Open, Extends
    <3> QED
      BY <3>0, <3>1, <3>2
  <2> QED
    BY <1>5, <2>1, <2>2
<1>9. ASSUME DOMAIN words = 1 .. m, NEW a \in Places(next), NEW b \in Places(next),
             WordAt(next, a)[1] = p, WordAt(next, b) = Nop, Before(a, b)
      PROVE  FALSE
  <2>1. b \in Places(parts)
    BY <1>1, <1>2, <1>5, <1>9
  <2>2. a \in Places(parts)
    BY <1>9, <2>1 DEF Extends
  <2> QED
    BY <1>9, <2>1, <2>2 DEF Open, Extends
<1> QED
  BY <1>6, <1>7, <1>8, <1>9, ClosedMeans DEF Open, ImageGrown
-----------------------------------------------------------------------------
(* The blocks between the object, the driver and the ICAP.                 *)

(* What the driver has: the state of each block says so, and the one that  *)
(* the object holds is not among them.                                     *)
Owned == ToSet(queued["icap"]) \cup done["icap"]

OwnInv ==
  /\ DOMAIN done = {"icap"} /\ DOMAIN ready = {"icap"} /\ DOMAIN flushing = {"icap"}
  /\ IsInjective(queued["icap"]) /\ ToSet(queued["icap"]) \cap done["icap"] = {}
  /\ ready["icap"] =>
       /\ Indices("icap") # {} /\ Owned \subseteq Indices("icap")
       /\ \A i \in Indices("icap") : blocks["icap"][i].state <=> i \in Owned
  /\ ready["icap"] \/ held["icap"] = << >>
  /\ Len(held["icap"]) <= 1 /\ (block = 0 => held["icap"] = << >>)
  /\ \A k \in 1 .. Len(held["icap"]) : ~ blocks["icap"][held["icap"][k]].state

(* Is i one of the places from .. to - 1, counted around the ring?         *)
Between(from, to, i) == IF from <= to THEN from <= i /\ i < to ELSE from <= i \/ i < to

(* Only an object with a DMA node has something queued, and nothing is     *)
(* left when the flush() of its destructor has come round: the blocks from *)
(* where it began to the head are its own.                                 *)
StageInv ==
  /\ via # "dma" => queued["icap"] = << >>
  /\ at \in {"nop", "send", "flush", "flushing"} => via = "dma"
  /\ at # "flushing" => flushing["icap"] = 0
  /\ at = "flushing" =>
       /\ held["icap"] = << >> /\ ready["icap"]
       /\ flushing["icap"] = 0 => queued["icap"] = << >>
       /\ flushing["icap"] # 0 =>
            /\ flushing["icap"] \in Indices("icap")
            /\ \A i \in Indices("icap") :
                 Between(flushing["icap"], blocks_head["icap"], i) => ~ blocks["icap"][i].state

(* When flush() moves the head on, the places it has passed are those it   *)
(* had passed before and the one it was at; back where it began it has     *)
(* passed them all.                                                        *)
LEMMA RoundTheRing ==
  ASSUME NEW n \in Nat, NEW from \in 1 .. n, NEW head \in 1 .. n, NEW next \in 1 .. n,
         next = IF head = n THEN 1 ELSE head + 1, NEW i \in 1 .. n,
         next = from \/ Between(from, next, i)
  PROVE  i = head \/ Between(from, head, i)
BY DEF Between

(* A place is not between itself and itself.                               *)
LEMMA NothingPassed ==
  ASSUME NEW n \in Nat, NEW from \in 1 .. n, NEW i \in 1 .. n
  PROVE  ~ Between(from, from, i)
BY DEF Between

(* The blocks, when there are some.                                        *)
LEMMA RingIs ==
  ASSUME SinkInv
  PROVE  /\ blocks["icap"] \in Seq(Memory) /\ Len(blocks["icap"]) \in Nat
         /\ Indices("icap") = 1 .. Len(blocks["icap"])
         /\ blocks["icap"] \in [Indices("icap") -> Memory]
         /\ \A i \in Indices("icap") : blocks["icap"][i].state \in BOOLEAN
         /\ held["icap"] \in Seq(Indices("icap")) /\ queued["icap"] \in Seq(Nat)
         /\ ToSet(queued["icap"]) \subseteq Nat
         /\ Indices("icap") # {} => blocks_head["icap"] \in Indices("icap")
<1>1. /\ blocks["icap"] \in Seq(Memory) /\ Len(blocks["icap"]) \in Nat
      /\ Indices("icap") = 1 .. Len(blocks["icap"])
      /\ blocks["icap"] \in [Indices("icap") -> Memory]
      /\ held["icap"] \in Seq(Indices("icap"))
  BY DEF SinkInv, Indices
<1>2. \A i \in Indices("icap") : blocks["icap"][i].state \in BOOLEAN
  BY <1>1 DEF Memory
<1>3. Filled \subseteq Nat
  BY <1>1 DEF Filled
<1>4. queued["icap"] \in Seq(Nat) /\ ToSet(queued["icap"]) \subseteq Nat
  <2> DEFINE q == queued["icap"]
  <2>1. q \in Seq(Filled)
    BY DEF SinkInv
  <2> HIDE DEF q
  <2>2. q \in Seq(Nat)
    BY <1>3, <2>1, LargerSeq
  <2>3. ToSet(q) \subseteq Nat
    BY <2>2 DEF ToSet
  <2> QED
    BY <2>2, <2>3 DEF q
<1>5. Indices("icap") # {} => blocks_head["icap"] \in Indices("icap")
  <2>1. Indices("icap") # {} => blocks["icap"] # << >>
    BY <1>1
  <2> QED
    BY <2>1 DEF SinkInv
<1> QED
  BY <1>1, <1>2, <1>4, <1>5

(* The block at the head is taken back from the driver if the driver has   *)
(* it: then it is the object's.                                            *)
LEMMA HeadTaken ==
  ASSUME SinkInv, OwnInv, ready["icap"], TakeHead("icap")
  PROVE  /\ DOMAIN done' = {"icap"}
         /\ blocks_head["icap"] \in Indices("icap")
         /\ blocks_head["icap"] \notin ToSet(queued["icap"]) \cup done'["icap"]
         /\ done'["icap"] \subseteq done["icap"]
         /\ Indices("icap")' = Indices("icap")
         /\ \A i \in Indices("icap") :
              blocks'["icap"][i].state <=> i \in ToSet(queued["icap"]) \cup done'["icap"]
         /\ ~ blocks'["icap"][blocks_head["icap"]].state
         /\ \A i \in Indices("icap") : ~ blocks["icap"][i].state => ~ blocks'["icap"][i].state
<1> DEFINE B == blocks["icap"]  h == blocks_head["icap"]  q == ToSet(queued["icap"])
           d == done["icap"]
<1>1. /\ B \in [Indices("icap") -> Memory] /\ h \in Indices("icap")
      /\ q \cap d = {} /\ q \cup d \subseteq Indices("icap")
      /\ \A i \in Indices("icap") : B[i].state <=> i \in q \cup d
      /\ DOMAIN done = {"icap"} /\ DOMAIN blocks = {"icap"}
  BY RingIs DEF OwnInv, Owned, SinkInv
<1>2. Indices("icap")' = Indices("icap")
  BY TakesHead DEF Indices
<1>3. CASE B[h].state
  <2>1. /\ h \in d /\ done' = [done EXCEPT !["icap"] = d \ {h}]
        /\ blocks' = [blocks EXCEPT !["icap"][h].state = FALSE]
    BY <1>3 DEF TakeHead, DriverReturns
  <2>2. DOMAIN done' = {"icap"} /\ done'["icap"] = d \ {h}
    BY <1>1, <2>1
  <2>3. ~ blocks'["icap"][h].state /\ \A i \in Indices("icap") : i # h => blocks'["icap"][i] = B[i]
    <3> DEFINE c == [B[h] EXCEPT !.state = FALSE]
    <3>1. ~ c.state
      BY <1>1 DEF Memory
    <3>2. blocks'["icap"] = [B EXCEPT ![h] = c]
      BY <1>1, <2>1
    <3> HIDE DEF c, B, h
    <3> QED
      BY <1>1, <3>1, <3>2
  <2> HIDE DEF B, h, q, d
  <2>4. h \notin q \cup done'["icap"] /\ done'["icap"] \subseteq d
    BY <1>1, <2>1, <2>2
  <2>5. \A i \in Indices("icap") : blocks'["icap"][i].state <=> i \in q \cup done'["icap"]
    BY <1>1, <2>2, <2>3, <2>4
  <2>6. \A i \in Indices("icap") : ~ B[i].state => ~ blocks'["icap"][i].state
    BY <2>3
  <2> QED
    BY <1>1, <1>2, <2>2, <2>3, <2>4, <2>5, <2>6 DEF B, h, q, d
<1>4. CASE ~ B[h].state
  <2>1. UNCHANGED << done, blocks >>
    BY <1>4 DEF TakeHead
  <2> QED
    BY <1>1, <1>2, <1>4, <2>1
<1> QED
  BY <1>3, <1>4

(* dequeue() when the object has no block.                                 *)
LEMMA OwnDequeue ==
  ASSUME SinkInv, OwnInv, block = 0, dequeue("icap"), block' = blocks_head["icap"]
  PROVE  OwnInv'
<1> DEFINE h == blocks_head["icap"]
<1>1. /\ ready["icap"] /\ TakeHead("icap") /\ Len(held["icap"]) < Len(blocks["icap"])
      /\ held' = [held EXCEPT !["icap"] = Append(@, h)] /\ UNCHANGED << ready, queued, flushing >>
  BY DEF dequeue
<1>2. held["icap"] = << >> /\ Indices("icap") # {}
  BY <1>1, RingIs DEF OwnInv
<1>3. held'["icap"] = << h >>
  BY <1>1, <1>2 DEF SinkInv
<1>4. h \in Indices("icap") /\ h # 0
  BY <1>1, <1>2, RingIs
<1>5. Len(held'["icap"]) = 1 /\ held'["icap"][1] = h
  BY <1>3
<1> HIDE DEF h
<1>6. \A k \in 1 .. Len(held'["icap"]) : ~ blocks'["icap"][held'["icap"][k]].state
  BY <1>1, <1>2, <1>5, HeadTaken DEF h
<1>7. Owned' = ToSet(queued["icap"]) \cup done'["icap"]
  BY <1>1 DEF Owned
<1>8. /\ Owned' \subseteq Indices("icap")' /\ Indices("icap")' # {}
      /\ ToSet(queued["icap"])' \cap done'["icap"] = {}
      /\ \A i \in Indices("icap")' : blocks'["icap"][i].state <=> i \in Owned'
  BY <1>1, <1>2, <1>7, HeadTaken DEF OwnInv, Owned
<1> QED
  BY <1>1, <1>2, <1>4, <1>5, <1>6, <1>8, HeadTaken DEF OwnInv, h

(* enqueue() gives the block that the object holds to the driver, at the   *)
(* end of its queue, and none of those queued before changes.              *)
LEMMA OwnEnqueue ==
  ASSUME SinkInv, OwnInv, NEW item \in Seq(Word), enqueue("icap", item), block' = 0
  PROVE  /\ OwnInv' /\ held'["icap"] = << >>
         /\ \E i \in Nat : /\ queued'["icap"] = Append(queued["icap"], i)
                           /\ blocks'["icap"][i].content = item
                           /\ \A k \in ToSet(queued["icap"]) :
                                blocks'["icap"][k].content = blocks["icap"][k].content
<1> DEFINE B == blocks["icap"]  i == Head(held["icap"])
           c == [B[i] EXCEPT !.state = TRUE, !.content = item]
<1>1. /\ held["icap"] # << >> /\ blocks' = [blocks EXCEPT !["icap"][i] = c]
      /\ queued' = [queued EXCEPT !["icap"] = Append(@, i)]
      /\ held' = [held EXCEPT !["icap"] = Tail(@)] /\ UNCHANGED << ready, done, flushing >>
  BY DEF enqueue
<1>2. ready["icap"] /\ Len(held["icap"]) = 1 /\ i = held["icap"][1] /\ i \in Indices("icap")
      /\ held'["icap"] = << >>
  <2>1. held["icap"] \in Seq(Indices("icap")) /\ Len(held["icap"]) <= 1 /\ ready["icap"]
    BY <1>1, RingIs DEF OwnInv
  <2>2. /\ Len(held["icap"]) = 1 /\ i = held["icap"][1] /\ i \in Indices("icap")
        /\ Tail(held["icap"]) = << >>
    <3> DEFINE s == held["icap"]  I == Indices("icap")
    <3>1. s \in Seq(I) /\ Len(s) <= 1 /\ s # << >>
      BY <1>1, <2>1
    <3> HIDE DEF s, I
    <3>0. Len(s) \in Nat /\ Len(s) # 0
      BY <3>1
    <3>2. Len(s) = 1 /\ Head(s) = s[1] /\ s[1] \in I
      BY <3>0, <3>1
    <3>3. Tail(s) = << >>
      <4>1. Tail(s) \in Seq(I) /\ Len(Tail(s)) = 0
        BY <3>1, <3>2
      <4> DEFINE t == Tail(s)
      <4> HIDE DEF t
      <4>2. t \in Seq(I) /\ Len(t) = 0
        BY <4>1 DEF t
      <4>3. t = << >>
        BY <4>2
      <4> QED
        BY <4>3 DEF t
    <3> QED
      BY <3>2, <3>3 DEF s, I
  <2>3. held'["icap"] = Tail(held["icap"])
    BY <1>1 DEF SinkInv
  <2> QED
    BY <2>1, <2>2, <2>3
<1>3. /\ B \in [Indices("icap") -> Memory] /\ Indices("icap") \subseteq Nat
      /\ Len(B) \in Nat /\ Indices("icap") = 1 .. Len(B)
      /\ queued["icap"] \in Seq(Nat) /\ DOMAIN blocks = {"icap"} /\ DOMAIN queued = {"icap"}
  BY RingIs DEF SinkInv
<1>4. c \in Memory /\ c.content = item /\ c.state
  BY <1>2, <1>3 DEF Memory
<1>5. blocks'["icap"] = [B EXCEPT ![i] = c] /\ queued'["icap"] = Append(queued["icap"], i)
  BY <1>1, <1>3
<1>6. ~ B[i].state /\ i \notin Owned
  BY <1>2 DEF OwnInv
<1> HIDE DEF B, i, c
<1>7. /\ blocks'["icap"][i] = c /\ DOMAIN blocks'["icap"] = 1 .. Len(B)
      /\ \A k \in Indices("icap") : k # i => blocks'["icap"][k] = B[k]
  BY <1>2, <1>3, <1>5
<1>8. Indices("icap")' = Indices("icap")
  <2>1. blocks'["icap"] \in [1 .. Len(B) -> Memory]
    BY <1>2, <1>3, <1>4, <1>5
  <2>2. Len(blocks'["icap"]) = Len(B)
    <3> DEFINE n == Len(B)  d == blocks'["icap"]
    <3>1. d \in [1 .. n -> Memory] /\ n \in Nat
      BY <1>3, <2>1
    <3> HIDE DEF n, d
    <3>2. Len(d) = n
      BY <3>1
    <3> QED
      BY <3>2 DEF n, d
  <2> QED
    BY <1>3, <2>2 DEF Indices, B
<1>9. /\ ToSet(queued'["icap"]) = ToSet(queued["icap"]) \cup {i} /\ IsInjective(queued'["icap"])
  <2> DEFINE q == queued["icap"]
  <2>1. q \in Seq(Nat) /\ i \in Nat /\ IsInjective(q) /\ i \notin ToSet(q)
    BY <1>2, <1>3, <1>6 DEF OwnInv, Owned
  <2> HIDE DEF q
  <2>2. /\ DOMAIN Append(q, i) = 1 .. Len(q) + 1 /\ DOMAIN q = 1 .. Len(q) /\ Len(q) \in Nat
        /\ \A k \in 1 .. Len(q) : Append(q, i)[k] = q[k]
        /\ Append(q, i)[Len(q) + 1] = i
    BY <2>1
  <2>3. ToSet(Append(q, i)) = ToSet(q) \cup {i}
    BY <2>2 DEF ToSet
  <2>4. IsInjective(Append(q, i))
    BY <2>1, <2>2 DEF ToSet, IsInjective
  <2> QED
    BY <1>5, <2>3, <2>4 DEF q
<1>10. Owned' = Owned \cup {i} /\ ToSet(queued'["icap"]) \cap done'["icap"] = {}
  BY <1>1, <1>6, <1>9 DEF Owned, OwnInv
<1>11. \A k \in Indices("icap") : blocks'["icap"][k].state <=> k \in Owned'
  BY <1>2, <1>4, <1>7, <1>10 DEF OwnInv, B
<1>12. \A k \in ToSet(queued["icap"]) : blocks'["icap"][k].content = blocks["icap"][k].content
  BY <1>2, <1>6, <1>7 DEF OwnInv, Owned, B
<1>13. Owned' \subseteq Indices("icap")' /\ Indices("icap")' # {}
  BY <1>2, <1>8, <1>10 DEF OwnInv
<1>14. OwnInv'
  <2>1. Len(held'["icap"]) = 0 /\ 1 .. Len(held'["icap"]) = {}
    BY <1>2
  <2>2. /\ DOMAIN done' = {"icap"} /\ DOMAIN ready' = {"icap"} /\ DOMAIN flushing' = {"icap"}
    BY <1>1 DEF OwnInv
  <2>3. /\ Owned' \subseteq Indices("icap")' /\ Indices("icap")' # {}
        /\ \A k \in Indices("icap")' : blocks'["icap"][k].state <=> k \in Owned'
    BY <1>8, <1>11, <1>13
  <2> QED
    BY <1>2, <1>9, <1>10, <2>1, <2>2, <2>3 DEF OwnInv
<1>15. i \in Nat
  BY <1>2, <1>3
<1> QED
  BY <1>2, <1>4, <1>5, <1>7, <1>12, <1>14, <1>15

(* The object holds no block, and the driver has none that it will give    *)
(* back: reconfigure() has succeeded, or there is no memory to use.        *)
LEMMA OwnStartsOver ==
  ASSUME SinkInv, OwnInv,
         \/ Reconfigure("icap", programmer_numblocks)
         \/ ReconfigureRefused("icap") \/ dispose("icap")
  PROVE  OwnInv'
<1>1. /\ held["icap"] = << >> /\ held' = held /\ flushing' = flushing
      /\ ready' \in {[ready EXCEPT !["icap"] = TRUE], [ready EXCEPT !["icap"] = FALSE]}
  BY DEF Reconfigure, ReconfigureRefused, dispose, MayReconfigure
<1>2. /\ DOMAIN ready' = {"icap"} /\ DOMAIN flushing' = {"icap"} /\ held'["icap"] = << >>
      /\ Len(held'["icap"]) = 0 /\ 1 .. Len(held'["icap"]) = {}
  BY <1>1 DEF OwnInv
<1>3. ToSet(<< >>) = {} /\ IsInjective(<< >>)
  BY DEF ToSet, IsInjective
<1>4. CASE Reconfigure("icap", programmer_numblocks)
  <2> DEFINE n == programmer_numblocks
  <2>1. /\ queued'["icap"] = << >> /\ done'["icap"] = {} /\ DOMAIN done' = {"icap"}
        /\ blocks'["icap"] = [i \in 1 .. n |-> Block(TRUE, FALSE)]
        /\ n \in Nat \ {0}
    BY <1>4, ProgrammerAssumption, FifoAssumption
       DEF Reconfigure, DriverForgets, OwnInv, SinkInv
  <2>2. Owned' = {}
    BY <1>3, <2>1 DEF Owned
  <2> HIDE DEF n
  <2>3. Len(blocks'["icap"]) = n
    BY <2>1
  <2>4. Indices("icap")' = 1 .. n /\ 1 \in 1 .. n
    BY <2>1, <2>3 DEF Indices
  <2>5. \A i \in 1 .. n : ~ blocks'["icap"][i].state
    BY <2>1 DEF Block
  <2>6. /\ Indices("icap")' # {} /\ Owned' \subseteq Indices("icap")'
        /\ \A i \in Indices("icap")' : blocks'["icap"][i].state <=> i \in Owned'
    BY <2>2, <2>4, <2>5
  <2>7. IsInjective(queued'["icap"]) /\ ToSet(queued'["icap"]) \cap done'["icap"] = {}
    BY <1>3, <2>1
  <2>8. DOMAIN done' = {"icap"} /\ Len(held'["icap"]) <= 1
    BY <1>2, <2>1
  <2> QED
    BY <1>2, <2>6, <2>7, <2>8 DEF OwnInv
<1>5. CASE ReconfigureRefused("icap") \/ dispose("icap")
  <2>1. /\ \/ UNCHANGED << queued, done >>
           \/ queued'["icap"] = << >> /\ done'["icap"] = {} /\ DOMAIN done' = {"icap"}
        /\ ~ ready'["icap"]
    BY <1>5 DEF ReconfigureRefused, dispose, DriverForgets, OwnInv, SinkInv
  <2>2. /\ DOMAIN done' = {"icap"} /\ IsInjective(queued'["icap"])
        /\ ToSet(queued'["icap"]) \cap done'["icap"] = {}
    BY <1>3, <2>1 DEF OwnInv
  <2> QED
    BY <1>2, <2>1, <2>2 DEF OwnInv
<1> QED
  BY <1>4, <1>5

(* The ICAP has taken a block: the driver has it still.                    *)
LEMMA OwnConfigure ==
  ASSUME SinkInv, OwnInv, Configure
  PROVE  OwnInv'
<1> DEFINE q == queued["icap"]  d == done["icap"]
<1>1. /\ q # << >> /\ queued' = [queued EXCEPT !["icap"] = Tail(@)]
      /\ done' = [done EXCEPT !["icap"] = @ \cup {Head(q)}]
      /\ UNCHANGED << blocks, held, ready, flushing, block >>
  BY DEF Configure
<1>2. /\ queued'["icap"] = Tail(q) /\ done'["icap"] = d \cup {Head(q)} /\ DOMAIN done' = {"icap"}
      /\ Indices("icap")' = Indices("icap")
  BY <1>1 DEF OwnInv, SinkInv, Indices
<1>3. q \in Seq(Nat) /\ IsInjective(q) /\ ToSet(q) \cap d = {}
  BY RingIs DEF OwnInv
<1>4. /\ IsInjective(Tail(q)) /\ ToSet(Tail(q)) = ToSet(q) \ {Head(q)} /\ Head(q) \in ToSet(q)
  <2> HIDE DEF q
  <2>1. /\ Len(q) \in Nat \ {0} /\ DOMAIN q = 1 .. Len(q) /\ Head(q) = q[1]
        /\ DOMAIN Tail(q) = 1 .. Len(q) - 1
        /\ \A k \in 1 .. Len(q) - 1 : Tail(q)[k] = q[k + 1]
    BY <1>1, <1>3
  <2>2. IsInjective(Tail(q))
    BY <1>3, <2>1 DEF IsInjective
  <2>3. 1 \in DOMAIN q /\ \A k \in 1 .. Len(q) - 1 : k + 1 \in DOMAIN q /\ k + 1 # 1
    BY <2>1
  <2>4. Head(q) \in ToSet(q)
    BY <2>1, <2>3 DEF ToSet
  <2>5. \A x \in ToSet(Tail(q)) : x \in ToSet(q) /\ x # Head(q)
    BY <1>3, <2>1, <2>3 DEF ToSet, IsInjective
  <2>6. ASSUME NEW x \in ToSet(q), x # Head(q) PROVE x \in ToSet(Tail(q))
    <3>1. PICK k \in 1 .. Len(q) : x = q[k] /\ k # 1
      BY <2>1, <2>6 DEF ToSet
    <3>2. k - 1 \in 1 .. Len(q) - 1 /\ Tail(q)[k - 1] = q[k]
      BY <2>1, <3>1
    <3> QED
      BY <2>1, <3>1, <3>2 DEF ToSet
  <2> QED
    BY <2>2, <2>4, <2>5, <2>6
<1>5. Owned' = Owned /\ IsInjective(queued'["icap"]) /\ ToSet(queued'["icap"]) \cap done'["icap"] = {}
  BY <1>2, <1>3, <1>4 DEF Owned
<1> QED
  BY <1>1, <1>2, <1>5 DEF OwnInv

(* flush() takes back the block at the head, and no block is left when it  *)
(* comes round.                                                            *)
LEMMA OwnFlush ==
  ASSUME SinkInv, OwnInv, StageInv, at = "flushing", Flush("icap"), at' = at, via' = via
  PROVE  OwnInv' /\ StageInv'
<1> DEFINE h == blocks_head["icap"]  n == Len(blocks["icap"])  from == flushing["icap"]
           h2 == blocks_head'["icap"]
<1>1. /\ from # 0 /\ TakeHead("icap") /\ UNCHANGED << held, ready, queued >>
      /\ flushing' = [flushing EXCEPT !["icap"] = IF h2 = from THEN 0 ELSE @]
  BY DEF Flush
<1>2. /\ ready["icap"] /\ held["icap"] = << >> /\ from \in Indices("icap")
      /\ \A i \in Indices("icap") : Between(from, h, i) => ~ blocks["icap"][i].state
  BY <1>1 DEF StageInv
<1>3. /\ DOMAIN done' = {"icap"} /\ h \in Indices("icap")
      /\ h \notin ToSet(queued["icap"]) \cup done'["icap"] /\ done'["icap"] \subseteq done["icap"]
      /\ Indices("icap")' = Indices("icap")
      /\ \A i \in Indices("icap") :
           blocks'["icap"][i].state <=> i \in ToSet(queued["icap"]) \cup done'["icap"]
      /\ ~ blocks'["icap"][h].state
      /\ \A i \in Indices("icap") : ~ blocks["icap"][i].state => ~ blocks'["icap"][i].state
  BY <1>1, <1>2, HeadTaken
<1>4. /\ DOMAIN flushing' = {"icap"} /\ flushing'["icap"] = (IF h2 = from THEN 0 ELSE from)
      /\ Len(held'["icap"]) = 0 /\ held'["icap"] = << >> /\ 1 .. Len(held'["icap"]) = {}
  BY <1>1, <1>2 DEF OwnInv
<1>5. Owned' = ToSet(queued["icap"]) \cup done'["icap"]
  BY <1>1 DEF Owned
<1>6. OwnInv'
  <2>1. ToSet(queued'["icap"]) \cap done'["icap"] = {} /\ IsInjective(queued'["icap"])
    BY <1>1, <1>3 DEF OwnInv
  <2>2. Owned' \subseteq Indices("icap")' /\ Indices("icap")' # {}
    BY <1>2, <1>3, <1>5 DEF OwnInv, Owned
  <2>3. \A i \in Indices("icap")' : blocks'["icap"][i].state <=> i \in Owned'
    BY <1>3, <1>5
  <2> QED
    BY <1>1, <1>3, <1>4, <2>1, <2>2, <2>3 DEF OwnInv
<1>7. /\ n \in Nat /\ Indices("icap") = 1 .. n /\ h2 = (IF h = n THEN 1 ELSE h + 1)
      /\ h2 \in 1 .. n
  <2>1. n \in Nat /\ Indices("icap") = 1 .. n
    BY RingIs
  <2>2. h2 = IF h = n THEN 1 ELSE h + 1
    BY <1>1 DEF TakeHead, After, SinkInv
  <2> HIDE DEF h, n, h2
  <2> QED
    BY <1>3, <2>1, <2>2
<1> HIDE DEF h, n, h2, from
<1>8. \A i \in 1 .. n : h2 = from \/ Between(from, h2, i) => ~ blocks'["icap"][i].state
  <2> SUFFICES ASSUME NEW i \in 1 .. n, h2 = from \/ Between(from, h2, i)
               PROVE  ~ blocks'["icap"][i].state
    OBVIOUS
  <2>1. i = h \/ Between(from, h, i)
    BY <1>2, <1>3, <1>7, RoundTheRing
  <2> QED
    BY <1>2, <1>3, <1>7, <2>1
<1>9. ASSUME h2 = from PROVE queued'["icap"] = << >>
  <2> DEFINE q == queued["icap"]
  <2>1. ToSet(q) \subseteq Indices("icap") /\ q \in Seq(Nat)
    BY <1>2, RingIs DEF OwnInv, Owned
  <2>2. ToSet(q) = {}
    BY <1>3, <1>7, <1>8, <1>9, <2>1
  <2> HIDE DEF q
  <2>3. Len(q) = 0
    <3>1. Len(q) \in Nat /\ DOMAIN q = 1 .. Len(q)
      BY <2>1
    <3>2. DOMAIN q = {}
      BY <2>2 DEF ToSet
    <3> QED
      BY <3>1, <3>2
  <2>4. q = << >>
    BY <2>1, <2>3
  <2> QED
    BY <1>1, <2>4 DEF q
<1>10. flushing'["icap"] # 0 =>
        /\ flushing'["icap"] \in Indices("icap")'
        /\ \A i \in Indices("icap")' :
             Between(flushing'["icap"], blocks_head'["icap"], i) => ~ blocks'["icap"][i].state
  BY <1>2, <1>3, <1>4, <1>7, <1>8 DEF h2
<1>11. via = "dma"
  BY DEF StageInv
<1>12. flushing'["icap"] = 0 => queued'["icap"] = << >>
  BY <1>1, <1>4, <1>9 DEF from
<1> QED
  BY <1>1, <1>2, <1>4, <1>6, <1>10, <1>11, <1>12 DEF StageInv

(* A round of fromFile: what it gives to endProcessData, how much of it    *)
(* was sent, and when there is another round.                              *)
Sends(n, a) ==
  /\ n # 0 /\ a <= n /\ n <= Available /\ n <= chunk /\ (n = chunk \/ n = Available)
  /\ file.kind = "bit" => n = chunk
  /\ EndProcessData(Words(n), a)
  /\ programs' \in Seq(Program) /\ Len(programs') = Len(programs)
  /\ file' = file /\ total' = total + a
  /\ \A p \in DOMAIN programs :
       /\ programs'[p].file = programs[p].file
       /\ p # Len(programs) => programs'[p] = programs[p]
  /\ at' \in {"idle", "begin"}
  /\ at' = "begin" =>
       /\ a = n /\ (file.kind = "bit" => total + a < file.size)
       /\ chunk' = IF file.kind = "bit" THEN file.size - (total + a) ELSE BUFFER_SIZE

LEMMA FillSends ==
  ASSUME ProgramInv, Fill
  PROVE  /\ at = "fill" /\ via' = via /\ Available \in Nat /\ total \in Nat
         /\ \E n, a \in Nat :
              Sends(n, a) /\ Words(n) \in Seq(Word) /\ Len(Words(n)) = n
<1> DEFINE n == IF chunk < Available THEN chunk ELSE Available
           Result(a) == IF a < n THEN "truncated"
                        ELSE IF file.kind = "bit" /\ total + a >= file.size THEN "ok" ELSE "none"
<1>1. PICK a \in 0 .. n :
        /\ EndProcessData(Words(n), a) /\ Later(total + a, Result(a))
        /\ IF Result(a) # "none"
             THEN at' = "idle" /\ UNCHANGED chunk
             ELSE /\ at' = "begin"
                  /\ chunk' = IF file.kind = "bit" THEN file.size - (total + a) ELSE BUFFER_SIZE
  BY DEF Fill, ToRead, Later
<1>2. at = "fill" /\ via' = via /\ n > 0 /\ (file.kind = "bit" => n = chunk)
  BY DEF Fill, ToRead
<1>3. /\ programs \in Seq(Program) /\ programs # << >> /\ chunk \in Nat
      /\ file.header + total <= file.length
  BY <1>2 DEF ProgramInv, CallInv
<1>4. /\ total \in Nat /\ file.size \in Nat /\ Available \in Nat /\ Len(programs) \in DOMAIN programs
      /\ DOMAIN programs = 1 .. Len(programs) /\ Current \in Program
  BY <1>3, CurrentCall DEF Available
<1>5. n \in Nat /\ n <= Available /\ n <= chunk /\ (n = chunk \/ n = Available)
  BY <1>3, <1>4
<1>6. a \in Nat /\ a <= n /\ total + a \in Nat
  <2> HIDE DEF n
  <2> QED
    BY <1>1, <1>4, <1>5
<1>7. /\ Result(a) \in {"none", "ok", "truncated"}
      /\ Result(a) = "none" => a = n /\ (file.kind = "bit" => total + a < file.size)
  <2> HIDE DEF n
  <2> QED
    BY <1>4, <1>5, <1>6
<1> DEFINE result == Result(a)  s == total + a
<1> HIDE DEF n, Result
<1>8. /\ programs' \in Seq(Program) /\ Len(programs') = Len(programs) /\ file' = file /\ total' = s
      /\ \A p \in DOMAIN programs :
           /\ programs'[p].file = programs[p].file
           /\ p # Len(programs) => programs'[p] = programs[p]
  <2> DEFINE l == Len(programs)
             c == [programs[l] EXCEPT !.sent = s, !.result = result]
  <2>1. programs' = [programs EXCEPT ![l] = c]
    BY <1>1 DEF Later
  <2>2. programs[l] \in Program /\ l \in DOMAIN programs
    BY <1>4 DEF Current
  <2>3. s \in Nat /\ result \in {"none", "ok", "truncated"}
    BY <1>6, <1>7
  <2> HIDE DEF s, result
  <2>4. c \in Program /\ c.file = programs[l].file /\ c.sent = s
    BY <2>2, <2>3 DEF Program
  <2> HIDE DEF c
  <2>5. /\ DOMAIN programs' = DOMAIN programs /\ programs'[l] = c
        /\ \A p \in DOMAIN programs : p # l => programs'[p] = programs[p]
    BY <2>1, <2>2
  <2>6. programs \in [1 .. l -> Program] /\ l \in Nat /\ DOMAIN programs = 1 .. l
    BY <1>3, <1>4
  <2> HIDE DEF l
  <2>7. programs' \in [1 .. l -> Program]
    BY <2>1, <2>4, <2>6
  <2>8. programs' \in Seq(Program) /\ Len(programs') = l
    BY <2>6, <2>7
  <2>9. Current' = c /\ file' = file /\ total' = s
    BY <2>4, <2>5, <2>8 DEF Current, file, total, l
  <2> QED
    BY <2>4, <2>5, <2>8, <2>9 DEF l
<1>9. /\ at' \in {"idle", "begin"}
      /\ at' = "begin" =>
           /\ a = n /\ (file.kind = "bit" => total + a < file.size)
           /\ chunk' = IF file.kind = "bit" THEN file.size - (total + a) ELSE BUFFER_SIZE
  BY <1>1, <1>7
<1>10. Sends(n, a)
  BY <1>1, <1>2, <1>5, <1>6, <1>8, <1>9 DEF Sends, s
<1>11. Words(n) \in Seq(Word) /\ Len(Words(n)) = n
  BY <1>2, <1>5, ImageWords
<1> QED
  BY <1>2, <1>4, <1>5, <1>6, <1>10, <1>11

(* Where the blocks go in each step.                                       *)
LEMMA NextOwn ==
  ProgramInv /\ SinkInv /\ OwnInv /\ StageInv /\ [Next]_progVars => OwnInv' /\ StageInv'
<1> SUFFICES ASSUME ProgramInv, SinkInv, OwnInv, StageInv, [Next]_progVars
             PROVE  OwnInv' /\ StageInv'
  OBVIOUS
<1>1. ASSUME UNCHANGED << fifoVars, block >> PROVE OwnInv'
  BY <1>1 DEF fifoVars, driverVars, OwnInv, Owned, Indices
<1>2. ASSUME UNCHANGED << fifoVars, via >>, at # "flushing", at' \notin {"nop", "send", "flush", "flushing"}
      PROVE  StageInv'
  BY <1>2 DEF fifoVars, driverVars, StageInv
<1>3. CASE Construct
  <2>1. /\ at' = at /\ at \notin {"nop", "send", "flush", "flushing"}
        /\ queued["icap"] = << >> /\ flushing["icap"] = 0
    BY <1>3 DEF Construct, StageInv
  <2>2. CASE Reconfigure("icap", programmer_numblocks) /\ via' = "dma"
    <3>1. queued'["icap"] = << >> /\ flushing' = flushing
      BY <2>2 DEF Reconfigure, MayReconfigure, DriverForgets, SinkInv
    <3> QED
      BY <2>1, <2>2, <3>1, OwnStartsOver DEF StageInv
  <2>3. CASE UNCHANGED fifoVars
    <3>1. block' = block /\ UNCHANGED << queued, flushing >>
      BY <1>3, <2>3 DEF Construct, fifoVars, driverVars
    <3> QED
      BY <1>1, <2>1, <2>3, <3>1 DEF StageInv
  <2> QED
    BY <1>3, <2>2, <2>3 DEF Construct
<1>4. CASE ConstructFails
  <2>1. /\ at' = at /\ via' = via /\ at \notin {"nop", "send", "flush", "flushing"}
        /\ queued["icap"] = << >> /\ flushing["icap"] = 0
        /\ ReconfigureRefused("icap") \/ Reconfigure("icap", programmer_numblocks)
    BY <1>4 DEF ConstructFails, StageInv
  <2>2. queued'["icap"] = << >> /\ flushing' = flushing
    BY <2>1 DEF ReconfigureRefused, Reconfigure, MayReconfigure, DriverForgets, SinkInv
  <2> QED
    BY <2>1, <2>2, OwnStartsOver DEF StageInv
<1>5. CASE CallFromFile \/ OpenImage \/ FillEnds \/ Overrun
  <2>1. /\ UNCHANGED << fifoVars, block, via >> /\ at # "flushing"
        /\ at' \notin {"nop", "send", "flush", "flushing"}
    BY <1>5 DEF CallFromFile, OpenImage, FillEnds, Overrun
  <2> QED
    BY <1>1, <1>2, <2>1
<1>6. ASSUME GetBlock, via' = via, at \in {"begin", "nop"},
             at' = (IF at = "begin" THEN "fill" ELSE "send")
      PROVE  OwnInv' /\ StageInv'
  <2>1. CASE UNCHANGED << fifoVars, block >>
    <3>1. UNCHANGED << queued, flushing >>
      BY <2>1 DEF fifoVars, driverVars
    <3> QED
      BY <1>1, <1>6, <2>1, <3>1 DEF StageInv
  <2>2. CASE via = "dma" /\ block = 0 /\ dequeue("icap") /\ block' = blocks_head["icap"]
    <3>1. UNCHANGED << queued, flushing >>
      BY <2>2 DEF dequeue
    <3>2. OwnInv'
      BY <2>2, OwnDequeue
    <3> QED
      BY <1>6, <2>2, <3>1, <3>2 DEF StageInv
  <2> QED
    BY <1>6, <2>1, <2>2 DEF GetBlock
<1>7. CASE beginProcessData
  BY <1>6, <1>7 DEF beginProcessData
<1>8. CASE Fill
  <2>1. PICK n, a \in Nat : Sends(n, a) /\ Words(n) \in Seq(Word)
    BY <1>8, FillSends
  <2>2. at = "fill" /\ via' = via /\ at' \in {"idle", "begin"}
    BY <1>8, <2>1, FillSends DEF Sends
  <2>3. CASE via = "dma"
    <3>1. enqueue("icap", Padded(Words(n))) /\ block' = 0
      BY <2>1, <2>3 DEF Sends, EndProcessData
    <3>2. flushing' = flushing
      BY <3>1 DEF enqueue
    <3>3. OwnInv'
      BY <2>1, <3>1, PaddedAreWords, OwnEnqueue
    <3> QED
      BY <2>2, <2>3, <3>2, <3>3 DEF StageInv
  <2>4. CASE via # "dma"
    <3>1. UNCHANGED << fifoVars, block >>
      BY <2>1, <2>4 DEF Sends, EndProcessData
    <3> QED
      BY <1>1, <1>2, <2>2, <3>1
  <2> QED
    BY <2>3, <2>4
<1>9. CASE Destroy
  <2>1. /\ UNCHANGED << fifoVars, block >> /\ at = "idle" /\ via \in {"dma", "cpu", "file"}
        /\ UNCHANGED << queued, flushing >>
    BY <1>9 DEF Destroy, ProgramInv, fifoVars, driverVars
  <2>2. \/ via = "dma" /\ at' = "nop" /\ via' = via
        \/ via # "dma" /\ at' = "idle" /\ via' = "none"
    BY <1>9, <2>1 DEF Destroy
  <2> QED
    BY <1>1, <2>1, <2>2 DEF StageInv
<1>10. CASE SendNOP
  <2>1. CASE at = "nop" /\ GetBlock /\ at' = "send"
    BY <1>6, <1>10, <2>1 DEF SendNOP
  <2>2. CASE at = "send" /\ enqueue("icap", NOPs) /\ block' = 0 /\ at' = "flush"
    <3>1. flushing' = flushing /\ via' = via
      BY <1>10, <2>2 DEF SendNOP, enqueue
    <3>2. OwnInv'
      BY <2>2, NOPsAreWords, OwnEnqueue
    <3> QED
      BY <2>2, <3>1, <3>2 DEF StageInv
  <2> QED
    BY <1>10, <2>1, <2>2 DEF SendNOP
<1>11. CASE Flushing
  <2>1. UNCHANGED << block, via >>
    BY <1>11 DEF Flushing
  <2>2. CASE at = "flush" /\ CallFlush("icap") /\ at' = "flushing"
    <3> DEFINE h == blocks_head["icap"]
    <3>1. /\ ready["icap"] /\ held["icap"] = << >>
          /\ flushing' = [flushing EXCEPT !["icap"] = h]
          /\ UNCHANGED << blocks, blocks_head, held, ready, queued, done >>
      BY <2>2 DEF CallFlush, driverVars
    <3>2. flushing'["icap"] = h /\ DOMAIN flushing' = {"icap"}
      BY <3>1 DEF OwnInv
    <3>3. h \in Indices("icap") /\ Indices("icap") = 1 .. Len(blocks["icap"])
          /\ Len(blocks["icap"]) \in Nat
      BY <3>1, RingIs DEF OwnInv
    <3>4. Indices("icap")' = Indices("icap") /\ Owned' = Owned
      BY <3>1 DEF Indices, Owned
    <3>5. h # 0 /\ \A i \in Indices("icap") : ~ Between(h, h, i)
      <4> HIDE DEF h
      <4> QED
        BY <3>3, NothingPassed
    <3>6. OwnInv'
      BY <2>1, <3>1, <3>2, <3>4 DEF OwnInv
    <3> QED
      BY <2>1, <2>2, <3>1, <3>2, <3>3, <3>4, <3>5, <3>6 DEF StageInv
  <2>3. CASE at = "flushing" /\ Flush("icap") /\ at' = at
    BY <2>1, <2>3, OwnFlush
  <2> QED
    BY <1>11, <2>2, <2>3 DEF Flushing
<1>12. CASE DeleteWriter
  <2>1. /\ dispose("icap") /\ via' = "none" /\ at' = "idle"
    BY <1>12 DEF DeleteWriter
  <2>2. queued'["icap"] = << >> /\ flushing'["icap"] = 0
    BY <2>1 DEF dispose, DriverForgets, SinkInv
  <2> QED
    BY <2>1, <2>2, OwnStartsOver DEF StageInv
<1>13. CASE Configure
  <2>1. /\ queued["icap"] # << >>
        /\ UNCHANGED << blocks, blocks_head, flushing, held, ready, via, at >>
    BY <1>13 DEF Configure
  <2>2. Indices("icap")' = Indices("icap")
    BY <2>1 DEF Indices
  <2> QED
    BY <1>13, <2>1, <2>2, OwnConfigure DEF StageInv
<1>14. CASE UNCHANGED progVars
  <2>1. UNCHANGED << fifoVars, block, via, at >> /\ UNCHANGED << blocks, blocks_head, queued, flushing, held, ready >>
    BY <1>14 DEF progVars, fifoVars, driverVars
  <2> QED
    BY <1>1, <2>1 DEF StageInv, Indices
<1> QED
  BY <1>3, <1>4, <1>5, <1>7, <1>8, <1>9, <1>10, <1>11, <1>12, <1>13, <1>14 DEF Next
-----------------------------------------------------------------------------
(* What the steps make of the parts.                                       *)

LEMMA PartsAre ==
  ASSUME SinkInv
  PROVE  /\ Len(queued["icap"]) \in Nat /\ DOMAIN Parts = 0 .. Len(queued["icap"])
         /\ Parts[0] = sink
         /\ \A j \in 1 .. Len(queued["icap"]) :
              Parts[j] = blocks["icap"][queued["icap"][j]].content
         /\ \A j \in DOMAIN Parts :
              /\ Parts[j] \in Seq(Word) /\ Len(Parts[j]) \in Nat
              /\ DOMAIN Parts[j] = 1 .. Len(Parts[j])
         /\ \A j \in DOMAIN Parts, i \in Nat :
              << j, i >> \in Places(Parts) <=> i \in 1 .. Len(Parts[j])
         /\ \A a \in Places(Parts) : /\ a = << a[1], a[2] >> /\ a[1] \in DOMAIN Parts
                                     /\ a[2] \in 1 .. Len(Parts[a[1]])
                                     /\ a[1] \in Nat /\ a[2] \in Nat
                                     /\ WordAt(Parts, a) = Parts[a[1]][a[2]]
                                     /\ WordAt(Parts, a) \in Word
<1> DEFINE q == queued["icap"]  n == Len(q)
<1>1. n \in Nat /\ q \in Seq(Filled) /\ sink \in Seq(Word)
  BY DEF SinkInv
<1>2. \A j \in 1 .. n : blocks["icap"][q[j]].content \in Seq(Word)
  <2>1. \A j \in 1 .. n : q[j] \in Filled
    BY <1>1
  <2> QED
    BY <2>1 DEF Filled
<1>3. /\ DOMAIN Parts = 0 .. n /\ Parts[0] = sink
      /\ \A j \in 1 .. n : Parts[j] = blocks["icap"][q[j]].content
  BY <1>1 DEF Parts
<1> DEFINE parts == Parts
<1> HIDE DEF q, n, parts
<1>4. \A j \in DOMAIN parts : parts[j] \in Seq(Word)
  <2>1. \A j \in 0 .. n : j = 0 \/ j \in 1 .. n
    BY <1>1
  <2> QED
    BY <1>1, <1>2, <1>3, <2>1 DEF parts
<1>5. \A j \in DOMAIN parts : Len(parts[j]) \in Nat /\ DOMAIN parts[j] = 1 .. Len(parts[j])
  BY <1>4
<1>6. \A j \in DOMAIN parts, i \in Nat : << j, i >> \in Places(parts) <=> i \in 1 .. Len(parts[j])
  BY <1>5 DEF Places
<1>7. \A a \in Places(parts) : /\ a = << a[1], a[2] >> /\ a[1] \in DOMAIN parts
                               /\ a[2] \in DOMAIN parts[a[1]]
  BY DEF Places
<1>8. ASSUME NEW a \in Places(parts)
      PROVE  /\ a[2] \in 1 .. Len(parts[a[1]]) /\ a[1] \in Nat /\ a[2] \in Nat
             /\ WordAt(parts, a) = parts[a[1]][a[2]] /\ WordAt(parts, a) \in Word
  <2>1. a[1] \in DOMAIN parts /\ a[2] \in 1 .. Len(parts[a[1]]) /\ Len(parts[a[1]]) \in Nat
    BY <1>5, <1>7
  <2>2. a[1] \in Nat /\ a[2] \in Nat
    BY <1>1, <1>3, <2>1 DEF parts
  <2>3. parts[a[1]][a[2]] \in Word
    BY <1>4, <2>1
  <2> QED
    BY <2>1, <2>2, <2>3 DEF WordAt
<1> QED
  BY <1>1, <1>3, <1>4, <1>5, <1>6, <1>7, <1>8 DEF parts, n, q

(* Nothing is queued or taken, and what is queued stays.                   *)
LEMMA PartsKept ==
  ASSUME SinkInv, sink' = sink, queued'["icap"] = queued["icap"],
         \A i \in ToSet(queued["icap"]) : blocks'["icap"][i].content = blocks["icap"][i].content
  PROVE  Parts' = Parts
<1>1. Len(queued["icap"]) \in Nat /\ DOMAIN queued["icap"] = 1 .. Len(queued["icap"])
  BY DEF SinkInv
<1>2. \A j \in 1 .. Len(queued["icap"]) : queued["icap"][j] \in ToSet(queued["icap"])
  BY <1>1 DEF ToSet
<1>3. \A j \in 0 .. Len(queued["icap"]) : j = 0 \/ j \in 1 .. Len(queued["icap"])
  BY <1>1
<1> QED
  BY <1>2, <1>3 DEF Parts

(* enqueue() adds a part.                                                  *)
LEMMA PartAppended ==
  ASSUME SinkInv, SinkInv', sink' = sink, NEW i \in Nat, NEW item \in Seq(Word),
         queued'["icap"] = Append(queued["icap"], i), blocks'["icap"][i].content = item,
         \A k \in ToSet(queued["icap"]) : blocks'["icap"][k].content = blocks["icap"][k].content
  PROVE  Extends(Parts, Parts', item, Len(queued["icap"]) + 1, 0)
<1> DEFINE q == queued["icap"]  n == Len(q)  old == Parts  new == Parts'
<1>1. /\ n \in Nat /\ DOMAIN q = 1 .. n /\ Len(queued'["icap"]) = n + 1
      /\ queued'["icap"][n + 1] = i
      /\ \A j \in 1 .. n : queued'["icap"][j] = q[j] /\ q[j] \in ToSet(q)
  <2>1. q \in Seq(Nat) /\ n \in Nat
    BY RingIs
  <2> HIDE DEF q
  <2>2. /\ DOMAIN q = 1 .. n /\ Len(Append(q, i)) = n + 1 /\ Append(q, i)[n + 1] = i
        /\ \A j \in 1 .. n : Append(q, i)[j] = q[j]
    BY <2>1
  <2>3. \A j \in 1 .. n : q[j] \in ToSet(q)
    BY <2>2 DEF ToSet
  <2> QED
    BY <2>1, <2>2, <2>3 DEF q
<1>2. /\ DOMAIN old = 0 .. n /\ DOMAIN new = 0 .. n + 1
      /\ \A j \in 0 .. n : new[j] = old[j]
      /\ new[n + 1] = item
  <2>1. DOMAIN old = 0 .. n
    BY <1>1 DEF Parts
  <2>2. DOMAIN new = 0 .. n + 1
    BY <1>1 DEF Parts
  <2>3. ASSUME NEW j \in 0 .. n PROVE new[j] = old[j]
    <3>1. j = 0 \/ j \in 1 .. n
      BY <1>1
    <3>2. j \in 0 .. n + 1
      BY <1>1
    <3> QED
      BY <1>1, <3>1, <3>2 DEF Parts
  <2>4. n + 1 \in 0 .. n + 1 /\ n + 1 # 0
    BY <1>1
  <2>5. new[n + 1] = item
    BY <1>1, <2>4 DEF Parts
  <2> QED
    BY <2>1, <2>2, <2>3, <2>5
<1>3. /\ \A a \in Places(old) : /\ a = << a[1], a[2] >> /\ a[1] \in 0 .. n
                                /\ a[2] \in DOMAIN old[a[1]]
      /\ \A b \in Places(new) : /\ b = << b[1], b[2] >> /\ b[1] \in 0 .. n + 1
                                /\ b[2] \in DOMAIN new[b[1]]
      /\ \A j \in 0 .. n : \A k \in DOMAIN old[j] : << j, k >> \in Places(old)
      /\ \A j \in 0 .. n + 1 : \A k \in DOMAIN new[j] : << j, k >> \in Places(new)
  BY <1>2 DEF Places
<1>4. DOMAIN item = 1 .. Len(item) /\ Len(item) \in Nat
  OBVIOUS
<1> HIDE DEF q, n, old, new
<1>5. ASSUME NEW a \in Places(old)
      PROVE  /\ a \in Places(new) /\ WordAt(new, a) = WordAt(old, a)
             /\ \A k \in DOMAIN item :
                  Before(a, << n + 1, 0 + k >>) /\ ~ Before(<< n + 1, 0 + k >>, a)
  <2>1. /\ a = << a[1], a[2] >> /\ a[1] \in 0 .. n /\ a[2] \in DOMAIN old[a[1]]
        /\ a[1] \in 0 .. n + 1 /\ a[1] < n + 1 /\ ~ n + 1 < a[1] /\ n + 1 # a[1]
    BY <1>1, <1>3
  <2>2. a[2] \in DOMAIN new[a[1]]
    BY <1>2, <2>1
  <2>3. << a[1], a[2] >> \in Places(new)
    BY <1>3, <2>1, <2>2
  <2>4. a \in Places(new) /\ WordAt(new, a) = WordAt(old, a)
    BY <1>2, <2>1, <2>3 DEF WordAt
  <2> QED
    BY <2>1, <2>4 DEF Before
<1>6. ASSUME NEW k \in DOMAIN item
      PROVE  /\ << n + 1, 0 + k >> \in Places(new)
             /\ WordAt(new, << n + 1, 0 + k >>) = item[k]
  <2>1. 0 + k = k /\ n + 1 \in 0 .. n + 1
    BY <1>1, <1>4
  <2> QED
    BY <1>2, <1>3, <2>1 DEF WordAt
<1>7. ASSUME NEW b \in Places(new)
      PROVE  b \in Places(old) \/ \E k \in DOMAIN item : b = << n + 1, 0 + k >>
  <2>1. b = << b[1], b[2] >> /\ b[1] \in 0 .. n + 1 /\ b[2] \in DOMAIN new[b[1]]
    BY <1>3
  <2>2. b[1] \in 0 .. n \/ b[1] = n + 1
    BY <1>1, <2>1
  <2>3. CASE b[1] \in 0 .. n
    BY <1>2, <1>3, <2>1, <2>3
  <2>4. CASE b[1] = n + 1
    <3>1. b[2] \in DOMAIN item /\ b[2] = 0 + b[2]
      BY <1>2, <1>4, <2>1, <2>4
    <3> QED
      BY <2>1, <2>4, <3>1
  <2> QED
    BY <2>2, <2>3, <2>4
<1> QED
  BY <1>5, <1>6, <1>7 DEF Extends, old, new, n, q

(* Without a DMA node the words go to the sink at once.                    *)
LEMMA SinkLengthened ==
  ASSUME SinkInv, NEW words \in Seq(Word), sink' = sink \o words,
         queued["icap"] = << >>, queued'["icap"] = << >>
  PROVE  Extends(Parts, Parts', words, 0, Len(sink))
<1> DEFINE l == Len(sink)
<1>1. /\ l \in Nat /\ DOMAIN sink = 1 .. l /\ DOMAIN words = 1 .. Len(words) /\ Len(words) \in Nat
      /\ DOMAIN sink' = 1 .. l + Len(words)
      /\ \A k \in 1 .. l : sink'[k] = sink[k]
      /\ \A k \in 1 .. Len(words) : sink'[l + k] = words[k]
  <2> DEFINE W == Word  s == sink
  <2>1. s \in Seq(W) /\ words \in Seq(W)
    BY DEF SinkInv
  <2> HIDE DEF W, s
  <2>2. /\ Len(s) \in Nat /\ DOMAIN s = 1 .. Len(s) /\ DOMAIN words = 1 .. Len(words)
        /\ Len(words) \in Nat /\ DOMAIN (s \o words) = 1 .. Len(s) + Len(words)
        /\ \A k \in 1 .. Len(s) : (s \o words)[k] = s[k]
        /\ \A k \in 1 .. Len(words) : (s \o words)[Len(s) + k] = words[k]
    BY <2>1
  <2> QED
    BY <2>2 DEF s
<1>2. /\ DOMAIN Parts = {0} /\ DOMAIN Parts' = {0} /\ Parts[0] = sink /\ Parts'[0] = sink'
  <2>1. Len(<< >>) = 0 /\ 0 .. 0 = {0}
    OBVIOUS
  <2> QED
    BY <2>1 DEF Parts
<1> DEFINE old == Parts  new == Parts'
<1>3. /\ \A a \in Places(old) : a = << 0, a[2] >> /\ a[1] = 0 /\ a[2] \in DOMAIN sink
      /\ \A b \in Places(new) : b = << 0, b[2] >> /\ b[1] = 0 /\ b[2] \in DOMAIN sink'
      /\ \A k \in DOMAIN sink : << 0, k >> \in Places(old) /\ WordAt(old, << 0, k >>) = sink[k]
      /\ \A k \in DOMAIN sink' : << 0, k >> \in Places(new) /\ WordAt(new, << 0, k >>) = sink'[k]
  BY <1>2 DEF Places, WordAt
<1> HIDE DEF l, old, new
<1>4. ASSUME NEW a \in Places(old)
      PROVE  /\ a \in Places(new) /\ WordAt(new, a) = WordAt(old, a)
             /\ \A k \in DOMAIN words : Before(a, << 0, l + k >>) /\ ~ Before(<< 0, l + k >>, a)
  <2>1. a = << 0, a[2] >> /\ a[1] = 0 /\ a[2] \in 1 .. l
    BY <1>1, <1>3
  <2>2. a[2] \in DOMAIN sink'
    BY <1>1, <2>1
  <2>3. a \in Places(new) /\ WordAt(new, a) = WordAt(old, a)
    BY <1>1, <1>3, <2>1, <2>2
  <2>4. \A k \in DOMAIN words : a[2] < l + k /\ ~ l + k < a[2]
    BY <1>1, <2>1
  <2> QED
    BY <2>1, <2>3, <2>4 DEF Before
<1>5. ASSUME NEW k \in DOMAIN words
      PROVE  << 0, l + k >> \in Places(new) /\ WordAt(new, << 0, l + k >>) = words[k]
  <2>1. l + k \in DOMAIN sink'
    BY <1>1
  <2> QED
    BY <1>1, <1>3, <2>1
<1>6. ASSUME NEW b \in Places(new)
      PROVE  b \in Places(old) \/ \E k \in DOMAIN words : b = << 0, l + k >>
  <2>1. b = << 0, b[2] >> /\ b[2] \in 1 .. l + Len(words)
    BY <1>1, <1>3
  <2>2. b[2] \in 1 .. l \/ (b[2] - l \in 1 .. Len(words) /\ b[2] = l + (b[2] - l))
    BY <1>1, <2>1
  <2> QED
    BY <1>1, <1>3, <2>1, <2>2
<1> QED
  BY <1>4, <1>5, <1>6 DEF Extends, old, new, l

(* The ICAP takes a block: the first part gets the words of the second.    *)
LEMMA PartsJoined ==
  ASSUME SinkInv, SinkInv', Configure
  PROVE  /\ WordsOf(Parts') = WordsOf(Parts)
         /\ InOrder(Parts) => InOrder(Parts')
         /\ Closed(Parts) => Closed(Parts')
         /\ \A p \in Nat : Open(p, Parts) => Open(p, Parts')
<1> DEFINE q == queued["icap"]  n == Len(q)  old == Parts  new == Parts'  l == Len(sink)
           content == blocks["icap"][Head(q)].content  m == Len(content)
<1>1. /\ q # << >> /\ sink' = sink \o content /\ queued'["icap"] = Tail(q) /\ blocks' = blocks
  BY DEF Configure, SinkInv
<1>2. q \in Seq(Nat) /\ sink \in Seq(Word)
  BY RingIs DEF SinkInv
<1>3. /\ n \in Nat /\ n # 0 /\ Head(q) = q[1] /\ Len(queued'["icap"]) = n - 1
      /\ \A j \in 1 .. n - 1 : queued'["icap"][j] = q[j + 1]
  <2> HIDE DEF q
  <2>1. /\ Len(q) \in Nat /\ Len(q) # 0 /\ Head(q) = q[1] /\ Len(Tail(q)) = Len(q) - 1
        /\ \A j \in 1 .. Len(q) - 1 : Tail(q)[j] = q[j + 1]
    BY <1>1, <1>2
  <2> QED
    BY <1>1, <2>1
<1>4. /\ DOMAIN old = 0 .. n /\ old[0] = sink /\ 1 \in 0 .. n
      /\ \A j \in 1 .. n : old[j] = blocks["icap"][q[j]].content
      /\ \A j \in 0 .. n : DOMAIN old[j] = 1 .. Len(old[j]) /\ Len(old[j]) \in Nat
  BY <1>3, PartsAre
<1>5. content = old[1] /\ content \in Seq(Word)
  <2>1. 1 \in 1 .. n
    BY <1>3
  <2> QED
    BY <1>3, <1>4, <2>1, PartsAre
<1>6. /\ DOMAIN new = 0 .. n - 1 /\ new[0] = sink'
      /\ \A j \in 1 .. n - 1 : new[j] = old[j + 1]
  <2>1. DOMAIN new = 0 .. n - 1
    BY <1>3 DEF Parts
  <2>2. 0 \in 0 .. n - 1
    BY <1>3
  <2>3. new[0] = sink'
    BY <2>1, <2>2 DEF Parts
  <2>4. ASSUME NEW j \in 1 .. n - 1 PROVE new[j] = old[j + 1]
    <3>1. j \in 0 .. n - 1 /\ j # 0 /\ j + 1 \in 1 .. n
      BY <1>3
    <3>2. new[j] = blocks["icap"][q[j + 1]].content
      BY <1>1, <1>3, <3>1 DEF Parts
    <3> QED
      BY <1>4, <3>1, <3>2
  <2> QED
    BY <2>1, <2>3, <2>4
<1>7. /\ l \in Nat /\ m \in Nat /\ DOMAIN sink = 1 .. l /\ DOMAIN content = 1 .. m
      /\ DOMAIN sink' = 1 .. l + m
      /\ \A k \in 1 .. l : sink'[k] = sink[k]
      /\ \A k \in 1 .. m : sink'[l + k] = content[k]
  <2> DEFINE W == Word  s == sink
  <2>1. s \in Seq(W) /\ content \in Seq(W)
    BY <1>2, <1>5
  <2> HIDE DEF W, s, content
  <2>2. /\ Len(s) \in Nat /\ DOMAIN s = 1 .. Len(s) /\ DOMAIN content = 1 .. Len(content)
        /\ Len(content) \in Nat /\ DOMAIN (s \o content) = 1 .. Len(s) + Len(content)
        /\ \A k \in 1 .. Len(s) : (s \o content)[k] = s[k]
        /\ \A k \in 1 .. Len(content) : (s \o content)[Len(s) + k] = content[k]
    BY <2>1
  <2> QED
    BY <1>1, <2>2 DEF s
<1> HIDE DEF content, q, n, old, new, l, m
<1>8. /\ \A j \in 0 .. n : \A k \in DOMAIN old[j] : << j, k >> \in Places(old)
      /\ \A j \in 0 .. n - 1 : \A k \in DOMAIN new[j] : << j, k >> \in Places(new)
      /\ \A a \in Places(old) : a = << a[1], a[2] >> /\ a[1] \in 0 .. n /\ a[2] \in DOMAIN old[a[1]]
      /\ \A b \in Places(new) :
           b = << b[1], b[2] >> /\ b[1] \in 0 .. n - 1 /\ b[2] \in DOMAIN new[b[1]]
  BY <1>4, <1>6 DEF Places
<1> DEFINE Back(b) == IF b[1] # 0 THEN << b[1] + 1, b[2] >>
                      ELSE IF b[2] <= l THEN b ELSE << 1, b[2] - l >>
           back == [b \in Places(new) |-> Back(b)]
<1>9. ASSUME NEW b \in Places(new)
      PROVE  /\ b[1] \in Nat /\ b[2] \in Nat
             /\ \/ /\ b[1] # 0 /\ Back(b) = << b[1] + 1, b[2] >> /\ b[1] + 1 \in 0 .. n
                   /\ b[2] \in DOMAIN old[b[1] + 1] /\ new[b[1]] = old[b[1] + 1]
                \/ /\ b[1] = 0 /\ b[2] <= l /\ b[2] \in 1 .. l /\ Back(b) = b
                \/ /\ b[1] = 0 /\ ~ b[2] <= l /\ b[2] - l \in 1 .. m /\ b[2] = l + (b[2] - l)
                   /\ Back(b) = << 1, b[2] - l >>
  <2>1. b = << b[1], b[2] >> /\ b[1] \in 0 .. n - 1 /\ b[2] \in DOMAIN new[b[1]]
    BY <1>8
  <2>2. CASE b[1] # 0
    <3>1. b[1] \in 1 .. n - 1 /\ b[1] + 1 \in 0 .. n /\ b[1] \in Nat
      BY <1>3, <2>1, <2>2
    <3>2. new[b[1]] = old[b[1] + 1] /\ DOMAIN new[b[1]] = 1 .. Len(old[b[1] + 1])
          /\ Len(old[b[1] + 1]) \in Nat
      BY <1>4, <1>6, <3>1
    <3>3. b[2] \in Nat
      BY <2>1, <3>2
    <3> QED
      BY <2>1, <2>2, <3>1, <3>2, <3>3
  <2>3. CASE b[1] = 0
    <3>1. b[2] \in 1 .. l + m
      BY <1>6, <1>7, <2>1, <2>3
    <3>2. b[2] \in Nat /\ ((b[2] <= l /\ b[2] \in 1 .. l)
            \/ (~ b[2] <= l /\ b[2] - l \in 1 .. m /\ b[2] = l + (b[2] - l)))
      BY <1>7, <3>1
    <3> QED
      BY <2>3, <3>2
  <2> QED
    BY <2>2, <2>3
<1>10. ASSUME NEW b \in Places(new)
       PROVE  Back(b) \in Places(old) /\ WordAt(old, Back(b)) = WordAt(new, b)
  <2>1. CASE b[1] # 0
    <3>1. /\ Back(b) = << b[1] + 1, b[2] >> /\ b[1] + 1 \in 0 .. n
          /\ b[2] \in DOMAIN old[b[1] + 1] /\ new[b[1]] = old[b[1] + 1]
      BY <1>9, <2>1
    <3> HIDE DEF Back
    <3> QED
      BY <1>8, <3>1 DEF WordAt
  <2>2. CASE b[1] = 0 /\ b[2] <= l
    <3> HIDE DEF Back
    <3>0. b = << 0, b[2] >> /\ 0 \in 0 .. n
      BY <1>3, <1>8, <2>2
    <3>1. Back(b) = b /\ b[2] \in 1 .. l /\ b = << 0, b[2] >> /\ 0 \in 0 .. n
      BY <1>9, <2>2, <3>0
    <3>2. b \in Places(old)
      BY <1>4, <1>7, <1>8, <3>1
    <3> QED
      BY <1>4, <1>6, <1>7, <2>2, <3>1, <3>2 DEF WordAt
  <2>3. CASE b[1] = 0 /\ ~ b[2] <= l
    <3>1. Back(b) = << 1, b[2] - l >> /\ b[2] - l \in 1 .. m /\ b[2] = l + (b[2] - l)
      BY <1>9, <2>3
    <3> HIDE DEF Back
    <3>2. << 1, b[2] - l >> \in Places(old)
      BY <1>4, <1>5, <1>7, <1>8, <3>1
    <3>3. sink'[b[2]] = content[b[2] - l]
      BY <1>7, <3>1
    <3> QED
      BY <1>5, <1>6, <2>3, <3>1, <3>2, <3>3 DEF WordAt
  <2> QED
    BY <2>1, <2>2, <2>3
<1>11. ASSUME NEW b \in Places(new), NEW c \in Places(new), Before(b, c)
       PROVE  Before(Back(b), Back(c))
  <2>1. /\ b[1] \in Nat /\ b[2] \in Nat /\ c[1] \in Nat /\ c[2] \in Nat /\ l \in Nat
        /\ b[1] < c[1] \/ (b[1] = c[1] /\ b[2] < c[2])
    BY <1>7, <1>9, <1>11 DEF Before
  <2>2. Back(b)[1] = (IF b[1] # 0 THEN b[1] + 1 ELSE IF b[2] <= l THEN 0 ELSE 1)
        /\ Back(b)[2] = (IF b[1] # 0 THEN b[2] ELSE IF b[2] <= l THEN b[2] ELSE b[2] - l)
    OBVIOUS
  <2>3. Back(c)[1] = (IF c[1] # 0 THEN c[1] + 1 ELSE IF c[2] <= l THEN 0 ELSE 1)
        /\ Back(c)[2] = (IF c[1] # 0 THEN c[2] ELSE IF c[2] <= l THEN c[2] ELSE c[2] - l)
    OBVIOUS
  <2> HIDE DEF Back
  <2> QED
    BY <2>1, <2>2, <2>3 DEF Before
<1>12. ASSUME NEW a \in Places(old) PROVE \E b \in Places(new) : Back(b) = a
  <2>1. a = << a[1], a[2] >> /\ a[1] \in 0 .. n /\ a[2] \in 1 .. Len(old[a[1]])
        /\ DOMAIN old[a[1]] = 1 .. Len(old[a[1]]) /\ Len(old[a[1]]) \in Nat
    BY <1>4, <1>8
  <2>2. CASE a[1] = 0
    <3>1. a[2] \in 1 .. l
      BY <1>4, <1>7, <2>1, <2>2
    <3>2. a[2] \in DOMAIN new[0] /\ 0 \in 0 .. n - 1
      BY <1>3, <1>6, <1>7, <3>1
    <3>3. a \in Places(new)
      BY <1>8, <2>1, <2>2, <3>2
    <3>4. Back(a) = a
      BY <1>7, <2>2, <3>1
    <3> QED
      BY <3>3, <3>4
  <2>3. CASE a[1] = 1
    <3>1. a[2] \in 1 .. m
      BY <1>5, <1>7, <2>1, <2>3
    <3>2. l + a[2] \in DOMAIN new[0] /\ 0 \in 0 .. n - 1 /\ ~ l + a[2] <= l /\ (l + a[2]) - l = a[2]
      BY <1>3, <1>6, <1>7, <3>1
    <3>3. << 0, l + a[2] >> \in Places(new)
      BY <1>8, <3>2
    <3>4. Back(<< 0, l + a[2] >>) = a
      BY <2>1, <2>3, <3>2
    <3> QED
      BY <3>3, <3>4
  <2>4. CASE a[1] # 0 /\ a[1] # 1
    <3> DEFINE j == a[1] - 1
    <3>1. j \in 1 .. n - 1 /\ j \in 0 .. n - 1 /\ j + 1 = a[1] /\ j # 0
      BY <1>3, <2>1, <2>4
    <3> HIDE DEF j
    <3>2. new[j] = old[a[1]]
      BY <1>6, <3>1
    <3>3. << j, a[2] >> \in Places(new)
      BY <1>8, <2>1, <3>1, <3>2
    <3>4. Back(<< j, a[2] >>) = a
      BY <2>1, <3>1
    <3> QED
      BY <3>3, <3>4
  <2> QED
    BY <2>2, <2>3, <2>4
<1> HIDE DEF Back
<1>13. /\ back \in [Places(new) -> Places(old)]
       /\ \A b \in Places(new) : back[b] = Back(b)
  BY <1>10
<1> HIDE DEF back
<1>14. /\ \A b \in Places(new) : WordAt(old, back[b]) = WordAt(new, b)
       /\ \A b, c \in Places(new) : Before(b, c) => Before(back[b], back[c])
       /\ \A a \in Places(old) : \E b \in Places(new) : back[b] = a
  BY <1>10, <1>11, <1>12, <1>13
<1> QED
  BY <1>13, <1>14, StreamRearranged DEF old, new
-----------------------------------------------------------------------------
(* The order of the words, and the padding.                                *)

(* All words are of images, in order and with no padding inside; and while *)
(* words of an image are still to come, no padding has come after those    *)
(* that were sent.                                                         *)
StreamInv ==
  /\ WordsOf(Parts) \ {Nop} = SentWords
  /\ InOrder(Parts) /\ Closed(Parts)
  /\ at \in {"begin", "fill"} /\ Available > 0 => Open(Len(programs), Parts)

(* A round is about an even number of words, or about all that are left.   *)
Left == IF file.kind = "bit" THEN file.size - total ELSE Available
EvenInv == at \in {"begin", "fill"} => chunk % 2 = 0 \/ chunk >= Left

(* The sizes of buffers are even.                                          *)
LEMMA EvenMultiple ==
  ASSUME NEW m \in Nat \ {0}, m % 2 = 0, NEW n \in Nat, n % m = 0
  PROVE  n % 2 = 0
<1> DEFINE k == m \div 2  j == n \div m
<1>1. k \in Nat /\ m = 2 * k
  OBVIOUS
<1>2. j \in Nat /\ n = m * j
  OBVIOUS
<1> HIDE DEF k, j
<1>3. k * j \in Nat /\ n = 2 * (k * j)
  BY <1>1, <1>2
<1> DEFINE x == k * j
<1> HIDE DEF x
<1>4. x \in Nat /\ n = 2 * x
  BY <1>3 DEF x
<1> QED
  BY <1>4

LEMMA SizesAreEven ==
  /\ ALIGN_SIZE % 2 = 0 /\ BUFFER_SIZE % 2 = 0 /\ programmer_blocksize % 2 = 0
  /\ MemorySize \in Nat /\ MemorySize % 2 = 0
<1>1. /\ ALIGN_SIZE \in Nat \ {0} /\ BUFFER_SIZE \in Nat \ {0}
      /\ programmer_blocksize \in Nat \ {0} /\ ALIGN_SIZE % 2 = 0
      /\ BUFFER_SIZE % ALIGN_SIZE = 0 /\ programmer_blocksize % BUFFER_SIZE = 0
  BY ProgrammerAssumption
<1>2. BUFFER_SIZE % 2 = 0
  BY <1>1, EvenMultiple
<1>3. programmer_blocksize % 2 = 0
  BY <1>1, <1>2, EvenMultiple
<1> QED
  BY <1>1, <1>2, <1>3 DEF MemorySize

(* The next multiple of ALIGN_SIZE is even.                                *)
LEMMA AlignedIsEven ==
  ASSUME NEW m \in Nat \ {0}, m % 2 = 0, NEW n \in Nat
  PROVE  (n + (IF n % m = 0 THEN 0 ELSE m - (n % m))) % 2 = 0
<1> DEFINE j == n \div m  r == n % m
<1>1. j \in Nat /\ r \in 0 .. m - 1 /\ n = m * j + r
  OBVIOUS
<1> HIDE DEF j, r
<1>2. CASE r = 0
  <2>1. n % m = 0
    BY <1>2 DEF r
  <2>2. n % 2 = 0
    BY <2>1, EvenMultiple
  <2>3. n + 0 = n
    OBVIOUS
  <2> QED
    BY <2>1, <2>2, <2>3
<1>3. CASE r # 0
  <2> DEFINE x == n + (m - r)
  <2>1. x = m * j + m /\ x \in Nat
    BY <1>1
  <2>2. x % m = 0
    BY <1>1, <2>1
  <2> HIDE DEF x
  <2>3. x % 2 = 0
    BY <2>1, <2>2, EvenMultiple
  <2> QED
    BY <1>3, <2>3 DEF x, r
<1> QED
  BY <1>2, <1>3

(* Every round is about an even number of words, or the rest.              *)
LEMMA NextEven == ProgramInv /\ EvenInv /\ [Next]_progVars => EvenInv'
<1> SUFFICES ASSUME ProgramInv, EvenInv, [Next]_progVars PROVE EvenInv'
  OBVIOUS
<1>1. CASE UNCHANGED << programs, chunk, at >>
  BY <1>1 DEF EvenInv, Left, Available, file, total, Current
<1>2. CASE at' \notin {"begin", "fill"}
  BY <1>2 DEF EvenInv
<1>3. CASE OpenImage /\ at' = "begin"
  <2>1. /\ Refused = "none" /\ chunk' = FirstChunk /\ programs' = programs
        /\ programs \in Seq(Program) /\ programs # << >> /\ total = 0
    BY <1>3 DEF OpenImage, ProgramInv, CallInv
  <2>2. file' = file /\ total' = total /\ Left' = Left
    BY <2>1 DEF file, total, Current, Left, Available
  <2>3. /\ file.header \in Nat /\ file.size \in Nat /\ file.length \in Nat
        /\ ReadFirst \in Nat /\ ALIGN_SIZE \in Nat \ {0} /\ ~ file.header >= ReadFirst
        /\ ReadFirst = (IF file.length < ALIGN_SIZE THEN file.length ELSE ALIGN_SIZE)
        /\ file.kind # "bit" => file.header = 0
    BY <2>1, CurrentCall, ImagesAre DEF ReadFirst, Refused
  <2>4. CASE file.kind # "bit"
    <3>1. FirstChunk = ReadFirst /\ Left = (file.length - 0) - 0
      BY <2>1, <2>3, <2>4 DEF FirstChunk, Left, Available
    <3>2. FirstChunk = ALIGN_SIZE \/ FirstChunk >= Left
      BY <2>3, <3>1
    <3> QED
      BY <2>1, <2>2, <3>2, SizesAreEven DEF EvenInv
  <2>5. CASE file.kind = "bit"
    <3> DEFINE n == ReadFirst - file.header
    <3>1. n \in Nat /\ Left = file.size
      BY <2>1, <2>3, <2>5 DEF Left
    <3>2. FirstChunk = IF n >= file.size THEN file.size
                       ELSE n + (IF n % ALIGN_SIZE = 0 THEN 0 ELSE ALIGN_SIZE - (n % ALIGN_SIZE))
      BY <2>5 DEF FirstChunk
    <3> HIDE DEF n
    <3>3. FirstChunk = file.size \/ FirstChunk % 2 = 0
      <4>1. (n + (IF n % ALIGN_SIZE = 0 THEN 0 ELSE ALIGN_SIZE - (n % ALIGN_SIZE))) % 2 = 0
        BY <2>3, <3>1, SizesAreEven, AlignedIsEven
      <4> QED
        BY <3>2, <4>1
    <3>4. FirstChunk = file.size => FirstChunk >= Left
      BY <2>3, <3>1
    <3> QED
      BY <2>1, <2>2, <3>3, <3>4 DEF EvenInv
  <2> QED
    BY <2>4, <2>5
<1>4. CASE beginProcessData
  <2>1. /\ at = "begin" /\ programs' = programs
        /\ chunk' = IF chunk < MemorySize THEN chunk ELSE MemorySize
    BY <1>4 DEF beginProcessData
  <2>2. Left' = Left
    BY <2>1 DEF Left, Available, file, total, Current
  <2>3. chunk' = chunk \/ chunk' % 2 = 0
    BY <2>1, SizesAreEven
  <2> QED
    BY <2>1, <2>2, <2>3 DEF EvenInv
<1>5. CASE Fill /\ at' = "begin"
  <2>1. PICK n, a \in Nat : Sends(n, a)
    BY <1>5, FillSends
  <2>2. /\ file' = file /\ total' = total + a
        /\ chunk' = IF file.kind = "bit" THEN file.size - (total + a) ELSE BUFFER_SIZE
        /\ file.kind = "bit" => total + a < file.size
    BY <1>5, <2>1 DEF Sends
  <2>3. programs \in Seq(Program) /\ programs # << >>
    BY <1>5, FillSends DEF ProgramInv, CallInv
  <2>4. file.size \in Nat /\ total \in Nat
    BY <2>3, CurrentCall
  <2>5. CASE file.kind = "bit"
    <3>1. Left' = chunk' /\ chunk' \in Nat
      BY <2>2, <2>4, <2>5 DEF Left
    <3>2. chunk' >= Left'
      BY <3>1
    <3> QED
      BY <3>2 DEF EvenInv
  <2>6. CASE file.kind # "bit"
    BY <2>2, <2>6, SizesAreEven DEF EvenInv
  <2> QED
    BY <2>5, <2>6
<1>6. CASE Construct \/ ConstructFails \/ Configure \/ UNCHANGED progVars
  BY <1>1, <1>6 DEF Construct, ConstructFails, Configure, progVars
<1>7. CASE CallFromFile \/ FillEnds \/ Overrun \/ SendNOP \/ Flushing \/ DeleteWriter
  BY <1>2, <1>7 DEF CallFromFile, FillEnds, Overrun, SendNOP, Flushing, DeleteWriter
<1>8. CASE Destroy
  <2>1. at' = "nop" \/ at' = "idle"
    BY <1>8 DEF Destroy, ProgramInv
  <2> QED
    BY <1>2, <2>1
<1>9. CASE OpenImage
  BY <1>2, <1>3, <1>9 DEF OpenImage
<1>10. CASE Fill
  <2>1. at' \in {"idle", "begin"}
    BY <1>10, FillSends DEF Sends
  <2> QED
    BY <1>2, <1>5, <1>10, <2>1
<1> QED
  BY <1>4, <1>6, <1>7, <1>8, <1>9, <1>10 DEF Next

(* A step that leaves the parts and the words that were sent.              *)
LEMMA StreamStays ==
  ASSUME StreamInv, Parts' = Parts, SentWords' = SentWords,
         at' \notin {"begin", "fill"}
         \/ (at \in {"begin", "fill"} /\ Available' = Available /\ Len(programs') = Len(programs))
  PROVE  StreamInv'
BY DEF StreamInv

(* The words that were sent, one by one.                                   *)
LEMMA SentWordsAre ==
  /\ \A w : w \in SentWords <=>
       \E p \in DOMAIN programs :
         \E k \in 1 .. programs[p].sent : w = << p, k, programs[p].file.kind = "bit" >>
  /\ \A w : w \in SentWords' <=>
       \E p \in DOMAIN programs' :
         \E k \in 1 .. programs'[p].sent : w = << p, k, programs'[p].file.kind = "bit" >>
BY DEF SentWords

(* How a call ends is no word of it.                                       *)
LEMMA SameWords ==
  ASSUME programs \in Seq(Program), programs # << >>, NEW result, Returns(result)
  PROVE  SentWords' = SentWords
<1>1. /\ DOMAIN programs' = DOMAIN programs
      /\ \A p \in DOMAIN programs : /\ programs'[p].file = programs[p].file
                                    /\ programs'[p].sent = programs[p].sent
  BY CurrentCall DEF Returns, Program, Current
<1>2. \A w : w \in SentWords' <=> w \in SentWords
  BY <1>1, SentWordsAre
<1> QED
  BY <1>2

(* A round adds to the words that were sent those it was about.            *)
LEMMA MoreWords ==
  ASSUME programs \in Seq(Program), programs # << >>, total \in Nat, NEW n \in Nat, NEW a \in Nat,
         Sends(n, a)
  PROVE  SentWords' = SentWords
           \cup {<< Len(programs), total + k, file.kind = "bit" >> : k \in 1 .. a}
<1> DEFINE l == Len(programs)  bit == file.kind = "bit"
           New == {<< l, total + k, bit >> : k \in 1 .. a}
<1>1. /\ l \in Nat /\ DOMAIN programs = 1 .. l /\ DOMAIN programs' = 1 .. l /\ l \in 1 .. l
      /\ \A p \in 1 .. l : programs'[p].file = programs[p].file
      /\ \A p \in 1 .. l : p # l => programs'[p].sent = programs[p].sent
  <2>1. l \in Nat /\ DOMAIN programs = 1 .. l /\ l \in 1 .. l
    BY CurrentCall
  <2>2. programs' \in Seq(Program) /\ Len(programs') = l
    BY DEF Sends
  <2>3. DOMAIN programs' = 1 .. l
    BY <2>2
  <2>4. \A p \in DOMAIN programs :
          /\ programs'[p].file = programs[p].file
          /\ p # Len(programs) => programs'[p] = programs[p]
    BY DEF Sends
  <2> QED
    BY <2>1, <2>3, <2>4
<1>2. programs'[l].sent = total + a /\ programs[l].sent = total /\ programs[l].file = file
  BY DEF Sends, total, Current, file
<1> HIDE DEF l, bit, New
<1>3. ASSUME NEW w \in SentWords PROVE w \in SentWords'
  <2>1. PICK p \in 1 .. l : \E k \in 1 .. programs[p].sent :
          w = << p, k, programs[p].file.kind = "bit" >>
    BY <1>1, <1>3, SentWordsAre
  <2>2. PICK k \in 1 .. programs[p].sent : w = << p, k, programs'[p].file.kind = "bit" >>
    BY <1>1, <2>1
  <2>3. k \in 1 .. programs'[p].sent
    BY <1>1, <1>2, <2>2
  <2> QED
    BY <1>1, <2>2, <2>3, SentWordsAre
<1>4. ASSUME NEW w \in New PROVE w \in SentWords'
  <2>1. PICK k \in 1 .. a : w = << l, total + k, bit >>
    BY <1>4 DEF New
  <2>2. total + k \in 1 .. programs'[l].sent
    BY <1>2, <2>1
  <2>3. w = << l, total + k, programs'[l].file.kind = "bit" >>
    BY <1>1, <1>2, <2>1 DEF bit
  <2> QED
    BY <1>1, <2>2, <2>3, SentWordsAre
<1>5. ASSUME NEW w \in SentWords' PROVE w \in SentWords \cup New
  <2>1. PICK p \in 1 .. l : \E k \in 1 .. programs'[p].sent :
          w = << p, k, programs'[p].file.kind = "bit" >>
    BY <1>1, <1>5, SentWordsAre
  <2>2. PICK k \in 1 .. programs'[p].sent : w = << p, k, programs[p].file.kind = "bit" >>
    BY <1>1, <2>1
  <2>3. CASE k \in 1 .. programs[p].sent
    BY <1>1, <2>2, <2>3, SentWordsAre
  <2>4. CASE k \notin 1 .. programs[p].sent
    <3>1. p = l /\ k \in 1 .. total + a /\ k \notin 1 .. total
      BY <1>1, <1>2, <2>2, <2>4
    <3> DEFINE d == k - total
    <3>2. d \in 1 .. a /\ k = total + d
      BY <3>1
    <3> HIDE DEF d
    <3>3. w = << l, total + d, bit >>
      BY <1>2, <2>2, <3>1, <3>2 DEF bit
    <3> QED
      BY <3>2, <3>3 DEF New
  <2> QED
    BY <2>3, <2>4
<1>6. SentWords' = SentWords \cup New
  BY <1>3, <1>4, <1>5
<1> QED
  BY <1>6 DEF l, bit, New

(* The words that are there are of calls that were made, and no further    *)
(* than these have come.                                                   *)
LEMMA WordsSoFar ==
  ASSUME programs \in Seq(Program), programs # << >>, SinkInv, StreamInv,
         NEW a \in ImagePlaces(Parts)
  PROVE  LET w == WordAt(Parts, a)  p == Len(programs) IN
         w[1] \in Nat /\ w[2] \in Nat /\ w[2] # 0 /\ (w[1] < p \/ (w[1] = p /\ w[2] <= total))
<1> DEFINE w == WordAt(Parts, a)  l == Len(programs)
<1>1. w \in SentWords
  BY DEF StreamInv, WordsOf, ImagePlaces
<1>2. DOMAIN programs = 1 .. l /\ l \in Nat
  BY CurrentCall
<1>3. PICK p \in 1 .. l : \E k \in 1 .. programs[p].sent :
        w = << p, k, programs[p].file.kind = "bit" >>
  BY <1>1, <1>2, SentWordsAre
<1>4. PICK k \in 1 .. programs[p].sent : w = << p, k, programs[p].file.kind = "bit" >>
  BY <1>3
<1> DEFINE s == programs[p].sent
<1>5. s \in Nat
  <2>1. p \in DOMAIN programs
    BY <1>2
  <2>2. programs[p] \in Program
    BY <2>1
  <2> QED
    BY <2>2 DEF Program
<1>6. p = l => s = total
  BY DEF total, Current
<1> HIDE DEF w, l, s
<1>7. w[1] = p /\ w[2] = k /\ k \in 1 .. s
  BY <1>4 DEF s
<1>8. k \in Nat /\ k # 0 /\ k <= s /\ p \in Nat /\ (p < l \/ p = l)
  BY <1>2, <1>5, <1>7
<1> QED
  BY <1>6, <1>7, <1>8 DEF w, l

(* A round of fromFile.                                                    *)
LEMMA StreamFills ==
  ASSUME ProgramInv, SinkInv, SinkInv', OwnInv, StageInv, EvenInv, StreamInv, Fill
  PROVE  StreamInv'
<1>1. at = "fill" /\ Available \in Nat /\ total \in Nat
  BY FillSends
<1>2. PICK n, a \in Nat : Sends(n, a) /\ Words(n) \in Seq(Word) /\ Len(Words(n)) = n
  BY FillSends
<1>3. programs \in Seq(Program) /\ programs # << >> /\ chunk \in Nat
  BY <1>1 DEF ProgramInv, CallInv
<1> DEFINE p == Len(programs)  bit == file.kind = "bit"  words == Words(n)
<1>4. /\ p \in Nat \ {0} /\ bit \in BOOLEAN /\ file.size \in Nat
      /\ Available = (file.length - file.header) - total
      /\ file.length \in Nat /\ file.header \in Nat
  BY <1>3, CurrentCall DEF Available
<1>5. /\ n # 0 /\ a <= n /\ n <= Available /\ n <= chunk /\ (n = chunk \/ n = Available)
      /\ (bit => n = chunk) /\ file' = file /\ total' = total + a /\ Len(programs') = p
      /\ at' \in {"idle", "begin"}
      /\ at' = "begin" => a = n /\ (bit => total + a < file.size)
      /\ EndProcessData(words, a)
  BY <1>2 DEF Sends
<1>6. Open(p, Parts)
  BY <1>1, <1>5 DEF StreamInv
<1>7. SentWords' = SentWords \cup {<< p, total + k, bit >> : k \in 1 .. a}
  BY <1>1, <1>2, <1>3, MoreWords
<1>8. DOMAIN words = 1 .. n /\ \A k \in 1 .. n : words[k] = << p, total + k, bit >>
  BY DEF Words
<1>9. UpTo(Parts, p, total)
  BY <1>3, WordsSoFar DEF UpTo
<1>10. InOrder(Parts) /\ Closed(Parts) /\ WordsOf(Parts) \ {Nop} = SentWords
  BY DEF StreamInv
<1>11. Available' = (file.length - file.header) - (total + a)
  BY <1>5 DEF Available
<1> HIDE DEF words, bit, p
<1>12. ASSUME NEW more \in Seq(Word), NEW j \in Nat, NEW base \in Nat,
              Extends(Parts, Parts', more, j, base), NextWords(more, p, total, a, bit),
              DOMAIN more = 1 .. a \/ at' # "begin" \/ ~ Available' > 0
       PROVE  StreamInv'
  <2>1. /\ \A w : w \in WordsOf(Parts') \ {Nop} <=>
             \/ w \in WordsOf(Parts) \ {Nop}
             \/ \E k \in 1 .. a : w = << p, total + k, bit >>
        /\ InOrder(Parts') /\ Closed(Parts')
        /\ DOMAIN more = 1 .. a => Open(p, Parts')
    <3> DEFINE old == Parts  new == Parts'  t == total
    <3>1. /\ Extends(old, new, more, j, base) /\ NextWords(more, p, t, a, bit) /\ Open(p, old)
          /\ InOrder(old) /\ Closed(old) /\ t \in Nat /\ p \in Nat \ {0} /\ bit \in BOOLEAN
          /\ UpTo(old, p, t) /\ a \in Nat /\ j \in Nat /\ base \in Nat
      BY <1>1, <1>4, <1>6, <1>9, <1>10, <1>12
    <3> HIDE DEF old, new, t
    <3>2. /\ ImageGrown(old, new, p, t, a, bit)
          /\ DOMAIN more = 1 .. a => Open(p, new)
      BY <3>1, ImageAdded
    <3> QED
      BY <3>2 DEF ImageGrown, old, new, t
  <2>2. WordsOf(Parts') \ {Nop} = SentWords'
    BY <1>7, <1>10, <2>1
  <2>3. at' \in {"begin", "fill"} /\ Available' > 0 => Open(p, Parts')
    BY <1>5, <1>12, <2>1
  <2> QED
    BY <1>5, <2>1, <2>2, <2>3 DEF StreamInv
<1>13. CASE via = "dma"
  <2> DEFINE more == Padded(words)
  <2>1. enqueue("icap", more) /\ block' = 0 /\ sink' = sink /\ a = n
    BY <1>2, <1>5, <1>13 DEF EndProcessData, words
  <2>2. more \in Seq(Word)
    BY <1>2, PaddedAreWords DEF words
  <2>3. /\ DOMAIN more = (IF n % 2 = 0 THEN 1 .. n ELSE 1 .. n + 1)
        /\ \A k \in 1 .. n : more[k] = words[k]
        /\ n % 2 # 0 => more[n + 1] = Nop
    <3> DEFINE W == Word
    <3>1. words \in Seq(W) /\ Len(words) = n /\ Nop \in W
      BY <1>2, NopIsWord DEF words
    <3>2. more = IF n % 2 = 0 THEN words ELSE Append(words, Nop)
      BY <3>1 DEF Padded
    <3> HIDE DEF more, W
    <3>3. /\ DOMAIN words = 1 .. n /\ DOMAIN Append(words, Nop) = 1 .. n + 1
          /\ \A k \in 1 .. n : Append(words, Nop)[k] = words[k]
          /\ Append(words, Nop)[n + 1] = Nop
      BY <3>1
    <3> QED
      BY <3>2, <3>3
  <2>4. PICK i \in Nat : /\ queued'["icap"] = Append(queued["icap"], i)
                         /\ blocks'["icap"][i].content = more
                         /\ \A k \in ToSet(queued["icap"]) :
                              blocks'["icap"][k].content = blocks["icap"][k].content
    BY <2>1, <2>2, OwnEnqueue
  <2> HIDE DEF more
  <2>5. Extends(Parts, Parts', more, Len(queued["icap"]) + 1, 0)
    BY <2>1, <2>2, <2>4, PartAppended
  <2>6. NextWords(more, p, total, a, bit)
    <3>1. DOMAIN more \in {1 .. a, 1 .. a + 1}
      BY <2>1, <2>3
    <3>2. ASSUME NEW k \in DOMAIN more
          PROVE  more[k] = IF k <= a THEN << p, total + k, bit >> ELSE Nop
      <4>1. k \in 1 .. a \/ (k = a + 1 /\ n % 2 # 0 /\ ~ k <= a)
        BY <2>1, <2>3
      <4>2. k \in 1 .. a => k <= a
        OBVIOUS
      <4> QED
        BY <1>8, <2>1, <2>3, <4>1, <4>2
    <3> QED
      BY <3>1, <3>2 DEF NextWords
  <2>7. DOMAIN more = 1 .. a \/ at' # "begin" \/ ~ Available' > 0
    <3> SUFFICES ASSUME at' = "begin", n % 2 # 0 PROVE Available' = 0
      BY <2>1, <2>3
    <3>1. chunk % 2 = 0 \/ chunk >= (IF bit THEN file.size - total ELSE Available)
      BY <1>1 DEF EvenInv, Left, bit
    <3>2. ~ bit
      BY <1>1, <1>2, <1>3, <1>4, <1>5, <3>1
    <3>3. n = Available
      BY <1>1, <1>2, <1>3, <1>5, <3>1, <3>2
    <3> QED
      BY <1>1, <1>4, <1>11, <2>1, <3>3
  <2>8. Len(queued["icap"]) + 1 \in Nat /\ 0 \in Nat
    BY PartsAre
  <2> DEFINE j == Len(queued["icap"]) + 1
  <2> HIDE DEF j
  <2>9. j \in Nat /\ Extends(Parts, Parts', more, j, 0)
    BY <2>5, <2>8 DEF j
  <2> QED
    BY <1>12, <2>2, <2>6, <2>7, <2>8, <2>9
<1>14. CASE via # "dma"
  <2> DEFINE more == SubSeq(words, 1, a)
  <2>1. sink' = sink \o more /\ UNCHANGED fifoVars
    BY <1>5, <1>14 DEF EndProcessData
  <2>2. queued["icap"] = << >> /\ queued'["icap"] = << >>
    BY <1>14, <2>1 DEF StageInv, fifoVars, driverVars
  <2>3. /\ more \in Seq(Word) /\ DOMAIN more = 1 .. a
        /\ \A k \in 1 .. a : more[k] = words[k]
    <3> DEFINE W == Word
    <3>1. words \in Seq(W) /\ Len(words) = n /\ a <= n
      BY <1>2, <1>5 DEF words
    <3> HIDE DEF W
    <3>2. more \in Seq(W) /\ Len(more) = a /\ \A k \in 1 .. a : more[k] = words[k]
      BY <1>2, <3>1
    <3>3. DOMAIN more = 1 .. a
      BY <3>2
    <3> QED
      BY <3>2, <3>3 DEF W
  <2> HIDE DEF more
  <2>4. Extends(Parts, Parts', more, 0, Len(sink))
    BY <2>1, <2>2, <2>3, SinkLengthened
  <2>5. \A k \in 1 .. a : k \in 1 .. n /\ k <= a
    BY <1>2, <1>5
  <2>6. NextWords(more, p, total, a, bit)
    BY <1>8, <2>3, <2>5 DEF NextWords
  <2>7. Len(sink) \in Nat /\ 0 \in Nat
    BY DEF SinkInv
  <2> DEFINE l == Len(sink)
  <2> HIDE DEF l
  <2>8. l \in Nat /\ Extends(Parts, Parts', more, 0, l)
    BY <2>4, <2>7 DEF l
  <2> QED
    BY <1>12, <2>3, <2>6, <2>7, <2>8
<1> QED
  BY <1>13, <1>14

(* Every step keeps the order of the words.                                *)
LEMMA NextStream ==
  ProgramInv /\ SinkInv /\ SinkInv' /\ OwnInv /\ StageInv /\ EvenInv /\ StreamInv
    /\ [Next]_progVars => StreamInv'
<1> SUFFICES ASSUME ProgramInv, SinkInv, SinkInv', OwnInv, StageInv, EvenInv, StreamInv,
                    [Next]_progVars
             PROVE  StreamInv'
  OBVIOUS
<1>1. ASSUME UNCHANGED << fifoVars, sink >> PROVE Parts' = Parts
  BY <1>1 DEF fifoVars, driverVars, Parts
<1>2. ASSUME UNCHANGED programs
      PROVE  SentWords' = SentWords /\ Available' = Available /\ Len(programs') = Len(programs)
  BY <1>2 DEF SentWords, Available, file, total, Current
<1>3. ASSUME Parts' = Parts, UNCHANGED << programs, at >> PROVE StreamInv'
  BY <1>2, <1>3, StreamStays
<1>4. CASE Construct \/ ConstructFails
  <2>1. /\ UNCHANGED << programs, at, sink >> /\ queued["icap"] = << >>
        /\ \/ Reconfigure("icap", programmer_numblocks)
           \/ ReconfigureRefused("icap")
           \/ UNCHANGED fifoVars
    BY <1>4 DEF Construct, ConstructFails, StageInv
  <2>2. CASE UNCHANGED fifoVars
    BY <1>1, <1>3, <2>1, <2>2
  <2>3. CASE Reconfigure("icap", programmer_numblocks) \/ ReconfigureRefused("icap")
    <3>1. queued'["icap"] = << >>
      BY <2>1, <2>3 DEF Reconfigure, ReconfigureRefused, DriverForgets, SinkInv
    <3>2. ToSet(queued["icap"]) = {}
      BY <2>1 DEF ToSet
    <3>3. Parts' = Parts
      BY <2>1, <3>1, <3>2, PartsKept
    <3> QED
      BY <1>3, <2>1, <3>3
  <2> QED
    BY <2>1, <2>2, <2>3
<1>5. CASE CallFromFile
  <2>1. UNCHANGED << fifoVars, sink >> /\ at' = "open"
    BY <1>5 DEF CallFromFile
  <2>2. PICK c : programs' = Append(programs, c) /\ c.sent = 0
    BY <1>5 DEF CallFromFile
  <2>3. programs \in Seq(Program) /\ Len(programs) \in Nat /\ DOMAIN programs = 1 .. Len(programs)
    BY DEF ProgramInv
  <2>4. /\ DOMAIN programs' = 1 .. Len(programs) + 1 /\ programs'[Len(programs) + 1] = c
        /\ \A p \in 1 .. Len(programs) : programs'[p] = programs[p]
    BY <2>2, <2>3
  <2>5. /\ \A p \in 1 .. Len(programs) : p \in 1 .. Len(programs) + 1
        /\ \A p \in 1 .. Len(programs) + 1 : p \in 1 .. Len(programs) \/ p = Len(programs) + 1
        /\ 1 .. 0 = {}
    BY <2>3
  <2>6. \A w : w \in SentWords' <=> w \in SentWords
    BY <2>2, <2>3, <2>4, <2>5, SentWordsAre
  <2>7. SentWords' = SentWords
    BY <2>6
  <2> QED
    BY <1>1, <2>1, <2>7, StreamStays
<1>6. CASE OpenImage \/ FillEnds
  <2>1. /\ UNCHANGED << fifoVars, sink >>
        /\ \/ at' = "idle" /\ \E result : Returns(result)
           \/ at = "open" /\ at' = "begin" /\ UNCHANGED programs
    BY <1>6 DEF OpenImage, FillEnds
  <2>2. programs \in Seq(Program) /\ programs # << >> /\ (at = "open" => total = 0)
    BY <1>6 DEF OpenImage, FillEnds, ProgramInv, CallInv
  <2>3. CASE at' = "idle" /\ \E result : Returns(result)
    BY <1>1, <2>1, <2>2, <2>3, SameWords, StreamStays
  <2>4. CASE at = "open" /\ at' = "begin" /\ UNCHANGED programs
    <3>1. ASSUME NEW a \in Places(Parts), WordAt(Parts, a)[1] = Len(programs) PROVE FALSE
      <4>1. Len(programs) \in Nat \ {0}
        BY <2>2, CurrentCall
      <4>0. WordAt(Parts, a) # Nop
        <5> DEFINE v == WordAt(Parts, a)
        <5>1. v[1] # 0
          BY <3>1, <4>1
        <5> HIDE DEF v
        <5>2. Nop[1] = 0
          BY DEF Nop
        <5>3. v # Nop
          BY <5>1, <5>2
        <5> QED
          BY <5>3 DEF v
      <4>2. a \in ImagePlaces(Parts)
        BY <3>1, <4>0 DEF ImagePlaces
      <4> DEFINE w == WordAt(Parts, a)  p == Len(programs)
      <4>3. w[1] \in Nat /\ w[2] \in Nat /\ w[2] # 0 /\ (w[1] < p \/ (w[1] = p /\ w[2] <= 0))
        BY <2>2, <2>4, <4>2, WordsSoFar
      <4>4. w[1] = p
        BY <3>1
      <4> HIDE DEF w, p
      <4> QED
        BY <4>3, <4>4
    <3>2. Open(Len(programs), Parts)
      BY <3>1 DEF Open
    <3>3. Parts' = Parts /\ SentWords' = SentWords /\ Len(programs') = Len(programs)
      BY <1>1, <1>2, <2>1, <2>4
    <3> QED
      BY <3>2, <3>3 DEF StreamInv
  <2> QED
    BY <2>1, <2>3, <2>4
<1>7. ASSUME TakeHead("icap"), UNCHANGED << queued, sink >> PROVE Parts' = Parts
  <2>1. \A i \in Indices("icap") : blocks'["icap"][i].content = blocks["icap"][i].content
    BY <1>7, TakesHead
  <2>2. ToSet(queued["icap"]) \subseteq Indices("icap")
    <3>1. Filled \subseteq Indices("icap")
      BY DEF Filled
    <3>2. queued["icap"] \in Seq(Filled)
      BY DEF SinkInv
    <3> DEFINE q == queued["icap"]
    <3> HIDE DEF q
    <3>3. q \in Seq(Filled)
      BY <3>2 DEF q
    <3>4. ToSet(q) \subseteq Filled
      BY <3>3 DEF ToSet
    <3> QED
      BY <3>1, <3>4 DEF q
  <2> QED
    BY <1>7, <2>1, <2>2, PartsKept
<1>8. ASSUME GetBlock, sink' = sink PROVE Parts' = Parts
  BY <1>1, <1>7, <1>8 DEF GetBlock, dequeue
<1>9. CASE beginProcessData
  <2>1. GetBlock /\ UNCHANGED << programs, sink >> /\ at = "begin" /\ at' = "fill"
    BY <1>9 DEF beginProcessData
  <2> QED
    BY <1>2, <1>8, <2>1, StreamStays
<1>10. ASSUME NEW words \in Seq(Word), NEW j \in Nat, NEW base \in Nat,
              Extends(Parts, Parts', words, j, base), \A k \in DOMAIN words : words[k] = Nop,
              UNCHANGED programs, at' \notin {"begin", "fill"}
       PROVE  StreamInv'
  BY <1>2, <1>10, NopsAdded DEF StreamInv
<1>11. \A k \in DOMAIN NOPs : NOPs[k] = Nop
  BY DEF NOPs
<1>12. CASE Destroy
  <2>1. UNCHANGED << fifoVars, programs >> /\ at' \in {"idle", "nop"} /\ via \in {"dma", "cpu", "file"}
    BY <1>12 DEF Destroy, ProgramInv
  <2>2. sink' = sink \/ (via = "cpu" /\ sink' = sink \o NOPs)
    BY <1>12, <2>1 DEF Destroy
  <2>3. CASE sink' = sink
    BY <1>1, <1>2, <2>1, <2>3, StreamStays
  <2>4. CASE via = "cpu" /\ sink' = sink \o NOPs
    <3>1. queued["icap"] = << >> /\ queued'["icap"] = << >>
      BY <2>1, <2>4 DEF StageInv, fifoVars, driverVars
    <3>2. Extends(Parts, Parts', NOPs, 0, Len(sink))
      BY <2>4, <3>1, NOPsAreWords, SinkLengthened
    <3> DEFINE l == Len(sink)
    <3>3. l \in Nat /\ 0 \in Nat
      BY DEF SinkInv
    <3> HIDE DEF l
    <3>4. Extends(Parts, Parts', NOPs, 0, l)
      BY <3>2 DEF l
    <3> QED
      BY <1>10, <1>11, <2>1, <3>3, <3>4, NOPsAreWords
  <2> QED
    BY <2>2, <2>3, <2>4
<1>13. CASE SendNOP
  <2>1. UNCHANGED << programs, sink >> /\ at' \in {"send", "flush"}
    BY <1>13 DEF SendNOP
  <2>2. CASE GetBlock
    BY <1>2, <1>8, <2>1, <2>2, StreamStays
  <2>3. CASE enqueue("icap", NOPs) /\ block' = 0
    <3>1. PICK i \in Nat : /\ queued'["icap"] = Append(queued["icap"], i)
                           /\ blocks'["icap"][i].content = NOPs
                           /\ \A k \in ToSet(queued["icap"]) :
                                blocks'["icap"][k].content = blocks["icap"][k].content
      BY <2>3, NOPsAreWords, OwnEnqueue
    <3>2. Extends(Parts, Parts', NOPs, Len(queued["icap"]) + 1, 0)
      BY <2>1, <3>1, NOPsAreWords, PartAppended
    <3> DEFINE j == Len(queued["icap"]) + 1
    <3>3. j \in Nat /\ 0 \in Nat
      BY PartsAre
    <3> HIDE DEF j
    <3>4. Extends(Parts, Parts', NOPs, j, 0)
      BY <3>2 DEF j
    <3> QED
      BY <1>10, <1>11, <2>1, <3>3, <3>4, NOPsAreWords
  <2> QED
    BY <1>13, <2>2, <2>3 DEF SendNOP
<1>14. CASE Flushing
  <2>1. UNCHANGED << programs, sink >> /\ at' = "flushing"
    BY <1>14 DEF Flushing
  <2>2. CASE CallFlush("icap")
    <3>1. UNCHANGED << blocks, queued >>
      BY <2>2 DEF CallFlush, driverVars
    <3>2. Parts' = Parts
      BY <2>1, <3>1 DEF Parts
    <3> QED
      BY <1>2, <2>1, <3>2, StreamStays
  <2>3. CASE Flush("icap")
    <3>1. TakeHead("icap") /\ queued' = queued
      BY <2>3 DEF Flush
    <3> QED
      BY <1>2, <1>7, <2>1, <3>1, StreamStays
  <2> QED
    BY <1>14, <2>2, <2>3 DEF Flushing
<1>15. CASE DeleteWriter
  <2>1. /\ UNCHANGED << programs, sink >> /\ at = "flushing" /\ at' = "idle" /\ dispose("icap")
    BY <1>15 DEF DeleteWriter
  <2>2. queued["icap"] = << >> /\ queued'["icap"] = << >>
    BY <2>1 DEF StageInv, dispose, DriverForgets, SinkInv
  <2>3. ToSet(queued["icap"]) = {}
    BY <2>2 DEF ToSet
  <2>4. Parts' = Parts
    BY <2>1, <2>2, <2>3, PartsKept
  <2> QED
    BY <1>2, <2>1, <2>4, StreamStays
<1>16. CASE Configure
  <2>1. UNCHANGED << programs, at >>
    BY <1>16 DEF Configure
  <2>2. /\ WordsOf(Parts') = WordsOf(Parts)
        /\ InOrder(Parts') /\ Closed(Parts')
        /\ \A p \in Nat : Open(p, Parts) => Open(p, Parts')
    BY <1>16, PartsJoined DEF StreamInv
  <2>3. Len(programs) \in Nat
    BY DEF ProgramInv
  <2> QED
    BY <1>2, <2>1, <2>2, <2>3 DEF StreamInv
<1>17. CASE Overrun
  BY <1>1, <1>2, <1>17, StreamStays DEF Overrun
<1>18. CASE UNCHANGED progVars
  BY <1>1, <1>3, <1>18 DEF progVars
<1> QED
  BY <1>4, <1>5, <1>6, <1>9, <1>12, <1>13, <1>14, <1>15, <1>16, <1>17, <1>18, StreamFills
     DEF Next

(* All of it together.                                                     *)
ProgrammerInv == ProgramInv /\ SinkInv /\ OwnInv /\ StageInv /\ EvenInv /\ StreamInv

LEMMA ProgrammerInit == Init => ProgrammerInv
<1> SUFFICES ASSUME Init PROVE ProgrammerInv
  OBVIOUS
<1>1. Fifos = {"icap"}
  BY ProgrammerAssumption
<1>2. ProgramInv /\ EvenInv
  BY DEF Init, ProgramInv, ImageProgrammed, EvenInv
<1>3. SinkInv
  BY <1>1 DEF Init, FifoInit, SinkInv, Indices
<1>4. ToSet(<< >>) = {} /\ IsInjective(<< >>) /\ Len(<< >>) = 0
  BY DEF ToSet, IsInjective
<1>5. OwnInv /\ StageInv
  BY <1>1, <1>4 DEF Init, FifoInit, OwnInv, StageInv
<1>6. Places(Parts) = {}
  <2>1. queued["icap"] = << >> /\ sink = << >>
    BY <1>1 DEF Init, FifoInit
  <2>2. Parts = [j \in {0} |-> << >>]
    BY <2>1 DEF Parts
  <2> QED
    BY <2>2 DEF Places
<1>7. SentWords = {}
  BY DEF Init, SentWords
<1>8. StreamInv
  BY <1>6, <1>7, ClosedMeans DEF Init, StreamInv, WordsOf, InOrder, ImagePlaces
<1> QED
  BY <1>2, <1>3, <1>5, <1>8 DEF ProgrammerInv

LEMMA ProgrammerInvariant == Spec => []ProgrammerInv
<1>1. ProgrammerInv /\ [Next]_progVars => ProgrammerInv'
  BY NextProgram, NextSink, NextOwn, NextEven, NextStream DEF ProgrammerInv
<1> QED
  BY <1>1, ProgrammerInit, PTL DEF Spec

(* Whatever calls of fromFile end in errors half way, however blocks are   *)
(* used again, and whenever the ICAP takes what is queued, it gets the     *)
(* words that were sent, each once and in the order of the file, besides   *)
(* nothing but NOPs, and an object that is destroyed loses none, up to the *)
(* first write past processFile's buffer                                   *)
(* (HardwareProgrammer::endProcessData, sendNOP, ~HardwareProgrammer).     *)
THEOREM WordsStayInOrder == Spec => []WordsInOrder
<1>1. ProgrammerInv => WordsInOrder
  BY DEF ProgrammerInv, StreamInv, WordsInOrder, WordsOf
<1> QED
  BY <1>1, ProgrammerInvariant, PTL

(* The padding to 64 bits comes after the last word of an image, for every *)
(* size of image, header and file and every buffers that are multiples of  *)
(* each other, up to the first write past processFile's buffer             *)
(* (FpgaImageReader::processFile, HardwareProgrammer::endProcessData).     *)
THEOREM PaddingStaysAtEnd == Spec => []PaddingAtEnd
<1>1. ProgrammerInv => PaddingAtEnd
  BY DEF ProgrammerInv, StreamInv, PaddingAtEnd
<1> QED
  BY <1>1, ProgrammerInvariant, PTL
=============================================================================
