------------------------- MODULE HardwareProgrammer -------------------------
(***************************************************************************)
(* FpgaImageReader, with the three things its data can go to: a            *)
(* HardwareProgrammer that sends it to the ICAP through a DMA node or      *)
(* through a CPU fifo, and a FpgaImageFileWriter (hardware.cpp).           *)
(*                                                                         *)
(* The unit of all sizes is the word of 32 bits.  A word of an image is    *)
(* << p, k, swapped >>: the k-th of the p-th file, with its bytes swapped  *)
(* or not.  A file of kind "bit" has a header, which names the size of the *)
(* image; "bin" and "partial" files are images from their first word on.   *)
(* read_all either gets what is left of the file or throws, having got     *)
(* nothing.                                                                *)
(***************************************************************************)
EXTENDS HardwareDMAFifo

CONSTANTS
  ALIGN_SIZE, BUFFER_SIZE, programmer_blocksize, programmer_numblocks,
  ESTIMATED_FIFO_SIZE,
  MinimumSize,    \* of a file: 64 bytes
  Images,         \* the files: [kind, header, size, length, id]
  MaxPrograms,    \* bound on the calls of fromFile
  MaxObjects      \* bound on the objects constructed

(* A "bin" or "partial" file has no header, and all of it is the image; a  *)
(* .bit file may be shorter than its image, or go on after it.             *)
ASSUME ProgrammerAssumption ==
  /\ Fifos = {"icap"} /\ NonBlocking = {} /\ programmer_numblocks \in BlockCounts
  /\ {ALIGN_SIZE, BUFFER_SIZE, programmer_blocksize} \subseteq Nat \ {0}
  /\ ESTIMATED_FIFO_SIZE \in Nat
  /\ MinimumSize \in 1 .. ALIGN_SIZE
  /\ ALIGN_SIZE % 2 = 0 /\ BUFFER_SIZE % ALIGN_SIZE = 0
  /\ programmer_blocksize % BUFFER_SIZE = 0
  /\ \A file \in Images :
       /\ {file.header, file.size, file.length} \subseteq Nat
       /\ file.kind # "bit" => file.header = 0 /\ file.length = file.size

VARIABLES
  via,       \* "none", or where the object that exists sends its data
  objects,   \* how many were constructed
  leaked,    \* does a lost HardwareDMAFifo keep the DMA node open?
  block,     \* HardwareProgrammer::block, 0 for NULL
  at,        \* where the object is in fromFile or in its destructor; "overrun":
             \* processFile has written past its buffer
  chunk,     \* how many words the round in progress is about
  programs,  \* Seq([file, via, sent, result]): the calls of fromFile
  sink       \* the words the ICAP (or the output file) got

progVars == << fifoVars, via, objects, leaked, block, at, chunk, programs, sink >>

Nop   == << 0, 0, FALSE >>
Stale == << 0, 1, FALSE >>   \* what the block held before

Init ==
  /\ FifoInit /\ via = "none" /\ objects = 0 /\ leaked = FALSE /\ block = 0
  /\ at = "idle" /\ chunk = 0 /\ programs = << >> /\ sink = << >>

Current == programs[Len(programs)]
file    == Current.file
total   == Current.sent    \* total_bytes, total_data_bytes_processed

-----------------------------------------------------------------------------
(* The constructors.                                                       *)

Construct ==
  /\ via = "none" /\ objects < MaxObjects /\ objects' = objects + 1
  /\ \/ ~ leaked /\ via' = "dma" /\ Reconfigure("icap", programmer_numblocks)
     \/ via' \in {"cpu", "file"} /\ UNCHANGED fifoVars
  /\ UNCHANGED << leaked, block, at, chunk, programs, sink >>

(* reconfigure or addRouteTo fails: the constructor throws, and nothing    *)
(* deletes dma_writer.                                                     *)
ConstructFails ==
  /\ via = "none" /\ objects < MaxObjects /\ objects' = objects + 1
  /\ ~ leaked /\ leaked' = TRUE
  /\ ReconfigureRefused("icap") \/ Reconfigure("icap", programmer_numblocks)
  /\ UNCHANGED << via, block, at, chunk, programs, sink >>

-----------------------------------------------------------------------------
(* FpgaImageReader::processFile up to the first beginProcessData.          *)

Returns(result) ==
  programs' = [programs EXCEPT ![Len(programs)] = [@ EXCEPT !.result = result]]

CallFromFile ==
  /\ via # "none" /\ at = "idle" /\ Len(programs) < MaxPrograms
  /\ \E image \in Images :
       programs' = Append(programs, [file |-> image, via |-> via, sent |-> 0,
                                    result |-> "none"])
  /\ at' = "open" /\ chunk' = 0
  /\ UNCHANGED << fifoVars, via, objects, leaked, block, sink >>

ReadFirst == IF file.length < ALIGN_SIZE THEN file.length ELSE ALIGN_SIZE

(* FpgaImageFileWriter::verifyStaticID accepts every ID.                   *)
VerifiesNothing == TRUE
VerifyStaticID == file.id = "wrong" => via = "file"

(* How many words the first round is about; more than there are means that *)
(* the padding read fails.                                                 *)
FirstChunkUnaligned ==
  IF file.kind # "bit" THEN ReadFirst
  ELSE IF ReadFirst - file.header >= file.size THEN file.size ELSE ReadFirst - file.header
FirstChunk ==
  IF file.kind # "bit" THEN ReadFirst
  ELSE LET n == ReadFirst - file.header IN
       IF n >= file.size THEN file.size
       ELSE n + (IF n % ALIGN_SIZE = 0 THEN 0 ELSE ALIGN_SIZE - (n % ALIGN_SIZE))

(* How processFile ends before it asks for memory, or "none".              *)
Refused ==
  IF ReadFirst < MinimumSize THEN "truncated"
  ELSE IF file.kind = "other" THEN "unrecognized"
  ELSE IF ~ VerifyStaticID THEN "mismatch"
  ELSE IF file.header >= ReadFirst THEN "truncated"
  ELSE IF file.header + FirstChunk > file.length THEN "truncated"
  ELSE "none"

OpenImage ==
  /\ at = "open"
  /\ \/ /\ Refused = "none"
        /\ at' = "begin" /\ chunk' = FirstChunk /\ UNCHANGED programs
     \/ /\ \E result \in {Refused, "io"} \ {"none"} : Returns(result)
        /\ at' = "idle" /\ UNCHANGED chunk
  /\ UNCHANGED << fifoVars, via, objects, leaked, block, sink >>

-----------------------------------------------------------------------------
(* beginProcessData, endProcessData.                                       *)

MemorySize == IF via = "dma" THEN programmer_blocksize ELSE BUFFER_SIZE

(* A block that is still there from a call that ended early is used again  *)
(* (and as if it was not).                                                 *)
GetBlockAnew ==
  dequeue("icap") /\ block' = blocks_head["icap"]
GetBlock ==
  IF via = "dma" /\ block = 0
    THEN dequeue("icap") /\ block' = blocks_head["icap"]
    ELSE UNCHANGED << fifoVars, block >>

beginProcessData ==
  /\ at = "begin" /\ GetBlock
  /\ chunk' = IF chunk < MemorySize THEN chunk ELSE MemorySize
  /\ at' = "fill"
  /\ UNCHANGED << via, objects, leaked, programs, sink >>

(* The DMA node takes 64 bits at a time: an odd number of words gets a NOP *)
(* more (and as if it got whatever is there).                              *)
PaddedStale(words) == IF Len(words) % 2 = 0 THEN words ELSE Append(words, Stale)
Padded(words) == IF Len(words) % 2 = 0 THEN words ELSE Append(words, Nop)

(* The CPU fifo or the file may take fewer words than it is given.         *)
EndProcessData(words, accepted) ==
  IF via = "dma"
    THEN /\ accepted = Len(words)
         /\ enqueue("icap", Padded(words)) /\ block' = 0
         /\ UNCHANGED sink
    ELSE /\ sink' = sink \o SubSeq(words, 1, accepted)
         /\ UNCHANGED << fifoVars, block >>

(* What is left of the file: the first round has its data already.         *)
Available == file.length - file.header - total
Words(n) == [k \in 1 .. n |-> << Len(programs), total + k, file.kind = "bit" >>]

(* A round of a .bit file is read into processFile's own buffer, of        *)
(* BUFFER_SIZE, as many words as beginProcessData allows: more than that   *)
(* are written past its end.  What the program does then is undefined;     *)
(* here it does nothing more.                                              *)
ToRead == IF chunk < Available THEN chunk ELSE Available
Overrun ==
  /\ at = "fill" /\ file.kind = "bit" /\ ToRead > BUFFER_SIZE
  /\ at' = "overrun"
  /\ UNCHANGED << fifoVars, via, objects, leaked, block, chunk, programs, sink >>

(* The rounds of a .bit file end when the size is reached, those of the    *)
(* others at the end of the file.                                          *)
Fill ==
  LET n == ToRead IN
  /\ at = "fill"
  /\ n > 0 /\ (file.kind = "bit" => n = chunk /\ n <= BUFFER_SIZE)
  /\ \E accepted \in 0 .. n :
       LET sent   == total + accepted
           result == IF accepted < n THEN "truncated"
                     ELSE IF file.kind = "bit" /\ sent >= file.size THEN "ok" ELSE "none"
       IN
       /\ EndProcessData(Words(n), accepted)
       /\ programs' = [programs EXCEPT ![Len(programs)] =
                         [@ EXCEPT !.sent = sent, !.result = result]]
       /\ IF result # "none"
            THEN at' = "idle" /\ UNCHANGED chunk
            ELSE /\ at' = "begin"
                 /\ chunk' = IF file.kind = "bit" THEN file.size - sent ELSE BUFFER_SIZE
  /\ UNCHANGED << via, objects, leaked >>

(* The end of the file, or an error: the block stays with the object (and  *)
(* as if the first short read were the end).                               *)
FillEndsEarly ==
  /\ at = "fill"
  /\ \/ Available < chunk /\ Available <= BUFFER_SIZE /\ file.kind = "bit" /\ Returns("truncated")
     \/ Available < chunk /\ file.kind # "bit" /\ Returns("ok")
     \/ total > 0 /\ Returns("io")
  /\ at' = "idle"
  /\ UNCHANGED << fifoVars, via, objects, leaked, block, chunk, sink >>
FillEnds ==
  /\ at = "fill"
  /\ \/ Available < chunk /\ Available <= BUFFER_SIZE /\ file.kind = "bit" /\ Returns("truncated")
     \/ Available = 0 /\ file.kind # "bit" /\ Returns("ok")
     \/ total > 0 /\ Returns("io")
  /\ at' = "idle"
  /\ UNCHANGED << fifoVars, via, objects, leaked, block, chunk, sink >>

-----------------------------------------------------------------------------
(* The destructors.                                                        *)

NOPs == LET n == 2 * ((ESTIMATED_FIFO_SIZE + 1) \div 2) IN
  [k \in 1 .. (IF via = "dma" /\ n > programmer_blocksize THEN programmer_blocksize ELSE n)
     |-> Nop]

Destroy ==
  /\ via # "none" /\ at = "idle"
  /\ CASE via = "dma"  -> at' = "nop" /\ UNCHANGED << via, sink >>
       [] via = "cpu"  -> via' = "none" /\ sink' = sink \o NOPs /\ UNCHANGED at
       [] via = "file" -> via' = "none" /\ UNCHANGED << at, sink >>
  /\ UNCHANGED << fifoVars, objects, leaked, block, chunk, programs >>

(* sendNOP, with a DMA node.                                               *)
SendNOP ==
  /\ \/ at = "nop" /\ GetBlock /\ at' = "send"
     \/ at = "send" /\ enqueue("icap", NOPs) /\ block' = 0 /\ at' = "flush"
  /\ UNCHANGED << via, objects, leaked, chunk, programs, sink >>

Flushing ==
  /\ \/ at = "flush" /\ CallFlush("icap") /\ at' = "flushing"
     \/ at = "flushing" /\ Flush("icap") /\ UNCHANGED at
  /\ UNCHANGED << via, objects, leaked, block, chunk, programs, sink >>

(* delete dma_writer disposes of the blocks, whatever the hardware has not *)
(* done with them.                                                         *)
DeleteWriter ==
  /\ at = "flushing" /\ dispose("icap") /\ via' = "none" /\ at' = "idle"
  /\ UNCHANGED << objects, leaked, block, chunk, programs, sink >>

(* The ICAP takes the oldest block.                                        *)
Configure ==
  /\ queued["icap"] # << >>
  /\ sink' = sink \o blocks["icap"][Head(queued["icap"])].content
  /\ done' = [done EXCEPT !["icap"] = @ \cup {Head(queued["icap"])}]
  /\ queued' = [queued EXCEPT !["icap"] = Tail(@)]
  /\ UNCHANGED << blocks, blocks_head, flushing, held, ready, mappings, idle, reconfigures,
                  via, objects, leaked, block, at, chunk, programs >>

Next ==
  \/ Construct \/ ConstructFails
  \/ CallFromFile \/ OpenImage \/ beginProcessData \/ Fill \/ FillEnds \/ Overrun
  \/ Destroy \/ SendNOP \/ Flushing \/ DeleteWriter
  \/ Configure

Spec == Init /\ [][Next]_progVars

(* The code runs on while it need not wait, and the ICAP does its work.    *)
FairSpec ==
  /\ Spec
  /\ WF_progVars(OpenImage) /\ WF_progVars(beginProcessData) /\ WF_progVars(Fill \/ FillEnds \/ Overrun)
  /\ WF_progVars(SendNOP) /\ WF_progVars(Flushing) /\ WF_progVars(DeleteWriter)
  /\ WF_progVars(Configure)

-----------------------------------------------------------------------------
(* Every variable keeps its type.                                          *)
TypeOK ==
  /\ FifoTypeOK
  /\ via \in {"none", "dma", "cpu", "file"} /\ objects \in 0 .. MaxObjects
  /\ leaked \in BOOLEAN /\ block \in 0 .. programmer_numblocks
  /\ at \in {"idle", "open", "begin", "fill", "overrun", "nop", "send", "flush", "flushing"}
  /\ \A p \in DOMAIN programs :
       /\ programs[p].file \in Images /\ programs[p].via \in {"dma", "cpu", "file"}
       /\ programs[p].sent \in Nat

(* All that the ICAP got or will get, in parts: what it got already, and   *)
(* what each of the blocks holds that are queued for it.                   *)
Parts ==
  [j \in 0 .. Len(queued["icap"]) |->
    IF j = 0 THEN sink ELSE blocks["icap"][queued["icap"][j]].content]

(* The places of the words in such a sequence of parts, from its beginning *)
(* to its end.                                                             *)
Places(parts)     == UNION {{j} \X DOMAIN parts[j] : j \in DOMAIN parts}
Before(a, b)      == a[1] < b[1] \/ (a[1] = b[1] /\ a[2] < b[2])
WordAt(parts, a)  == parts[a[1]][a[2]]

(* The words that fromFile has sent, image by image, and their order.      *)
SentWords ==
  UNION {{<< p, k, programs[p].file.kind = "bit" >> : k \in 1 .. programs[p].sent}
           : p \in DOMAIN programs}
Follows(w, v) == w[1] < v[1] \/ (w[1] = v[1] /\ w[2] < v[2])
ImagePlaces(parts) == {a \in Places(parts) : WordAt(parts, a) # Nop}
InOrder(parts) ==
  \A a, b \in ImagePlaces(parts) :
    Before(a, b) => Follows(WordAt(parts, a), WordAt(parts, b))

(* The ICAP gets the words of every image once, in order, swapped if the   *)
(* file is a .bit file, besides nothing but NOPs, also when calls end in   *)
(* errors half way and their blocks are used again; and an object that is  *)
(* destroyed takes no word with it.                                        *)
WordsInOrder ==
  /\ {WordAt(Parts, a) : a \in Places(Parts)} \ {Nop} = SentWords
  /\ InOrder(Parts)

(* The padding to 64 bits comes after the last word of an image, never     *)
(* between two words.                                                      *)
ImagesOf(parts, places) == {WordAt(parts, a)[1] : a \in places} \ {Nop[1]}
Closed(parts) ==
  \A b \in Places(parts) : WordAt(parts, b) = Nop =>
    ImagesOf(parts, {a \in Places(parts) : Before(a, b)})
      \cap ImagesOf(parts, {c \in Places(parts) : Before(b, c)}) = {}
PaddingAtEnd == Closed(Parts)

(* fromFile returns normally only if the whole image was sent; and no word *)
(* that follows the image in the file was, besides those that fill up the  *)
(* ALIGN_SIZE words of the first round of a .bit file.                     *)
ImageProgrammed ==
  \A p \in DOMAIN programs :
    LET f == programs[p].file IN
    /\ programs[p].result = "ok" => programs[p].sent >= f.size
    /\ programs[p].sent > f.size => f.kind = "bit" /\ programs[p].sent <= ALIGN_SIZE

(* Nothing of a partial image made for another static image is sent.       *)
HasWordOf(p, words) == \E k \in DOMAIN words : words[k][1] = p
WrongIdNotSent ==
  \A p \in DOMAIN programs :
    programs[p].via # "file" /\ programs[p].file.id = "wrong" =>
      /\ ~ HasWordOf(p, sink)
      /\ \A k \in DOMAIN queued["icap"] :
           ~ HasWordOf(p, blocks["icap"][queued["icap"][k]].content)

(* fromFile comes back, but for the .bit files with more than BUFFER_SIZE  *)
(* words behind the first round that are sent through a DMA node: these it *)
(* reads past the end of its buffer.  The destructor comes back too, and   *)
(* has pushed everything through: what the ICAP got last are the NOPs.     *)
Overruns ==
  /\ via = "dma" /\ file.kind = "bit" /\ file.size - FirstChunk > BUFFER_SIZE
  /\ file.length - file.header - FirstChunk > BUFFER_SIZE
CallsReturn ==
  /\ at \in {"open", "begin", "fill"} ~> at = "idle" \/ (at = "overrun" /\ Overruns)
  /\ at = "nop" ~> via = "none" /\ sink # << >> /\ sink[Len(sink)] = Nop

(* "can read .bit and .bin and .partial files and will output the data to  *)
(* be flashed" (hardware.hpp): no file that is complete is called          *)
(* truncated by the reader.                                                *)
CompleteFileAccepted ==
  \A p \in DOMAIN programs :
    programs[p].result = "truncated" /\ programs[p].via = "dma" =>
      programs[p].file.length < MinimumSize
      \/ programs[p].file.length < programs[p].file.header + programs[p].file.size
=============================================================================
