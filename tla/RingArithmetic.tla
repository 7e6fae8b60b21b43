--------------------------- MODULE RingArithmetic ---------------------------
(***************************************************************************)
(* The index arithmetic of FixedMemoryQueueImpl (queue.hpp).  The code     *)
(* keeps pointers into a buffer of cap elements; here a pointer is its     *)
(* distance 0 .. cap - 1 from m_buff.  Every queue of the project that is  *)
(* backed by a ring uses these operators, whatever its scheduler is.       *)
(***************************************************************************)
EXTENDS Naturals

(* Slips in the index arithmetic: a pointer left at m_end; "first = last"  *)
(* always taken for "empty"; a read that runs to the end of the buffer.    *)
IncrementPastEnd(cap, what, count) ==
  IF what + count > cap THEN 0 ELSE what + count
WriteRoomFullIsEmpty(cap, first, last, size) ==
  IF last > first THEN last - first ELSE cap - first
ReadRoomToEnd(cap, first, last, size) ==
  IF size # 0 THEN cap - last ELSE 0

(* increment(): a pointer that reaches m_end goes back to m_buff.          *)
(* A caller never advances past m_end (the DEBUG_ASSERT "bad increment").  *)
Increment(cap, what, count) ==
  IF what + count = cap THEN 0 ELSE what + count

(* What begin_write() returns: the free slots that follow `first' without  *)
(* wrapping.  first = last means "full" or "empty", size tells which.      *)
WriteRoom(cap, first, last, size) ==
  IF last > first THEN last - first
  ELSE IF last = first /\ size # 0 THEN 0
  ELSE cap - first

(* What begin_read() returns: the filled slots that follow `last' without  *)
(* wrapping.                                                               *)
ReadRoom(cap, first, last, size) ==
  IF first > last THEN first - last
  ELSE IF size # 0 THEN cap - last
  ELSE 0

(* The slot that holds element number i of the ring, counted from slot 0.  *)
(* Only ever needed for i < 2 * cap.                                       *)
Wrap(cap, i) == IF i >= cap THEN i - cap ELSE i
=============================================================================
