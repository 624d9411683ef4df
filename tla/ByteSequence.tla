---------------------------- MODULE ByteSequence ----------------------------
(***************************************************************************)
(* What AMCMutableBuffer.h promises: one sequence of bytes.  A call is     *)
(* made, and takes effect when it returns.  MutableBuffer implements this  *)
(* specification.                                                          *)
(*                                                                         *)
(* No call looks at a value, so a byte is named by the place it has when   *)
(* a call is made, and named anew before the next.                         *)
(***************************************************************************)
EXTENDS Integers, Sequences, SequencesExt

CONSTANTS Calls, NoCall, NoReply

VARIABLES bytes, call, reply

\* Without the n bytes behind the first o.
Without(b, o, n) == SubSeq(b, 1, Min({o, Len(b)})) \o SubSeq(b, o + n + 1, Len(b))

\* b with d behind the first o bytes, or at the end when there are not so many.
With(b, o, d) == IF o > Len(b) THEN b \o d ELSE SubSeq(b, 1, o) \o d \o SubSeq(b, o + 1, Len(b))

\* How many of n bytes there are from offset o on.
There(b, o, n) == Min({n, Max({0, Len(b) - o})})

\* The pieces of n bytes handed to the callback: offset, bytes, isLastSegment.
Pieces(b, n) ==
    LET count == (Len(b) + n - 1) \div n
    IN  [i \in 1 .. count |-> <<n * (i - 1), SubSeq(b, n * (i - 1) + 1, Min({n * i, Len(b)})), i = count>>]

Done(len, out) == [error |-> "none", len |-> len, out |-> out]
Failed(why) == [error |-> why, len |-> 0, out |-> <<>>]

\* AMCMutableBuffer_Append: all of the data, or an error and no more than a part of it.
AppendData(d) ==
    \/ bytes' = bytes \o d /\ reply' = Done(0, <<>>)
    \/ /\ reply' = Failed("mempool")
       /\ \E n \in 0 .. Len(d) - 1 : bytes' = bytes \o SubSeq(d, 1, n)

\* AMCMutableBuffer_Insert.
InsertData(o, d) ==
    \/ bytes' = With(bytes, o, d) /\ reply' = Done(0, <<>>)
    \/ o >= Len(bytes) /\ AppendData(d)

\* AMCMutableBuffer_Delete: "a parameter to tell deleted data length".
Delete(o, n) ==
    IF o > Len(bytes) THEN reply' = Failed("offset") /\ UNCHANGED bytes
    ELSE bytes' = Without(bytes, o, n) /\ reply' = Done(There(bytes, o, n), <<>>)

\* AMCMutableBuffer_Read: "corresponding data will be removed from buffer object after reading".
Read(o, n, shouldRemove) ==
    LET len == There(bytes, o, n)
    IN  /\ reply' = Done(len, SubSeq(bytes, o + 1, o + len))
        /\ bytes' = IF shouldRemove THEN Without(bytes, o, len) ELSE bytes

\* AMCMutableBuffer_CheckAllData; _Dump to a terminal prints lines, to a file the bytes.
CheckAllData(n) == reply' = Done(0, Pieces(bytes, n)) /\ UNCHANGED bytes
DumpLines(n) ==
    /\ reply' = Done(0, [i \in DOMAIN Pieces(bytes, n) |-> [Pieces(bytes, n)[i] EXCEPT ![3] = FALSE]])
    /\ UNCHANGED bytes
DumpFile == UNCHANGED bytes /\ reply' \in {Done(0, bytes), Failed("system")}

\* AMCMutableBuffer_Defragment: the bytes stay.
Defragment == UNCHANGED bytes /\ reply' = Done(0, <<>>)

Effect(c) ==
    CASE c.op = "append" -> AppendData(c.data)
      [] c.op = "insert" -> InsertData(c.offset, c.data)
      [] c.op = "delete" -> Delete(c.offset, c.len)
      [] c.op = "read" -> Read(c.offset, c.len, FALSE)
      [] c.op = "take" -> Read(c.offset, c.len, TRUE)
      [] c.op = "check" -> CheckAllData(c.len)
      [] c.op = "lines" -> DumpLines(c.len)
      [] c.op = "file" -> DumpFile
      [] c.op = "defragment" -> Defragment

Init == bytes = <<>> /\ call = NoCall /\ reply = NoReply

Idle == call = NoCall /\ reply = NoReply

Invoke == Idle /\ call' \in Calls /\ UNCHANGED <<bytes, reply>>
Return == call # NoCall /\ call' = NoCall /\ Effect(call)
Taken == /\ reply # NoReply /\ reply' = NoReply
         /\ bytes' = [i \in DOMAIN bytes |-> i] /\ UNCHANGED call

\* AMCMutableBuffer_DeleteAll, by any thread between two calls.
DeleteAll == Idle /\ bytes' = <<>> /\ UNCHANGED <<call, reply>>

Next == Invoke \/ Return \/ Taken \/ DeleteAll

Spec == Init /\ [][Next]_<<bytes, call, reply>>
=============================================================================
