---------------------------- MODULE MutableBuffer ----------------------------
(***************************************************************************)
(* AMCMutableBuffer.c: bytes kept in a list of clusters of fixed capacity. *)
(* A call holds the lock from its first step to its last, and a step       *)
(* handles one cluster.  AMCMutableBuffer_DeleteAll looks at the list      *)
(* before it takes the lock, so it is two steps, and calls of another      *)
(* thread may come in between.                                             *)
(*                                                                         *)
(* The clusters are the units of the pool's first block; no further block  *)
(* is to be had, so a unit that was freed still holds what it held.        *)
(***************************************************************************)
EXTENDS Integers, Sequences, FiniteSets, SequencesExt

CONSTANTS
    Units, NULL,
    Capacity,         \* _buffer_cluster_get_capacity
    NoCall, NoReply,
    MaxLen,           \* bound: length of the data of a call
    Careful           \* the program makes only the calls of Proper, below, and dumps
                      \* only to files that take all they are given

\* What a call is given: its name, an offset, a length, and the data to be stored.
Names == {"append", "insert", "delete", "read", "take", "check", "lines", "file", "defragment"}
AllCalls == [op : Names, offset : Nat, len : Nat, data : Seq(Nat)]

ASSUME BufferAssumption ==
    /\ NULL \notin Units /\ IsFiniteSet(Units)
    /\ NoCall \notin Units \cup {NULL} /\ NoCall \notin AllCalls
    /\ Capacity \in Nat \ {0} /\ MaxLen \in Nat \ {0}
    /\ Careful \in BOOLEAN

\* A byte is named by its place when the call is made (ByteSequence); Stale is one left
\* from earlier use, in a cluster that was given back or behind the data.
Stale == 0

VARIABLES
    buf,              \* struct AMCMutableBuffer and its clusters
    call, reply,      \* the call being made, and what the last one returned, until taken
    pc, cluster, prevCluster, offset, remainLen,
    pData,            \* the bytes still to be written, or collected for the callback
    out,              \* the bytes or pieces handed out so far
    first,            \* `cluster` of a DeleteAll that waits for the lock
    bytes,            \* history: the contents when the call was made, during it
    fault             \* how the process ended

locals == <<pc, cluster, prevCluster, offset, remainLen, pData, out>>
vars == <<buf, call, reply, locals, first, bytes, fault>>

\* The clusters from c on.
Chain(b, c) ==
    LET Behind(s) == IF s = <<>> THEN c ELSE b.pNext[Last(s)]
        From[s \in Seq(Units)] ==
            IF Behind(s) = NULL \/ Len(s) > Cardinality(Units) THEN s ELSE From[Append(s, Behind(s))]
    IN  From[<<>>]

Contents(b) ==
    LET chain == Chain(b, b.pStart)
    IN  FlattenSeq([i \in DOMAIN chain |-> b.data[chain[i]]])

dataLen(c) == Len(buf.data[c])

_buffer_get_len(b) ==
    CASE b.clusterCount = 0 -> 0
      [] b.clusterCount = 1 -> Len(b.data[b.pStart])
      [] OTHER -> Len(Contents(b))

B == INSTANCE ByteSequence WITH Calls <- {}

Init ==
    /\ buf = [pStart |-> NULL, pLast |-> NULL, clusterCount |-> 0, held |-> {},
              pNext |-> [u \in Units |-> NULL], data |-> [u \in Units |-> <<>>]]
    /\ call = NoCall /\ reply = NoReply
    /\ pc = "idle" /\ cluster = NULL /\ prevCluster = NULL /\ offset = 0 /\ remainLen = 0
    /\ pData = <<>> /\ out = <<>> /\ first = NoCall
    /\ bytes = <<>> /\ fault = "none"

-----------------------------------------------------------------------------
(* Clusters                                                                 *)

\* _buffer_alloc_new_cluster, with unit u of the pool.
_buffer_alloc_new_cluster(b, u) ==
    [b EXCEPT !.held = @ \cup {u}, !.data[u] = <<>>, !.pLast = u, !.clusterCount = @ + 1,
              !.pStart = IF @ = NULL THEN u ELSE @,
              !.pNext = IF b.pStart = NULL THEN [@ EXCEPT ![u] = NULL]
                        ELSE [@ EXCEPT ![u] = NULL, ![b.pLast] = u]]

_buffer_alloc_new_cluster_and_insert_after(b, u, prev) ==
    LET c == [b EXCEPT !.held = @ \cup {u}, !.data[u] = <<>>, !.clusterCount = @ + 1]
    IN  IF prev = NULL
        THEN [c EXCEPT !.pNext[u] = b.pStart, !.pStart = u, !.pLast = IF @ = NULL THEN u ELSE @]
        ELSE [c EXCEPT !.pNext = [@ EXCEPT ![u] = b.pNext[prev], ![prev] = u],
                       !.pLast = IF @ = prev THEN u ELSE @]

\* Faulty: pLast stays when the last cluster goes.
_buffer_free_cluster_KeepLast(b, c, prev) ==
    IF prev = NULL
    THEN [b EXCEPT !.held = @ \ {c}, !.clusterCount = @ - 1, !.pStart = b.pNext[c]]
    ELSE [b EXCEPT !.held = @ \ {c}, !.clusterCount = @ - 1, !.pNext[prev] = b.pNext[c]]

\* Without a predecessor c is the start cluster in every call; pLast is then left as it is.
_buffer_free_cluster(b, c, prev) ==
    LET d == [b EXCEPT !.held = @ \ {c}, !.clusterCount = @ - 1]
    IN  IF prev = NULL THEN [d EXCEPT !.pStart = b.pNext[c]]
        ELSE [d EXCEPT !.pLast = IF @ = c THEN prev ELSE @, !.pNext[prev] = b.pNext[c]]

Position == [cluster : Units \cup {NULL}, prev : Units \cup {NULL}, offset : Nat]

\* The loop that _buffer_delete, _read and _insert begin with.
Locate(b, o) ==
    LET Behind(p) == [cluster |-> b.pNext[p.cluster], prev |-> p.cluster,
                      offset |-> p.offset - Len(b.data[p.cluster])]
        Search[p \in Position] ==
            IF p.cluster = NULL \/ p.offset <= Len(b.data[p.cluster]) THEN p ELSE Search[Behind(p)]
    IN  Search[[cluster |-> b.pStart, prev |-> NULL, offset |-> o]]

\* The position of the locals: at cluster c behind p, o bytes into it.
At(c, p, o) == cluster' = c /\ prevCluster' = p /\ offset' = o

Return(r) ==
    /\ pc' = "idle" /\ call' = NoCall /\ reply' = r
    /\ At(NULL, NULL, 0) /\ remainLen' = 0 /\ pData' = <<>> /\ out' = <<>>
    /\ bytes' = <<>> /\ UNCHANGED <<first, fault>>

Continue == UNCHANGED <<call, reply, first, bytes, fault>>

\* The process ends at this step.
Ends(how) == fault' = how /\ UNCHANGED <<buf, call, reply, locals, first, bytes>>

-----------------------------------------------------------------------------
(* Calls                                                                    *)

\* In-place insertion moves as many bytes as it inserts: enough of them, and not past the cluster.
MovesRight(len, o, n) == len - o <= n /\ o + 2 * n <= Capacity

\* What is left for the cluster behind, when n bytes go in front of its len bytes.
FrontRight(len, n) == LET q == n % Capacity IN q = 0 \/ q >= Capacity - len \/ MovesRight(len, 0, q)

InsertRight(o, n) ==
    LET at == Locate(buf, o)
        len == dataLen(at.cluster)
    IN  \/ at.cluster = NULL
        \/ at.offset = 0 /\ FrontRight(len, n)
        \/ /\ at.offset > 0
           /\ IF n < Capacity - len THEN MovesRight(len, at.offset, n)
              ELSE FrontRight(len - at.offset, Max({0, n - (Capacity - at.offset)}))

\* A partial move of the defragmentation moves no more bytes in the second cluster than it
\* takes away: the rest must fit in that.
DefragmentRight ==
    LET next(p) == buf.pNext[p.cluster]
        frament(p) == Capacity - p.len
        TooMuch(p) == frament(p) > 0 /\ dataLen(next(p)) > 2 * frament(p)
        Left(p) ==
            CASE frament(p) = 0 -> dataLen(next(p))
              [] frament(p) > 0 /\ dataLen(next(p)) <= frament(p) -> p.len + dataLen(next(p))
              [] OTHER -> dataLen(next(p)) - frament(p)
        Right[p \in [cluster : Units, len : 0 .. Capacity]] ==
            IF next(p) = NULL \/ TooMuch(p) THEN next(p) = NULL
            ELSE Right[[cluster |-> next(p), len |-> Left(p)]]
    IN  buf.pStart # NULL /\ Right[[cluster |-> buf.pStart, len |-> dataLen(buf.pStart)]]

\* From the front, all but something; from further on, beyond the first cluster, and not
\* exactly to the end.
TakeRight(o, n) ==
    LET at == Locate(buf, o)
        total == Len(Contents(buf))
    IN  \/ o >= total
        \/ o = 0 /\ n < total
        \/ o > 0 /\ n > dataLen(at.cluster) - at.offset /\ o + n # total

\* The calls for which the code keeps the promises of ByteSequence.
Proper(c) ==
    CASE c.op = "insert" -> InsertRight(c.offset, Len(c.data))
      [] c.op = "delete" -> LET total == Len(Contents(buf))
                            IN  c.offset > total \/ (c.offset + c.len <= total /\ c.len < total)
      [] c.op = "take" -> TakeRight(c.offset, c.len)
      [] c.op = "defragment" -> DefragmentRight
      [] c.op = "check" -> \/ buf.pStart = NULL
                           \/ dataLen(buf.pLast) > 0 \/ Len(Contents(buf)) % c.len # 0
      [] OTHER -> TRUE

\* Calls that keep the start cluster; only these may meet a DeleteAll that waits.
KeepsStart(c) ==
    \/ c.op \in {"read", "check", "lines", "file"}
    \/ c.op = "append" /\ buf.pStart # NULL

Offsets == 0 .. Len(Contents(buf)) + 1
Lengths == 1 .. MaxLen
Given == {[i \in 1 .. n |-> Len(Contents(buf)) + i] : n \in Lengths}

Request(op, o, n, d) == [op |-> op, offset |-> o, len |-> n, data |-> d]

Requests ==
    {Request("append", 0, 0, d) : d \in Given}
    \cup {Request("insert", o, 0, d) : o \in Offsets, d \in Given}
    \cup {Request(op, o, n, <<>>) : op \in {"delete", "read", "take"}, o \in Offsets, n \in Lengths}
    \cup {Request(op, 0, n, <<>>) : op \in {"check", "lines"}, n \in Lengths}
    \cup {Request(op, 0, 0, <<>>) : op \in {"file", "defragment"}}

\* The calls the program may make now.
Allowed == IF Careful THEN {c \in Requests : Proper(c) /\ (first # NoCall => KeepsStart(c))}
           ELSE Requests

Idle == pc = "idle" /\ reply = NoReply /\ fault = "none"

\* The bytes of the list by their places; a unit nothing points to is not looked at again.
Renamed(b) ==
    LET chain == Chain(b, b.pStart)
        Before(i) == Len(FlattenSeq([j \in 1 .. i - 1 |-> b.data[chain[j]]]))
        PlaceOf(u) == CHOOSE i \in DOMAIN chain : chain[i] = u
        Gone(u) == u \notin Range(chain) \cup {b.pLast} /\ first = NoCall
    IN  [b EXCEPT !.pNext = [u \in Units |-> IF Gone(u) THEN NULL ELSE b.pNext[u]],
                  !.data = [u \in Units |-> IF Gone(u) THEN <<>> ELSE
                               [j \in DOMAIN b.data[u] |->
                                   IF u \in Range(chain) THEN Before(PlaceOf(u)) + j ELSE Stale]]]

\* The caller has made use of the results.
Taken ==
    /\ reply # NoReply /\ reply' = NoReply /\ buf' = Renamed(buf)
    /\ UNCHANGED <<call, locals, first, bytes, fault>>

\* A public function takes the lock and calls the internal one.
Invoke(c) ==
    /\ Idle
    /\ call' = c /\ bytes' = Contents(buf)
    /\ pData' = c.data /\ out' = <<>> /\ pc' = c.op
    /\ CASE c.op = "insert" -> LET at == Locate(buf, c.offset)
                              IN  At(at.cluster, at.prev, at.offset) /\ remainLen' = 0
         [] c.op \in {"read", "take"} ->
              LET at == Locate(buf, c.offset)
              IN  At(at.cluster, at.prev, at.offset) /\ remainLen' = c.len
         [] c.op = "delete" ->
              LET at == Locate(buf, c.offset)
              IN  /\ At(at.cluster, at.prev, at.offset)
                  /\ remainLen' = Max({0, Min({c.len, _buffer_get_len(buf) - c.offset})})
         [] c.op \in {"append", "check", "lines", "file", "defragment"} ->
              At(buf.pStart, NULL, 0) /\ remainLen' = c.len
    /\ UNCHANGED <<buf, reply, first, fault>>

-----------------------------------------------------------------------------
(* _buffer_append                                                           *)

\* Faulty: the data is not cut to what the cluster has room for.
_buffer_cluster_append_data_All(c, d) == [buf EXCEPT !.data[c] = @ \o d]

_buffer_cluster_append_data(c, d) == [buf EXCEPT !.data[c] = @ \o SubSeq(d, 1, Min({Len(d), Capacity - Len(@)}))]

AppendCopy ==
    LET left == SubSeq(pData, Capacity - dataLen(buf.pLast) + 1, Len(pData))
    IN  /\ pc = "append" /\ buf.pLast # NULL
        /\ buf' = _buffer_cluster_append_data(buf.pLast, pData)
        /\ IF left = <<>> THEN Return(B!Done(0, <<>>))
           ELSE /\ pc' = "grow" /\ pData' = left /\ Continue
                /\ UNCHANGED <<cluster, prevCluster, offset, remainLen, out>>

NeedsCluster == pc = "grow" \/ (pc = "append" /\ buf.pLast = NULL)

AppendGrow(u) ==
    /\ NeedsCluster /\ u \notin buf.held
    /\ buf' = _buffer_alloc_new_cluster(buf, u)
    /\ pc' = "append" /\ Continue
    /\ UNCHANGED <<cluster, prevCluster, offset, remainLen, pData, out>>

AppendNoMemory ==
    /\ NeedsCluster /\ buf.held = Units
    /\ Return(B!Failed("mempool")) /\ UNCHANGED buf

-----------------------------------------------------------------------------
(* _buffer_delete                                                           *)

\* Faulty: what follows is not moved to the offset, but to the start.
_buffer_cluster_delete_data_ToStart(b, c, o, n) ==
    [b EXCEPT !.data[c] = SubSeq(@, o + 1 + Min({n, Len(@) - o}), Len(@)) \o SubSeq(@, 1, o)]

_buffer_cluster_delete_data(b, c, o, n) == [b EXCEPT !.data[c] = B!Without(@, o, Min({n, Len(@) - o}))]

DeleteRefused ==
    /\ pc = "delete" /\ call.offset > _buffer_get_len(buf)
    /\ Return(B!Failed("offset")) /\ UNCHANGED buf

DeletesFirst == pc = "delete" /\ call.offset <= _buffer_get_len(buf)

\* One cluster; an empty one is freed.
DeleteCluster ==
    LET n == Min({remainLen, dataLen(cluster) - offset})
        b == _buffer_cluster_delete_data(buf, cluster, offset, remainLen)
        next == buf.pNext[cluster]
    IN  /\ DeletesFirst \/ (pc = "delete_on" /\ remainLen > 0)
        /\ cluster # NULL
        /\ IF b.data[cluster] = <<>>
           THEN buf' = _buffer_free_cluster(b, cluster, prevCluster) /\ At(next, prevCluster, 0)
           ELSE buf' = b /\ At(next, cluster, 0)
        /\ remainLen' = remainLen - n
        /\ pc' = "delete_on" /\ UNCHANGED <<pData, out>> /\ Continue

\* pDeletedLenOut is the length asked for, also when less was there.
DeleteEnds ==
    /\ \/ DeletesFirst /\ cluster = NULL
       \/ pc = "delete_on" /\ remainLen = 0
    /\ Return(B!Done(call.len, <<>>)) /\ UNCHANGED buf

-----------------------------------------------------------------------------
(* _buffer_read                                                             *)

Reading == pc \in {"read", "take"} /\ cluster # NULL /\ remainLen > 0
rest == dataLen(cluster) - offset

\* "read cluster data to its end"
ReadToEnd ==
    /\ Reading /\ remainLen > rest
    /\ out' = out \o SubSeq(buf.data[cluster], offset + 1, dataLen(cluster))
    /\ remainLen' = remainLen - rest
    /\ CASE pc = "read" -> UNCHANGED buf /\ At(buf.pNext[cluster], cluster, 0)
         [] pc = "take" /\ offset = 0 ->
              /\ buf' = _buffer_free_cluster(buf, cluster, prevCluster)
              /\ At(buf.pNext[cluster], prevCluster, 0)
         [] pc = "take" /\ offset > 0 ->
              /\ buf' = [buf EXCEPT !.data[cluster] = SubSeq(@, 1, offset)]
              /\ At(buf.pNext[cluster], cluster, 0)
    /\ UNCHANGED <<pc, pData>> /\ Continue

\* What memmove leaves of d when n bytes behind the first o are taken and dataLen stays.
Overlaid(d, o, n) == B!Without(d, o, n) \o SubSeq(d, Len(d) - n + 1, Len(d))

\* "read part of cluster": behind the last one, nextCluster->pNext reads NULL.
ReadPart ==
    LET c == buf.data[cluster]
        next == buf.pNext[cluster]
        answer == B!Done(call.len, out \o SubSeq(c, offset + 1, offset + remainLen))
    IN  /\ Reading /\ remainLen <= rest
        /\ CASE pc = "read" -> UNCHANGED buf /\ Return(answer)
             [] pc = "take" /\ offset = 0 /\ remainLen < Len(c) ->
                  /\ buf' = [buf EXCEPT !.data[cluster] = B!Without(c, 0, remainLen)]
                  /\ Return(answer)
             [] pc = "take" /\ offset = 0 /\ remainLen = Len(c) /\ next # NULL ->
                  buf' = _buffer_free_cluster(buf, cluster, prevCluster) /\ Return(answer)
             [] pc = "take" /\ offset = 0 /\ remainLen = Len(c) /\ next = NULL -> Ends("null")
             [] pc = "take" /\ offset > 0 ->
                  /\ buf' = [buf EXCEPT !.data[cluster] = Overlaid(c, offset, remainLen)]
                  /\ Return(answer)

ReadEnds ==
    /\ pc \in {"read", "take"} /\ cluster = NULL
    /\ Return(B!Done(call.len - remainLen, out)) /\ UNCHANGED buf

-----------------------------------------------------------------------------
(* _buffer_insert                                                           *)

Inserting == pc = "insert" /\ pData # <<>> /\ cluster # NULL

\* Faulty: a cluster may also be filled to the last byte.
Fits_Full == Len(pData) <= Capacity - dataLen(cluster)

Fits == Len(pData) < Capacity - dataLen(cluster)

\* d with the bytes of new behind the first o, after memmove has moved no more than
\* Len(new) bytes out of the way.
Inserted(d, o, new) ==
    LET n == Len(new)
        Was(i) == IF i \in DOMAIN d THEN d[i] ELSE Stale
    IN  [i \in 1 .. Len(d) + n |->
            CASE i <= o -> d[i]
              [] i > o /\ i <= o + n -> new[i - o]
              [] i > o + n /\ i <= o + 2 * n -> Was(i - n)
              [] OTHER -> Was(i)]

InsertInPlace ==
    /\ Inserting /\ Fits
    /\ IF offset + 2 * Len(pData) > Capacity
       THEN Ends("overrun")
       ELSE /\ buf' = [buf EXCEPT !.data[cluster] = Inserted(@, offset, pData)]
            /\ Return(B!Done(0, <<>>))

\* The rest of the cluster moves to a new one behind it.
InsertSplit(u) ==
    LET n == Min({Len(pData), Capacity - offset})
        b == _buffer_alloc_new_cluster_and_insert_after(buf, u, cluster)
    IN  /\ Inserting /\ ~Fits /\ offset > 0 /\ u \notin buf.held
        /\ buf' = [b EXCEPT !.data[u] = SubSeq(buf.data[cluster], offset + 1, dataLen(cluster)),
                            !.data[cluster] = SubSeq(@, 1, offset) \o SubSeq(pData, 1, n)]
        /\ pData' = SubSeq(pData, n + 1, Len(pData))
        /\ At(u, cluster, 0) /\ UNCHANGED <<pc, remainLen, out>> /\ Continue

\* A new cluster in front.
InsertBefore(u) ==
    LET n == Min({Len(pData), Capacity})
        b == _buffer_alloc_new_cluster_and_insert_after(buf, u, prevCluster)
    IN  /\ Inserting /\ ~Fits /\ offset = 0 /\ u \notin buf.held
        /\ buf' = [b EXCEPT !.data[u] = SubSeq(pData, 1, n)]
        /\ pData' = SubSeq(pData, n + 1, Len(pData))
        /\ At(b.pNext[u], u, 0) /\ UNCHANGED <<pc, remainLen, out>> /\ Continue

\* The new cluster is used without a look at whether there is one.
InsertNoMemory == Inserting /\ ~Fits /\ buf.held = Units /\ Ends("null")

InsertEnds ==
    /\ pc = "insert" /\ pData = <<>>
    /\ Return(B!Done(0, <<>>)) /\ UNCHANGED buf

\* What is left behind the last cluster is appended.
InsertAppends ==
    /\ pc = "insert" /\ pData # <<>> /\ cluster = NULL
    /\ pc' = "append" /\ Continue
    /\ UNCHANGED <<buf, cluster, prevCluster, offset, remainLen, pData, out>>

-----------------------------------------------------------------------------
(* _buffer_defragment                                                       *)

\* Faulty: a full cluster is not passed over.
DefragmentCluster_FullStays ==
    LET next == buf.pNext[cluster]
        frament == Capacity - dataLen(cluster)
        d == buf.data[next]
    IN  /\ pc = "defragment" /\ cluster # NULL /\ next # NULL
        /\ frament >= Len(d)
        /\ buf' = _buffer_free_cluster([buf EXCEPT !.data[cluster] = @ \o d], next, cluster)
        /\ At(cluster, NULL, 0)
        /\ UNCHANGED <<pc, remainLen, pData, out>> /\ Continue

DefragmentCluster ==
    LET next == buf.pNext[cluster]
        frament == Capacity - dataLen(cluster)
        d == buf.data[next]
        moved == SubSeq(d, frament + 1, Min({2 * frament, Len(d)}))
    IN  /\ pc = "defragment" /\ cluster # NULL /\ next # NULL
        /\ CASE frament = 0 -> UNCHANGED buf /\ At(next, NULL, 0)
             [] frament > 0 /\ frament >= Len(d) ->
                  /\ buf' = _buffer_free_cluster([buf EXCEPT !.data[cluster] = @ \o d], next, cluster)
                  /\ At(cluster, NULL, 0)
             [] frament > 0 /\ frament < Len(d) ->
                  /\ buf' = [buf EXCEPT !.data[cluster] = @ \o SubSeq(d, 1, frament),
                                        !.data[next] = moved \o SubSeq(d, Len(moved) + 1, Len(d) - frament)]
                  /\ At(next, NULL, 0)
        /\ UNCHANGED <<pc, remainLen, pData, out>> /\ Continue

\* cluster->pNext is read for an empty list, too.
DefragmentEnds ==
    /\ pc = "defragment"
    /\ CASE cluster = NULL -> Ends("null")
         [] cluster # NULL -> buf.pNext[cluster] = NULL /\ Return(B!Done(0, <<>>)) /\ UNCHANGED buf

-----------------------------------------------------------------------------
(* _buffer_check_each_cluster, _buffer_dump_to_shell, _buffer_dump_to_file  *)

Piece(d, isLast) == <<call.len * Len(out), d, isLast /\ pc = "check">>

\* Fills the program's buffer, or the line, from one cluster.
CheckCluster ==
    LET room == call.len - Len(pData)
        filled == pData \o SubSeq(buf.data[cluster], offset + 1, Min({offset + room, dataLen(cluster)}))
        next == IF room < rest THEN cluster ELSE buf.pNext[cluster]
    IN  /\ pc \in {"check", "lines"} /\ cluster # NULL
        /\ At(next, NULL, IF room < rest THEN offset + room ELSE 0)
        /\ IF Len(filled) = call.len
           THEN pData' = <<>> /\ out' = Append(out, Piece(filled, next = NULL))
           ELSE pData' = filled /\ UNCHANGED out
        /\ UNCHANGED <<buf, pc, remainLen>> /\ Continue

CheckEnds ==
    /\ pc \in {"check", "lines"} /\ cluster = NULL
    /\ Return(B!Done(0, IF pData = <<>> THEN out ELSE Append(out, Piece(pData, TRUE))))
    /\ UNCHANGED buf

\* write() takes all it is given; of a short count nothing is seen.
DumpCluster ==
    /\ pc = "file" /\ cluster # NULL
    /\ \E n \in IF Careful THEN {dataLen(cluster)} ELSE 0 .. dataLen(cluster) :
            out' = out \o SubSeq(buf.data[cluster], 1, n)
    /\ At(buf.pNext[cluster], NULL, 0)
    /\ UNCHANGED <<buf, pc, remainLen, pData>> /\ Continue

DumpFails == pc = "file" /\ cluster # NULL /\ Return(B!Failed("system")) /\ UNCHANGED buf

DumpEnds == pc = "file" /\ cluster = NULL /\ Return(B!Done(0, out)) /\ UNCHANGED buf

-----------------------------------------------------------------------------
(* AMCMutableBuffer_DeleteAll                                               *)

\* "struct _buffer_header *cluster = buffer->pStart" stands before the lock.
DeleteAllLooks ==
    /\ Idle /\ first = NoCall
    /\ first' = buf.pStart
    /\ UNCHANGED <<buf, call, reply, locals, bytes, fault>>

\* Every cluster from there on is freed, and its pNext read afterwards; one that was freed
\* before is freed twice.
DeleteAllFrees ==
    LET clusters == Range(Chain(buf, first))
    IN  /\ Idle /\ first # NoCall
        /\ IF clusters \subseteq buf.held
           THEN /\ buf' = [buf EXCEPT !.pStart = NULL, !.pLast = NULL, !.clusterCount = 0,
                                      !.held = @ \ clusters]
                /\ first' = NoCall
                /\ UNCHANGED <<call, reply, locals, bytes, fault>>
           ELSE Ends("freed twice")

-----------------------------------------------------------------------------

Step ==
    \/ AppendCopy \/ AppendNoMemory \/ \E u \in Units : AppendGrow(u)
    \/ DeleteRefused \/ DeleteCluster \/ DeleteEnds
    \/ ReadToEnd \/ ReadPart \/ ReadEnds
    \/ InsertInPlace \/ InsertNoMemory \/ InsertEnds \/ InsertAppends
    \/ \E u \in Units : InsertSplit(u) \/ InsertBefore(u)
    \/ DefragmentCluster \/ DefragmentEnds
    \/ CheckCluster \/ CheckEnds \/ DumpCluster \/ DumpFails \/ DumpEnds

Next ==
    \/ fault = "none" /\ Step
    \/ \E c \in Allowed : Invoke(c)
    \/ Taken
    \/ DeleteAllLooks \/ DeleteAllFrees

Spec == Init /\ [][Next]_vars

\* A call goes on.
FairSpec == Spec /\ WF_vars(fault = "none" /\ Step)

-----------------------------------------------------------------------------
(* Properties                                                               *)

Bytes == 0 .. Capacity * Cardinality(Units) + MaxLen

\* The type of every variable; no cluster holds more than it has room for.
TypeOK ==
    /\ buf.pStart \in Units \cup {NULL} /\ buf.pLast \in Units \cup {NULL}
    /\ buf.clusterCount \in Int /\ buf.held \subseteq Units
    /\ buf.pNext \in [Units -> Units \cup {NULL}]
    /\ \A u \in Units : buf.data[u] \in BoundedSeq(Bytes, Capacity)
    /\ {cluster, prevCluster} \subseteq Units \cup {NULL}
    /\ offset \in Nat /\ remainLen \in 0 .. MaxLen
    /\ first \in Units \cup {NULL, NoCall}
    /\ fault \in {"none", "null", "overrun", "freed twice"}

\* Between two calls the list from pStart is what clusterCount, pLast and the memory pool
\* say: every cluster handed out is in it once, and pLast is the last of them.
ListIntact ==
    LET chain == Chain(buf, buf.pStart)
    IN  pc = "idle" =>
            /\ IsInjective(chain) /\ Range(chain) = buf.held
            /\ Len(chain) = buf.clusterCount
            /\ buf.pLast = IF chain = <<>> THEN NULL ELSE Last(chain)

Visible == IF pc = "idle" THEN Contents(buf) ELSE bytes

Promised == INSTANCE ByteSequence WITH
    bytes <- Visible, Calls <- AllCalls

\* Whatever calls are made, in whatever order, each returns and leaves behind what it would
\* with one sequence of bytes: AMCMutableBuffer.h.
ImplementsBytes == Promised!Spec

\* The process ends inside a call only when an insertion finds no memory: no other call
\* runs off the list, writes past a cluster or frees one twice.
EndsOnlyWithoutMemory == fault # "none" => call.op = "insert" /\ buf.held = Units

\* A call returns, or the process ends in it.
CallsReturn == pc # "idle" ~> pc = "idle" \/ fault # "none"
=============================================================================
