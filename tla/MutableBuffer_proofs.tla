------------------------ MODULE MutableBuffer_proofs ------------------------
(***************************************************************************)
(* For any number of clusters, any capacity and any length of the data:    *)
(* the calls of a careful program keep the list intact and implement       *)
(* ByteSequence.  The invariant has a part for every kind of call          *)
(* (AppendPart ... FilePart): it divides the bytes of before into those    *)
(* the call is done with and those before it, and says what it has made of *)
(* the former.  A step moves the place between the two; the step that      *)
(* returns leaves nothing before it, which makes it a step of the          *)
(* specification.                                                          *)
(***************************************************************************)
EXTENDS MutableBufferList_proofs

-----------------------------------------------------------------------------
(* The invariant                                                            *)

\* The clusters of b are a list.
Listed(b) == b \in Buffers /\ \E s : Linked(b, s)

\* A list that has clusters holds bytes, when y is what it holds.
Kept(b, y) == b.pStart # NULL => y # Nil

\* What a call is given.
Asked(c) ==
    /\ c \in AllCalls /\ c.op \in Names
    /\ c.offset \in Nat /\ c.len \in 0 .. MaxLen /\ c.data \in Seq(Bytes)
    /\ (c.op \in {"append", "insert"} => c.data # Nil)
    /\ (c.op \in {"delete", "read", "take", "check", "lines"} => c.len > 0)

\* All but d of the data is behind the bytes y of before.
AppendPart(b, c, p, d, y) ==
    /\ c.op \in {"append", "insert"} /\ (c.op = "insert" => c.offset >= Len(y))
    /\ d \in Seq(Bytes) /\ d # Nil /\ (p = "grow" => Contents(b) # Nil)
    /\ \E done \in Seq(Bytes) : Contents(b) = y ++ done /\ c.data = done ++ d

\* m bytes are still to be deleted, behind the offset of the call.
DeleteOn(b, c, cl, pv, o, m, y) ==
    \E P, Q, x, h, z, k, gone :
        /\ k \in Seq(Bytes) /\ z \in Seq(Bytes) /\ gone \in Seq(Bytes)
        /\ y = k ++ (gone ++ z) /\ Len(k) = c.offset /\ Len(gone) + m = c.len
        /\ Contents(b) = k ++ z
        /\ (m > 0 => Standing(b, P, Q, x, h, z, cl, o) /\ pv = End(P) /\ x ++ h = k)

\* A deletion: behind the end, or of something that leaves something.
DeletePart(b, c, p, cl, pv, o, m, y) ==
    /\ c.op = "delete" /\ m \in Nat /\ y \in Seq(Bytes)
    /\ (p = "delete" => Contents(b) = y /\ Kept(b, y))
    /\ \/ c.offset > Len(y) /\ p = "delete"
       \/ c.offset + c.len <= Len(y) /\ c.len < Len(y) /\ DeleteOn(b, c, cl, pv, o, m, y)

\* w was read, and m bytes are still to be read; what is taken is gone.
ReadAt(b, c, p, cl, pv, o, m, w, y, P, Q, x, h, z, k) ==
    /\ k \in Seq(Bytes) /\ y = k ++ (w ++ z) /\ Len(w) + m = c.len
    /\ (c.offset <= Len(y) => Len(k) = c.offset) /\ (c.offset > Len(y) => Q = Nil /\ w = Nil)
    /\ Standing(b, P, Q, x, h, z, cl, o) /\ pv = End(P)
    /\ (p = "read" => x ++ h = k ++ w)
    /\ (p = "take" => x ++ h = k)
    /\ (p = "take" /\ Q # Nil => m # Len(z))
    /\ (p = "take" /\ Q # Nil /\ P = Nil /\ o = 0 => m < Len(z))
    /\ (p = "take" /\ Q # Nil /\ o > 0 => m > Len(b.data[cl]) - o)

\* A read, or a removal.
ReadingPart(b, c, p, cl, pv, o, m, w, y) ==
    /\ c.op = p /\ m \in Nat /\ m > 0 /\ o \in Nat /\ w \in Seq(Bytes) /\ Kept(b, y)
    /\ (p = "take" /\ c.offset = 0 => y = Nil \/ c.len < Len(y))
    /\ \E P, Q, x, h, z, k : ReadAt(b, c, p, cl, pv, o, m, w, y, P, Q, x, h, z, k)

\* n bytes can go into a cluster of len bytes behind the first o.
InsertFits(o, len, n) ==
    \/ o = 0 /\ FrontRight(len, n)
    \/ /\ o > 0
       /\ IF n < Capacity - len THEN MovesRight(len, o, n)
          ELSE FrontRight(len - o, Max({0, n - (Capacity - o)}))

\* All but d of the data is in.
InsertedAt(b, c, cl, pv, o, d, y, P, Q, x, h, z, k, done) ==
    /\ k \in Seq(Bytes) /\ done \in Seq(Bytes) /\ y = k ++ z /\ c.data = done ++ d
    /\ Standing(b, P, Q, x, h, z, cl, o) /\ pv = End(P) /\ x ++ h = k ++ done
    /\ (c.offset <= Len(y) => Len(k) = c.offset) /\ (c.offset > Len(y) => z = Nil)
    /\ (Q # Nil /\ d # Nil => InsertFits(o, Len(b.data[cl]), Len(d)))

\* An insertion: all but d of the data stands at the place.
InsertPart(b, c, cl, pv, o, d, y) ==
    /\ c.op = "insert" /\ d \in Seq(Bytes) /\ o \in Nat
    /\ \E P, Q, x, h, z, k, done : InsertedAt(b, c, cl, pv, o, d, y, P, Q, x, h, z, k, done)

\* The lengths of two clusters, one behind the other, allow for the second to be moved.
TooMuch(l, m) == Capacity - l > 0 /\ m > 2 * (Capacity - l)

\* The length of the cluster where the defragmentation goes on.
LeftBy(l, m) ==
    CASE Capacity - l = 0 -> m
      [] Capacity - l > 0 /\ m <= Capacity - l -> l + m
      [] OTHER -> m - (Capacity - l)

\* G: clusters and lengths from which it goes well, along nx with the data e.
Smooth(G, nx, e) ==
    \A c \in Units : \A l \in 0 .. Capacity :
        <<c, l>> \in G /\ nx[c] # NULL => /\ ~TooMuch(l, Len(e[nx[c]]))
                                          /\ <<nx[c], LeftBy(l, Len(e[nx[c]]))>> \in G

\* So it does from a cluster of l bytes with those of R behind it.
Ahead(d, l, R, G, nx, e, k) ==
    /\ k \in Units /\ e \in [Units -> Held] /\ Smooth(G, nx, e) /\ <<k, l>> \in G
    /\ Segment(nx, nx[k], R, NULL) /\ (\A i \in 1 .. Len(R) : e[R[i]] = d[R[i]])

\* The defragmentation: the bytes are those of before, and it goes well from here on.
DefragmentPart(b, c, cl, y) ==
    /\ c.op = "defragment" /\ Contents(b) = y /\ y # Nil
    /\ \E P, R, x, d, r, G, nx, e, k : Around(b, P, cl, R, x, d, r) /\ Ahead(b.data, Len(d), R, G, nx, e, k)

\* What a callback is given.
Part(o, d, e) == <<o, d, e>>

\* w is the pieces of n bytes of y, the last one marked when isLast.
PiecesTo(w, n, y, isLast) ==
    /\ w \in Seq(Nat \X Seq(Bytes) \X BOOLEAN)
    /\ \A i \in 1 .. Len(w) : w[i] = Part(n * (i - 1), SubSeq(y, n * (i - 1) + 1, n * i), isLast /\ i = Len(w))

\* A look at the data: w was handed out, d is in the program's buffer.
CheckAt(b, c, p, cl, o, d, w, y, P, Q, x, h, z, k) ==
    /\ k \in Seq(Bytes) /\ Standing(b, P, Q, x, h, z, cl, o) /\ x ++ h = k ++ d
    /\ Len(k) = c.len * Len(w) /\ PiecesTo(w, c.len, y, p = "check" /\ Q = Nil /\ d = Nil)
    /\ (o > 0 => o < Len(b.data[cl]))

CheckPart(b, c, p, cl, o, d, w, y) ==
    /\ c.op = p /\ Contents(b) = y /\ Kept(b, y) /\ d \in Seq(Bytes) /\ Len(d) < c.len /\ o \in Nat
    /\ (p = "check" /\ b.pStart # NULL => Len(b.data[b.pLast]) > 0 \/ Len(y) % c.len # 0)
    /\ \E P, Q, x, h, z, k : CheckAt(b, c, p, cl, o, d, w, y, P, Q, x, h, z, k)

\* A dump to a file: w was written.
FilePart(b, c, cl, w, y) ==
    /\ c.op = "file" /\ Contents(b) = y /\ Kept(b, y)
    /\ \E P, Q, z : Stands(b, P, Q, w, z) /\ cl = HeadOr(Q, NULL)

\* A call is under way.
Working ==
    \/ pc \in {"append", "grow"} /\ AppendPart(buf, call, pc, pData, bytes)
    \/ pc \in {"delete", "delete_on"} /\ DeletePart(buf, call, pc, cluster, prevCluster, offset, remainLen, bytes)
    \/ pc \in {"read", "take"} /\ ReadingPart(buf, call, pc, cluster, prevCluster, offset, remainLen, out, bytes)
    \/ pc = "insert" /\ InsertPart(buf, call, cluster, prevCluster, offset, pData, bytes)
    \/ pc = "defragment" /\ DefragmentPart(buf, call, cluster, bytes)
    \/ pc \in {"check", "lines"} /\ CheckPart(buf, call, pc, cluster, offset, pData, out, bytes)
    \/ pc = "file" /\ FilePart(buf, call, cluster, out, bytes)

\* The locals, and who may be waiting for the lock.
Proceeding ==
    /\ Listed(buf) /\ cluster \in Units \cup {NULL} /\ prevCluster \in Units \cup {NULL}
    /\ offset \in Nat /\ remainLen \in 0 .. MaxLen
    /\ (first = NoCall \/ first = buf.pStart)
    /\ fault \in {"none", "null", "overrun", "freed twice"}

\* The inductive invariant: nobody calls and the list holds something or is empty, or a call is
\* under way, a DeleteAll waits only beside calls that keep the start cluster, and the process
\* ends only in an insertion without memory.
IInv ==
    /\ Proceeding
    /\ \/ pc = "idle" /\ call = NoCall /\ fault = "none" /\ Kept(buf, Contents(buf))
       \/ /\ pc # "idle" /\ reply = NoReply /\ Asked(call) /\ bytes \in Seq(Bytes) /\ Working
          /\ (first # NoCall => call.op \in {"read", "check", "lines", "file"} \/ (call.op = "append" /\ buf.pStart # NULL))
          /\ (fault # "none" => call.op = "insert" /\ buf.held = Units)

-----------------------------------------------------------------------------
(* _buffer_append                                                           *)

\* A call that stores data has stored all of it, or a part when there was no more memory.
Appended(c, y, z, r) ==
    \/ z = y ++ c.data /\ r = B!Done(0, Nil)
    \/ r = B!Failed("mempool") /\ \E n \in 0 .. Len(c.data) - 1 : z = y ++ Upto(c.data, n)

\* Something and something else is not nothing.
LEMMA JoinNotNil ==
    ASSUME NEW S, NEW x \in Seq(S), NEW y \in Seq(S), x # Nil \/ y # Nil
    PROVE  x ++ y # Nil
<1>1. Len(x ++ y) = Len(x) + Len(y) /\ x ++ y \in Seq(S)
    BY JoinLen
<1>2. Len(x) \in Nat /\ Len(y) \in Nat /\ (Len(x) = 0 <=> x = Nil) /\ (Len(y) = 0 <=> y = Nil) /\ Len(Nil) = 0
    BY NilIs
<1> QED BY <1>1, <1>2

\* Of the bytes d, those that l has room for, and the others.
RoomOf(b, l) == Capacity - Len(b.data[l])
Copied(b, l, d) == DataSet(b, l, b.data[l] ++ SubSeq(d, 1, Min({Len(d), RoomOf(b, l)})))
Uncopied(b, l, d) == SubSeq(d, RoomOf(b, l) + 1, Len(d))

\* _buffer_cluster_append_data: the last cluster takes what it has room for.
LEMMA AppendCopied ==
    ASSUME NEW b, Listed(b), NEW c, NEW p, NEW d, NEW y \in Seq(Bytes), AppendPart(b, c, p, d, y), Asked(c),
           NEW l, l = b.pLast, l # NULL, NEW g, g = Copied(b, l, d), NEW left, left = Uncopied(b, l, d)
    PROVE  /\ Listed(g) /\ g.pStart = b.pStart /\ g.pStart # NULL
           /\ (left # Nil => AppendPart(g, c, "grow", left, y))
           /\ (left = Nil => Contents(g) = y ++ c.data /\ Contents(g) # Nil)
<1>0. PICK s : b \in Buffers /\ Linked(b, s) /\ s \in Seq(Units) /\ b.pLast = End(s)
    <2>1. PICK s : b \in Buffers /\ Linked(b, s)
        BY DEF Listed
    <2>2. s \in Seq(Units) /\ b.pLast = End(s)
        BY <2>1, StartIs DEF Linked
    <2> QED BY <2>1, <2>2
<1>1. s # Nil
    BY <1>0, EndOne
<1>2. PICK t \in Seq(Units), u \in Units : s = t ++ One(u) /\ End(s) = u
    BY <1>0, <1>1, LastSplit
<1>3. l = u /\ One(u) ++ Nil = One(u) /\ Nil \in Seq(Units) /\ Cat(b.data, Nil) = Nil
    BY <1>0, <1>2, UnitSeq, JoinNone, NilIs, CatNone
<1>4. PICK x, e : Around(b, t, l, Nil, x, e, Nil) /\ e = b.data[l]
    BY <1>0, <1>2, <1>3 DEF Around
<1>5. /\ x \in Seq(Bytes) /\ e \in Seq(Bytes) /\ Len(e) \in 0 .. Capacity /\ Contents(b) = x ++ (e ++ Nil)
      /\ b.pStart # NULL
    BY <1>4, AroundIs
<1>6. /\ d \in Seq(Bytes) /\ d # Nil /\ c.op \in {"append", "insert"} /\ (c.op = "insert" => c.offset >= Len(y))
      /\ c.data \in Seq(Bytes) /\ c.data # Nil
    BY DEF AppendPart, Asked
<1>7. PICK done \in Seq(Bytes) : Contents(b) = y ++ done /\ c.data = done ++ d
    BY DEF AppendPart
<1>8. PICK room \in Nat : room = RoomOf(b, l) /\ room = Capacity - Len(e) /\ Len(e) \in Nat /\ Capacity \in Nat
    <2>1. Len(e) \in Nat /\ Capacity \in Nat /\ Capacity - Len(e) \in Nat
        BY <1>5, BufferAssumption
    <2>2. RoomOf(b, l) = Capacity - Len(e)
        BY <1>4 DEF RoomOf
    <2> QED BY <2>1, <2>2
<1>9. PICK a \in Seq(Bytes), f \in Seq(Bytes) : Parted(d, room, a, f)
    BY <1>6, <1>8, CutMin
<1>10. d = a ++ f /\ Len(a) = Min({room, Len(d)}) /\ Len(a) <= room /\ (room >= Len(d) => a = d /\ f = Nil) /\ (room < Len(d) => Len(a) = room)
    BY <1>9 DEF Parted
<1>11. Len(d) \in Nat /\ Len(a) \in Nat
    BY <1>6, NilIs
<1>12. Min({Len(d), room}) = Len(a)
    <2>1. {room, Len(d)} = {Len(d), room}
        OBVIOUS
    <2> QED BY <1>10, <2>1
<1>13. SubSeq(d, 1, Min({Len(d), room})) = a
    BY <1>10, <1>12, CutJoined DEF Upto
<1>14. left = f
    <2>1. CASE room >= Len(d)
        <3>1. SubSeq(d, room + 1, Len(d)) = <<>>
            <4>1. room + 1 \in Int /\ Len(d) \in Int /\ Len(d) < room + 1
                BY <1>8, <1>11, <2>1
            <4> QED BY <4>1, SubSeqEmpty
        <3> QED BY <1>8, <1>10, <2>1, <3>1 DEF Nil, Uncopied
    <2>2. CASE room < Len(d)
        <3>1. Beyond(a ++ f, Len(a)) = f
            BY CutJoined
        <3>2. Beyond(d, room) = f
            BY <1>10, <2>2, <3>1
        <3> QED BY <1>8, <3>2 DEF Beyond, Uncopied
    <2> QED BY <1>8, <1>11, <2>1, <2>2
<1>15. e ++ a \in Held
    <2>1. e ++ a \in Seq(Bytes) /\ Len(e ++ a) = Len(e) + Len(a)
        BY <1>5, JoinLen
    <2>2. Len(e ++ a) <= Capacity
        BY <1>8, <1>10, <1>11, <2>1
    <2> QED BY <2>1, <2>2 DEF Held
<1>16. Around(g, t, l, Nil, x, e ++ a, Nil) /\ SameList(g, b)
    <2>1. g = DataSet(b, l, e ++ a)
        BY <1>4, <1>8, <1>13 DEF Copied
    <2> QED BY <1>4, <1>15, <2>1, AroundSet
<1>17. Contents(g) = x ++ ((e ++ a) ++ Nil) /\ g.pStart # NULL /\ g \in Buffers
    <2>1. g \in Buffers
        BY <1>16 DEF Around
    <2>2. PICK v : v = e ++ a
        OBVIOUS
    <2>3. Around(g, t, l, Nil, x, v, Nil)
        BY <1>16, <2>2
    <2>4. Contents(g) = x ++ (v ++ Nil) /\ g.pStart # NULL
        BY <2>3, AroundIs
    <2> QED BY <2>1, <2>2, <2>4
<1>18. Listed(g) /\ g.pStart = b.pStart
    BY <1>0, <1>16, <1>17, SameLinked DEF Listed, SameList
<1>19. Contents(g) = y ++ (done ++ a) /\ done ++ a \in Seq(Bytes)
    <2>1. x ++ ((e ++ a) ++ Nil) = (x ++ (e ++ Nil)) ++ a
        <3>1. e ++ a \in Seq(Bytes) /\ (e ++ a) ++ Nil = e ++ a /\ e ++ Nil = e
            BY <1>5, JoinLen, JoinNone
        <3>2. x ++ (e ++ a) = (x ++ e) ++ a
            BY <1>5, JoinAssociative
        <3> QED BY <3>1, <3>2
    <2>2. (y ++ done) ++ a = y ++ (done ++ a) /\ done ++ a \in Seq(Bytes)
        BY JoinAssociative, JoinLen
    <2> QED BY <1>5, <1>7, <1>17, <2>1, <2>2
<1>20. (done ++ a) ++ f = c.data
    BY <1>7, <1>10, JoinAssociative
<1>21. Contents(g) # Nil
    <2>1. e ++ a # Nil
        <3>1. CASE e = Nil
            <4>1. Len(e) = 0 /\ Len(d) > 0
                BY <1>6, <1>11, <3>1, NilIs
            <4>2. Len(a) > 0
                <5>1. room > 0
                    BY <1>5, <1>8, <4>1, BufferAssumption
                <5>2. Len(a) = Len(d) \/ Len(a) = room
                    BY <1>8, <1>10, <1>11
                <5> QED BY <4>1, <5>1, <5>2
            <4>3. a # Nil
                BY <4>2, NilIs
            <4> QED BY <1>5, <4>3, JoinNotNil
        <3>2. CASE e # Nil
            BY <1>5, <3>2, JoinNotNil
        <3> QED BY <3>1, <3>2
    <2>2. e ++ a \in Seq(Bytes) /\ (e ++ a) ++ Nil = e ++ a
        BY <1>5, JoinLen, JoinNone
    <2> QED BY <1>5, <1>17, <2>1, <2>2, JoinNotNil
<1>22. ASSUME left # Nil PROVE AppendPart(g, c, "grow", left, y)
    <2>1. left \in Seq(Bytes) /\ c.data = (done ++ a) ++ left
        BY <1>14, <1>20
    <2> QED BY <1>6, <1>19, <1>21, <1>22, <2>1 DEF AppendPart
<1>23. ASSUME left = Nil PROVE Contents(g) = y ++ c.data
    <2>1. (done ++ a) ++ Nil = done ++ a
        BY <1>19, JoinNone
    <2> QED BY <1>14, <1>19, <1>20, <1>23, <2>1
<1> QED BY <1>17, <1>18, <1>21, <1>22, <1>23

\* _buffer_alloc_new_cluster: the empty cluster changes nothing of what was stored.
LEMMA AppendGrown ==
    ASSUME NEW b, Listed(b), NEW c, NEW p, NEW d, NEW y, AppendPart(b, c, p, d, y), NEW u \in Units, u \notin b.held,
           NEW g, g = _buffer_alloc_new_cluster(b, u)
    PROVE  Listed(g) /\ AppendPart(g, c, "append", d, y) /\ g.pStart # NULL /\ (b.pStart # NULL => g.pStart = b.pStart)
<1>1. PICK s : b \in Buffers /\ Linked(b, s)
    BY DEF Listed
<1>2. Around(g, s, u, Nil, Contents(b), Nil, Nil)
    BY <1>1, StandsGrow
<1>3. /\ Contents(b) \in Seq(Bytes) /\ Contents(g) = Contents(b) ++ (Nil ++ Nil) /\ g.pStart # NULL
      /\ g \in Buffers /\ Linked(g, s ++ (One(u) ++ Nil))
    BY <1>2, AroundIs DEF Around
<1>4. Contents(g) = Contents(b)
    BY <1>3, JoinNone, NilIs
<1>5. AppendPart(g, c, "append", d, y)
    BY <1>4 DEF AppendPart
<1>6. Listed(g)
    BY <1>3 DEF Listed
<1>7. b.pStart # NULL => g.pStart = b.pStart
    <2>1. b.pStart = NULL \/ b.pLast \in b.held
        <3>1. s # Nil => End(s) \in Range(s)
            BY <1>1, StartIs, EndIn
        <3>2. b.pStart # NULL => s # Nil
            BY <1>1, StartIs
        <3>3. Range(s) = b.held /\ b.pLast = End(s)
            BY <1>1 DEF Linked
        <3> QED BY <3>1, <3>2, <3>3
    <2> QED BY <1>1, <2>1, GrowFields
<1> QED BY <1>3, <1>5, <1>6, <1>7

\* Without memory: a part of the data has been stored.
LEMMA AppendFailed ==
    ASSUME NEW b, Listed(b), NEW c, NEW p, NEW d, NEW y \in Seq(Bytes), AppendPart(b, c, p, d, y), Asked(c),
           p = "grow" \/ b.pLast = NULL
    PROVE  Appended(c, y, Contents(b), B!Failed("mempool")) /\ Kept(b, Contents(b))
<1>1. PICK done \in Seq(Bytes) : Contents(b) = y ++ done /\ c.data = done ++ d
    BY DEF AppendPart
<1>2. d \in Seq(Bytes) /\ d # Nil /\ c.data \in Seq(Bytes)
    BY DEF AppendPart, Asked
<1>3. Len(done) \in Nat /\ Len(d) \in Nat /\ Len(d) > 0 /\ Len(c.data) = Len(done) + Len(d)
    BY <1>1, <1>2, NilIs, JoinLen
<1>4. Len(done) \in 0 .. Len(c.data) - 1
    BY <1>3
<1>5. Upto(c.data, Len(done)) = done
    BY <1>1, <1>2, CutJoined
<1>6. Appended(c, y, Contents(b), B!Failed("mempool"))
    BY <1>1, <1>4, <1>5 DEF Appended
<1>7. Kept(b, Contents(b))
    <2>1. CASE p = "grow"
        BY <2>1 DEF AppendPart, Kept
    <2>2. CASE b.pLast = NULL
        <3>1. PICK s : b \in Buffers /\ Linked(b, s) /\ b.pLast = End(s) /\ s \in Seq(Units)
            BY StartIs DEF Listed, Linked
        <3>2. s # Nil => End(s) \in Units
            BY <3>1, EndIn, RangeIs
        <3>3. b.pStart = NULL
            BY <2>2, <3>1, <3>2, StartIs, BufferAssumption
        <3> QED BY <3>3 DEF Kept
    <2> QED BY <2>1, <2>2
<1> QED BY <1>6, <1>7

-----------------------------------------------------------------------------
(* Steps                                                                    *)

\* What a step has to keep: the invariant, and the promise.
Keeps == IInv' /\ [Promised!Next]_<<Visible, call, reply>>

\* Another thread's DeleteAll still begins where the list does.
StartStays == first # NoCall => buf'.pStart = buf.pStart

\* A call that returns with the effect it promised.
LEMMA Returned ==
    ASSUME NEW r, IInv, pc # "idle", fault = "none", Return(r), Listed(buf'), Kept(buf', Contents(buf')), StartStays,
           Promised!Effect(call)
    PROVE  Keeps
<1>1. pc' = "idle" /\ call' = NoCall /\ cluster' = NULL /\ prevCluster' = NULL /\ offset' = 0 /\ remainLen' = 0 /\ first' = first /\ fault' = fault
    BY DEF Return, At
<1>2. 0 \in 0 .. MaxLen
    BY BufferAssumption
<1>3. Proceeding'
    BY <1>1, <1>2 DEF IInv, Proceeding, StartStays
<1>4. IInv'
    BY <1>1, <1>3 DEF IInv
<1>5. call # NoCall
    BY BufferAssumption DEF IInv, Asked
<1>6. Promised!Return
    BY <1>1, <1>5 DEF Promised!Return
<1> QED BY <1>4, <1>6 DEF Keeps, Promised!Next

\* A call that goes on, seen from outside, does nothing.
LEMMA Continued ==
    ASSUME IInv, pc # "idle", pc' # "idle", fault = "none", Continue, Listed(buf'), StartStays, Working',
           cluster' \in Units \cup {NULL}, prevCluster' \in Units \cup {NULL}, offset' \in Nat, remainLen' \in 0 .. MaxLen,
           first # NoCall /\ buf.pStart # NULL => buf'.pStart # NULL
    PROVE  Keeps
<1>1. call' = call /\ reply' = reply /\ first' = first /\ bytes' = bytes /\ fault' = fault
    BY DEF Continue
<1>2. Proceeding'
    BY <1>1 DEF IInv, Proceeding, StartStays
<1>3. IInv'
    BY <1>1, <1>2 DEF IInv
<1>4. Visible' = Visible
    BY <1>1 DEF Visible
<1> QED BY <1>1, <1>3, <1>4 DEF Keeps

-----------------------------------------------------------------------------

\* What is left behind by an append is what was promised.
LEMMA AppendEffect ==
    ASSUME pc # "idle", pc' = "idle", Asked(call), AppendPart(buf, call, pc, pData, bytes),
           Appended(call, bytes, Contents(buf'), reply')
    PROVE  Promised!Effect(call)
<1>1. Visible = bytes /\ Visible' = Contents(buf')
    BY DEF Visible
<1>2. Promised!AppendData(call.data)
    <2>1. CASE Contents(buf') = bytes ++ call.data /\ reply' = B!Done(0, Nil)
        BY <1>1, <2>1 DEF Promised!AppendData, B!Done, Promised!Done, ++, Nil
    <2>2. CASE reply' = B!Failed("mempool") /\ \E n \in 0 .. Len(call.data) - 1 : Contents(buf') = bytes ++ Upto(call.data, n)
        BY <1>1, <2>2 DEF Promised!AppendData, B!Failed, Promised!Failed, ++, Upto
    <2> QED BY <2>1, <2>2 DEF Appended
<1>3. call.op \in {"append", "insert"} /\ (call.op = "insert" => call.offset >= Len(bytes))
    BY DEF AppendPart
<1>4. CASE call.op = "append"
    BY <1>2, <1>4 DEF Promised!Effect
<1>5. CASE call.op = "insert"
    <2>1. Promised!InsertData(call.offset, call.data)
        BY <1>1, <1>2, <1>3, <1>5 DEF Promised!InsertData
    <2> QED BY <1>5, <2>1 DEF Promised!Effect
<1> QED BY <1>3, <1>4, <1>5

\* A step of an append fills the last cluster, and returns when that was all.
LEMMA AppendCopyKeeps ==
    ASSUME IInv, fault = "none", AppendCopy
    PROVE  Keeps
<1>1. /\ pc = "append" /\ buf.pLast # NULL /\ Listed(buf) /\ Asked(call) /\ AppendPart(buf, call, pc, pData, bytes)
    BY DEF AppendCopy, IInv, Proceeding, Working
<1>2. bytes \in Seq(Bytes)
    BY <1>1 DEF IInv
<1> DEFINE left == Uncopied(buf, buf.pLast, pData)
<1>3. buf' = Copied(buf, buf.pLast, pData)
    BY DEF AppendCopy, _buffer_cluster_append_data, Copied, DataSet, RoomOf, ++
<1>4. IF left = Nil THEN Return(B!Done(0, <<>>))
      ELSE /\ pc' = "grow" /\ pData' = left /\ Continue
           /\ UNCHANGED <<cluster, prevCluster, offset, remainLen, out>>
    BY DEF AppendCopy, Uncopied, RoomOf, dataLen, Nil
<1>5. /\ Listed(buf') /\ buf'.pStart = buf.pStart /\ buf'.pStart # NULL
      /\ (left # Nil => AppendPart(buf', call, "grow", left, bytes))
      /\ (left = Nil => Contents(buf') = bytes ++ call.data /\ Contents(buf') # Nil)
    BY <1>1, <1>2, <1>3, AppendCopied
<1>6. StartStays
    BY <1>5 DEF StartStays
<1> HIDE DEF left
<1>7. CASE left = Nil
    <2>1. Return(B!Done(0, <<>>)) /\ pc' = "idle" /\ reply' = B!Done(0, Nil)
        BY <1>4, <1>7 DEF Return, Nil
    <2>2. Kept(buf', Contents(buf'))
        BY <1>5, <1>7 DEF Kept
    <2>3. Appended(call, bytes, Contents(buf'), reply')
        BY <1>5, <1>7, <2>1 DEF Appended
    <2>4. Promised!Effect(call)
        BY <1>1, <2>1, <2>3, AppendEffect
    <2> QED BY <1>1, <1>5, <1>6, <2>1, <2>2, <2>4, Returned
<1>8. CASE left # Nil
    <2>1. pc' = "grow" /\ pData' = left /\ Continue /\ UNCHANGED <<cluster, prevCluster, offset, remainLen, out>>
        BY <1>4, <1>8
    <2>2. Working'
        BY <1>5, <1>8, <2>1 DEF Working, Continue
    <2>3. cluster' \in Units \cup {NULL} /\ prevCluster' \in Units \cup {NULL} /\ offset' \in Nat /\ remainLen' \in 0 .. MaxLen
        BY <2>1 DEF IInv, Proceeding
    <2> QED BY <1>1, <1>5, <1>6, <2>1, <2>2, <2>3, Continued
<1> QED BY <1>7, <1>8

\* Or it gets a new one.
LEMMA AppendGrowKeeps ==
    ASSUME IInv, fault = "none", NEW u \in Units, AppendGrow(u)
    PROVE  Keeps
<1>1. /\ pc \in {"append", "grow"} /\ Listed(buf) /\ AppendPart(buf, call, pc, pData, bytes)
      /\ u \notin buf.held /\ buf' = _buffer_alloc_new_cluster(buf, u)
      /\ pc' = "append" /\ Continue /\ UNCHANGED <<cluster, prevCluster, offset, remainLen, pData, out>>
    BY DEF AppendGrow, NeedsCluster, IInv, Proceeding, Working
<1>2. /\ Listed(buf') /\ AppendPart(buf', call, "append", pData, bytes)
      /\ buf'.pStart # NULL /\ (buf.pStart # NULL => buf'.pStart = buf.pStart)
    BY <1>1, AppendGrown
<1>3. Working'
    BY <1>1, <1>2 DEF Working, Continue
<1>4. StartStays
    <2>1. first # NoCall => call.op \in {"read", "check", "lines", "file"} \/ (call.op = "append" /\ buf.pStart # NULL)
        BY <1>1 DEF IInv
    <2>2. call.op \in {"append", "insert"}
        BY <1>1 DEF AppendPart
    <2> QED BY <1>2, <2>1, <2>2 DEF StartStays
<1>5. cluster' \in Units \cup {NULL} /\ prevCluster' \in Units \cup {NULL} /\ offset' \in Nat /\ remainLen' \in 0 .. MaxLen
    BY <1>1 DEF IInv, Proceeding
<1> QED BY <1>1, <1>2, <1>3, <1>4, <1>5, Continued

\* Or it finds none and fails, with a part of the data stored.
LEMMA AppendNoMemoryKeeps ==
    ASSUME IInv, fault = "none", AppendNoMemory
    PROVE  Keeps
<1>1. /\ pc \in {"append", "grow"} /\ (pc = "grow" \/ buf.pLast = NULL)
      /\ Return(B!Failed("mempool")) /\ buf' = buf
    BY DEF AppendNoMemory, NeedsCluster
<1>2. /\ Listed(buf) /\ Asked(call) /\ AppendPart(buf, call, pc, pData, bytes) /\ bytes \in Seq(Bytes)
    BY <1>1 DEF IInv, Proceeding, Working
<1>3. Appended(call, bytes, Contents(buf), B!Failed("mempool")) /\ Kept(buf, Contents(buf))
    BY <1>1, <1>2, AppendFailed
<1>4. reply' = B!Failed("mempool") /\ pc' = "idle"
    BY <1>1 DEF Return
<1>5. Promised!Effect(call)
    BY <1>1, <1>2, <1>3, <1>4, AppendEffect
<1>6. StartStays
    BY <1>1 DEF StartStays
<1> QED BY <1>1, <1>2, <1>3, <1>5, <1>6, Returned

-----------------------------------------------------------------------------
(* _buffer_delete                                                           *)

\* How many of m bytes cluster c has behind the first o, and what stays without them.
Behindhand(b, c, o, m) == Min({m, Len(b.data[c]) - o})
CutData(b, c, o, m) == B!Without(b.data[c], o, Behindhand(b, c, o, m))

\* _buffer_cluster_delete_data: what is cut out of the opened cluster.
LEMMA DeleteData ==
    ASSUME NEW b, NEW P, NEW c, NEW R, NEW x, NEW h, NEW t, NEW r, NEW z, Opened(b, P, c, R, x, h, t, r, z),
           NEW o, o = Len(h), NEW m \in Nat
    PROVE  \E a, e \in Seq(Bytes) : /\ t = a ++ e /\ Len(a) = Behindhand(b, c, o, m) /\ Len(a) <= m /\ Len(a) \in Nat
                                    /\ (Len(a) < m => e = Nil) /\ (m <= Len(t) => Len(a) = m)
                                    /\ CutData(b, c, o, m) = h ++ e /\ h ++ e \in Held
                                    /\ z = a ++ (e ++ r) /\ e ++ r \in Seq(Bytes)
<1>1. /\ Around(b, P, c, R, x, h ++ t, r) /\ z = t ++ r
      /\ h \in Seq(Bytes) /\ t \in Seq(Bytes) /\ r \in Seq(Bytes) /\ x \in Seq(Bytes)
    BY DEF Opened
<1>2. b.data[c] = h ++ t /\ Len(h ++ t) \in 0 .. Capacity
    <2>1. PICK d : d = h ++ t
        OBVIOUS
    <2>2. Around(b, P, c, R, x, d, r)
        BY <1>1, <2>1
    <2> QED BY <2>1, <2>2, AroundIs DEF Around
<1>3. PICK a \in Seq(Bytes), e \in Seq(Bytes) : Parted(t, m, a, e)
    BY <1>1, CutMin
<1>4. /\ t = a ++ e /\ Len(a) = Min({m, Len(t)}) /\ Len(a) <= m /\ Len(a) + Len(e) = Len(t)
      /\ (m >= Len(t) => a = t /\ e = Nil) /\ (m < Len(t) => Len(a) = m)
    BY <1>3 DEF Parted
<1>5. Len(h ++ t) = Len(h) + Len(t) /\ Len(h) \in Nat /\ Len(t) \in Nat /\ Len(a) \in Nat /\ Len(e) \in Nat
    BY <1>1, <1>3, JoinLen, NilIs
<1>6. Behindhand(b, c, o, m) = Len(a)
    <2>1. Len(b.data[c]) - o = Len(t)
        BY <1>2, <1>5
    <2> QED BY <1>4, <2>1 DEF Behindhand
<1>7. CutData(b, c, o, m) = h ++ e
    <2>1. b.data[c] = h ++ (a ++ e)
        BY <1>2, <1>4
    <2>2. h \in Seq(Bytes)
        BY <1>1
    <2>3. \A q : q = Len(a) => B!Without(h ++ (a ++ e), o, q) = h ++ e
        BY <2>2, WithoutIs
    <2>4. B!Without(h ++ (a ++ e), o, Len(a)) = h ++ e
        BY <2>3
    <2> QED BY <1>6, <2>1, <2>4 DEF CutData
<1>8. h ++ e \in Held
    <2>1. h ++ e \in Seq(Bytes) /\ Len(h ++ e) = Len(h) + Len(e)
        BY <1>1, JoinLen
    <2>2. Len(h ++ e) <= Capacity
        BY <1>2, <1>4, <1>5, <2>1, BufferAssumption
    <2> QED BY <2>1, <2>2 DEF Held
<1>9. z = a ++ (e ++ r) /\ e ++ r \in Seq(Bytes)
    BY <1>1, <1>4, JoinAssociative, JoinLen
<1>10. (Len(a) < m => e = Nil) /\ (m <= Len(t) => Len(a) = m)
    BY <1>4, <1>5
<1> QED BY <1>4, <1>5, <1>6, <1>7, <1>8, <1>9, <1>10

\* One cluster on: its share is deleted, and the cluster freed when nothing is left of it.
LEMMA DeleteOnStep ==
    ASSUME NEW b, NEW c, NEW cl, NEW pv, NEW o, NEW m \in Nat, NEW y \in Seq(Bytes),
           DeleteOn(b, c, cl, pv, o, m, y), Asked(c), m > 0, cl # NULL, c.len < Len(y),
           NEW v, v = CutData(b, cl, o, m), NEW g, g = DataSet(b, cl, v), NEW f, f = _buffer_free_cluster(g, cl, pv),
           NEW n, n = Behindhand(b, cl, o, m)
    PROVE  /\ m - n \in Nat /\ m - n <= m /\ b.pNext[cl] \in Units \cup {NULL} /\ g.data[cl] = v
           /\ (v = Nil => Listed(f) /\ DeleteOn(f, c, b.pNext[cl], pv, 0, m - n, y))
           /\ (v # Nil => Listed(g) /\ DeleteOn(g, c, b.pNext[cl], cl, 0, m - n, y))
<1>1. PICK P, Q, x, h, z, k, gone :
            /\ k \in Seq(Bytes) /\ z \in Seq(Bytes) /\ gone \in Seq(Bytes)
            /\ y = k ++ (gone ++ z) /\ Len(k) = c.offset /\ Len(gone) + m = c.len
            /\ Standing(b, P, Q, x, h, z, cl, o) /\ pv = End(P) /\ x ++ h = k
    BY DEF DeleteOn
<1>2. PICK R, t, r : Opened(b, P, cl, R, x, h, t, r, z) /\ Len(h) = o
    BY <1>1, StandingOpen
<1>3. PICK a \in Seq(Bytes), e \in Seq(Bytes) :
            /\ t = a ++ e /\ Len(a) = n /\ Len(a) <= m /\ Len(a) \in Nat
            /\ (Len(a) < m => e = Nil) /\ v = h ++ e /\ h ++ e \in Held
            /\ z = a ++ (e ++ r) /\ e ++ r \in Seq(Bytes)
    <2>1. \E aa, ee \in Seq(Bytes) : /\ t = aa ++ ee /\ Len(aa) = Behindhand(b, cl, o, m) /\ Len(aa) <= m /\ Len(aa) \in Nat
                                    /\ (Len(aa) < m => ee = Nil) /\ (m <= Len(t) => Len(aa) = m)
                                    /\ CutData(b, cl, o, m) = h ++ ee /\ h ++ ee \in Held
                                    /\ z = aa ++ (ee ++ r) /\ ee ++ r \in Seq(Bytes)
        BY <1>2, DeleteData
    <2> QED BY <2>1
<1>4. /\ Around(b, P, cl, R, x, h ++ t, r)
      /\ h \in Seq(Bytes) /\ t \in Seq(Bytes) /\ r \in Seq(Bytes) /\ x \in Seq(Bytes)
    BY <1>2 DEF Opened
<1>5. Around(g, P, cl, R, x, v, r) /\ g.data[cl] = v /\ SameList(g, b)
    <2>1. v \in Held
        BY <1>3
    <2>2. PICK d : d = h ++ t /\ Around(b, P, cl, R, x, d, r)
        BY <1>4
    <2>3. Around(g, P, cl, R, x, v, r) /\ SameList(g, b)
        BY <2>1, <2>2, AroundSet
    <2> QED BY <2>3 DEF Around
<1>6. /\ v \in Seq(Bytes) /\ g.pNext[cl] = HeadOr(R, NULL) /\ HeadOr(R, NULL) \in Units \cup {NULL}
      /\ Contents(g) = x ++ (v ++ r) /\ (R = Nil => r = Nil) /\ (P = Nil => x = Nil)
      /\ Stands(g, P ++ One(cl), R, x ++ v, r) /\ End(P ++ One(cl)) = cl
    <2>1. /\ v \in Seq(Bytes) /\ g.pNext[cl] = HeadOr(R, NULL) /\ HeadOr(R, NULL) \in Units \cup {NULL}
          /\ Contents(g) = x ++ (v ++ r)
        BY <1>5, AroundIs
    <2>2. (R = Nil => r = Nil) /\ (P = Nil => x = Nil)
        BY <1>5, AroundIs
    <2>3. Stands(g, P ++ One(cl), R, x ++ v, r) /\ End(P ++ One(cl)) = cl
        BY <1>5, AroundIs
    <2> QED BY <2>1, <2>2, <2>3
<1>7. b.pNext[cl] = HeadOr(R, NULL)
    BY <1>5, <1>6 DEF SameList
<1>8. m - n \in Nat /\ m - n <= m
    BY <1>3
<1>9. /\ gone ++ a \in Seq(Bytes) /\ Len(gone ++ a) + (m - n) = c.len /\ y = k ++ ((gone ++ a) ++ (e ++ r))
      /\ Len(y) = Len(k) + (Len(gone ++ a) + Len(e ++ r)) /\ Len(gone ++ a) <= c.len
    <2>1. gone ++ (a ++ (e ++ r)) = (gone ++ a) ++ (e ++ r)
        BY <1>1, <1>3, JoinAssociative
    <2>2. Len(gone ++ a) = Len(gone) + Len(a) /\ gone ++ a \in Seq(Bytes) /\ Len(gone) \in Nat
        BY <1>1, JoinLen, NilIs
    <2>3. Len(gone ++ a) + (m - n) = c.len /\ Len(gone ++ a) <= c.len
        BY <1>1, <1>3, <2>2
    <2>4. Len((gone ++ a) ++ (e ++ r)) = Len(gone ++ a) + Len(e ++ r) /\ (gone ++ a) ++ (e ++ r) \in Seq(Bytes)
        <3>1. PICK w \in Seq(Bytes), q \in Seq(Bytes) : w = gone ++ a /\ q = e ++ r
            BY <1>3, <2>2
        <3>2. Len(w ++ q) = Len(w) + Len(q) /\ w ++ q \in Seq(Bytes)
            BY JoinLen
        <3> QED BY <3>1, <3>2
    <2>5. y = k ++ ((gone ++ a) ++ (e ++ r))
        BY <1>1, <1>3, <2>1
    <2>6. Len(y) = Len(k) + Len((gone ++ a) ++ (e ++ r))
        BY <1>1, <2>4, <2>5, JoinLen
    <2> QED BY <2>2, <2>3, <2>4, <2>5, <2>6
<1>10. m - n > 0 => e = Nil
    BY <1>3
<1>11. x ++ (v ++ r) = k ++ (e ++ r)
    <2>1. x ++ ((h ++ e) ++ r) = x ++ (h ++ (e ++ r))
        BY <1>4, JoinAssociative
    <2>2. x ++ (h ++ (e ++ r)) = (x ++ h) ++ (e ++ r)
        BY <1>3, <1>4, JoinAssociative
    <2> QED BY <1>1, <1>3, <2>1, <2>2
<1>12. ASSUME v = Nil PROVE Listed(f) /\ DeleteOn(f, c, b.pNext[cl], pv, 0, m - n, y)
    <2>1. h = Nil /\ e = Nil
        BY <1>3, <1>4, <1>12, JoinNotNil
    <2>2. P # Nil \/ R # Nil
        <3> SUFFICES ASSUME P = Nil, R = Nil PROVE FALSE
            OBVIOUS
        <3>1. k = Nil /\ e ++ r = Nil /\ Len(Nil) = 0
            BY <1>1, <1>6, <2>1, JoinNone, NilIs
        <3>2. Len(y) = Len(gone ++ a) /\ Len(y) \in Nat /\ c.len \in Nat
            <4>1. Len(gone ++ a) \in Nat
                BY <1>9, NilIs
            <4>2. c.len \in Nat
                BY BufferAssumption DEF Asked
            <4> QED BY <1>9, <3>1, <4>1, <4>2
        <3> QED BY <1>9, <3>2
    <2>3. Stands(f, P, R, x, r)
        BY <1>1, <1>5, <2>2, AroundFree
    <2>4. Standing(f, P, R, x, Nil, r, b.pNext[cl], 0)
        BY <1>7, <2>3, StandingAt
    <2>5. x ++ Nil = k /\ e ++ r = r /\ Contents(f) = x ++ r
        BY <1>1, <1>4, <2>1, <2>3, JoinNone, StandsIs
    <2>6. Contents(f) = k ++ (e ++ r)
        BY <1>4, <2>5, JoinNone
    <2>7. Listed(f)
        BY <2>3 DEF Listed, Stands
    <2>8. /\ k \in Seq(Bytes) /\ e ++ r \in Seq(Bytes) /\ gone ++ a \in Seq(Bytes)
          /\ y = k ++ ((gone ++ a) ++ (e ++ r)) /\ Len(k) = c.offset /\ Len(gone ++ a) + (m - n) = c.len
          /\ Standing(f, P, R, x, Nil, e ++ r, b.pNext[cl], 0) /\ pv = End(P) /\ x ++ Nil = k
        BY <1>1, <1>3, <1>9, <2>4, <2>5
    <2>9. DeleteOn(f, c, b.pNext[cl], pv, 0, m - n, y)
        BY <2>6, <2>8 DEF DeleteOn
    <2> QED BY <2>7, <2>9
<1>13. ASSUME v # Nil PROVE Listed(g) /\ DeleteOn(g, c, b.pNext[cl], cl, 0, m - n, y)
    <2>1. Standing(g, P ++ One(cl), R, x ++ v, Nil, r, b.pNext[cl], 0)
        BY <1>6, <1>7, StandingAt
    <2>2. Contents(g) = k ++ (e ++ r)
        BY <1>6, <1>11
    <2>3. Listed(g)
        BY <1>5 DEF Listed, Around
    <2>4. ASSUME m - n > 0 PROVE e ++ r = r /\ (x ++ v) ++ Nil = k
        <3>1. e = Nil /\ e ++ r = r /\ h ++ e = h
            BY <1>4, <1>10, <2>4, JoinNone
        <3> QED BY <1>1, <1>3, <3>1, JoinNone
    <2>5. m - n > 0 => /\ Standing(g, P ++ One(cl), R, x ++ v, Nil, e ++ r, b.pNext[cl], 0)
                       /\ cl = End(P ++ One(cl)) /\ (x ++ v) ++ Nil = k
        BY <1>6, <2>1, <2>4
    <2>6. /\ k \in Seq(Bytes) /\ e ++ r \in Seq(Bytes) /\ gone ++ a \in Seq(Bytes)
          /\ y = k ++ ((gone ++ a) ++ (e ++ r)) /\ Len(k) = c.offset /\ Len(gone ++ a) + (m - n) = c.len
        BY <1>1, <1>3, <1>9
    <2>7. DeleteOn(g, c, b.pNext[cl], cl, 0, m - n, y)
        BY <2>2, <2>5, <2>6, Zenon DEF DeleteOn
    <2> QED BY <2>3, <2>7
<1> QED BY <1>5, <1>6, <1>7, <1>8, <1>12, <1>13

\* What is deleted begins with one of the clusters.
LEMMA DeleteMore ==
    ASSUME NEW b, NEW c, NEW cl, NEW pv, NEW o, NEW m \in Nat, NEW y \in Seq(Bytes),
           DeleteOn(b, c, cl, pv, o, m, y), Asked(c), c.offset + c.len <= Len(y), m > 0
    PROVE  cl # NULL
<1>1. PICK P, Q, x, h, z, k, gone :
            /\ k \in Seq(Bytes) /\ z \in Seq(Bytes) /\ gone \in Seq(Bytes)
            /\ y = k ++ (gone ++ z) /\ Len(k) = c.offset /\ Len(gone) + m = c.len
            /\ Standing(b, P, Q, x, h, z, cl, o)
    BY DEF DeleteOn
<1>2. Len(y) = Len(k) + Len(gone) + Len(z) /\ Len(k) \in Nat /\ Len(gone) \in Nat /\ Len(z) \in Nat /\ (z = Nil => Len(z) = 0)
    <2>0. k \in Seq(Bytes) /\ gone \in Seq(Bytes) /\ z \in Seq(Bytes)
        BY <1>1
    <2>1. Len(k ++ (gone ++ z)) = Len(k) + Len(gone) + Len(z) /\ Len(k) \in Nat /\ Len(gone) \in Nat /\ Len(z) \in Nat
        BY <2>0, JoinLens
    <2>2. Len(Nil) = 0
        BY NilIs
    <2> QED BY <1>1, <2>1, <2>2
<1>3. z # Nil
    BY <1>1, <1>2
<1> QED BY <1>1, <1>3, StandingIs

\* Where nothing is left to be deleted, all of it is gone.
LEMMA DeleteDone ==
    ASSUME NEW b, NEW c, NEW cl, NEW pv, NEW o, NEW y \in Seq(Bytes), DeleteOn(b, c, cl, pv, o, 0, y),
           Asked(c), c.len < Len(y)
    PROVE  Contents(b) = B!Without(y, c.offset, c.len) /\ Contents(b) # Nil
<1>1. PICK k, z, gone :
            /\ k \in Seq(Bytes) /\ z \in Seq(Bytes) /\ gone \in Seq(Bytes)
            /\ y = k ++ (gone ++ z) /\ Len(k) = c.offset /\ Len(gone) + 0 = c.len /\ Contents(b) = k ++ z
    BY DEF DeleteOn
<1>2. Len(y) = Len(k) + Len(gone) + Len(z) /\ Len(k) \in Nat /\ Len(gone) \in Nat /\ Len(z) \in Nat /\ (z = Nil => Len(z) = 0) /\ (k = Nil => Len(k) = 0)
    <2>0. k \in Seq(Bytes) /\ gone \in Seq(Bytes) /\ z \in Seq(Bytes)
        BY <1>1
    <2>1. Len(k ++ (gone ++ z)) = Len(k) + Len(gone) + Len(z) /\ Len(k) \in Nat /\ Len(gone) \in Nat /\ Len(z) \in Nat
        BY <2>0, JoinLens
    <2>2. Len(Nil) = 0
        BY NilIs
    <2> QED BY <1>1, <2>1, <2>2
<1>3. k # Nil \/ z # Nil
    BY <1>1, <1>2
<1>4. k ++ z # Nil
    BY <1>1, <1>3, JoinNotNil
<1>5. Len(gone) = c.len
    BY <1>1, <1>2
<1>6. B!Without(k ++ (gone ++ z), c.offset, c.len) = k ++ z
    BY <1>1, <1>5, WithoutIs
<1> QED BY <1>1, <1>4, <1>6

\* The operators of ByteSequence are the same in both instances.
LEMMA PromisedIs ==
    /\ \A y, o, n : Promised!Without(y, o, n) = B!Without(y, o, n)
    /\ \A y, o, d : Promised!With(y, o, d) = B!With(y, o, d)
<1>1. \A y, o, n : Promised!Without(y, o, n) = B!Without(y, o, n)
    BY DEF Promised!Without, B!Without, B!Min, Promised!Min
<1>2. \A y, o, d : Promised!With(y, o, d) = B!With(y, o, d)
    BY DEF Promised!With, B!With
<1> QED BY <1>1, <1>2

\* How much of what was asked for is there, by cases.
LEMMA ThereIs ==
    ASSUME NEW y, Len(y) \in Nat, NEW o \in Nat, NEW n \in Nat
    PROVE  /\ Promised!There(y, o, n) \in Nat
           /\ (o + n <= Len(y) => Promised!There(y, o, n) = n)
           /\ (o >= Len(y) => Promised!There(y, o, n) = 0)
           /\ (o <= Len(y) /\ o + n >= Len(y) => Promised!There(y, o, n) = Len(y) - o)
<1>1. PICK l \in Nat : l = Len(y)
    OBVIOUS
<1>2. Promised!There(y, o, n) = Min({n, Max({0, l - o})})
    BY <1>1 DEF Promised!There, Promised!Min, Promised!Max, Min, Max
<1>3. PICK q \in Nat : q = Max({0, l - o}) /\ q = IF 0 >= l - o THEN 0 ELSE l - o
    <2>1. l - o \in Int /\ 0 \in Int
        OBVIOUS
    <2>2. Max({0, l - o}) = IF 0 >= l - o THEN 0 ELSE l - o
        BY <2>1, MinMax
    <2>3. (IF 0 >= l - o THEN 0 ELSE l - o) \in Nat
        BY <2>1
    <2> QED BY <2>2, <2>3
<1>4. Min({n, q}) = IF n <= q THEN n ELSE q
    BY MinMax
<1>5. PICK p : p = Promised!There(y, o, n)
    OBVIOUS
<1>6. p = (IF n <= q THEN n ELSE q) /\ q = (IF 0 >= l - o THEN 0 ELSE l - o)
    BY <1>2, <1>3, <1>4, <1>5
<1>7. p \in Nat /\ (o + n <= l => p = n) /\ (o >= l => p = 0) /\ (o <= l /\ o + n >= l => p = l - o)
    BY <1>6
<1> QED BY <1>1, <1>5, <1>7

\* A deletion behind the end is refused, as promised.
LEMMA DeleteRefusedKeeps ==
    ASSUME IInv, fault = "none", DeleteRefused
    PROVE  Keeps
<1>1. pc = "delete" /\ call.offset > _buffer_get_len(buf) /\ Return(B!Failed("offset")) /\ buf' = buf
    BY DEF DeleteRefused
<1>2. /\ Listed(buf) /\ Asked(call) /\ bytes \in Seq(Bytes)
      /\ DeletePart(buf, call, pc, cluster, prevCluster, offset, remainLen, bytes)
    BY <1>1 DEF IInv, Proceeding, Working
<1>3. Contents(buf) = bytes /\ Kept(buf, bytes) /\ call.op = "delete"
    BY <1>1, <1>2 DEF DeletePart
<1>4. call.offset > Len(bytes)
    BY <1>1, <1>2, <1>3, GetLenIs DEF Listed
<1>5. pc' = "idle" /\ reply' = B!Failed("offset")
    BY <1>1 DEF Return
<1>6. Visible = bytes /\ Visible' = bytes
    BY <1>1, <1>3, <1>5 DEF Visible
<1>7. Promised!Delete(call.offset, call.len)
    BY <1>4, <1>5, <1>6 DEF Promised!Delete, Promised!Failed, B!Failed
<1>8. Promised!Effect(call)
    BY <1>3, <1>7 DEF Promised!Effect
<1>9. StartStays
    BY <1>1 DEF StartStays
<1> QED BY <1>1, <1>2, <1>3, <1>8, <1>9, Returned

\* No DeleteAll of another thread waits for the lock.
LEMMA NobodyWaits ==
    ASSUME IInv, pc # "idle", call.op \in {"insert", "delete", "take", "defragment"}
    PROVE  first = NoCall
BY DEF IInv

\* What a step of the deletion finds.
LEMMA DeleteBegins ==
    ASSUME IInv, DeletesFirst \/ (pc = "delete_on" /\ remainLen > 0)
    PROVE  /\ pc \in {"delete", "delete_on"} /\ Listed(buf) /\ Asked(call) /\ bytes \in Seq(Bytes) /\ call.op = "delete"
           /\ call.offset + call.len <= Len(bytes) /\ call.len < Len(bytes) /\ remainLen \in Nat /\ remainLen > 0
           /\ DeleteOn(buf, call, cluster, prevCluster, offset, remainLen, bytes)
<1>1. pc \in {"delete", "delete_on"}
    BY DEF DeletesFirst
<1>2. /\ Listed(buf) /\ Asked(call) /\ bytes \in Seq(Bytes)
      /\ DeletePart(buf, call, pc, cluster, prevCluster, offset, remainLen, bytes)
    BY <1>1 DEF IInv, Proceeding, Working
<1>3. ~(call.offset > Len(bytes) /\ pc = "delete")
    <2> SUFFICES ASSUME pc = "delete", call.offset > Len(bytes) PROVE FALSE
        OBVIOUS
    <2>1. Contents(buf) = bytes
        BY <1>2 DEF DeletePart
    <2>2. call.offset <= Len(bytes)
        BY <1>2, <2>1, GetLenIs DEF Listed, DeletesFirst
    <2>3. call.offset \in Nat /\ Len(bytes) \in Nat
        BY <1>2, NilIs DEF Asked
    <2> QED BY <2>2, <2>3
<1>4. /\ call.op = "delete" /\ remainLen \in Nat /\ call.offset + call.len <= Len(bytes) /\ call.len < Len(bytes)
      /\ DeleteOn(buf, call, cluster, prevCluster, offset, remainLen, bytes)
    BY <1>2, <1>3 DEF DeletePart
<1>5. remainLen > 0
    <2>1. CASE pc = "delete_on"
        BY <2>1 DEF DeletesFirst
    <2>2. CASE pc = "delete"
        <3>1. PICK k, z, gone :
                    /\ k \in Seq(Bytes) /\ z \in Seq(Bytes) /\ gone \in Seq(Bytes)
                    /\ bytes = k ++ (gone ++ z) /\ Len(gone) + remainLen = call.len /\ Contents(buf) = k ++ z
            BY <1>4 DEF DeleteOn
        <3>2. k ++ (gone ++ z) = k ++ z
            BY <1>2, <2>2, <3>1 DEF DeletePart
        <3>3. /\ Len(k ++ (gone ++ z)) = Len(k) + Len(gone) + Len(z) /\ Len(k ++ z) = Len(k) + Len(z)
              /\ Len(k) \in Nat /\ Len(gone) \in Nat /\ Len(z) \in Nat
            BY <3>1, JoinThree, JoinLen
        <3>4. Len(gone) = 0
            BY <3>2, <3>3
        <3>5. call.len > 0
            BY <1>2, <1>4 DEF Asked
        <3> QED BY <1>4, <3>1, <3>4, <3>5
    <2> QED BY <1>1, <2>1, <2>2
<1> QED BY <1>1, <1>2, <1>4, <1>5

\* A deletion goes on by one cluster.
LEMMA DeleteClusterKeeps ==
    ASSUME IInv, fault = "none", DeleteCluster
    PROVE  Keeps
<1> DEFINE g == DataSet(buf, cluster, CutData(buf, cluster, offset, remainLen))
           n == Behindhand(buf, cluster, offset, remainLen)
           f == _buffer_free_cluster(g, cluster, prevCluster)
<1>1. /\ DeletesFirst \/ (pc = "delete_on" /\ remainLen > 0)
      /\ cluster # NULL
      /\ IF g.data[cluster] = Nil
         THEN buf' = f /\ At(buf.pNext[cluster], prevCluster, 0)
         ELSE buf' = g /\ At(buf.pNext[cluster], cluster, 0)
      /\ remainLen' = remainLen - n
      /\ pc' = "delete_on" /\ UNCHANGED <<pData, out>> /\ Continue
    BY DEF DeleteCluster, _buffer_cluster_delete_data, DataSet, CutData, Behindhand, dataLen, Nil
<1>2. /\ pc \in {"delete", "delete_on"} /\ Listed(buf) /\ Asked(call) /\ bytes \in Seq(Bytes) /\ call.op = "delete"
      /\ call.offset + call.len <= Len(bytes) /\ call.len < Len(bytes) /\ remainLen \in Nat /\ remainLen > 0
      /\ DeleteOn(buf, call, cluster, prevCluster, offset, remainLen, bytes)
    BY <1>1, DeleteBegins
<1>3. PICK v : v = CutData(buf, cluster, offset, remainLen)
    OBVIOUS
<1>4. /\ remainLen - n \in Nat /\ remainLen - n <= remainLen /\ buf.pNext[cluster] \in Units \cup {NULL} /\ g.data[cluster] = v
      /\ (v = Nil => Listed(f) /\ DeleteOn(f, call, buf.pNext[cluster], prevCluster, 0, remainLen - n, bytes))
      /\ (v # Nil => Listed(g) /\ DeleteOn(g, call, buf.pNext[cluster], cluster, 0, remainLen - n, bytes))
    <2> HIDE DEF n
    <2>1. g = DataSet(buf, cluster, v) /\ n = Behindhand(buf, cluster, offset, remainLen)
        BY <1>3 DEF n
    <2> HIDE DEF g
    <2>2. f = _buffer_free_cluster(g, cluster, prevCluster)
        OBVIOUS
    <2> HIDE DEF f
    <2> QED BY <1>1, <1>2, <1>3, <2>1, <2>2, DeleteOnStep
<1> HIDE DEF f, g, n
<1>5. Listed(buf') /\ DeleteOn(buf', call, cluster', prevCluster', offset', remainLen', bytes)
    <2>1. CASE v = Nil
        BY <1>1, <1>4, <2>1 DEF At
    <2>2. CASE v # Nil
        BY <1>1, <1>4, <2>2 DEF At
    <2> QED BY <2>1, <2>2
<1>6. cluster' \in Units \cup {NULL} /\ prevCluster' \in Units \cup {NULL} /\ offset' \in Nat
    <2>1. prevCluster \in Units \cup {NULL} /\ cluster \in Units \cup {NULL}
        BY DEF IInv, Proceeding
    <2>2. CASE v = Nil
        BY <1>1, <1>4, <2>1, <2>2 DEF At
    <2>3. CASE v # Nil
        BY <1>1, <1>4, <2>1, <2>3 DEF At
    <2> QED BY <2>2, <2>3
<1>7. remainLen' \in 0 .. MaxLen /\ remainLen' \in Nat
    <2>1. remainLen \in 0 .. MaxLen /\ MaxLen \in Nat
        BY BufferAssumption DEF IInv, Proceeding
    <2> QED BY <1>1, <1>4, <2>1
<1>8. DeletePart(buf', call, pc', cluster', prevCluster', offset', remainLen', bytes)
    BY <1>1, <1>2, <1>5, <1>7 DEF DeletePart
<1>9. Working'
    BY <1>1, <1>8 DEF Working, Continue
<1>10. first = NoCall /\ pc # "idle"
    BY <1>2, NobodyWaits
<1>11. StartStays
    BY <1>10 DEF StartStays
<1> QED BY <1>1, <1>5, <1>6, <1>7, <1>9, <1>10, <1>11, Continued

\* A deletion that is done has deleted as much as it says.
LEMMA DeleteEndsKeeps ==
    ASSUME IInv, fault = "none", DeleteEnds
    PROVE  Keeps
<1>1. ~(DeletesFirst /\ cluster = NULL)
    <2> SUFFICES ASSUME DeletesFirst PROVE cluster # NULL
        OBVIOUS
    <2> QED BY DeleteBegins, DeleteMore
<1>2. pc = "delete_on" /\ remainLen = 0 /\ Return(B!Done(call.len, <<>>)) /\ buf' = buf
    BY <1>1 DEF DeleteEnds
<1>3. /\ Listed(buf) /\ Asked(call) /\ bytes \in Seq(Bytes) /\ call.op = "delete"
      /\ call.offset + call.len <= Len(bytes) /\ call.len < Len(bytes)
      /\ DeleteOn(buf, call, cluster, prevCluster, offset, 0, bytes)
    BY <1>2 DEF IInv, Proceeding, Working, DeletePart
<1>4. Contents(buf) = B!Without(bytes, call.offset, call.len) /\ Contents(buf) # Nil
    BY <1>3, DeleteDone
<1>5. pc' = "idle" /\ reply' = B!Done(call.len, <<>>)
    BY <1>2 DEF Return
<1>6. Visible = bytes /\ Visible' = Contents(buf)
    BY <1>2, <1>5 DEF Visible
<1>7. call.offset \in Nat /\ call.len \in Nat /\ Len(bytes) \in Nat
    BY <1>3, NilIs, BufferAssumption DEF Asked
<1>8. Promised!There(bytes, call.offset, call.len) = call.len
    BY <1>3, <1>7, ThereIs
<1>9. ~(call.offset > Len(bytes))
    BY <1>3, <1>7
<1>10. Visible' = Promised!Without(Visible, call.offset, call.len)
    BY <1>4, <1>6, PromisedIs
<1>11. reply' = Promised!Done(Promised!There(Visible, call.offset, call.len), <<>>)
    BY <1>5, <1>6, <1>8 DEF B!Done, Promised!Done
<1>12. Promised!Delete(call.offset, call.len)
    BY <1>6, <1>9, <1>10, <1>11 DEF Promised!Delete
<1>13. Promised!Effect(call)
    BY <1>3, <1>12 DEF Promised!Effect
<1>14. StartStays /\ Kept(buf', Contents(buf')) /\ Listed(buf')
    BY <1>2, <1>3, <1>4 DEF StartStays, Kept
<1> QED BY <1>2, <1>13, <1>14, Returned

-----------------------------------------------------------------------------
(* _buffer_read                                                             *)

RestOf(b, c, o) == Len(b.data[c]) - o

\* Cluster c, parted where the call has come to.
LEMMA OpenedIs ==
    ASSUME NEW b, NEW P, NEW c, NEW R, NEW x, NEW h, NEW t, NEW r, NEW z, Opened(b, P, c, R, x, h, t, r, z),
           NEW o, Len(h) = o
    PROVE  /\ b.data[c] = h ++ t /\ Beyond(b.data[c], o) = t /\ Upto(b.data[c], o) = h /\ RestOf(b, c, o) = Len(t)
           /\ Len(t) \in Nat /\ Len(h) \in Nat /\ Len(h) + Len(t) <= Capacity
           /\ h \in Held /\ t \in Held
<1>1. /\ Around(b, P, c, R, x, h ++ t, r) /\ h \in Seq(Bytes) /\ t \in Seq(Bytes)
    BY DEF Opened
<1>2. b.data[c] = h ++ t /\ Len(h ++ t) \in 0 .. Capacity
    <2>1. PICK d : d = h ++ t
        OBVIOUS
    <2>2. Around(b, P, c, R, x, d, r)
        BY <1>1, <2>1
    <2> QED BY <2>1, <2>2, AroundIs DEF Around
<1>3. Beyond(h ++ t, Len(h)) = t /\ Upto(h ++ t, Len(h)) = h
    BY <1>1, CutJoined
<1>4. Len(h ++ t) = Len(h) + Len(t) /\ Len(h) \in Nat /\ Len(t) \in Nat
    BY <1>1, JoinLen, NilIs
<1>5. RestOf(b, c, o) = Len(t)
    BY <1>2, <1>4 DEF RestOf
<1>6. Len(h) + Len(t) <= Capacity
    BY <1>2, <1>4, BufferAssumption
<1>7. h \in Held /\ t \in Held
    <2>1. Len(h) <= Capacity /\ Len(t) <= Capacity
        BY <1>4, <1>6, BufferAssumption
    <2> QED BY <1>1, <2>1 DEF Held
<1> QED BY <1>2, <1>3, <1>4, <1>5, <1>6, <1>7

\* Where a read stands.
LEMMA ReadFinds ==
    ASSUME NEW b, NEW c, NEW p, NEW cl, NEW pv, NEW o, NEW m, NEW w, NEW y \in Seq(Bytes),
           ReadingPart(b, c, p, cl, pv, o, m, w, y), Asked(c), cl # NULL
    PROVE  \E P, Q, x, h, z, k, R, t, r :
               /\ ReadAt(b, c, p, cl, pv, o, m, w, y, P, Q, x, h, z, k)
               /\ Opened(b, P, cl, R, x, h, t, r, z) /\ Q = One(cl) ++ R /\ Q # Nil /\ Len(h) = o
               /\ Len(k) = c.offset /\ y # Nil
<1>1. PICK P, Q, x, h, z, k : ReadAt(b, c, p, cl, pv, o, m, w, y, P, Q, x, h, z, k)
    BY DEF ReadingPart
<1>2. Standing(b, P, Q, x, h, z, cl, o)
    BY <1>1 DEF ReadAt
<1>3. Q # Nil
    BY <1>2, StandingIs
<1>4. PICK R, t, r : Opened(b, P, cl, R, x, h, t, r, z) /\ Q = One(cl) ++ R /\ Len(h) = o
    BY <1>2, StandingOpen
<1>5. Len(k) = c.offset
    <2>1. c.offset \in Nat /\ Len(y) \in Nat
        BY NilIs DEF Asked
    <2>2. (c.offset <= Len(y) => Len(k) = c.offset) /\ (c.offset > Len(y) => Q = Nil)
        BY <1>1 DEF ReadAt
    <2> QED BY <1>3, <2>1, <2>2
<1>6. y # Nil
    <2>1. PICK d : Around(b, P, cl, R, x, d, r)
        BY <1>4 DEF Opened
    <2>2. b.pStart # NULL
        BY <2>1, AroundIs
    <2> QED BY <2>2 DEF ReadingPart, Kept
<1> QED BY <1>1, <1>3, <1>4, <1>5, <1>6

\* A cluster is read to its end.
LEMMA ReadOn ==
    ASSUME NEW b, NEW c, NEW p, NEW cl, NEW pv, NEW o, NEW m, NEW w, NEW y \in Seq(Bytes),
           ReadingPart(b, c, p, cl, pv, o, m, w, y), Asked(c), cl # NULL, p \in {"read", "take"}, m > RestOf(b, cl, o),
           NEW v, v = w ++ Beyond(b.data[cl], o), NEW j, j = m - RestOf(b, cl, o),
           NEW f, f = _buffer_free_cluster(b, cl, pv), NEW g, g = DataSet(b, cl, Upto(b.data[cl], o))
    PROVE  /\ j \in Nat /\ j <= m /\ b.pNext[cl] \in Units \cup {NULL}
           /\ (p = "read" => ReadingPart(b, c, p, b.pNext[cl], cl, 0, j, v, y))
           /\ (p = "take" /\ o = 0 => Listed(f) /\ ReadingPart(f, c, p, b.pNext[cl], pv, 0, j, v, y))
           /\ (p = "take" /\ o > 0 => Listed(g) /\ ReadingPart(g, c, p, b.pNext[cl], cl, 0, j, v, y))
<1>1. PICK P, Q, x, h, z, k, R, t, r :
               /\ ReadAt(b, c, p, cl, pv, o, m, w, y, P, Q, x, h, z, k)
               /\ Opened(b, P, cl, R, x, h, t, r, z) /\ Q = One(cl) ++ R /\ Q # Nil /\ Len(h) = o
               /\ Len(k) = c.offset /\ y # Nil
    BY ReadFinds
<1>2. /\ k \in Seq(Bytes) /\ y = k ++ (w ++ z) /\ Len(w) + m = c.len /\ pv = End(P)
      /\ (p = "read" => x ++ h = k ++ w)
      /\ (p = "take" => x ++ h = k)
      /\ (p = "take" => m # Len(z))
      /\ (p = "take" /\ P = Nil /\ o = 0 => m < Len(z))
    BY <1>1 DEF ReadAt
<1>3. /\ c.op = p /\ m \in Nat /\ o \in Nat /\ w \in Seq(Bytes)
      /\ (p = "take" /\ c.offset = 0 => y = Nil \/ c.len < Len(y))
    BY DEF ReadingPart
<1>4. PICK d : d = h ++ t /\ Around(b, P, cl, R, x, d, r) /\ z = t ++ r
    BY <1>1 DEF Opened
<1>5. h \in Seq(Bytes) /\ t \in Seq(Bytes) /\ r \in Seq(Bytes) /\ x \in Seq(Bytes)
    BY <1>1 DEF Opened
<1>6. b.data[cl] = d /\ v = w ++ t /\ RestOf(b, cl, o) = Len(t) /\ Len(t) \in Nat /\ Upto(b.data[cl], o) = h /\ h \in Held
    BY <1>1, <1>4, OpenedIs
<1>7. j = m - Len(t) /\ j \in Nat /\ j > 0 /\ j <= m
    BY <1>3, <1>6
<1>8. /\ b.pNext[cl] = HeadOr(R, NULL) /\ HeadOr(R, NULL) \in Units \cup {NULL}
      /\ Stands(b, P ++ One(cl), R, x ++ d, r) /\ End(P ++ One(cl)) = cl
    BY <1>4, AroundIs
<1>9. v \in Seq(Bytes) /\ Len(v) + j = c.len /\ y = k ++ (v ++ r)
    <2>1. Len(w ++ t) = Len(w) + Len(t) /\ w ++ t \in Seq(Bytes) /\ Len(w) \in Nat
        BY <1>3, <1>5, JoinLen, NilIs
    <2>2. w ++ (t ++ r) = (w ++ t) ++ r
        BY <1>3, <1>5, JoinAssociative
    <2>3. Len(v) = Len(w) + Len(t)
        BY <1>6, <2>1
    <2>4. PICK a \in Nat, e \in Nat : a = Len(w) /\ e = Len(t)
        BY <1>6, <2>1
    <2>5. (a + e) + (m - e) = a + m
        BY <1>3
    <2>6. Len(v) + j = c.len
        BY <1>2, <1>7, <2>3, <2>4, <2>5
    <2> QED BY <1>2, <1>4, <1>6, <2>1, <2>2, <2>6
<1>10. Len(z) = Len(t) + Len(r) /\ Len(r) \in Nat
    BY <1>4, <1>5, JoinLen, NilIs
<1>11. (c.offset <= Len(y) => Len(k) = c.offset) /\ (c.offset > Len(y) => FALSE)
    <2>1. Len(k ++ (v ++ r)) = Len(k) + Len(v) + Len(r) /\ Len(v) \in Nat /\ Len(k) \in Nat
        BY <1>2, <1>5, <1>9, JoinLens
    <2> QED BY <1>1, <1>9, <1>10, <2>1
<1>12. P ++ One(cl) # Nil
    <2>1. P \in Seq(Units) /\ cl \in Units /\ One(cl) \in Seq(Units) /\ One(cl) # Nil
        BY <1>4, UnitSeq DEF Around
    <2> QED BY <2>1, JoinNotNil
<1>13. ASSUME p = "read" PROVE ReadingPart(b, c, p, b.pNext[cl], cl, 0, j, v, y)
    <2>1. Standing(b, P ++ One(cl), R, x ++ d, Nil, r, b.pNext[cl], 0)
        BY <1>8, StandingAt
    <2>2. (x ++ d) ++ Nil = k ++ v
        <3>1. x ++ (h ++ t) = (x ++ h) ++ t /\ (k ++ w) ++ t = k ++ (w ++ t)
            BY <1>2, <1>3, <1>5, JoinAssociative
        <3>2. x ++ d = k ++ v
            BY <1>2, <1>4, <1>6, <1>13, <3>1
        <3>3. k ++ v \in Seq(Bytes) /\ (k ++ v) ++ Nil = k ++ v
            BY <1>2, <1>9, JoinLen, JoinNone
        <3> QED BY <3>2, <3>3
    <2>3. ReadAt(b, c, p, b.pNext[cl], cl, 0, j, v, y, P ++ One(cl), R, x ++ d, Nil, r, k)
        BY <1>2, <1>8, <1>9, <1>11, <1>13, <2>1, <2>2 DEF ReadAt
    <2> QED BY <1>1, <1>3, <1>7, <1>9, <1>13, <2>3 DEF ReadingPart, Kept
<1>14. ASSUME p = "take", o = 0 PROVE Listed(f) /\ ReadingPart(f, c, p, b.pNext[cl], pv, 0, j, v, y)
    <2>1. h = Nil /\ x = k
        <3>1. h = Nil
            BY <1>1, <1>5, <1>14, NilIs
        <3> QED BY <1>2, <1>5, <1>14, <3>1, JoinNone
    <2>2. P # Nil \/ R # Nil
        <3>1. R = Nil => r = Nil
            BY <1>4, AroundIs
        <3> SUFFICES ASSUME P = Nil, R = Nil PROVE FALSE
            OBVIOUS
        <3>2. Len(r) = 0
            BY <3>1, NilIs
        <3>3. m < Len(z) /\ Len(z) = Len(t) /\ m > Len(t)
            <4>1. m < Len(z) /\ m > Len(t)
                BY <1>2, <1>6, <1>14
            <4> QED BY <1>6, <1>10, <3>2, <4>1
        <3> QED BY <1>3, <1>6, <3>3
    <2>3. Stands(f, P, R, x, r)
        BY <1>2, <1>4, <2>2, AroundFree
    <2>4. Standing(f, P, R, x, Nil, r, b.pNext[cl], 0)
        BY <1>8, <2>3, StandingAt
    <2>5. x ++ Nil = k
        BY <1>5, <2>1, JoinNone
    <2>6. j # Len(r) /\ (P = Nil => j < Len(r))
        BY <1>2, <1>3, <1>6, <1>7, <1>10, <1>14
    <2>7. ReadAt(f, c, p, b.pNext[cl], pv, 0, j, v, y, P, R, x, Nil, r, k)
        BY <1>2, <1>9, <1>11, <1>14, <2>4, <2>5, <2>6 DEF ReadAt
    <2>8. Listed(f)
        BY <2>3 DEF Stands, Listed
    <2> QED BY <1>1, <1>3, <1>7, <1>9, <2>7, <2>8 DEF ReadingPart, Kept
<1>15. ASSUME p = "take", o > 0 PROVE Listed(g) /\ ReadingPart(g, c, p, b.pNext[cl], cl, 0, j, v, y)
    <2>1. g = DataSet(b, cl, h)
        BY <1>6
    <2>2. Around(g, P, cl, R, x, h, r)
        BY <1>4, <1>6, <2>1, AroundSet
    <2>3. Stands(g, P ++ One(cl), R, x ++ h, r)
        BY <2>2, AroundIs
    <2>4. Standing(g, P ++ One(cl), R, x ++ h, Nil, r, b.pNext[cl], 0)
        BY <1>8, <2>3, StandingAt
    <2>5. (x ++ h) ++ Nil = k
        BY <1>2, <1>15, JoinNone
    <2>6. j # Len(r)
        BY <1>2, <1>3, <1>6, <1>7, <1>10, <1>15
    <2>7. ReadAt(g, c, p, b.pNext[cl], cl, 0, j, v, y, P ++ One(cl), R, x ++ h, Nil, r, k)
        BY <1>2, <1>8, <1>9, <1>11, <1>12, <1>15, <2>4, <2>5, <2>6 DEF ReadAt
    <2>8. Listed(g)
        BY <2>2 DEF Around, Listed
    <2> QED BY <1>1, <1>3, <1>7, <1>9, <2>7, <2>8 DEF ReadingPart, Kept
<1> QED BY <1>7, <1>8, <1>13, <1>14, <1>15

\* What a read returns and leaves behind, when w was read.
ReadDone(c, p, y, after, w) ==
    /\ w = SubSeq(y, c.offset + 1, c.offset + Promised!There(y, c.offset, c.len))
    /\ Len(w) = Promised!There(y, c.offset, c.len)
    /\ after = IF p = "take" THEN B!Without(y, c.offset, Len(w)) ELSE y

\* A read that is done has read what is there, and what it took is gone.
LEMMA ReadDoneIs ==
    ASSUME NEW c, Asked(c), NEW y, NEW k \in Seq(Bytes), NEW w \in Seq(Bytes), NEW z \in Seq(Bytes),
           y = k ++ (w ++ z), Len(k) = c.offset, Len(w) = c.len \/ (Len(w) <= c.len /\ z = Nil)
    PROVE  /\ Promised!There(y, c.offset, c.len) = Len(w)
           /\ SubSeq(y, c.offset + 1, c.offset + Len(w)) = w
           /\ B!Without(y, c.offset, Len(w)) = k ++ z
<1>1. Len(y) = Len(k) + Len(w) + Len(z) /\ Len(k) \in Nat /\ Len(w) \in Nat /\ Len(z) \in Nat
    <2>1. Len(k ++ (w ++ z)) = Len(k) + Len(w) + Len(z) /\ Len(k) \in Nat /\ Len(w) \in Nat /\ Len(z) \in Nat
        <3>1. LensOf(k, w, z)
            BY JoinLengths
        <3> QED BY <3>1 DEF LensOf
    <2> QED BY <2>1
<1>2. c.offset \in Nat /\ c.len \in Nat /\ (z = Nil => Len(z) = 0)
    BY NilIs, BufferAssumption DEF Asked
<1>3. Promised!There(y, c.offset, c.len) = Len(w)
    <2>1. Len(y) \in Nat
        BY <1>1
    <2>2. PICK q : q = Promised!There(y, c.offset, c.len)
        OBVIOUS
    <2>3. /\ (c.offset + c.len <= Len(y) => q = c.len)
          /\ (c.offset <= Len(y) /\ c.offset + c.len >= Len(y) => q = Len(y) - c.offset)
        BY <1>2, <2>1, <2>2, ThereIs
    <2>4. CASE Len(w) = c.len
        <3>1. c.offset + c.len <= Len(y)
            BY <1>1, <1>2, <2>4
        <3> QED BY <2>2, <2>3, <2>4, <3>1
    <2>5. CASE Len(w) <= c.len /\ z = Nil
        <3>1. c.offset <= Len(y) /\ c.offset + c.len >= Len(y) /\ Len(y) - c.offset = Len(w)
            BY <1>1, <1>2, <2>5
        <3> QED BY <2>2, <2>3, <3>1
    <2> QED BY <2>4, <2>5
<1>4. SubSeq(k ++ (w ++ z), Len(k) + 1, Len(k) + Len(w)) = w
    BY MiddleIs
<1>5. B!Without(k ++ (w ++ z), c.offset, Len(w)) = k ++ z
    BY WithoutIs
<1> QED BY <1>3, <1>4, <1>5

\* So it returns what was promised.
LEMMA ReadEffect ==
    ASSUME pc # "idle", pc' = "idle", NEW p, p \in {"read", "take"}, call.op = p, NEW w, ReadDone(call, p, bytes, Contents(buf'), w),
           NEW n, reply' = B!Done(n, w), n = Len(w)
    PROVE  Promised!Effect(call)
<1>1. Visible = bytes /\ Visible' = Contents(buf')
    BY DEF Visible
<1>2. w = SubSeq(bytes, call.offset + 1, call.offset + Promised!There(bytes, call.offset, call.len))
    BY DEF ReadDone
<1>3. n = Promised!There(bytes, call.offset, call.len)
    BY DEF ReadDone
<1>4. Contents(buf') = IF p = "take" THEN Promised!Without(bytes, call.offset, n) ELSE bytes
    BY PromisedIs DEF ReadDone
<1>5. reply' = Promised!Done(n, w)
    BY DEF B!Done, Promised!Done
<1>6. CASE p = "read"
    <2>1. Promised!Read(call.offset, call.len, FALSE)
        BY <1>1, <1>2, <1>3, <1>4, <1>5, <1>6 DEF Promised!Read
    <2> QED BY <1>6, <2>1 DEF Promised!Effect
<1>7. CASE p = "take"
    <2>1. Promised!Read(call.offset, call.len, TRUE)
        BY <1>1, <1>2, <1>3, <1>4, <1>5, <1>7 DEF Promised!Read
    <2> QED BY <1>7, <2>1 DEF Promised!Effect
<1> QED BY <1>6, <1>7

\* Bytes taken off the front.
LEMMA TakenOff ==
    ASSUME NEW S, NEW y \in Seq(S), NEW z \in Seq(S), NEW n, n = Len(y)
    PROVE  B!Without(y ++ z, 0, n) = z
<1>1. Nil \in Seq(S) /\ 0 = Len(Nil) /\ Nil ++ (y ++ z) = y ++ z /\ Nil ++ z = z
    BY NilIs, JoinNone, JoinLen
<1>2. ASSUME NEW q \in Seq(S), NEW o, o = Len(q)
      PROVE  B!Without(q ++ (y ++ z), o, n) = q ++ z
    BY <1>2, WithoutIs
<1>3. B!Without(Nil ++ (y ++ z), 0, n) = Nil ++ z
    BY <1>1, <1>2
<1> QED BY <1>1, <1>3

\* The rest of a cluster suffices.
LEMMA ReadLast ==
    ASSUME NEW b, NEW c, NEW p, NEW cl, NEW pv, NEW o, NEW m, NEW w, NEW y \in Seq(Bytes), Listed(b), Contents(b) = y \/ p = "take",
           ReadingPart(b, c, p, cl, pv, o, m, w, y), Asked(c), cl # NULL, p \in {"read", "take"}, m <= RestOf(b, cl, o),
           NEW v, v = w ++ SubSeq(b.data[cl], o + 1, o + m),
           NEW f, f = _buffer_free_cluster(b, cl, pv), NEW g, g = DataSet(b, cl, B!Without(b.data[cl], 0, m))
    PROVE  /\ Len(v) = c.len /\ ~(p = "take" /\ o > 0)
           /\ (p = "read" => ReadDone(c, p, y, Contents(b), v) /\ Kept(b, Contents(b)))
           /\ (p = "take" /\ m < Len(b.data[cl]) =>
                   Listed(g) /\ ReadDone(c, p, y, Contents(g), v) /\ Kept(g, Contents(g)))
           /\ (p = "take" /\ m = Len(b.data[cl]) =>
                   b.pNext[cl] # NULL /\ Listed(f) /\ ReadDone(c, p, y, Contents(f), v) /\ Kept(f, Contents(f)))
           /\ (p = "take" => m <= Len(b.data[cl]))
<1>1. PICK P, Q, x, h, z, k, R, t, r :
               /\ ReadAt(b, c, p, cl, pv, o, m, w, y, P, Q, x, h, z, k)
               /\ Opened(b, P, cl, R, x, h, t, r, z) /\ Q = One(cl) ++ R /\ Q # Nil /\ Len(h) = o
               /\ Len(k) = c.offset /\ y # Nil
    BY ReadFinds
<1>2. /\ k \in Seq(Bytes) /\ y = k ++ (w ++ z) /\ Len(w) + m = c.len /\ pv = End(P)
      /\ (p = "take" => x ++ h = k)
      /\ (p = "take" => m # Len(z))
      /\ (p = "take" /\ o > 0 => m > Len(b.data[cl]) - o)
    BY <1>1 DEF ReadAt
<1>3. /\ c.op = p /\ m \in Nat /\ m > 0 /\ o \in Nat /\ w \in Seq(Bytes)
      /\ (p = "take" /\ c.offset = 0 => y = Nil \/ c.len < Len(y))
    BY DEF ReadingPart
<1>4. PICK d : d = h ++ t /\ Around(b, P, cl, R, x, d, r) /\ z = t ++ r
    BY <1>1 DEF Opened
<1>5. h \in Seq(Bytes) /\ t \in Seq(Bytes) /\ r \in Seq(Bytes) /\ x \in Seq(Bytes)
    BY <1>1 DEF Opened
<1>6. b.data[cl] = d /\ RestOf(b, cl, o) = Len(t) /\ Len(t) \in Nat /\ Len(h) \in Nat /\ t \in Held
    BY <1>1, <1>4, OpenedIs
<1>7. PICK a \in Seq(Bytes), e \in Seq(Bytes) : Parted(t, m, a, e)
    BY <1>3, <1>5, CutMin
<1>8. t = a ++ e /\ Len(a) = m /\ Len(a) + Len(e) = Len(t) /\ Len(a) \in Nat /\ Len(e) \in Nat
    <2>1. /\ t = a ++ e /\ Len(a) + Len(e) = Len(t) /\ (m >= Len(t) => a = t /\ e = Nil) /\ (m < Len(t) => Len(a) = m)
        BY <1>7 DEF Parted
    <2>2. Len(a) \in Nat /\ Len(e) \in Nat
        BY <1>7, NilIs
    <2>3. m <= Len(t)
        BY <1>6
    <2>4. CASE m < Len(t)
        BY <2>1, <2>2, <2>4
    <2>5. CASE m = Len(t)
        BY <1>3, <1>6, <2>1, <2>2, <2>5
    <2> QED BY <1>3, <1>6, <2>3, <2>4, <2>5
<1>9. v = w ++ a /\ v \in Seq(Bytes) /\ Len(v) = c.len
    <2>1. SubSeq(h ++ (a ++ e), Len(h) + 1, Len(h) + Len(a)) = a
        BY <1>5, <1>7, MiddleIs
    <2>2. v = w ++ a
        BY <1>1, <1>4, <1>6, <1>8, <2>1
    <2>3. Len(w ++ a) = Len(w) + Len(a) /\ w ++ a \in Seq(Bytes)
        BY <1>3, <1>7, JoinLen
    <2> QED BY <1>2, <1>8, <2>2, <2>3
<1>10. y = k ++ (v ++ (e ++ r)) /\ e ++ r \in Seq(Bytes) /\ z = a ++ (e ++ r)
    <2>1. (a ++ e) ++ r = a ++ (e ++ r) /\ e ++ r \in Seq(Bytes)
        BY <1>5, <1>7, JoinAssociative, JoinLen
    <2>2. w ++ (a ++ (e ++ r)) = (w ++ a) ++ (e ++ r)
        BY <1>3, <1>7, <2>1, JoinAssociative
    <2> QED BY <1>2, <1>4, <1>8, <1>9, <2>1, <2>2
<1>11. /\ Promised!There(y, c.offset, c.len) = Len(v)
       /\ SubSeq(y, c.offset + 1, c.offset + Len(v)) = v
       /\ B!Without(y, c.offset, Len(v)) = k ++ (e ++ r)
    <2>1. PICK u \in Seq(Bytes) : u = e ++ r
        BY <1>10
    <2>2. y = k ++ (v ++ u)
        BY <1>10, <2>1
    <2>3. k \in Seq(Bytes) /\ Len(k) = c.offset
        BY <1>1, <1>2
    <2>4. v \in Seq(Bytes) /\ Len(v) = c.len
        BY <1>9
    <2> QED BY <2>1, <2>2, <2>3, <2>4, ReadDoneIs
<1>12. ~(p = "take" /\ o > 0)
    <2> SUFFICES ASSUME p = "take", o > 0 PROVE FALSE
        OBVIOUS
    <2>1. m > RestOf(b, cl, o)
        BY <1>2 DEF RestOf
    <2> QED BY <1>3, <1>6, <2>1
<1>13. ASSUME p = "read" PROVE ReadDone(c, p, y, Contents(b), v) /\ Kept(b, Contents(b))
    <2>1. Contents(b) = y
        BY <1>13
    <2> QED BY <1>1, <1>11, <1>13, <2>1 DEF ReadDone, Kept
<1>14. p = "take" => h = Nil /\ x = k /\ d = t
    <2> SUFFICES ASSUME p = "take" PROVE h = Nil /\ x = k /\ d = t
        OBVIOUS
    <2>1. h = Nil
        BY <1>1, <1>3, <1>5, <1>12, NilIs
    <2> QED BY <1>2, <1>4, <1>5, <2>1, JoinNone
<1>15. p = "take" => k ++ (e ++ r) # Nil
    <2> SUFFICES ASSUME p = "take" PROVE k ++ (e ++ r) # Nil
        OBVIOUS
    <2>0. Len(y) = Len(k) + Len(v) + Len(e ++ r) /\ Len(k) \in Nat /\ Len(v) \in Nat /\ Len(e ++ r) \in Nat
        <3>1. LensOf(k, v, e ++ r)
            BY <1>2, <1>9, <1>10, JoinLengths
        <3> QED BY <1>10, <3>1 DEF LensOf
    <2>1. CASE c.offset = 0
        <3>1. c.len < Len(y)
            BY <1>1, <1>3, <2>1
        <3>2. Len(e ++ r) > 0
            BY <1>1, <1>9, <2>0, <2>1, <3>1
        <3>3. e ++ r # Nil
            BY <3>2, NilIs
        <3> QED BY <1>2, <1>10, <3>3, JoinNotNil
    <2>2. CASE c.offset # 0
        <3>1. k # Nil
            BY <1>1, <2>2, NilIs
        <3> QED BY <1>2, <1>10, <3>1, JoinNotNil
    <2> QED BY <2>1, <2>2
<1>16. ASSUME p = "take", m < Len(b.data[cl])
       PROVE  Listed(g) /\ ReadDone(c, p, y, Contents(g), v) /\ Kept(g, Contents(g))
    <2>1. a \in Seq(Bytes) /\ e \in Seq(Bytes) /\ m = Len(a)
        BY <1>7, <1>8
    <2>2. B!Without(a ++ e, 0, m) = e
        BY <2>1, TakenOff
    <2>3. g = DataSet(b, cl, e)
        BY <1>4, <1>6, <1>8, <1>14, <1>16, <2>2
    <2>4. e \in Held
        <3>1. Len(t) <= Capacity
            BY <1>6 DEF Held
        <3>2. Len(e) <= Capacity
            BY <1>6, <1>8, <3>1, BufferAssumption
        <3> QED BY <1>7, <3>2 DEF Held
    <2>5. Around(g, P, cl, R, x, e, r)
        BY <1>4, <2>3, <2>4, AroundSet
    <2>6. Contents(g) = k ++ (e ++ r)
        BY <1>14, <1>16, <2>5, AroundIs
    <2>7. Listed(g)
        BY <2>5 DEF Around, Listed
    <2> QED BY <1>11, <1>15, <1>16, <2>6, <2>7 DEF ReadDone, Kept
<1>17. ASSUME p = "take", m = Len(b.data[cl])
       PROVE  b.pNext[cl] # NULL /\ Listed(f) /\ ReadDone(c, p, y, Contents(f), v) /\ Kept(f, Contents(f))
    <2>1. Len(e) = 0 /\ m = Len(t)
        BY <1>6, <1>8, <1>14, <1>17
    <2>2. e = Nil /\ e ++ r = r
        BY <1>5, <1>7, <2>1, NilIs, JoinNone
    <2>3. R # Nil
        <3> SUFFICES ASSUME R = Nil PROVE FALSE
            OBVIOUS
        <3>1. r = Nil
            BY <1>4, AroundIs
        <3>2. z = t
            BY <1>4, <1>5, <3>1, JoinNone
        <3> QED BY <1>2, <1>17, <2>1, <3>2
    <2>4. b.pNext[cl] # NULL
        BY <1>4, <2>3, AroundIs
    <2>5. Stands(f, P, R, x, r)
        BY <1>2, <1>4, <2>3, AroundFree
    <2>6. Contents(f) = k ++ (e ++ r)
        BY <1>14, <1>17, <2>2, <2>5, StandsIs
    <2>7. Listed(f)
        BY <2>5 DEF Stands, Listed
    <2> QED BY <1>11, <1>15, <1>17, <2>4, <2>6, <2>7 DEF ReadDone, Kept
<1>18. p = "take" => m <= Len(b.data[cl])
    BY <1>6, <1>14
<1> QED BY <1>9, <1>12, <1>13, <1>16, <1>17, <1>18

\* The list ends before the read does.
LEMMA ReadShort ==
    ASSUME NEW b, NEW c, NEW p, NEW pv, NEW o, NEW m, NEW w, NEW y \in Seq(Bytes), Contents(b) = y \/ p = "take",
           ReadingPart(b, c, p, NULL, pv, o, m, w, y), Asked(c), p \in {"read", "take"}
    PROVE  Len(w) = c.len - m /\ ReadDone(c, p, y, Contents(b), w) /\ Kept(b, Contents(b))
<1>1. PICK P, Q, x, h, z, k : ReadAt(b, c, p, NULL, pv, o, m, w, y, P, Q, x, h, z, k)
    BY DEF ReadingPart
<1>2. /\ k \in Seq(Bytes) /\ y = k ++ (w ++ z) /\ Len(w) + m = c.len
      /\ (c.offset <= Len(y) => Len(k) = c.offset) /\ (c.offset > Len(y) => w = Nil)
      /\ Standing(b, P, Q, x, h, z, NULL, o) /\ (p = "take" => x ++ h = k)
    BY <1>1 DEF ReadAt
<1>3. /\ c.op = p /\ m \in Nat /\ m > 0 /\ w \in Seq(Bytes) /\ Kept(b, y)
      /\ (p = "take" /\ c.offset = 0 => y = Nil \/ c.len < Len(y))
    BY DEF ReadingPart
<1>4. z = Nil /\ z \in Seq(Bytes) /\ Contents(b) = (x ++ h) ++ z /\ x ++ h \in Seq(Bytes)
    BY <1>2, StandingIs
<1>5. Len(w) \in Nat /\ Len(k) \in Nat /\ c.len \in Nat /\ c.offset \in Nat /\ Len(Nil) = 0 /\ Len(y) \in Nat
    BY <1>2, <1>3, NilIs, BufferAssumption DEF Asked
<1>6. Len(w) = c.len - m /\ Len(w) <= c.len /\ Len(w) < c.len
    BY <1>2, <1>3, <1>5
<1>7. w ++ z = w /\ k ++ z = k /\ y = k ++ w
    BY <1>2, <1>3, <1>4, JoinNone
<1>8. p = "take" => Contents(b) = k
    BY <1>2, <1>4, <1>7
<1>9. Len(y) = Len(k) + Len(w)
    BY <1>2, <1>3, <1>7, JoinLen
<1>10. ReadDone(c, p, y, Contents(b), w)
    <2>1. CASE c.offset <= Len(y)
        <3>1. /\ Promised!There(y, c.offset, c.len) = Len(w)
              /\ SubSeq(y, c.offset + 1, c.offset + Len(w)) = w
              /\ B!Without(y, c.offset, Len(w)) = k ++ z
            <4>1. Len(k) = c.offset
                BY <1>2, <2>1
            <4>2. Len(w) = c.len \/ (Len(w) <= c.len /\ z = Nil)
                BY <1>4, <1>6
            <4>3. k \in Seq(Bytes) /\ w \in Seq(Bytes) /\ z \in Seq(Bytes) /\ y = k ++ (w ++ z)
                BY <1>2, <1>3, <1>4
            <4> QED BY <4>1, <4>2, <4>3, ReadDoneIs
        <3> QED BY <1>7, <1>8, <3>1 DEF ReadDone
    <2>2. CASE c.offset > Len(y)
        <3>1. w = Nil /\ y = k
            BY <1>2, <1>7, <2>2, JoinNone
        <3>2. Promised!There(y, c.offset, c.len) = 0
            <4>1. Len(y) \in Nat /\ c.offset \in Nat /\ c.len \in Nat /\ c.offset >= Len(y)
                BY <1>5, <2>2
            <4> HIDE <1>2, <1>3
            <4> QED BY <4>1, ThereIs
        <3>3. SubSeq(y, c.offset + 1, c.offset + 0) = Nil
            <4>1. c.offset + 1 \in Int /\ c.offset + 0 \in Int /\ c.offset + 0 < c.offset + 1
                BY <1>5
            <4>2. SubSeq(y, c.offset + 1, c.offset + 0) = <<>>
                BY <4>1, SubSeqEmpty
            <4> QED BY <4>2 DEF Nil
        <3>4. B!Without(y, c.offset, 0) = y
            <4>1. Min({c.offset, Len(y)}) = Len(y)
                <5>1. c.offset \in Int /\ Len(y) \in Int /\ ~(c.offset <= Len(y))
                    BY <1>5, <2>2
                <5>2. Min({c.offset, Len(y)}) = IF c.offset <= Len(y) THEN c.offset ELSE Len(y)
                    BY <5>1, MinMax
                <5> QED BY <5>1, <5>2
            <4>2. SubSeq(y, c.offset + 0 + 1, Len(y)) = <<>>
                <5>1. c.offset + 0 + 1 \in Int /\ Len(y) \in Int /\ Len(y) < c.offset + 0 + 1
                    BY <1>5, <2>2
                <5> QED BY <5>1, SubSeqEmpty
            <4>3. SubSeq(y, 1, Len(y)) = y
                BY SubSeqFull
            <4>4. B!Without(y, c.offset, 0) = SubSeq(y, 1, Min({c.offset, Len(y)})) \o SubSeq(y, c.offset + 0 + 1, Len(y))
                BY DEF B!Without, B!Min, Min
            <4>5. B!Without(y, c.offset, 0) = y ++ Nil
                BY <4>1, <4>2, <4>3, <4>4 DEF ++, Nil
            <4> QED BY <4>5, JoinNone
        <3>5. Len(w) = 0
            BY <1>5, <3>1
        <3> QED BY <1>8, <3>1, <3>2, <3>3, <3>4, <3>5 DEF ReadDone
    <2> QED BY <1>5, <2>1, <2>2
<1>11. Kept(b, Contents(b))
    <2>1. CASE p = "read"
        BY <1>3, <2>1
    <2>2. CASE p = "take"
        <3> SUFFICES ASSUME b.pStart # NULL PROVE k # Nil
            BY <1>8, <2>2 DEF Kept
        <3>1. y # Nil
            BY <1>3 DEF Kept
        <3>2. ASSUME k = Nil PROVE FALSE
            <4>1. Len(k) = 0 /\ Len(y) = Len(w)
                BY <1>5, <1>9, <3>2
            <4>2. c.offset # 0
                BY <1>3, <1>5, <1>6, <2>2, <3>1, <4>1
            <4>3. c.offset > Len(y)
                BY <1>2, <1>5, <4>1, <4>2
            <4>4. w = Nil
                BY <1>2, <4>3
            <4> QED BY <1>7, <3>1, <3>2, <4>4, <1>4
        <3> QED BY <3>2
    <2> QED BY <2>1, <2>2
<1> QED BY <1>6, <1>10, <1>11

\* A read without removal leaves the list as it is.
LEMMA ReadIntact ==
    ASSUME NEW b, NEW c, NEW cl, NEW pv, NEW o, NEW m, NEW w, NEW y,
           ReadingPart(b, c, "read", cl, pv, o, m, w, y)
    PROVE  Contents(b) = y
<1>1. PICK P, Q, x, h, z, k : ReadAt(b, c, "read", cl, pv, o, m, w, y, P, Q, x, h, z, k)
    BY DEF ReadingPart
<1>2. k \in Seq(Bytes) /\ y = k ++ (w ++ z) /\ Standing(b, P, Q, x, h, z, cl, o) /\ x ++ h = k ++ w
    BY <1>1 DEF ReadAt
<1>3. Contents(b) = (x ++ h) ++ z /\ z \in Seq(Bytes)
    BY <1>2, StandingIs
<1>4. w \in Seq(Bytes)
    BY DEF ReadingPart
<1>5. (k ++ w) ++ z = k ++ (w ++ z)
    BY <1>2, <1>3, <1>4, JoinAssociative
<1> QED BY <1>2, <1>3, <1>5

\* What a step of a read finds.
LEMMA ReadBegins ==
    ASSUME IInv, pc \in {"read", "take"}
    PROVE  /\ pc # "idle" /\ Listed(buf) /\ Asked(call) /\ bytes \in Seq(Bytes) /\ call.op = pc
           /\ ReadingPart(buf, call, pc, cluster, prevCluster, offset, remainLen, out, bytes)
           /\ cluster \in Units \cup {NULL} /\ prevCluster \in Units \cup {NULL} /\ remainLen \in 0 .. MaxLen
           /\ (Contents(buf) = bytes \/ pc = "take") /\ (pc = "take" => first = NoCall)
<1>1. /\ pc # "idle" /\ Listed(buf) /\ Asked(call) /\ bytes \in Seq(Bytes)
      /\ ReadingPart(buf, call, pc, cluster, prevCluster, offset, remainLen, out, bytes)
      /\ cluster \in Units \cup {NULL} /\ prevCluster \in Units \cup {NULL} /\ remainLen \in 0 .. MaxLen
    BY DEF IInv, Proceeding, Working
<1>2. call.op = pc
    BY <1>1 DEF ReadingPart
<1>3. pc = "read" => Contents(buf) = bytes
    BY <1>1, ReadIntact
<1>4. pc = "take" => first = NoCall
    BY <1>1, <1>2, NobodyWaits
<1> QED BY <1>1, <1>2, <1>3, <1>4

\* A read takes all that is left of a cluster.
LEMMA ReadToEndKeeps ==
    ASSUME IInv, fault = "none", ReadToEnd
    PROVE  Keeps
<1>1. PICK v, j, f, g :
        /\ v = out ++ Beyond(buf.data[cluster], offset) /\ j = remainLen - RestOf(buf, cluster, offset)
        /\ f = _buffer_free_cluster(buf, cluster, prevCluster)
        /\ g = DataSet(buf, cluster, Upto(buf.data[cluster], offset))
    OBVIOUS
<1>2. /\ pc \in {"read", "take"} /\ cluster # NULL /\ remainLen > RestOf(buf, cluster, offset)
      /\ out' = v /\ remainLen' = j /\ pc' = pc /\ Continue
    BY <1>1 DEF ReadToEnd, Reading, rest, RestOf, dataLen, ++, Beyond
<1>3. /\ (pc = "read" => buf' = buf /\ At(buf.pNext[cluster], cluster, 0))
      /\ (pc = "take" /\ offset = 0 => buf' = f /\ At(buf.pNext[cluster], prevCluster, 0))
      /\ (pc = "take" /\ offset > 0 => buf' = g /\ At(buf.pNext[cluster], cluster, 0))
    <2>1. CASE pc = "read"
        BY <2>1 DEF ReadToEnd
    <2>2. CASE pc = "take" /\ offset = 0
        BY <1>1, <2>2 DEF ReadToEnd
    <2>3. CASE pc = "take" /\ offset > 0
        BY <1>1, <2>3 DEF ReadToEnd, DataSet, Upto
    <2> QED BY <2>1, <2>2, <2>3
<1>4. /\ pc # "idle" /\ Listed(buf) /\ Asked(call) /\ bytes \in Seq(Bytes) /\ call.op = pc
      /\ ReadingPart(buf, call, pc, cluster, prevCluster, offset, remainLen, out, bytes)
      /\ cluster \in Units \cup {NULL} /\ prevCluster \in Units \cup {NULL} /\ remainLen \in 0 .. MaxLen
      /\ (pc = "take" => first = NoCall)
    BY <1>2, ReadBegins
<1>5. /\ j \in Nat /\ j <= remainLen /\ buf.pNext[cluster] \in Units \cup {NULL}
      /\ (pc = "read" => ReadingPart(buf, call, pc, buf.pNext[cluster], cluster, 0, j, v, bytes))
      /\ (pc = "take" /\ offset = 0 => Listed(f) /\ ReadingPart(f, call, pc, buf.pNext[cluster], prevCluster, 0, j, v, bytes))
      /\ (pc = "take" /\ offset > 0 => Listed(g) /\ ReadingPart(g, call, pc, buf.pNext[cluster], cluster, 0, j, v, bytes))
    BY <1>1, <1>2, <1>4, ReadOn
<1>6. offset \in Nat
    BY <1>4 DEF ReadingPart
<1>7. /\ Listed(buf') /\ ReadingPart(buf', call, pc, cluster', prevCluster', offset', remainLen', out', bytes)
      /\ cluster' \in Units \cup {NULL} /\ prevCluster' \in Units \cup {NULL} /\ offset' \in Nat /\ StartStays
    <2>1. CASE pc = "read"
        BY <1>2, <1>3, <1>4, <1>5, <2>1 DEF At, StartStays
    <2>2. CASE pc = "take" /\ offset = 0
        BY <1>2, <1>3, <1>4, <1>5, <2>2 DEF At, StartStays
    <2>3. CASE pc = "take" /\ offset > 0
        BY <1>2, <1>3, <1>4, <1>5, <2>3 DEF At, StartStays
    <2> QED BY <1>2, <1>6, <2>1, <2>2, <2>3
<1>8. remainLen' \in 0 .. MaxLen
    BY <1>2, <1>4, <1>5, BufferAssumption
<1>9. Working'
    BY <1>2, <1>7 DEF Working, Continue
<1>10. first # NoCall /\ buf.pStart # NULL => buf'.pStart # NULL
    BY <1>7 DEF StartStays
<1> QED BY <1>2, <1>4, <1>7, <1>8, <1>9, <1>10, Continued

\* Or a part of it, and then it is done.
LEMMA ReadPartKeeps ==
    ASSUME IInv, fault = "none", ReadPart
    PROVE  Keeps
<1>1. PICK v, f, g, r :
        /\ v = out ++ SubSeq(buf.data[cluster], offset + 1, offset + remainLen)
        /\ f = _buffer_free_cluster(buf, cluster, prevCluster)
        /\ g = DataSet(buf, cluster, B!Without(buf.data[cluster], 0, remainLen))
        /\ r = B!Done(call.len, v)
    OBVIOUS
<1>2. pc \in {"read", "take"} /\ cluster # NULL /\ remainLen <= RestOf(buf, cluster, offset)
    BY DEF ReadPart, Reading, rest, RestOf, dataLen
<1>3. /\ (pc = "read" => buf' = buf /\ Return(r))
      /\ (pc = "take" /\ offset = 0 /\ remainLen < Len(buf.data[cluster]) => buf' = g /\ Return(r))
      /\ (pc = "take" /\ offset = 0 /\ remainLen = Len(buf.data[cluster]) /\ buf.pNext[cluster] # NULL => buf' = f /\ Return(r))
    <2>0. remainLen \in Nat /\ Len(buf.data[cluster]) \in Nat
        <3>1. remainLen \in Nat /\ buf.data \in [Units -> Held] /\ cluster \in Units
            BY <1>2, ReadBegins, RecordIs, BufferAssumption DEF Listed
        <3> QED BY <3>1, HeldIs, BufferAssumption
    <2>1. r = B!Done(call.len, out \o SubSeq(buf.data[cluster], offset + 1, offset + remainLen))
        BY <1>1 DEF ++
    <2>2. ASSUME pc = "read" PROVE buf' = buf /\ Return(r)
        BY <2>1, <2>2 DEF ReadPart
    <2>3. ASSUME pc = "take", offset = 0, remainLen < Len(buf.data[cluster]) PROVE buf' = g /\ Return(r)
        <3>1. g = [buf EXCEPT !.data[cluster] = B!Without(buf.data[cluster], 0, remainLen)]
            BY <1>1 DEF DataSet
        <3>2. ~(offset > 0) /\ ~(remainLen = Len(buf.data[cluster]))
            BY <2>0, <2>3
        <3> QED BY <2>1, <2>3, <3>1, <3>2 DEF ReadPart
    <2>4. ASSUME pc = "take", offset = 0, remainLen = Len(buf.data[cluster]), buf.pNext[cluster] # NULL PROVE buf' = f /\ Return(r)
        <3>1. ~(offset > 0) /\ ~(remainLen < Len(buf.data[cluster]))
            BY <2>0, <2>4
        <3> QED BY <1>1, <2>1, <2>4, <3>1 DEF ReadPart
    <2> QED BY <2>2, <2>3, <2>4
<1>4. /\ pc # "idle" /\ Listed(buf) /\ Asked(call) /\ bytes \in Seq(Bytes) /\ call.op = pc
      /\ ReadingPart(buf, call, pc, cluster, prevCluster, offset, remainLen, out, bytes)
      /\ (Contents(buf) = bytes \/ pc = "take") /\ (pc = "take" => first = NoCall)
    BY <1>2, ReadBegins
<1>5. /\ Len(v) = call.len /\ ~(pc = "take" /\ offset > 0)
      /\ (pc = "read" => ReadDone(call, pc, bytes, Contents(buf), v) /\ Kept(buf, Contents(buf)))
      /\ (pc = "take" /\ remainLen < Len(buf.data[cluster]) =>
              Listed(g) /\ ReadDone(call, pc, bytes, Contents(g), v) /\ Kept(g, Contents(g)))
      /\ (pc = "take" /\ remainLen = Len(buf.data[cluster]) =>
              buf.pNext[cluster] # NULL /\ Listed(f) /\ ReadDone(call, pc, bytes, Contents(f), v) /\ Kept(f, Contents(f)))
      /\ (pc = "take" => remainLen <= Len(buf.data[cluster]))
    BY <1>1, <1>2, <1>4, ReadLast
<1>6. offset \in Nat
    BY <1>4 DEF ReadingPart
<1>7. Return(r) /\ Listed(buf') /\ ReadDone(call, pc, bytes, Contents(buf'), v) /\ Kept(buf', Contents(buf')) /\ StartStays
    <2>1. CASE pc = "read"
        BY <1>3, <1>4, <1>5, <2>1 DEF StartStays
    <2>2. CASE pc = "take"
        <3>1. offset = 0
            BY <1>5, <1>6, <2>2
        <3>2. CASE remainLen < Len(buf.data[cluster])
            BY <1>3, <1>4, <1>5, <2>2, <3>1, <3>2 DEF StartStays
        <3>3. CASE remainLen = Len(buf.data[cluster])
            BY <1>3, <1>4, <1>5, <2>2, <3>1, <3>3 DEF StartStays
        <3>4. remainLen < Len(buf.data[cluster]) \/ remainLen = Len(buf.data[cluster])
            <4>1. remainLen \in Nat
                BY <1>4 DEF ReadingPart
            <4>2. remainLen <= Len(buf.data[cluster])
                BY <1>5, <2>2
            <4>3. Len(buf.data[cluster]) \in Nat
                <5>1. buf.data \in [Units -> Held] /\ cluster \in Units
                    BY <1>2, <1>4, RecordIs DEF Listed, IInv, Proceeding
                <5> QED BY <5>1, HeldIs, BufferAssumption
            <4> QED BY <4>1, <4>2, <4>3
        <3> QED BY <3>2, <3>3, <3>4
    <2> QED BY <1>2, <2>1, <2>2
<1>8. pc' = "idle" /\ reply' = B!Done(call.len, v)
    BY <1>1, <1>7 DEF Return
<1>9. Promised!Effect(call)
    BY <1>2, <1>4, <1>5, <1>7, <1>8, ReadEffect
<1> QED BY <1>4, <1>7, <1>9, Returned

\* Or it is behind the last cluster.
LEMMA ReadEndsKeeps ==
    ASSUME IInv, fault = "none", ReadEnds
    PROVE  Keeps
<1>1. pc \in {"read", "take"} /\ cluster = NULL /\ Return(B!Done(call.len - remainLen, out)) /\ buf' = buf
    BY DEF ReadEnds
<1>2. /\ pc # "idle" /\ Listed(buf) /\ Asked(call) /\ bytes \in Seq(Bytes) /\ call.op = pc
      /\ ReadingPart(buf, call, pc, cluster, prevCluster, offset, remainLen, out, bytes)
      /\ (Contents(buf) = bytes \/ pc = "take") /\ (pc = "take" => first = NoCall)
    BY <1>1, ReadBegins
<1>3. ReadingPart(buf, call, pc, NULL, prevCluster, offset, remainLen, out, bytes)
    BY <1>1, <1>2
<1>4. /\ Len(out) = call.len - remainLen /\ ReadDone(call, pc, bytes, Contents(buf), out)
      /\ Kept(buf, Contents(buf))
    BY <1>1, <1>2, <1>3, ReadShort
<1>5. pc' = "idle" /\ reply' = B!Done(call.len - remainLen, out)
    BY <1>1 DEF Return
<1>6. Promised!Effect(call)
    BY <1>1, <1>2, <1>4, <1>5, ReadEffect
<1>7. Listed(buf') /\ Kept(buf', Contents(buf')) /\ StartStays
    BY <1>1, <1>2, <1>4 DEF StartStays
<1> QED BY <1>1, <1>2, <1>6, <1>7, Returned

-----------------------------------------------------------------------------
(* _buffer_insert                                                           *)

\* Quotient and remainder are unique.
LEMMA DividedOnce ==
    ASSUME NEW c \in Nat \ {0}, NEW q \in Int, NEW p \in Int, NEW r \in 0 .. c - 1, NEW s \in 0 .. c - 1,
           q * c + r = p * c + s
    PROVE  q = p /\ r = s
<1>1. CASE q > p
    <2>1. (q - p) * c >= c
        BY <1>1
    <2> QED BY <1>1, <2>1
<1>2. CASE q < p
    <2>1. (p - q) * c >= c
        BY <1>2
    <2> QED BY <1>2, <2>1
<1>3. CASE q = p
    BY <1>3
<1> QED BY <1>1, <1>2, <1>3

\* Quotient and remainder are what they are.
LEMMA DividedIs ==
    ASSUME NEW c \in Nat \ {0}, NEW a \in Nat, NEW q \in Int, NEW r \in 0 .. c - 1, a = q * c + r
    PROVE  a \div c = q /\ a % c = r
<1>1. a = (a \div c) * c + (a % c) /\ a % c \in 0 .. c - 1 /\ a \div c \in Int
    OBVIOUS
<1>2. PICK p \in Int, s \in 0 .. c - 1 : p = a \div c /\ s = a % c
    BY <1>1
<1>3. q * c + r = p * c + s
    BY <1>1, <1>2
<1> QED BY <1>2, <1>3, DividedOnce

\* What is less than Capacity is its own remainder.
LEMMA SmallRemainder ==
    ASSUME NEW n \in Nat, n < Capacity
    PROVE  n % Capacity = n
<1>1. Capacity \in Nat \ {0} /\ 0 \in Int /\ n \in 0 .. Capacity - 1
    BY BufferAssumption
<1>2. n = 0 * Capacity + n
    BY <1>1
<1> QED BY <1>1, <1>2, DividedIs

\* Capacity more leaves the remainder what it was.
LEMMA SameRemainder ==
    ASSUME NEW n \in Nat, NEW m \in Nat, n = m + Capacity
    PROVE  n % Capacity = m % Capacity
<1>1. Capacity \in Nat \ {0}
    BY BufferAssumption
<1>2. m = (m \div Capacity) * Capacity + (m % Capacity) /\ m % Capacity \in 0 .. Capacity - 1 /\ m \div Capacity \in Int
    BY <1>1
<1>3. PICK p \in Int, s \in 0 .. Capacity - 1 : p = m \div Capacity /\ s = m % Capacity
    BY <1>2
<1>4. m = p * Capacity + s
    BY <1>2, <1>3
<1>5. n = (p + 1) * Capacity + s /\ p + 1 \in Int
    BY <1>1, <1>4
<1>6. n % Capacity = s
    BY <1>1, <1>5, DividedIs
<1> QED BY <1>3, <1>6

\* What fits into a cluster as it stands is moved out of the way in time.
LEMMA FitsMoves ==
    ASSUME NEW o \in Nat, NEW len \in Nat, NEW n \in Nat, n > 0, n < Capacity - len, InsertFits(o, len, n)
    PROVE  MovesRight(len, o, n)
<1>1. Capacity \in Nat
    BY BufferAssumption
<1>2. CASE o = 0 /\ FrontRight(len, n)
    <2>1. n % Capacity = n
        BY <1>1, SmallRemainder
    <2>2. n = 0 \/ n >= Capacity - len \/ MovesRight(len, 0, n)
        BY <1>2, <2>1 DEF FrontRight
    <2> QED BY <1>1, <1>2, <2>2
<1>3. CASE o > 0
    BY <1>3 DEF InsertFits
<1> QED BY <1>2, <1>3 DEF InsertFits

\* What the part of the data behind the first cluster meets.
LEMMA FitsBehind ==
    ASSUME NEW o \in Nat, o > 0, NEW len \in Nat, NEW n \in Nat, ~(n < Capacity - len), InsertFits(o, len, n),
           NEW e \in Nat, e > 0, e + Capacity - o = n
    PROVE  InsertFits(0, len - o, e)
<1>1. Capacity \in Nat
    BY BufferAssumption
<1>2. FrontRight(len - o, Max({0, n - (Capacity - o)}))
    BY DEF InsertFits
<1>3. Max({0, n - (Capacity - o)}) = e
    <2>1. n - (Capacity - o) = e
        BY <1>1
    <2>2. PICK j \in Int : j = n - (Capacity - o)
        BY <1>1
    <2>3. \A i \in Int : Max({i, j}) = IF i >= j THEN i ELSE j
        BY MinMax
    <2> QED BY <2>1, <2>2, <2>3
<1> QED BY <1>2, <1>3 DEF InsertFits
\* A cluster was filled in front.
LEMMA FitsFront ==
    ASSUME NEW len \in Nat, NEW n \in Nat, InsertFits(0, len, n), NEW e \in Nat, e + Capacity = n
    PROVE  InsertFits(0, len, e)
<1>1. FrontRight(len, n)
    BY DEF InsertFits
<1>2. n % Capacity = e % Capacity
    BY SameRemainder, BufferAssumption
<1>3. FrontRight(len, e)
    BY <1>1, <1>2 DEF FrontRight
<1> QED BY <1>3 DEF InsertFits

\* What a step of an insertion finds in a cluster.
LEMMA InsertFinds ==
    ASSUME NEW b, NEW c, NEW cl, NEW pv, NEW o, NEW d, NEW y,
           InsertPart(b, c, cl, pv, o, d, y), cl # NULL
    PROVE  \E P, Q, x, h, z, k, done, R, t, r :
               /\ InsertedAt(b, c, cl, pv, o, d, y, P, Q, x, h, z, k, done)
               /\ Opened(b, P, cl, R, x, h, t, r, z) /\ Q = One(cl) ++ R /\ Q # Nil /\ Len(h) = o
<1>1. PICK P, Q, x, h, z, k, done : InsertedAt(b, c, cl, pv, o, d, y, P, Q, x, h, z, k, done)
    BY DEF InsertPart
<1>2. Standing(b, P, Q, x, h, z, cl, o)
    BY <1>1 DEF InsertedAt
<1>3. PICK R, t, r : Opened(b, P, cl, R, x, h, t, r, z) /\ Q = One(cl) ++ R /\ Len(h) = o
    BY <1>2, StandingOpen
<1>4. Q # Nil
    BY <1>2, StandingIs
<1> QED BY <1>1, <1>3, <1>4

\* All the data is in.
LEMMA InsertDone ==
    ASSUME NEW c, Asked(c), c.op = "insert", NEW y, NEW k \in Seq(Bytes), NEW z \in Seq(Bytes), y = k ++ z,
           c.offset <= Len(y) => Len(k) = c.offset, c.offset > Len(y) => z = Nil,
           NEW v, v = k ++ (c.data ++ z)
    PROVE  v = B!With(y, c.offset, c.data) /\ v # Nil
<1>1. c.data \in Seq(Bytes) /\ c.data # Nil /\ c.offset \in Nat
    BY DEF Asked
<1>2. B!With(k ++ z, c.offset, c.data) = k ++ (c.data ++ z)
    BY <1>1, WithIs
<1>3. c.data ++ z # Nil /\ c.data ++ z \in Seq(Bytes)
    BY <1>1, JoinNotNil, JoinLen
<1>4. k ++ (c.data ++ z) # Nil
    BY <1>3, JoinNotNil
<1> QED BY <1>2, <1>4

\* The data goes into the cluster as it stands.
LEMMA InsertHere ==
    ASSUME NEW b, NEW c, NEW cl, NEW pv, NEW o, NEW d, NEW y, InsertPart(b, c, cl, pv, o, d, y), Asked(c),
           cl # NULL, d # Nil, Len(d) < Capacity - Len(b.data[cl]),
           NEW g, g = DataSet(b, cl, Inserted(b.data[cl], o, d))
    PROVE  /\ o + 2 * Len(d) <= Capacity
           /\ Listed(g) /\ Contents(g) = B!With(y, c.offset, c.data) /\ Contents(g) # Nil
<1>1. PICK P, Q, x, h, z, k, done, R, t, r :
               /\ InsertedAt(b, c, cl, pv, o, d, y, P, Q, x, h, z, k, done)
               /\ Opened(b, P, cl, R, x, h, t, r, z) /\ Q = One(cl) ++ R /\ Q # Nil /\ Len(h) = o
    BY InsertFinds
<1>2. /\ k \in Seq(Bytes) /\ done \in Seq(Bytes) /\ y = k ++ z /\ c.data = done ++ d /\ x ++ h = k ++ done
      /\ (c.offset <= Len(y) => Len(k) = c.offset) /\ (c.offset > Len(y) => z = Nil)
      /\ InsertFits(o, Len(b.data[cl]), Len(d))
    BY <1>1 DEF InsertedAt
<1>3. c.op = "insert" /\ d \in Seq(Bytes) /\ o \in Nat
    BY DEF InsertPart
<1>4. PICK w : w = h ++ t /\ Around(b, P, cl, R, x, w, r) /\ z = t ++ r
    BY <1>1 DEF Opened
<1>5. h \in Seq(Bytes) /\ t \in Seq(Bytes) /\ r \in Seq(Bytes) /\ x \in Seq(Bytes)
    BY <1>1 DEF Opened
<1>6. b.data[cl] = w /\ Len(t) \in Nat /\ Len(h) \in Nat /\ RestOf(b, cl, o) = Len(t)
    BY <1>1, <1>4, OpenedIs
<1>7. Len(w) = Len(h) + Len(t) /\ Len(w) \in Nat
    <2>1. h ++ t \in Seq(Bytes) /\ Len(h ++ t) = Len(h) + Len(t)
        BY <1>5, BytesLen
    <2> QED BY <1>4, <1>6, <2>1
<1>8. Len(d) \in Nat /\ Len(d) > 0 /\ Capacity \in Nat
    BY <1>3, NilIs, BufferAssumption
<1>9. MovesRight(Len(w), o, Len(d))
    <2>1. Len(d) < Capacity - Len(w) /\ InsertFits(o, Len(w), Len(d))
        BY <1>2, <1>6
    <2> QED BY <1>3, <1>7, <1>8, <2>1, FitsMoves
<1>10. Len(t) <= Len(d) /\ o + 2 * Len(d) <= Capacity
    BY <1>1, <1>3, <1>6, <1>7, <1>8, <1>9 DEF MovesRight
<1>11. PICK e : e = h ++ (d ++ t) /\ e \in Seq(Bytes) /\ Len(e) = Len(h) + Len(d) + Len(t)
    BY <1>3, <1>5, JoinThree
<1>12. Inserted(w, o, d) = e
    <2>1. h \in Seq(Bytes) /\ t \in Seq(Bytes) /\ d \in Seq(Bytes) /\ Len(t) <= Len(d) /\ o = Len(h)
        BY <1>1, <1>3, <1>5, <1>10
    <2>2. Inserted(h ++ t, o, d) = h ++ (d ++ t)
        BY <2>1, InsertedIs
    <2> QED BY <1>4, <1>11, <2>2
<1>13. e \in Held
    <2>1. Len(d) < Capacity - Len(w)
        BY <1>6
    <2>2. Len(e) <= Capacity
        BY <1>6, <1>7, <1>8, <1>11, <2>1
    <2> QED BY <1>11, <2>2 DEF Held
<1>14. g = DataSet(b, cl, e)
    BY <1>6, <1>12
<1>15. Around(g, P, cl, R, x, e, r)
    BY <1>4, <1>13, <1>14, AroundSet
<1>16. Contents(g) = x ++ (e ++ r) /\ Listed(g)
    BY <1>15, AroundIs DEF Around, Listed
<1>17. x ++ (e ++ r) = k ++ (c.data ++ z)
    <2>1. e ++ r = h ++ (d ++ z)
        <3>1. PICK j \in Seq(Bytes) : j = d ++ t
            BY <1>3, <1>5, JoinLen
        <3>2. (h ++ j) ++ r = h ++ (j ++ r)
            BY <1>5, <3>1, JoinAssociative
        <3>3. (d ++ t) ++ r = d ++ (t ++ r)
            BY <1>3, <1>5, JoinAssociative
        <3> QED BY <1>4, <1>11, <3>1, <3>2, <3>3
    <2>2. z \in Seq(Bytes) /\ d ++ z \in Seq(Bytes)
        BY <1>3, <1>4, <1>5, JoinLen
    <2>3. x ++ (h ++ (d ++ z)) = (x ++ h) ++ (d ++ z)
        BY <1>5, <2>2, JoinAssociative
    <2>4. (k ++ done) ++ (d ++ z) = k ++ (done ++ (d ++ z))
        BY <1>2, <2>2, JoinAssociative
    <2>5. (done ++ d) ++ z = done ++ (d ++ z)
        BY <1>2, <1>3, <2>2, JoinAssociative
    <2> QED BY <1>2, <2>1, <2>3, <2>4, <2>5
<1>18. z \in Seq(Bytes)
    BY <1>4, <1>5, JoinLen
<1>19. k ++ (c.data ++ z) = B!With(y, c.offset, c.data) /\ k ++ (c.data ++ z) # Nil
    <2>1. PICK v : v = k ++ (c.data ++ z)
        OBVIOUS
    <2>2. /\ c.op = "insert" /\ k \in Seq(Bytes) /\ z \in Seq(Bytes) /\ y = k ++ z
          /\ (c.offset <= Len(y) => Len(k) = c.offset) /\ (c.offset > Len(y) => z = Nil)
        BY <1>2, <1>3, <1>18
    <2>3. v = B!With(y, c.offset, c.data) /\ v # Nil
        BY <2>1, <2>2, InsertDone
    <2> QED BY <2>1, <2>3
<1> QED BY <1>10, <1>16, <1>17, <1>19

\* Behind the last cluster nothing is left but to append.
LEMMA InsertBeyond ==
    ASSUME NEW b, NEW c, NEW pv, NEW o, NEW d, NEW y, InsertPart(b, c, NULL, pv, o, d, y), Asked(c), d # Nil
    PROVE  AppendPart(b, c, "append", d, y)
<1>1. PICK P, Q, x, h, z, k, done : InsertedAt(b, c, NULL, pv, o, d, y, P, Q, x, h, z, k, done)
    BY DEF InsertPart
<1>2. /\ k \in Seq(Bytes) /\ done \in Seq(Bytes) /\ y = k ++ z /\ c.data = done ++ d /\ x ++ h = k ++ done
      /\ (c.offset <= Len(y) => Len(k) = c.offset) /\ Standing(b, P, Q, x, h, z, NULL, o)
    BY <1>1 DEF InsertedAt
<1>3. z = Nil /\ z \in Seq(Bytes) /\ x ++ h \in Seq(Bytes) /\ Contents(b) = (x ++ h) ++ z
    BY <1>2, StandingIs
<1>4. Contents(b) = y ++ done /\ y = k
    BY <1>2, <1>3, JoinNone
<1>5. c.op = "insert" /\ d \in Seq(Bytes) /\ c.offset \in Nat /\ Len(y) \in Nat
    BY <1>2, <1>4, NilIs DEF InsertPart, Asked
<1>6. c.offset >= Len(y)
    BY <1>2, <1>4, <1>5
<1> QED BY <1>2, <1>4, <1>5, <1>6 DEF AppendPart

\* An insertion with nothing left has put in all of its data.
LEMMA InsertAll ==
    ASSUME NEW b, NEW c, NEW cl, NEW pv, NEW o, NEW y, InsertPart(b, c, cl, pv, o, Nil, y), Asked(c)
    PROVE  Contents(b) = B!With(y, c.offset, c.data) /\ Contents(b) # Nil
<1>1. PICK P, Q, x, h, z, k, done : InsertedAt(b, c, cl, pv, o, Nil, y, P, Q, x, h, z, k, done)
    BY DEF InsertPart
<1>2. /\ k \in Seq(Bytes) /\ done \in Seq(Bytes) /\ y = k ++ z /\ c.data = done ++ Nil /\ x ++ h = k ++ done
      /\ (c.offset <= Len(y) => Len(k) = c.offset) /\ (c.offset > Len(y) => z = Nil)
      /\ Standing(b, P, Q, x, h, z, cl, o)
    BY <1>1 DEF InsertedAt
<1>3. z \in Seq(Bytes) /\ Contents(b) = (x ++ h) ++ z
    BY <1>2, StandingIs
<1>4. c.data = done /\ c.op = "insert"
    BY <1>2, JoinNone DEF InsertPart
<1>5. (k ++ done) ++ z = k ++ (done ++ z)
    BY <1>2, <1>3, JoinAssociative
<1>6. Contents(b) = k ++ (c.data ++ z)
    BY <1>2, <1>3, <1>4, <1>5
<1>7. PICK v : v = k ++ (c.data ++ z)
    OBVIOUS
<1>8. v = B!With(y, c.offset, c.data) /\ v # Nil
    <2>1. /\ c.op = "insert" /\ k \in Seq(Bytes) /\ z \in Seq(Bytes) /\ y = k ++ z
          /\ (c.offset <= Len(y) => Len(k) = c.offset) /\ (c.offset > Len(y) => z = Nil)
        BY <1>2, <1>3, <1>4
    <2> QED BY <1>7, <2>1, InsertDone
<1> QED BY <1>6, <1>7, <1>8

\* What a minimum says.
LEMMA MinIs ==
    ASSUME NEW a \in Int, NEW b \in Int, NEW m, m = Min({a, b})
    PROVE  m \in Int /\ m <= a /\ m <= b /\ (m = a \/ m = b)
BY MinMax

\* How many of the bytes of d there is room for.
Taking(d, room) == Min({Len(d), room})
\* What fits of the data is not more than there is.
LEMMA TakingIs ==
    ASSUME NEW d, Len(d) \in Nat, NEW j \in Nat, NEW n, n = Taking(d, j)
    PROVE  n \in 0 .. Len(d) /\ n <= j /\ (n < Len(d) => n = j)
<1>1. Len(d) \in Int /\ j \in Int /\ n = Min({Len(d), j})
    BY DEF Taking
<1>2. n \in Int /\ n <= Len(d) /\ n <= j /\ (n = Len(d) \/ n = j)
    BY <1>1, MinIs
<1> QED BY <1>2

\* The first n of s, and the others.
LEMMA CutHas ==
    ASSUME NEW s \in Seq(Bytes), NEW n \in 0 .. Len(s), NEW a, a = Upto(s, n), NEW e, e = Beyond(s, n)
    PROVE  a \in Seq(Bytes) /\ e \in Seq(Bytes) /\ Len(a) = n /\ Len(e) = Len(s) - n /\ s = a ++ e
BY CutIs

\* The bytes of the opened cluster, cut at the place.
LEMMA OpenedCut ==
    ASSUME NEW b, NEW P, NEW c, NEW R, NEW x, NEW h, NEW t, NEW r, NEW z, Opened(b, P, c, R, x, h, t, r, z),
           NEW o, Len(h) = o, NEW w, w = b.data[c]
    PROVE  w = h ++ t /\ Beyond(w, o) = t /\ Upto(w, o) = h
BY OpenedIs

\* The cluster is parted: u takes over what is behind the offset, the data fills what has become free.
LEMMA InsertParted ==
    ASSUME NEW b, NEW c, NEW cl, NEW pv, NEW o, NEW d, NEW y, InsertPart(b, c, cl, pv, o, d, y), Asked(c),
           cl # NULL, d # Nil, ~(Len(d) < Capacity - Len(b.data[cl])), o > 0,
           NEW n, n = Taking(d, Capacity - o), NEW u \in Units, u \notin b.held,
           NEW i, i = _buffer_alloc_new_cluster_and_insert_after(b, u, cl),
           NEW g, g = DataSetTwo(i, u, Beyond(b.data[cl], o), cl, Upto(b.data[cl], o) ++ SubSeq(d, 1, n))
    PROVE  Listed(g) /\ InsertPart(g, c, u, cl, 0, SubSeq(d, n + 1, Len(d)), y)
<1>1. PICK P, Q, x, h, z, k, done, R, t, r :
               /\ InsertedAt(b, c, cl, pv, o, d, y, P, Q, x, h, z, k, done)
               /\ Opened(b, P, cl, R, x, h, t, r, z) /\ Q = One(cl) ++ R /\ Q # Nil /\ Len(h) = o
    BY InsertFinds
<1>2. /\ k \in Seq(Bytes) /\ done \in Seq(Bytes) /\ y = k ++ z /\ c.data = done ++ d /\ x ++ h = k ++ done
      /\ (c.offset <= Len(y) => Len(k) = c.offset) /\ (c.offset > Len(y) => z = Nil)
      /\ InsertFits(o, Len(b.data[cl]), Len(d))
    BY <1>1 DEF InsertedAt
<1>3. c.op = "insert" /\ d \in Seq(Bytes) /\ o \in Nat
    BY DEF InsertPart
<1>4. PICK w : w = h ++ t /\ Around(b, P, cl, R, x, w, r) /\ z = t ++ r
    BY <1>1 DEF Opened
<1>5. h \in Seq(Bytes) /\ t \in Seq(Bytes) /\ r \in Seq(Bytes) /\ x \in Seq(Bytes)
    BY <1>1 DEF Opened
<1>6. /\ b.data[cl] = w /\ Beyond(w, o) = t /\ Upto(w, o) = h
      /\ Len(t) \in Nat /\ Len(h) \in Nat /\ Len(h) + Len(t) <= Capacity /\ t \in Held
    <2>1. b.data[cl] = w
        BY <1>4 DEF Around
    <2>2. Beyond(w, o) = t /\ Upto(w, o) = h
        BY <1>1, <2>1, OpenedCut
    <2>3. Len(t) \in Nat /\ Len(h) \in Nat /\ Len(h) + Len(t) <= Capacity /\ t \in Held
        <3>1. Opened(b, P, cl, R, x, h, t, r, z) /\ Len(h) = o
            BY <1>1
        <3> QED BY <3>1, OpenedIs
    <2> QED BY <2>1, <2>2, <2>3
<1>7. Len(w) = Len(h) + Len(t) /\ Len(w) \in Nat
    <2>1. h ++ t \in Seq(Bytes) /\ Len(h ++ t) = Len(h) + Len(t)
        BY <1>5, BytesLen
    <2> QED BY <1>4, <1>6, <2>1
<1>8. Len(d) \in Nat /\ Len(d) > 0 /\ Capacity \in Nat /\ Capacity - o \in Nat
    BY <1>1, <1>3, <1>6, NilIs, BufferAssumption
<1>9. n \in 0 .. Len(d) /\ n <= Capacity - o /\ (n < Len(d) => n = Capacity - o)
    BY <1>8, TakingIs
<1>10. PICK a, e : a = Upto(d, n) /\ e = Beyond(d, n)
    OBVIOUS
<1>11. a \in Seq(Bytes) /\ e \in Seq(Bytes) /\ Len(a) = n /\ Len(e) = Len(d) - n /\ d = a ++ e
    <2>1. d \in Seq(Bytes) /\ n \in 0 .. Len(d)
        BY <1>3, <1>9
    <2> QED BY <1>10, <2>1, CutHas
<1>12. PICK f : f = h ++ a
    OBVIOUS
<1>13. f \in Held
    <2>1. f \in Seq(Bytes) /\ Len(f) = Len(h) + Len(a)
        BY <1>5, <1>11, <1>12, JoinLen
    <2>2. Len(f) <= Capacity
        BY <1>1, <1>3, <1>6, <1>8, <1>9, <1>11, <2>1
    <2> QED BY <2>1, <2>2 DEF Held
<1>14. g = DataSetTwo(i, u, t, cl, f)
    BY <1>6, <1>10, <1>12 DEF Upto
<1>15. Stands(g, P ++ One(cl), One(u) ++ R, x ++ f, t ++ r) /\ g.data[u] = t
    BY <1>4, <1>6, <1>13, <1>14, AroundSplit
<1>16. PICK PP, QQ, xx : PP = P ++ One(cl) /\ QQ = One(u) ++ R /\ xx = x ++ f
    OBVIOUS
<1>17. Stands(g, PP, QQ, xx, z)
    BY <1>4, <1>15, <1>16
<1>18. HeadOr(QQ, NULL) = u /\ End(PP) = cl
    <2>1. R \in Seq(Units) /\ P \in Seq(Units) /\ cl \in Units
        BY <1>4 DEF Around
    <2>2. HeadOr(One(u) ++ R, NULL) = HeadOr(One(u), HeadOr(R, NULL))
        <3>1. One(u) \in Seq(Units)
            BY UnitSeq
        <3> QED BY <2>1, <3>1, HeadOrJoin
    <2>3. \A j : HeadOr(One(u), j) = u
        BY EndOne
    <2>4. End(P ++ One(cl)) = cl
        BY <1>4, AroundIs
    <2> QED BY <1>16, <2>2, <2>3, <2>4
<1>19. Standing(g, PP, QQ, xx, Nil, z, u, 0)
    BY <1>17, <1>18, StandingAt
<1>20. PICK dd : dd = done ++ a
    OBVIOUS
<1>21. dd \in Seq(Bytes) /\ c.data = dd ++ e /\ xx ++ Nil = k ++ dd
    <2>1. dd \in Seq(Bytes)
        BY <1>2, <1>11, <1>20, JoinLen
    <2>2. (done ++ a) ++ e = done ++ (a ++ e)
        BY <1>2, <1>11, JoinAssociative
    <2>3. (x ++ h) ++ a = x ++ (h ++ a)
        BY <1>5, <1>11, JoinAssociative
    <2>4. (k ++ done) ++ a = k ++ (done ++ a)
        BY <1>2, <1>11, JoinAssociative
    <2>5. xx \in Seq(Bytes)
        BY <1>17, StandsIs
    <2>6. xx ++ Nil = xx
        BY <2>5, JoinNone
    <2> QED BY <1>2, <1>11, <1>12, <1>16, <1>20, <2>1, <2>2, <2>3, <2>4, <2>6
<1>22. e # Nil => InsertFits(0, Len(g.data[u]), Len(e))
    <2> SUFFICES ASSUME e # Nil PROVE InsertFits(0, Len(t), Len(e))
        BY <1>15
    <2>1. Len(e) \in Nat /\ Len(e) > 0
        BY <1>11, NilIs
    <2>2. Len(e) + Capacity - o = Len(d)
        <3>1. n < Len(d) /\ n \in Nat
            BY <1>8, <1>9, <1>11, <2>1
        <3>2. n = Capacity - o
            BY <1>9, <3>1
        <3>3. Len(e) = Len(d) - (Capacity - o)
            BY <1>11, <3>2
        <3> QED BY <1>3, <1>8, <2>1, <3>3
    <2>3. ~(Len(d) < Capacity - Len(w)) /\ InsertFits(o, Len(w), Len(d))
        BY <1>2, <1>6
    <2>4. InsertFits(0, Len(w) - o, Len(e))
        BY <1>3, <1>7, <1>8, <2>1, <2>2, <2>3, FitsBehind
    <2>5. Len(w) - o = Len(t)
        BY <1>1, <1>6, <1>7
    <2> QED BY <2>4, <2>5
<1>23. InsertedAt(g, c, u, cl, 0, e, y, PP, QQ, xx, Nil, z, k, dd)
    BY <1>2, <1>18, <1>19, <1>21, <1>22 DEF InsertedAt
<1>24. InsertPart(g, c, u, cl, 0, e, y)
    BY <1>3, <1>11, <1>23 DEF InsertPart
<1> QED BY <1>10, <1>17, <1>24 DEF Beyond, Listed, Stands

\* A unit that is not in the list is filled and put in front of the cluster.
LEMMA InsertFront ==
    ASSUME NEW b, NEW c, NEW cl, NEW pv, NEW d, NEW y, InsertPart(b, c, cl, pv, 0, d, y), Asked(c),
           cl # NULL, d # Nil,
           NEW n, n = Taking(d, Capacity), NEW u \in Units, u \notin b.held,
           NEW i, i = _buffer_alloc_new_cluster_and_insert_after(b, u, pv),
           NEW g, g = DataSet(i, u, SubSeq(d, 1, n))
    PROVE  Listed(g) /\ i.pNext[u] = cl /\ InsertPart(g, c, cl, u, 0, SubSeq(d, n + 1, Len(d)), y)
<1>1. PICK P, Q, x, h, z, k, done, R, t, r :
               /\ InsertedAt(b, c, cl, pv, 0, d, y, P, Q, x, h, z, k, done)
               /\ Opened(b, P, cl, R, x, h, t, r, z) /\ Q = One(cl) ++ R /\ Q # Nil /\ Len(h) = 0
    BY InsertFinds
<1>2. /\ k \in Seq(Bytes) /\ done \in Seq(Bytes) /\ y = k ++ z /\ c.data = done ++ d /\ x ++ h = k ++ done
      /\ (c.offset <= Len(y) => Len(k) = c.offset) /\ (c.offset > Len(y) => z = Nil)
      /\ InsertFits(0, Len(b.data[cl]), Len(d))
      /\ Standing(b, P, Q, x, h, z, cl, 0) /\ pv = End(P)
    BY <1>1 DEF InsertedAt
<1>3. c.op = "insert" /\ d \in Seq(Bytes)
    BY DEF InsertPart
<1>4. h = Nil /\ z \in Seq(Bytes) /\ x \in Seq(Bytes) /\ x ++ h = x /\ Nil ++ z = z
    <2>1. h \in Seq(Bytes) /\ z \in Seq(Bytes) /\ x \in Seq(Bytes)
        BY <1>2, StandingIs
    <2>2. h = Nil
        BY <1>1, <2>1, NilIs
    <2> QED BY <2>1, <2>2, JoinNone
<1>5. Stands(b, P, Q, x, z) /\ cl = HeadOr(Q, NULL)
    BY <1>2, <1>4 DEF Standing
<1>6. Len(d) \in Nat /\ Len(d) > 0 /\ Capacity \in Nat
    BY <1>3, NilIs, BufferAssumption
<1>7. n \in 0 .. Len(d) /\ n <= Capacity /\ (n < Len(d) => n = Capacity)
    BY <1>6, TakingIs
<1>8. PICK a, e : a = Upto(d, n) /\ e = Beyond(d, n)
    OBVIOUS
<1>9. a \in Seq(Bytes) /\ e \in Seq(Bytes) /\ Len(a) = n /\ Len(e) = Len(d) - n /\ d = a ++ e
    <2>1. d \in Seq(Bytes) /\ n \in 0 .. Len(d)
        BY <1>3, <1>7
    <2> QED BY <1>8, <2>1, CutHas
<1>10. a \in Held
    BY <1>7, <1>9 DEF Held
<1>11. Around(g, P, u, Q, x, a, z) /\ i.pNext[u] = HeadOr(Q, NULL)
    <2>1. g = DataSet(i, u, a) /\ i = _buffer_alloc_new_cluster_and_insert_after(b, u, End(P))
        BY <1>2, <1>8 DEF Upto
    <2> QED BY <1>5, <1>10, <2>1, StandsInsert
<1>12. PICK PP, xx : PP = P ++ One(u) /\ xx = x ++ a
    OBVIOUS
<1>13. Stands(g, PP, Q, xx, z) /\ End(PP) = u
    BY <1>11, <1>12, AroundIs
<1>14. Standing(g, PP, Q, xx, Nil, z, cl, 0)
    BY <1>5, <1>13, StandingAt
<1>15. g.data[cl] = b.data[cl]
    <2>1. PICK w : Around(b, P, cl, R, x, w, r)
        BY <1>1 DEF Opened
    <2>2. cl \in Units /\ cl \in b.held /\ b \in Buffers
        BY <2>1, AroundIs DEF Around
    <2>3. cl # u
        BY <2>2
    <2>4. End(P) \in Units \cup {NULL} /\ P \in Seq(Units)
        BY <1>5, StandsIs DEF Stands
    <2>5. pv # u
        <3>1. P # Nil => End(P) \in b.held
            <4>1. Linked(b, P ++ Q) /\ Q \in Seq(Units)
                BY <1>5 DEF Stands
            <4>2. b.held = Range(P) \cup Range(Q)
                BY <2>4, <4>1, LinkedSplit
            <4>3. P # Nil => End(P) \in Range(P)
                BY <2>4, EndIn
            <4> QED BY <4>2, <4>3
        <3>2. P = Nil => End(P) = NULL
            BY EndOne
        <3> QED BY <1>2, <3>1, <3>2, BufferAssumption
    <2>6. i \in Buffers /\ Elsewhere(i.data, b.data, u)
        BY <1>2, <2>2, <2>4, <2>5, InsertFields
    <2>7. g = DataSet(i, u, a)
        BY <1>8 DEF Upto
    <2>8. Elsewhere(g.data, i.data, u)
        BY <1>10, <2>6, <2>7, DataIs
    <2> QED BY <2>2, <2>3, <2>6, <2>8 DEF Elsewhere
<1>16. PICK dd : dd = done ++ a
    OBVIOUS
<1>17. dd \in Seq(Bytes) /\ c.data = dd ++ e /\ xx ++ Nil = k ++ dd
    <2>1. dd \in Seq(Bytes)
        BY <1>2, <1>9, <1>16, JoinLen
    <2>2. (done ++ a) ++ e = done ++ (a ++ e)
        BY <1>2, <1>9, JoinAssociative
    <2>3. (k ++ done) ++ a = k ++ (done ++ a)
        BY <1>2, <1>9, JoinAssociative
    <2>4. xx \in Seq(Bytes)
        BY <1>13, StandsIs
    <2>5. xx ++ Nil = xx
        BY <2>4, JoinNone
    <2> QED BY <1>2, <1>4, <1>9, <1>12, <1>16, <2>1, <2>2, <2>3, <2>5
<1>18. e # Nil => InsertFits(0, Len(g.data[cl]), Len(e))
    <2> SUFFICES ASSUME e # Nil PROVE InsertFits(0, Len(b.data[cl]), Len(e))
        BY <1>15
    <2>1. Len(e) \in Nat /\ Len(e) > 0
        BY <1>9, NilIs
    <2>2. Len(e) + Capacity = Len(d)
        BY <1>6, <1>7, <1>9, <2>1
    <2>3. Len(b.data[cl]) \in Nat
        <3>1. PICK w : Around(b, P, cl, R, x, w, r)
            BY <1>1 DEF Opened
        <3>2. w \in Seq(Bytes) /\ w = b.data[cl]
            BY <3>1, AroundIs DEF Around
        <3> QED BY <3>2, NilIs
    <2> QED BY <1>2, <1>6, <2>1, <2>2, <2>3, FitsFront
<1>19. InsertedAt(g, c, cl, u, 0, e, y, PP, Q, xx, Nil, z, k, dd)
    BY <1>2, <1>13, <1>14, <1>17, <1>18 DEF InsertedAt
<1>20. InsertPart(g, c, cl, u, 0, e, y)
    BY <1>3, <1>9, <1>19 DEF InsertPart
<1> QED BY <1>5, <1>8, <1>11, <1>13, <1>20 DEF Beyond, Listed, Stands

\* What a step of an insertion finds.
LEMMA InsertBegins ==
    ASSUME IInv, pc = "insert"
    PROVE  /\ pc # "idle" /\ Listed(buf) /\ Asked(call) /\ bytes \in Seq(Bytes) /\ call.op = "insert"
           /\ InsertPart(buf, call, cluster, prevCluster, offset, pData, bytes) /\ first = NoCall
           /\ cluster \in Units \cup {NULL} /\ prevCluster \in Units \cup {NULL} /\ offset \in Nat /\ remainLen \in 0 .. MaxLen
<1>1. /\ pc # "idle" /\ Listed(buf) /\ Asked(call) /\ bytes \in Seq(Bytes)
      /\ InsertPart(buf, call, cluster, prevCluster, offset, pData, bytes)
      /\ cluster \in Units \cup {NULL} /\ prevCluster \in Units \cup {NULL} /\ offset \in Nat /\ remainLen \in 0 .. MaxLen
    BY DEF IInv, Proceeding, Working
<1>2. call.op = "insert"
    BY <1>1 DEF InsertPart
<1> QED BY <1>1, <1>2, NobodyWaits

\* All of the data is in.
LEMMA InsertEffect ==
    ASSUME pc # "idle", pc' = "idle", call.op = "insert", reply' = B!Done(0, <<>>),
           NEW v, v = Contents(buf'), v = B!With(bytes, call.offset, call.data)
    PROVE  Promised!Effect(call)
<1>1. Visible = bytes /\ Visible' = v
    BY DEF Visible
<1>2. Visible' = Promised!With(Visible, call.offset, call.data)
    BY <1>1, PromisedIs
<1>3. reply' = Promised!Done(0, <<>>)
    BY DEF B!Done, Promised!Done
<1>4. Promised!InsertData(call.offset, call.data)
    BY <1>2, <1>3 DEF Promised!InsertData
<1> QED BY <1>4 DEF Promised!Effect

\* The rest of the data goes into the cluster, and the insertion is done.
LEMMA InsertInPlaceKeeps ==
    ASSUME IInv, fault = "none", InsertInPlace
    PROVE  Keeps
<1>1. /\ pc = "insert" /\ pData # Nil /\ cluster # NULL /\ Len(pData) < Capacity - Len(buf.data[cluster])
    BY DEF InsertInPlace, Inserting, Fits, dataLen, Nil
<1>2. /\ pc # "idle" /\ Listed(buf) /\ Asked(call) /\ bytes \in Seq(Bytes) /\ call.op = "insert"
      /\ InsertPart(buf, call, cluster, prevCluster, offset, pData, bytes) /\ first = NoCall
    BY <1>1, InsertBegins
<1>3. PICK g : g = DataSet(buf, cluster, Inserted(buf.data[cluster], offset, pData))
    OBVIOUS
<1>4. /\ offset + 2 * Len(pData) <= Capacity
      /\ Listed(g) /\ Contents(g) = B!With(bytes, call.offset, call.data) /\ Contents(g) # Nil
    BY <1>1, <1>2, <1>3, InsertHere
<1>5. ~(offset + 2 * Len(pData) > Capacity)
    <2>1. offset \in Nat /\ Len(pData) \in Nat /\ Capacity \in Nat
        BY <1>2, NilIs, BufferAssumption DEF InsertPart
    <2> QED BY <1>4, <2>1
<1>6. buf' = g /\ Return(B!Done(0, <<>>))
    BY <1>3, <1>5 DEF InsertInPlace, DataSet
<1>7. pc' = "idle" /\ reply' = B!Done(0, <<>>)
    BY <1>6 DEF Return
<1>8. Promised!Effect(call)
    BY <1>2, <1>4, <1>6, <1>7, InsertEffect
<1>9. Listed(buf') /\ Kept(buf', Contents(buf')) /\ StartStays
    BY <1>2, <1>4, <1>6 DEF Kept, StartStays
<1> QED BY <1>2, <1>6, <1>8, <1>9, Returned

\* The call goes on with what is left of the data.
LEMMA InsertGoesOn ==
    ASSUME IInv, pc = "insert", fault = "none", pc' = "insert", Continue, remainLen' = remainLen,
           Listed(buf'), InsertPart(buf', call, cluster', prevCluster', offset', pData', bytes),
           cluster' \in Units \cup {NULL}, prevCluster' \in Units \cup {NULL}, offset' = 0
    PROVE  Keeps
<1>1. pc # "idle" /\ pc' # "idle" /\ first = NoCall /\ remainLen' \in 0 .. MaxLen
    BY InsertBegins
<1>2. Working'
    BY DEF Working, Continue
<1>3. StartStays
    BY <1>1 DEF StartStays
<1> QED BY <1>1, <1>2, <1>3, Continued

\* The bytes behind the place get a cluster of their own.
LEMMA InsertSplitKeeps ==
    ASSUME IInv, fault = "none", NEW u \in Units, InsertSplit(u)
    PROVE  Keeps
<1>1. /\ pc = "insert" /\ pData # Nil /\ cluster # NULL /\ ~(Len(pData) < Capacity - Len(buf.data[cluster]))
      /\ offset > 0 /\ u \notin buf.held
    BY DEF InsertSplit, Inserting, Fits, dataLen, Nil
<1>2. /\ pc # "idle" /\ Listed(buf) /\ Asked(call) /\ bytes \in Seq(Bytes) /\ call.op = "insert"
      /\ InsertPart(buf, call, cluster, prevCluster, offset, pData, bytes) /\ cluster \in Units \cup {NULL}
    BY <1>1, InsertBegins
<1>3. PICK n, i, g :
        /\ n = Taking(pData, Capacity - offset)
        /\ i = _buffer_alloc_new_cluster_and_insert_after(buf, u, cluster)
        /\ g = DataSetTwo(i, u, Beyond(buf.data[cluster], offset), cluster, Upto(buf.data[cluster], offset) ++ SubSeq(pData, 1, n))
    OBVIOUS
<1>4. Listed(g) /\ InsertPart(g, call, u, cluster, 0, SubSeq(pData, n + 1, Len(pData)), bytes)
    BY <1>1, <1>2, <1>3, InsertParted
<1>5. u # cluster
    <2>1. PICK P, Q, x, h, z, k, done, R, t, r : Opened(buf, P, cluster, R, x, h, t, r, z)
        BY <1>1, <1>2, InsertFinds
    <2>2. PICK w : Around(buf, P, cluster, R, x, w, r)
        BY <2>1 DEF Opened
    <2>3. cluster \in buf.held
        BY <2>2, AroundIs
    <2> QED BY <1>1, <2>3
<1>6. g = [i EXCEPT !.data[u] = SubSeq(buf.data[cluster], offset + 1, dataLen(cluster)),
                    !.data[cluster] = SubSeq(@, 1, offset) \o SubSeq(pData, 1, n)]
    <2>1. i.data[cluster] = buf.data[cluster] /\ i \in Buffers
        <3>1. buf \in Buffers /\ cluster \in Units
            BY <1>1, <1>2 DEF Listed
        <3>2. i \in Buffers /\ Elsewhere(i.data, buf.data, u)
            BY <1>3, <1>5, <3>1, InsertFields
        <3> QED BY <1>5, <3>1, <3>2 DEF Elsewhere
    <2> QED BY <1>1, <1>2, <1>3, <1>5, <2>1 DEF DataSetTwo, Beyond, Upto, ++, dataLen, Buffers
<1>7. /\ buf' = g /\ pData' = SubSeq(pData, n + 1, Len(pData))
      /\ At(u, cluster, 0) /\ pc' = pc /\ remainLen' = remainLen /\ Continue
    BY <1>3, <1>6 DEF InsertSplit, Taking
<1>8. Listed(buf') /\ InsertPart(buf', call, cluster', prevCluster', offset', pData', bytes)
    BY <1>4, <1>7 DEF At
<1>9. cluster' \in Units \cup {NULL} /\ prevCluster' \in Units \cup {NULL} /\ offset' = 0
    BY <1>2, <1>7 DEF At
<1> QED BY <1>1, <1>7, <1>8, <1>9, InsertGoesOn

\* A cluster of new bytes comes in between.
LEMMA InsertBeforeKeeps ==
    ASSUME IInv, fault = "none", NEW u \in Units, InsertBefore(u)
    PROVE  Keeps
<1>1. /\ pc = "insert" /\ pData # Nil /\ cluster # NULL /\ offset = 0 /\ u \notin buf.held
    BY DEF InsertBefore, Inserting, Nil
<1>2. /\ pc # "idle" /\ Listed(buf) /\ Asked(call) /\ bytes \in Seq(Bytes) /\ call.op = "insert"
      /\ InsertPart(buf, call, cluster, prevCluster, 0, pData, bytes) /\ cluster \in Units \cup {NULL}
    BY <1>1, InsertBegins
<1>3. PICK n, i, g :
        /\ n = Taking(pData, Capacity)
        /\ i = _buffer_alloc_new_cluster_and_insert_after(buf, u, prevCluster)
        /\ g = DataSet(i, u, SubSeq(pData, 1, n))
    OBVIOUS
<1>4. Listed(g) /\ i.pNext[u] = cluster /\ InsertPart(g, call, cluster, u, 0, SubSeq(pData, n + 1, Len(pData)), bytes)
    BY <1>1, <1>2, <1>3, InsertFront
<1>5. /\ buf' = g /\ pData' = SubSeq(pData, n + 1, Len(pData))
      /\ At(i.pNext[u], u, 0) /\ pc' = pc /\ remainLen' = remainLen /\ Continue
    BY <1>3 DEF InsertBefore, Taking, DataSet
<1>6. Listed(buf') /\ InsertPart(buf', call, cluster', prevCluster', offset', pData', bytes)
    BY <1>4, <1>5 DEF At
<1>7. cluster' \in Units \cup {NULL} /\ prevCluster' \in Units \cup {NULL} /\ offset' = 0
    BY <1>2, <1>4, <1>5 DEF At
<1> QED BY <1>1, <1>5, <1>6, <1>7, InsertGoesOn

\* Without memory the process ends in the insertion.
LEMMA InsertNoMemoryKeeps ==
    ASSUME IInv, fault = "none", InsertNoMemory
    PROVE  Keeps
<1>1. pc = "insert" /\ buf.held = Units /\ fault' = "null" /\ UNCHANGED <<buf, call, reply, locals, first, bytes>>
    BY DEF InsertNoMemory, Inserting, Ends
<1>2. call.op = "insert" /\ pc # "idle"
    BY <1>1, InsertBegins
<1>3. Proceeding'
    BY <1>1 DEF IInv, Proceeding, locals
<1>4. Working'
    BY <1>1, <1>2 DEF IInv, Working, locals
<1>5. IInv'
    BY <1>1, <1>2, <1>3, <1>4 DEF IInv, locals
<1>6. Visible' = Visible
    BY <1>1 DEF Visible, locals
<1> QED BY <1>1, <1>5, <1>6 DEF Keeps

\* An insertion that is done returns.
LEMMA InsertEndsKeeps ==
    ASSUME IInv, fault = "none", InsertEnds
    PROVE  Keeps
<1>1. pc = "insert" /\ pData = Nil /\ Return(B!Done(0, <<>>)) /\ buf' = buf
    BY DEF InsertEnds, Nil
<1>2. /\ pc # "idle" /\ Listed(buf) /\ Asked(call) /\ bytes \in Seq(Bytes) /\ call.op = "insert"
      /\ InsertPart(buf, call, cluster, prevCluster, offset, Nil, bytes)
    BY <1>1, InsertBegins
<1>3. Contents(buf) = B!With(bytes, call.offset, call.data) /\ Contents(buf) # Nil
    BY <1>2, InsertAll
<1>4. pc' = "idle" /\ reply' = B!Done(0, <<>>)
    BY <1>1 DEF Return
<1>5. Promised!Effect(call)
    BY <1>1, <1>2, <1>3, <1>4, InsertEffect
<1>6. Listed(buf') /\ Kept(buf', Contents(buf')) /\ StartStays
    BY <1>1, <1>2, <1>3 DEF Kept, StartStays
<1> QED BY <1>1, <1>2, <1>5, <1>6, Returned

\* Behind the last cluster it goes on as an append.
LEMMA InsertAppendsKeeps ==
    ASSUME IInv, fault = "none", InsertAppends
    PROVE  Keeps
<1>1. /\ pc = "insert" /\ pData # Nil /\ cluster = NULL /\ pc' = "append" /\ Continue
      /\ UNCHANGED <<buf, cluster, prevCluster, offset, remainLen, pData, out>>
    BY DEF InsertAppends, Nil
<1>2. /\ pc # "idle" /\ Listed(buf) /\ Asked(call) /\ bytes \in Seq(Bytes) /\ call.op = "insert"
      /\ InsertPart(buf, call, NULL, prevCluster, offset, pData, bytes) /\ first = NoCall
      /\ cluster \in Units \cup {NULL} /\ prevCluster \in Units \cup {NULL} /\ offset \in Nat /\ remainLen \in 0 .. MaxLen
    BY <1>1, InsertBegins
<1>3. AppendPart(buf, call, "append", pData, bytes)
    BY <1>1, <1>2, InsertBeyond
<1>4. Working'
    BY <1>1, <1>3 DEF Working, Continue
<1>5. StartStays /\ Listed(buf')
    BY <1>1, <1>2 DEF StartStays
<1> QED BY <1>1, <1>2, <1>4, <1>5, Continued

-----------------------------------------------------------------------------
(* _buffer_defragment                                                       *)

\* n is the cluster behind c, and holds dn.
Behind(b, P, c, R, x, d, r, n, S, dn, s) ==
    /\ Around(b, P, c, R, x, d, r) /\ n \in Units /\ S \in Seq(Units) /\ R = One(n) ++ S
    /\ n # c /\ n = b.pNext[c] /\ dn = b.data[n] /\ dn \in Held /\ s = Cat(b.data, S) /\ s \in Seq(Bytes) /\ r = dn ++ s
    /\ c \notin Range(S) /\ n \notin Range(S)
    /\ Around(b, P ++ One(c), n, S, x ++ d, dn, s)

\* Where the run behind c does not end, there is a cluster.
LEMMA BehindIs ==
    ASSUME NEW b, NEW P, NEW c, NEW R, NEW x, NEW d, NEW r, Around(b, P, c, R, x, d, r), R # Nil
    PROVE  \E n, S, dn, s : Behind(b, P, c, R, x, d, r, n, S, dn, s)
<1>1. Stands(b, P ++ One(c), R, x ++ d, r) /\ b.pNext[c] = HeadOr(R, NULL)
    BY AroundIs
<1>2. PICK PP, xx : PP = P ++ One(c) /\ xx = x ++ d
    OBVIOUS
<1>3. Stands(b, PP, R, xx, r)
    BY <1>1, <1>2
<1>4. PICK n, S, dn, s : Around(b, PP, n, S, xx, dn, s) /\ R = One(n) ++ S /\ r = dn ++ s /\ n = HeadOr(R, NULL)
    BY <1>3, StandsOpen
<1>5. n \in Units /\ S \in Seq(Units) /\ dn = b.data[n] /\ s = Cat(b.data, S)
    BY <1>4 DEF Around
<1>6. dn \in Held /\ s \in Seq(Bytes)
    BY <1>4, AroundIs
<1>7. c \notin Range(R)
    <2>1. P \in Seq(Units) /\ c \in Units /\ R \in Seq(Units) /\ Linked(b, P ++ (One(c) ++ R))
        BY DEF Around
    <2>2. Apart(b, P, c, R)
        BY <2>1, LinkedApart
    <2> QED BY <2>2 DEF Apart
<1>8. n \notin Range(S)
    <2>1. PP \in Seq(Units) /\ n \in Units /\ S \in Seq(Units) /\ Linked(b, PP ++ (One(n) ++ S))
        BY <1>4 DEF Around
    <2>2. Apart(b, PP, n, S)
        BY <2>1, LinkedApart
    <2> QED BY <2>2 DEF Apart
<1>9. Range(R) = {n} \cup Range(S)
    <2>1. One(n) \in Seq(Units) /\ Range(One(n)) = {n}
        BY <1>5, UnitSeq, RangeOne
    <2>2. Range(One(n) ++ S) = Range(One(n)) \cup Range(S)
        BY <1>5, <2>1, RangeIs
    <2> QED BY <1>4, <2>1, <2>2
<1> QED BY <1>1, <1>2, <1>4, <1>5, <1>6, <1>7, <1>8, <1>9 DEF Behind

\* The elements of x and then y.
Joined(x, y) ==
    /\ Len(x ++ y) = Len(x) + Len(y)
    /\ \A i \in 1 .. Len(x) : (x ++ y)[i] = x[i]
    /\ \A i \in 1 .. Len(y) : (x ++ y)[Len(x) + i] = y[i]
\* Two pieces are joined.
LEMMA JoinedIs ==
    ASSUME NEW S, NEW x \in Seq(S), NEW y \in Seq(S)
    PROVE  Joined(x, y)
BY DEF Joined, ++

\* With other data elsewhere it still goes well.
LEMMA AheadSame ==
    ASSUME NEW d, NEW l, NEW R, NEW G, NEW nx, NEW e, NEW k, Ahead(d, l, R, G, nx, e, k),
           NEW g, \A i \in 1 .. Len(R) : g[R[i]] = d[R[i]]
    PROVE  Ahead(g, l, R, G, nx, e, k)
BY DEF Ahead

\* When it goes well from a cluster on, it does so from the next.
LEMMA AheadNext ==
    ASSUME NEW d, NEW l \in 0 .. Capacity, NEW n \in Units, NEW S \in Seq(Units), NEW R, R = One(n) ++ S,
           NEW G, NEW nx, NEW e, NEW k, Ahead(d, l, R, G, nx, e, k), NEW m, m = Len(d[n])
    PROVE  ~TooMuch(l, m) /\ Ahead(d, LeftBy(l, m), S, G, nx, e, n)
<1>1. /\ k \in Units /\ e \in [Units -> Held] /\ Smooth(G, nx, e) /\ <<k, l>> \in G
      /\ Segment(nx, nx[k], R, NULL) /\ (\A i \in 1 .. Len(R) : e[R[i]] = d[R[i]])
    BY DEF Ahead
<1>2. One(n) \in Seq(Units) /\ Len(One(n)) = 1 /\ One(n)[1] = n
    BY UnitSeq, OneIs
<1>3. /\ Len(R) = 1 + Len(S) /\ Len(S) \in Nat /\ R[1] = n /\ \A i \in 1 .. Len(S) : R[1 + i] = S[i]
    <2>1. Joined(One(n), S)
        BY <1>2, JoinedIs
    <2>2. Len(S) \in Nat
        BY NilIs
    <2> QED BY <1>2, <2>1, <2>2 DEF Joined
<1>4. e[n] = d[n]
    <2>1. 1 \in 1 .. Len(R) /\ R[1] = n
        BY <1>3
    <2>2. e[R[1]] = d[R[1]]
        BY <1>1, <2>1
    <2> QED BY <2>1, <2>2
<1>5. \A i \in 1 .. Len(S) : e[S[i]] = d[S[i]]
    <2> SUFFICES ASSUME NEW i \in 1 .. Len(S) PROVE e[S[i]] = d[S[i]]
        OBVIOUS
    <2>1. 1 + i \in 1 .. Len(R) /\ R[1 + i] = S[i]
        BY <1>3
    <2> QED BY <1>1, <2>1
<1>6. /\ Segment(nx, nx[k], One(n), HeadOr(S, NULL)) /\ Segment(nx, HeadOr(S, NULL), S, NULL)
    BY <1>1, <1>2, SegmentJoin
<1>7. nx[k] = n /\ nx[n] = HeadOr(S, NULL)
    BY <1>6, SegmentAt
<1>8. n # NULL
    BY BufferAssumption
<1>9. ~TooMuch(l, Len(e[nx[k]])) /\ <<nx[k], LeftBy(l, Len(e[nx[k]]))>> \in G
    BY <1>1, <1>7, <1>8 DEF Smooth
<1>10. ~TooMuch(l, m) /\ <<n, LeftBy(l, m)>> \in G
    BY <1>4, <1>7, <1>9
<1> QED BY <1>1, <1>5, <1>6, <1>7, <1>10 DEF Ahead

\* Data elsewhere than in c is that of before in the clusters of S.
LEMMA ElsewhereSame ==
    ASSUME NEW d, NEW g, NEW c, Elsewhere(g, d, c), NEW S \in Seq(Units), c \notin Range(S)
    PROVE  \A i \in 1 .. Len(S) : g[S[i]] = d[S[i]]
<1> SUFFICES ASSUME NEW i \in 1 .. Len(S) PROVE g[S[i]] = d[S[i]]
    OBVIOUS
<1>1. S[i] \in Range(S) /\ S[i] \in Units
    <2>1. Range(S) = {S[j] : j \in 1 .. Len(S)} /\ Range(S) \subseteq Units
        BY RangeIs
    <2> QED BY <2>1
<1> QED BY <1>1 DEF Elsewhere

\* What a step of the defragmentation finds: from cluster cl on it goes well.
Defragments(b, cl, y, P, R, x, d, r, G, nx, e, k) ==
    /\ b \in Buffers /\ Contents(b) = y /\ Around(b, P, cl, R, x, d, r) /\ Ahead(b.data, Len(d), R, G, nx, e, k)

\* Two clusters: the second is what the step is about.
DefragmentsTwo(b, cl, y, P, R, x, d, r, G, nx, e, k, n, S, dn, s) ==
    Defragments(b, cl, y, P, R, x, d, r, G, nx, e, k) /\ Behind(b, P, cl, R, x, d, r, n, S, dn, s)

\* What is known of two clusters that follow one another.
LEMMA TwoAre ==
    ASSUME NEW b, NEW cl, NEW y, NEW P, NEW R, NEW x, NEW d, NEW r, NEW G, NEW nx, NEW e, NEW k, NEW n, NEW S, NEW dn, NEW s,
           DefragmentsTwo(b, cl, y, P, R, x, d, r, G, nx, e, k, n, S, dn, s)
    PROVE  /\ Len(d) \in 0 .. Capacity /\ Len(dn) \in 0 .. Capacity /\ d \in Seq(Bytes) /\ dn \in Seq(Bytes) /\ s \in Seq(Bytes) /\ x \in Seq(Bytes)
           /\ y = x ++ (d ++ (dn ++ s)) /\ ~TooMuch(Len(d), Len(dn)) /\ Ahead(b.data, LeftBy(Len(d), Len(dn)), S, G, nx, e, n)
           /\ cl \in Units /\ n \in Units /\ n # cl /\ b.data[cl] = d /\ b.data[n] = dn /\ S \in Seq(Units)
           /\ P \in Seq(Units) /\ R = One(n) ++ S /\ R # Nil
<1>1. /\ b \in Buffers /\ Contents(b) = y /\ Around(b, P, cl, R, x, d, r) /\ Ahead(b.data, Len(d), R, G, nx, e, k)
      /\ Behind(b, P, cl, R, x, d, r, n, S, dn, s)
    BY DEF DefragmentsTwo, Defragments
<1>2. /\ n \in Units /\ S \in Seq(Units) /\ R = One(n) ++ S
      /\ n # cl /\ dn = b.data[n] /\ dn \in Held /\ s \in Seq(Bytes) /\ r = dn ++ s
    BY <1>1 DEF Behind
<1>3. Len(d) \in 0 .. Capacity /\ d \in Seq(Bytes) /\ x \in Seq(Bytes) /\ Contents(b) = x ++ (d ++ r)
    BY <1>1, AroundIs
<1>4. dn \in Seq(Bytes) /\ Len(dn) \in 0 .. Capacity
    <2>1. dn \in Seq(Bytes) /\ Len(dn) <= Capacity
        BY <1>2 DEF Held
    <2>2. Len(dn) \in Nat /\ Capacity \in Nat
        BY <2>1, NilIs, BufferAssumption
    <2> QED BY <2>1, <2>2
<1>5. ~TooMuch(Len(d), Len(dn)) /\ Ahead(b.data, LeftBy(Len(d), Len(dn)), S, G, nx, e, n)
    BY <1>1, <1>2, <1>3, AheadNext
<1>6. cl \in Units /\ b.data[cl] = d /\ P \in Seq(Units)
    BY <1>1 DEF Around
<1>7. R # Nil
    <2>1. One(n) \in Seq(Units) /\ One(n) # Nil
        BY <1>2, UnitSeq
    <2> QED BY <1>2, <2>1, JoinNotNil
<1> QED BY <1>1, <1>2, <1>3, <1>4, <1>5, <1>6, <1>7

\* A full cluster is passed over.
LEMMA DefragmentPasses ==
    ASSUME NEW b, NEW cl, NEW y, NEW P, NEW R, NEW x, NEW d, NEW r, NEW G, NEW nx, NEW e, NEW k, NEW n, NEW S, NEW dn, NEW s,
           DefragmentsTwo(b, cl, y, P, R, x, d, r, G, nx, e, k, n, S, dn, s), Capacity - Len(d) = 0
    PROVE  Defragments(b, n, y, P ++ One(cl), S, x ++ d, dn, s, G, nx, e, n)
<1>1. LeftBy(Len(d), Len(dn)) = Len(dn)
    BY DEF LeftBy
<1>2. Ahead(b.data, Len(dn), S, G, nx, e, n)
    BY <1>1, TwoAre
<1> QED BY <1>2 DEF DefragmentsTwo, Defragments, Behind

\* The next cluster fits into this one.
LEMMA DefragmentJoins ==
    ASSUME NEW b, NEW cl, NEW y, NEW P, NEW R, NEW x, NEW d, NEW r, NEW G, NEW nx, NEW e, NEW k, NEW n, NEW S, NEW dn, NEW s,
           DefragmentsTwo(b, cl, y, P, R, x, d, r, G, nx, e, k, n, S, dn, s), Capacity - Len(d) > 0, Len(dn) <= Capacity - Len(d),
           NEW w, w = d ++ dn, NEW g, g = DataSet(b, cl, w), NEW f, f = _buffer_free_cluster(g, n, cl)
    PROVE  Defragments(f, cl, y, P, S, x, w, s, G, nx, e, n)
<1>1. /\ Len(d) \in 0 .. Capacity /\ Len(dn) \in 0 .. Capacity /\ d \in Seq(Bytes) /\ dn \in Seq(Bytes) /\ s \in Seq(Bytes) /\ x \in Seq(Bytes)
      /\ y = x ++ (d ++ (dn ++ s)) /\ Ahead(b.data, LeftBy(Len(d), Len(dn)), S, G, nx, e, n)
      /\ cl \in Units /\ n \in Units /\ n # cl /\ b.data[n] = dn /\ S \in Seq(Units) /\ R = One(n) ++ S
    BY TwoAre
<1>2. b \in Buffers /\ Around(b, P, cl, R, x, d, r) /\ cl \notin Range(S) /\ n \notin Range(S) /\ r = dn ++ s /\ s = Cat(b.data, S)
    BY DEF DefragmentsTwo, Defragments, Behind
<1>3. w \in Seq(Bytes) /\ Len(w) = Len(d) + Len(dn)
    BY <1>1, JoinLen
<1>4. w \in Held
    <2>1. Len(w) <= Capacity
        BY <1>1, <1>3, BufferAssumption
    <2> QED BY <1>3, <2>1 DEF Held
<1>5. LeftBy(Len(d), Len(dn)) = Len(w)
    <2>1. ~(Capacity - Len(d) = 0)
        BY <1>1, BufferAssumption
    <2> QED BY <1>3, <2>1 DEF LeftBy
<1>6. Around(g, P, cl, R, x, w, r)
    BY <1>2, <1>4, AroundSet
<1>7. g \in Buffers /\ Elsewhere(g.data, b.data, cl)
    BY <1>1, <1>2, <1>4, DataIs
<1>8. g.data[n] = dn
    BY <1>1, <1>7 DEF Elsewhere
<1>9. s = Cat(g.data, S)
    BY <1>1, <1>2, <1>7, CatElse
<1>10. Around(g, P, cl, One(n) ++ S, x, w, g.data[n] ++ s)
    BY <1>1, <1>2, <1>6, <1>8
<1>11. Around(f, P, cl, S, x, w, s)
    BY <1>1, <1>9, <1>10, AroundFreeNext
<1>12. f.data = g.data /\ f \in Buffers
    <2>1. cl \in Units \cup {NULL}
        BY <1>1
    <2> QED BY <1>1, <1>7, <2>1, FreeFields
<1>13. Ahead(f.data, Len(w), S, G, nx, e, n)
    <2>1. \A i \in 1 .. Len(S) : g.data[S[i]] = b.data[S[i]]
        BY <1>1, <1>2, <1>7, ElsewhereSame
    <2> QED BY <1>1, <1>5, <1>12, <2>1, AheadSame
<1>14. Contents(f) = y
    <2>1. Contents(f) = x ++ (w ++ s)
        BY <1>11, AroundIs
    <2>2. (d ++ dn) ++ s = d ++ (dn ++ s)
        BY <1>1, JoinAssociative
    <2> QED BY <1>1, <2>1, <2>2
<1> QED BY <1>11, <1>12, <1>13, <1>14 DEF Defragments

\* A partial move parts the data of the second cluster.
LEMMA RemainsIs ==
    ASSUME NEW d \in Seq(Bytes), NEW f \in Nat, f < Len(d), Len(d) <= 2 * f,
           NEW a, a = Upto(d, f), NEW w, w = Remains(d, f)
    PROVE  a \in Seq(Bytes) /\ w \in Seq(Bytes) /\ d = a ++ w /\ Len(a) = f /\ Len(w) = Len(d) - f
<1>1. PICK z : z = Beyond(d, f)
    OBVIOUS
<1>2. Len(d) \in Nat
    BY NilIs
<1>3. a \in Seq(Bytes) /\ z \in Seq(Bytes) /\ Len(a) = f /\ Len(z) = Len(d) - f /\ d = a ++ z
    <2>1. f \in 0 .. Len(d)
        BY <1>2
    <2> QED BY <1>1, <2>1, CutHas
<1>4. Remains(a ++ z, f) = z
    <2>1. Len(z) <= Len(a) /\ f = Len(a)
        BY <1>2, <1>3
    <2> QED BY <1>3, <2>1, MovedIs
<1>5. w = z
    BY <1>3, <1>4
<1> QED BY <1>3, <1>5

\* The first bytes of the next cluster fill this one.
LEMMA DefragmentMoves ==
    ASSUME NEW b, NEW cl, NEW y, NEW P, NEW R, NEW x, NEW d, NEW r, NEW G, NEW nx, NEW e, NEW k, NEW n, NEW S, NEW dn, NEW s,
           DefragmentsTwo(b, cl, y, P, R, x, d, r, G, nx, e, k, n, S, dn, s),
           NEW f, f = Capacity - Len(d), f > 0, f < Len(dn),
           NEW a, a = Upto(dn, f), NEW v, v = d ++ a, NEW w, w = Remains(dn, f), NEW h, h = DataSet(b, cl, v), NEW g, g = DataSet(h, n, w)
    PROVE  Defragments(g, n, y, P ++ One(cl), S, x ++ v, w, s, G, nx, e, n)
<1>1. /\ Len(d) \in 0 .. Capacity /\ Len(dn) \in 0 .. Capacity /\ d \in Seq(Bytes) /\ dn \in Seq(Bytes) /\ s \in Seq(Bytes) /\ x \in Seq(Bytes)
      /\ y = x ++ (d ++ (dn ++ s)) /\ ~TooMuch(Len(d), Len(dn)) /\ Ahead(b.data, LeftBy(Len(d), Len(dn)), S, G, nx, e, n)
      /\ cl \in Units /\ n \in Units /\ n # cl /\ b.data[n] = dn /\ S \in Seq(Units) /\ R = One(n) ++ S /\ R # Nil
      /\ P \in Seq(Units)
    BY TwoAre
<1>2. b \in Buffers /\ Around(b, P, cl, R, x, d, r) /\ cl \notin Range(S) /\ n \notin Range(S) /\ r = dn ++ s /\ s = Cat(b.data, S)
    BY DEF DefragmentsTwo, Defragments, Behind
<1>3. f \in Nat /\ Len(dn) \in Nat /\ Capacity \in Nat /\ Len(d) \in Nat /\ Len(d) + f = Capacity
    BY <1>1, BufferAssumption
<1>4. Len(dn) <= 2 * f
    BY <1>1, <1>3 DEF TooMuch
<1>5. a \in Seq(Bytes) /\ w \in Seq(Bytes) /\ dn = a ++ w /\ Len(a) = f /\ Len(w) = Len(dn) - f
    <2>1. dn \in Seq(Bytes) /\ f \in Nat /\ f < Len(dn) /\ Len(dn) <= 2 * f
        BY <1>1, <1>3, <1>4
    <2> QED BY <2>1, RemainsIs
<1>6. v \in Held
    <2>1. v \in Seq(Bytes) /\ Len(v) = Len(d) + Len(a)
        <3>1. d \in Seq(Bytes) /\ a \in Seq(Bytes)
            BY <1>1, <1>5
        <3> QED BY <3>1, BytesLen
    <2>2. Len(v) <= Capacity
        BY <1>3, <1>5, <2>1
    <2> QED BY <2>1, <2>2 DEF Held
<1>7. w \in Held
    <2>1. Len(w) <= Capacity
        BY <1>1, <1>3, <1>5
    <2> QED BY <1>5, <2>1 DEF Held
<1>8. Around(h, P, cl, R, x, v, r)
    BY <1>2, <1>6, AroundSet
<1>9. h \in Buffers /\ Elsewhere(h.data, b.data, cl)
    BY <1>1, <1>2, <1>6, DataIs
<1>10. PICK PP, xx : PP = P ++ One(cl) /\ xx = x ++ v
    OBVIOUS
<1>11. Around(h, PP, n, S, xx, dn, s)
    <2>1. Linked(h, PP ++ (One(n) ++ S)) /\ PP \in Seq(Units)
        <3>1. Linked(h, P ++ (One(cl) ++ R))
            BY <1>8 DEF Around
        <3>2. One(cl) \in Seq(Units) /\ One(n) \in Seq(Units)
            BY <1>1, UnitSeq
        <3>3. R \in Seq(Units)
            BY <1>2 DEF Around
        <3>4. (P ++ One(cl)) ++ R = P ++ (One(cl) ++ R)
            BY <1>1, <3>2, <3>3, JoinAssociative
        <3>5. PP \in Seq(Units)
            BY <1>1, <1>10, <3>2, JoinLen
        <3> QED BY <1>1, <1>10, <3>1, <3>4, <3>5
    <2>2. Stands(h, P ++ One(cl), R, x ++ v, r)
        BY <1>8, AroundIs
    <2>3. xx = Cat(h.data, PP)
        BY <1>10, <2>2 DEF Stands
    <2>4. h.data[n] = dn
        BY <1>1, <1>9 DEF Elsewhere
    <2>5. s = Cat(h.data, S)
        BY <1>1, <1>2, <1>9, CatElse
    <2> QED BY <1>1, <1>9, <2>1, <2>3, <2>4, <2>5 DEF Around
<1>12. Around(g, PP, n, S, xx, w, s)
    BY <1>7, <1>11, AroundSet
<1>13. g \in Buffers /\ Elsewhere(g.data, h.data, n)
    BY <1>1, <1>7, <1>9, DataIs
<1>14. LeftBy(Len(d), Len(dn)) = Len(w)
    <2>1. ~(Capacity - Len(d) = 0) /\ ~(Len(dn) <= Capacity - Len(d)) /\ Len(w) = Len(dn) - (Capacity - Len(d))
        BY <1>3, <1>5
    <2> QED BY <2>1 DEF LeftBy
<1>15. Ahead(g.data, Len(w), S, G, nx, e, n)
    <2>1. \A i \in 1 .. Len(S) : h.data[S[i]] = b.data[S[i]]
        BY <1>1, <1>2, <1>9, ElsewhereSame
    <2>2. Ahead(h.data, Len(w), S, G, nx, e, n)
        <3>1. Ahead(b.data, Len(w), S, G, nx, e, n)
            BY <1>1, <1>14
        <3> QED BY <2>1, <3>1, AheadSame
    <2>3. \A i \in 1 .. Len(S) : g.data[S[i]] = h.data[S[i]]
        BY <1>1, <1>2, <1>13, ElsewhereSame
    <2> QED BY <2>2, <2>3, AheadSame
<1>16. Contents(g) = y
    <2>1. Contents(g) = xx ++ (w ++ s)
        BY <1>12, AroundIs
    <2>2. (a ++ w) ++ s = a ++ (w ++ s)
        BY <1>1, <1>5, JoinAssociative
    <2>3. PICK q \in Seq(Bytes) : q = w ++ s
        BY <1>1, <1>5, JoinLen
    <2>4. (x ++ v) ++ q = x ++ (v ++ q)
        BY <1>1, <1>6, <2>3, JoinAssociative DEF Held
    <2>5. (d ++ a) ++ q = d ++ (a ++ q)
        BY <1>1, <1>5, <2>3, JoinAssociative
    <2>6. dn ++ s = a ++ q
        BY <1>5, <2>2, <2>3
    <2>7. v ++ q = d ++ (a ++ q)
        BY <2>5
    <2>8. Contents(g) = (x ++ v) ++ q
        BY <1>10, <2>1, <2>3
    <2> QED BY <1>1, <2>4, <2>6, <2>7, <2>8
<1> QED BY <1>10, <1>12, <1>13, <1>15, <1>16 DEF Defragments

\* A step of the defragmentation begins where the last one ended.
LEMMA DefragmentBegins ==
    ASSUME IInv, pc = "defragment"
    PROVE  /\ pc # "idle" /\ Listed(buf) /\ Asked(call) /\ bytes \in Seq(Bytes) /\ bytes # Nil /\ call.op = "defragment"
           /\ first = NoCall /\ remainLen \in 0 .. MaxLen
           /\ \E P, R, x, d, r, G, nx, e, k : Defragments(buf, cluster, bytes, P, R, x, d, r, G, nx, e, k)
<1>1. /\ pc # "idle" /\ Listed(buf) /\ Asked(call) /\ bytes \in Seq(Bytes) /\ remainLen \in 0 .. MaxLen
      /\ DefragmentPart(buf, call, cluster, bytes)
    BY DEF IInv, Proceeding, Working
<1>2. /\ call.op = "defragment" /\ bytes # Nil
      /\ \E P, R, x, d, r, G, nx, e, k : Defragments(buf, cluster, bytes, P, R, x, d, r, G, nx, e, k)
    BY <1>1 DEF DefragmentPart, Defragments, Listed
<1> QED BY <1>1, <1>2, NobodyWaits

\* And leaves things so that it can go on.
LEMMA DefragmentGoesOn ==
    ASSUME IInv, pc = "defragment", fault = "none", pc' = "defragment", Continue, remainLen' = remainLen,
           NEW P, NEW R, NEW x, NEW d, NEW r, NEW G, NEW nx, NEW e, NEW k,
           Defragments(buf', cluster', bytes, P, R, x, d, r, G, nx, e, k), prevCluster' = NULL, offset' = 0
    PROVE  Keeps
<1>1. /\ pc # "idle" /\ bytes # Nil /\ call.op = "defragment" /\ first = NoCall /\ remainLen' \in 0 .. MaxLen
    BY DefragmentBegins
<1>2. /\ buf' \in Buffers /\ Contents(buf') = bytes /\ Around(buf', P, cluster', R, x, d, r) /\ Ahead(buf'.data, Len(d), R, G, nx, e, k)
    BY DEF Defragments
<1>3. DefragmentPart(buf', call, cluster', bytes)
    BY <1>1, <1>2 DEF DefragmentPart
<1>4. Listed(buf') /\ cluster' \in Units
    BY <1>2 DEF Listed, Around
<1>5. Working'
    BY <1>3 DEF Working, Continue
<1>6. StartStays
    BY <1>1 DEF StartStays
<1> QED BY <1>1, <1>4, <1>5, <1>6, Continued

\* A full cluster is passed, the next one joined to it, or a part of that moved.
LEMMA DefragmentClusterKeeps ==
    ASSUME IInv, fault = "none", DefragmentCluster
    PROVE  Keeps
<1>1. pc = "defragment" /\ cluster # NULL /\ buf.pNext[cluster] # NULL /\ pc' = pc /\ remainLen' = remainLen /\ Continue
    BY DEF DefragmentCluster
<1>2. PICK P, R, x, d, r, G, nx, e, k : Defragments(buf, cluster, bytes, P, R, x, d, r, G, nx, e, k)
    BY <1>1, DefragmentBegins
<1>3. Around(buf, P, cluster, R, x, d, r)
    BY <1>2 DEF Defragments
<1>4. R # Nil
    BY <1>1, <1>3, AroundIs
<1>5. PICK n, S, dn, s : Behind(buf, P, cluster, R, x, d, r, n, S, dn, s)
    BY <1>3, <1>4, BehindIs
<1>6. DefragmentsTwo(buf, cluster, bytes, P, R, x, d, r, G, nx, e, k, n, S, dn, s)
    BY <1>2, <1>5 DEF DefragmentsTwo
<1>7. /\ Len(d) \in 0 .. Capacity /\ Len(dn) \in 0 .. Capacity
      /\ buf.data[cluster] = d /\ buf.data[n] = dn
    BY <1>6, TwoAre
<1>8. n = buf.pNext[cluster] /\ n # cluster
    BY <1>5 DEF Behind
<1>9. PICK f : f = Capacity - Len(d)
    OBVIOUS
<1>10. f \in Nat /\ Len(dn) \in Nat
    BY <1>7, <1>9, BufferAssumption
<1>11. CASE f = 0
    <2>1. buf' = buf /\ At(n, NULL, 0)
        <3>1. Capacity - dataLen(cluster) = 0 /\ ~(Capacity - dataLen(cluster) > 0)
            BY <1>7, <1>9, <1>11 DEF dataLen
        <3>2. UNCHANGED buf /\ At(buf.pNext[cluster], NULL, 0)
            BY <3>1 DEF DefragmentCluster
        <3> QED BY <1>8, <3>2
    <2>2. Defragments(buf, n, bytes, P ++ One(cluster), S, x ++ d, dn, s, G, nx, e, n)
        BY <1>6, <1>9, <1>11, DefragmentPasses
    <2>3. Defragments(buf', cluster', bytes, P ++ One(cluster), S, x ++ d, dn, s, G, nx, e, n)
        BY <2>1, <2>2 DEF At
    <2> QED BY <1>1, <2>1, <2>3, DefragmentGoesOn DEF At
<1>12. CASE f > 0 /\ f >= Len(dn)
    <2>1. PICK w, g, h : w = d ++ dn /\ g = DataSet(buf, cluster, w) /\ h = _buffer_free_cluster(g, n, cluster)
        OBVIOUS
    <2>2. g = [buf EXCEPT !.data[cluster] = @ \o dn]
        BY <1>7, <2>1 DEF DataSet, ++
    <2>3. buf' = h /\ At(cluster, NULL, 0)
        <3>1. ~(f = 0) /\ ~(f < Len(dn))
            BY <1>10, <1>12
        <3> QED BY <1>7, <1>8, <1>9, <1>12, <2>1, <2>2, <3>1 DEF DefragmentCluster, dataLen
    <2>4. Capacity - Len(d) > 0 /\ Len(dn) <= Capacity - Len(d)
        BY <1>9, <1>10, <1>12
    <2>5. Defragments(h, cluster, bytes, P, S, x, w, s, G, nx, e, n)
        BY <1>6, <2>1, <2>4, DefragmentJoins
    <2>6. Defragments(buf', cluster', bytes, P, S, x, w, s, G, nx, e, n)
        BY <2>3, <2>5 DEF At
    <2> QED BY <1>1, <2>3, <2>6, DefragmentGoesOn DEF At
<1>13. CASE f > 0 /\ f < Len(dn)
    <2>1. PICK a, v, w, h, g : a = Upto(dn, f) /\ v = d ++ a /\ w = Remains(dn, f) /\ h = DataSet(buf, cluster, v) /\ g = DataSet(h, n, w)
        OBVIOUS
    <2>2. g = [buf EXCEPT !.data[cluster] = @ \o SubSeq(dn, 1, f), !.data[n] = w]
        <3>1. v = buf.data[cluster] \o SubSeq(dn, 1, f)
            BY <1>7, <2>1 DEF ++, Upto
        <3>2. g = [[buf EXCEPT !.data[cluster] = v] EXCEPT !.data[n] = w]
            BY <2>1 DEF DataSet
        <3> QED BY <3>1, <3>2
    <2>3. buf' = g /\ At(n, NULL, 0)
        <3>1. ~(f = 0) /\ ~(f >= Len(dn))
            BY <1>10, <1>13
        <3>2. w = SubSeq(dn, f + 1, Min({2 * f, Len(dn)})) \o SubSeq(dn, Len(SubSeq(dn, f + 1, Min({2 * f, Len(dn)}))) + 1, Len(dn) - f)
            BY <2>1 DEF Remains
        <3> QED BY <1>7, <1>8, <1>9, <1>13, <2>2, <3>1, <3>2 DEF DefragmentCluster, dataLen
    <2>4. Defragments(g, n, bytes, P ++ One(cluster), S, x ++ v, w, s, G, nx, e, n)
        BY <1>6, <1>9, <1>13, <2>1, DefragmentMoves
    <2>5. Defragments(buf', cluster', bytes, P ++ One(cluster), S, x ++ v, w, s, G, nx, e, n)
        BY <2>3, <2>4 DEF At
    <2> QED BY <1>1, <2>3, <2>5, DefragmentGoesOn DEF At
<1> QED BY <1>10, <1>11, <1>12, <1>13

\* At the last cluster it ends; the bytes are the same.
LEMMA DefragmentEndsKeeps ==
    ASSUME IInv, fault = "none", DefragmentEnds
    PROVE  Keeps
<1>1. pc = "defragment"
    BY DEF DefragmentEnds
<1>2. /\ pc # "idle" /\ Listed(buf) /\ Asked(call) /\ bytes \in Seq(Bytes) /\ bytes # Nil /\ call.op = "defragment"
      /\ first = NoCall
    BY <1>1, DefragmentBegins
<1>3. PICK P, R, x, d, r, G, nx, e, k : Defragments(buf, cluster, bytes, P, R, x, d, r, G, nx, e, k)
    BY <1>1, DefragmentBegins
<1>4. Contents(buf) = bytes /\ Around(buf, P, cluster, R, x, d, r)
    BY <1>3 DEF Defragments
<1>5. cluster # NULL
    BY <1>4, AroundIs
<1>6. Return(B!Done(0, <<>>)) /\ buf' = buf
    BY <1>5 DEF DefragmentEnds
<1>7. pc' = "idle" /\ reply' = B!Done(0, <<>>)
    BY <1>6 DEF Return
<1>8. Visible' = Visible
    BY <1>2, <1>4, <1>6, <1>7 DEF Visible
<1>9. Promised!Defragment
    BY <1>7, <1>8 DEF Promised!Defragment, B!Done, Promised!Done
<1>10. Promised!Effect(call)
    BY <1>2, <1>9 DEF Promised!Effect
<1>11. Listed(buf') /\ Kept(buf', Contents(buf')) /\ StartStays
    BY <1>2, <1>4, <1>6 DEF Kept, StartStays
<1> QED BY <1>2, <1>6, <1>10, <1>11, Returned

-----------------------------------------------------------------------------
(* _buffer_check_each_cluster                                               *)

\* d is what y has behind the pieces w of n bytes.
NextPiece(w, n, y, o, d) == o = n * Len(w) /\ d = SubSeq(y, o + 1, n * (Len(w) + 1))

\* One piece more, behind pieces that are not marked.
LEMMA PiecesMore ==
    ASSUME NEW w, NEW n \in Nat, NEW y, PiecesTo(w, n, y, FALSE), NEW f \in BOOLEAN, NEW d \in Seq(Bytes),
           NEW o, NextPiece(w, n, y, o, d), NEW v, v = Append(w, Part(o, d, f))
    PROVE  PiecesTo(v, n, y, f) /\ Len(v) = Len(w) + 1 /\ Len(w) \in Nat
<1>1. /\ w \in Seq(Nat \X Seq(Bytes) \X BOOLEAN) /\ Len(w) \in Nat
      /\ \A i \in 1 .. Len(w) : w[i] = Part(n * (i - 1), SubSeq(y, n * (i - 1) + 1, n * i), FALSE /\ i = Len(w))
    BY DEF PiecesTo
<1>2. o \in Nat /\ o = n * Len(w) /\ d = SubSeq(y, o + 1, n * (Len(w) + 1))
    BY <1>1 DEF NextPiece
<1>3. Part(o, d, f) \in Nat \X Seq(Bytes) \X BOOLEAN
    BY <1>2 DEF Part
<1>4. v \in Seq(Nat \X Seq(Bytes) \X BOOLEAN) /\ Len(v) = Len(w) + 1
    BY <1>1, <1>3
<1>5. ASSUME NEW i \in 1 .. Len(v)
      PROVE  v[i] = Part(n * (i - 1), SubSeq(y, n * (i - 1) + 1, n * i), f /\ i = Len(v))
    <2>1. CASE i \in 1 .. Len(w)
        <3>1. v[i] = w[i] /\ i # Len(v) /\ i # Len(w) + 1
            BY <1>1, <1>4, <2>1
        <3>2. w[i] = Part(n * (i - 1), SubSeq(y, n * (i - 1) + 1, n * i), FALSE)
            BY <1>1, <2>1
        <3>3. (f /\ i = Len(v)) = FALSE
            BY <3>1
        <3> QED BY <3>1, <3>2, <3>3
    <2>2. CASE i = Len(w) + 1
        <3>1. v[i] = Part(o, d, f)
            BY <1>1, <1>3, <2>2
        <3>2. i - 1 = Len(w) /\ n * (i - 1) = o /\ n * i = n * (Len(w) + 1)
            BY <1>1, <1>2, <2>2
        <3>3. (f /\ i = Len(v)) = f
            BY <1>4, <2>2
        <3>4. SubSeq(y, o + 1, n * (Len(w) + 1)) = d
            BY <1>2
        <3>5. SubSeq(y, n * (i - 1) + 1, n * i) = d
            BY <3>2, <3>4
        <3> QED BY <3>1, <3>2, <3>3, <3>5
    <2> QED BY <1>1, <1>4, <2>1, <2>2
<1> QED BY <1>1, <1>4, <1>5 DEF PiecesTo

\* What a step finds in a cluster.
CheckFound(b, c, p, cl, o, d, w, y, P, R, x, h, t, r, k) ==
    /\ Opened(b, P, cl, R, x, h, t, r, t ++ r) /\ Len(h) = o /\ x ++ h = k ++ d
    /\ k \in Seq(Bytes) /\ d \in Seq(Bytes) /\ h \in Seq(Bytes) /\ t \in Seq(Bytes) /\ r \in Seq(Bytes) /\ x \in Seq(Bytes)
    /\ Len(k) = c.len * Len(w) /\ PiecesTo(w, c.len, y, FALSE) /\ Len(d) < c.len
    /\ y = k ++ (d ++ (t ++ r)) /\ (o > 0 => o < Len(b.data[cl]))

\* Where a look at the data stands.
LEMMA CheckFinds ==
    ASSUME NEW b, NEW c, NEW p, NEW cl, NEW o, NEW d, NEW w, NEW y, CheckPart(b, c, p, cl, o, d, w, y), cl # NULL
    PROVE  \E P, R, x, h, t, r, k : CheckFound(b, c, p, cl, o, d, w, y, P, R, x, h, t, r, k)
<1>1. PICK P, Q, x, h, z, k : CheckAt(b, c, p, cl, o, d, w, y, P, Q, x, h, z, k)
    BY DEF CheckPart
<1>2. /\ k \in Seq(Bytes) /\ Standing(b, P, Q, x, h, z, cl, o) /\ x ++ h = k ++ d
      /\ Len(k) = c.len * Len(w) /\ (o > 0 => o < Len(b.data[cl]))
    BY <1>1 DEF CheckAt
<1>3. PICK R, t, r : Opened(b, P, cl, R, x, h, t, r, z) /\ Q = One(cl) ++ R /\ Len(h) = o
    BY <1>2, StandingOpen
<1>4. Q # Nil /\ Contents(b) = (x ++ h) ++ z
    BY <1>2, StandingIs
<1>5. z = t ++ r /\ h \in Seq(Bytes) /\ t \in Seq(Bytes) /\ r \in Seq(Bytes) /\ x \in Seq(Bytes)
    BY <1>3 DEF Opened
<1>6. d \in Seq(Bytes) /\ Len(d) < c.len /\ Contents(b) = y
    BY DEF CheckPart
<1>7. (k ++ d) ++ z = k ++ (d ++ z) /\ z \in Seq(Bytes)
    <2>1. z \in Seq(Bytes)
        BY <1>5, JoinLen
    <2> QED BY <1>2, <1>6, <2>1, JoinAssociative
<1>8. PiecesTo(w, c.len, y, FALSE)
    <2>1. PiecesTo(w, c.len, y, p = "check" /\ Q = Nil /\ d = Nil)
        BY <1>1 DEF CheckAt
    <2>2. (p = "check" /\ Q = Nil /\ d = Nil) = FALSE
        BY <1>4
    <2> QED BY <2>1, <2>2
<1>9. CheckFound(b, c, p, cl, o, d, w, y, P, R, x, h, t, r, k)
    BY <1>2, <1>3, <1>4, <1>5, <1>6, <1>7, <1>8 DEF CheckFound
<1> QED BY <1>9

\* In a cluster, and behind it.
LEMMA OpenedStands ==
    ASSUME NEW b, NEW P, NEW c, NEW R, NEW x, NEW h, NEW t, NEW r, NEW z, Opened(b, P, c, R, x, h, t, r, z),
           NEW Q, Q = One(c) ++ R, NEW o, o = Len(h)
    PROVE  Standing(b, P, Q, x, h, z, c, o) /\ o <= Len(b.data[c]) /\ Q # Nil
<1>1. PICK w : w = h ++ t /\ Around(b, P, c, R, x, w, r) /\ z = t ++ r
    BY DEF Opened
<1>2. h \in Seq(Bytes) /\ t \in Seq(Bytes) /\ r \in Seq(Bytes) /\ x \in Seq(Bytes)
    BY DEF Opened
<1>3. c \in Units /\ R \in Seq(Units) /\ b.data[c] = w
    BY <1>1 DEF Around
<1>4. Stands(b, P, Q, x, w ++ r)
    BY <1>1, AroundIs
<1>5. w ++ r = h ++ z /\ z \in Seq(Bytes)
    BY <1>1, <1>2, JoinAssociative, JoinLen
<1>6. HeadOr(Q, NULL) = c
    <2>1. One(c) \in Seq(Units)
        BY <1>3, UnitSeq
    <2>2. HeadOr(One(c) ++ R, NULL) = HeadOr(One(c), HeadOr(R, NULL))
        BY <1>3, <2>1, HeadOrJoin
    <2>3. \A j : HeadOr(One(c), j) = c
        BY EndOne
    <2> QED BY <2>2, <2>3
<1>7. Q # Nil
    <2>1. One(c) \in Seq(Units) /\ One(c) # Nil
        BY <1>3, UnitSeq
    <2> QED BY <1>3, <2>1, JoinNotNil
<1>8. o <= Len(w)
    <2>1. Len(w) = Len(h) + Len(t)
        BY <1>1, <1>2, JoinLen
    <2>2. Len(h) \in Nat /\ Len(t) \in Nat
        BY <1>2, NilIs
    <2> QED BY <2>1, <2>2
<1> QED BY <1>2, <1>3, <1>4, <1>5, <1>6, <1>7, <1>8 DEF Standing

\* From a cluster to the next.
LEMMA OpenedNext ==
    ASSUME NEW b, NEW P, NEW c, NEW R, NEW x, NEW h, NEW t, NEW r, NEW z, Opened(b, P, c, R, x, h, t, r, z),
           NEW n, n = b.pNext[c], NEW q, q = (x ++ h) ++ t
    PROVE  /\ Standing(b, P ++ One(c), R, q, Nil, r, n, 0) /\ End(P ++ One(c)) = c /\ n \in Units \cup {NULL}
           /\ (n = NULL <=> R = Nil) /\ (R = Nil => r = Nil /\ b.pLast = c) /\ b.pStart # NULL /\ q \in Seq(Bytes)
<1>1. PICK w : w = h ++ t /\ Around(b, P, c, R, x, w, r)
    BY DEF Opened
<1>2. h \in Seq(Bytes) /\ t \in Seq(Bytes) /\ r \in Seq(Bytes) /\ x \in Seq(Bytes)
    BY DEF Opened
<1>3. q = x ++ w
    BY <1>1, <1>2, JoinAssociative
<1>4. /\ n = HeadOr(R, NULL) /\ n \in Units \cup {NULL} /\ (n = NULL <=> R = Nil) /\ (R = Nil => r = Nil /\ b.pLast = c)
      /\ b.pStart # NULL /\ End(P ++ One(c)) = c
    BY <1>1, AroundIs
<1>5. Stands(b, P ++ One(c), R, x ++ w, r)
    BY <1>1, AroundIs
<1>6. PICK PP : PP = P ++ One(c)
    OBVIOUS
<1>7. Stands(b, PP, R, q, r)
    BY <1>3, <1>5, <1>6
<1>8. Standing(b, PP, R, q, Nil, r, n, 0)
    BY <1>4, <1>7, StandingAt
<1>9. q \in Seq(Bytes)
    BY <1>7, StandsIs
<1> QED BY <1>4, <1>6, <1>8, <1>9

\* Further on in the same cluster.
LEMMA OpenedOn ==
    ASSUME NEW b, NEW P, NEW c, NEW R, NEW x, NEW h, NEW t, NEW r, NEW z, Opened(b, P, c, R, x, h, t, r, z),
           NEW a \in Seq(Bytes), NEW e \in Seq(Bytes), t = a ++ e, NEW g, g = h ++ a, NEW q, q = e ++ r
    PROVE  Opened(b, P, c, R, x, g, e, r, q)
<1>1. PICK w : w = h ++ t /\ Around(b, P, c, R, x, w, r)
    BY DEF Opened
<1>2. h \in Seq(Bytes) /\ t \in Seq(Bytes) /\ r \in Seq(Bytes) /\ x \in Seq(Bytes)
    BY DEF Opened
<1>3. w = g ++ e /\ g \in Seq(Bytes)
    BY <1>1, <1>2, JoinAssociative, JoinLen
<1> QED BY <1>1, <1>2, <1>3 DEF Opened

\* One piece more.
LEMMA OneMore ==
    \A n, m \in Nat : n * m + n = n * (m + 1) /\ n * m \in Nat
OBVIOUS

\* Of t, the bytes a make the piece f full, and more is behind them.
FillsUp(c, o, d, t, a, j, f) ==
    /\ a \in Seq(Bytes) /\ f = d ++ a /\ Len(d) + Len(a) = c.len /\ j = o + Len(a)
    /\ \E e \in Seq(Bytes) : t = a ++ e /\ e # Nil

\* A piece is full, and the cluster is not at its end.
LEMMA CheckInside ==
    ASSUME NEW b, NEW c, NEW p, NEW cl, NEW o, NEW d, NEW w, NEW y, CheckPart(b, c, p, cl, o, d, w, y), c.len \in Nat, c.len > 0,
           NEW P, NEW R, NEW x, NEW h, NEW t, NEW r, NEW k, CheckFound(b, c, p, cl, o, d, w, y, P, R, x, h, t, r, k),
           NEW a, NEW j, NEW f, FillsUp(c, o, d, t, a, j, f), NEW m, m = c.len * Len(w), NEW v, v = Append(w, Part(m, f, FALSE))
    PROVE  CheckPart(b, c, p, cl, j, Nil, v, y) /\ j \in Nat
<1>0. PICK e \in Seq(Bytes) :
          /\ a \in Seq(Bytes) /\ f = d ++ a /\ Len(d) + Len(a) = c.len /\ j = o + Len(a) /\ t = a ++ e /\ e # Nil
    BY DEF FillsUp
<1>1. /\ Opened(b, P, cl, R, x, h, t, r, t ++ r) /\ Len(h) = o /\ x ++ h = k ++ d
      /\ k \in Seq(Bytes) /\ d \in Seq(Bytes) /\ h \in Seq(Bytes) /\ t \in Seq(Bytes) /\ r \in Seq(Bytes) /\ x \in Seq(Bytes)
      /\ Len(k) = m /\ PiecesTo(w, c.len, y, FALSE)
      /\ y = k ++ (d ++ (t ++ r))
    BY DEF CheckFound
<1>2. PICK g, q, Q : g = h ++ a /\ q = e ++ r /\ Q = One(cl) ++ R
    OBVIOUS
<1>3. Opened(b, P, cl, R, x, g, e, r, q)
    BY <1>0, <1>1, <1>2, OpenedOn
<1>4. g \in Seq(Bytes) /\ Len(g) = j /\ Len(f) = c.len /\ f \in Seq(Bytes) /\ q \in Seq(Bytes)
    BY <1>0, <1>1, <1>2, JoinLen
<1>5. j \in Nat
    BY <1>0, <1>4, NilIs
<1>6. Standing(b, P, Q, x, g, q, cl, j) /\ Q # Nil
    BY <1>0, <1>2, <1>3, <1>4, OpenedStands
<1>7. PICK kk : kk = k ++ f
    OBVIOUS
<1>8. x ++ g = kk /\ kk \in Seq(Bytes) /\ Len(kk) = m + c.len
    <2>1. (x ++ h) ++ a = x ++ (h ++ a)
        BY <1>0, <1>1, JoinAssociative
    <2>2. (k ++ d) ++ a = k ++ (d ++ a)
        BY <1>0, <1>1, JoinAssociative
    <2>3. k ++ f \in Seq(Bytes) /\ Len(k ++ f) = Len(k) + Len(f)
        BY <1>0, <1>1, <1>4, JoinLen
    <2> QED BY <1>0, <1>1, <1>2, <1>4, <1>7, <2>1, <2>2, <2>3
<1>9. y = k ++ (f ++ q)
    <2>1. (a ++ e) ++ r = a ++ q
        BY <1>0, <1>1, <1>2, JoinAssociative
    <2>2. (d ++ a) ++ q = d ++ (a ++ q)
        BY <1>0, <1>1, <1>4, JoinAssociative
    <2> QED BY <1>0, <1>1, <2>1, <2>2
<1>10. Len(w) \in Nat
    BY <1>0, <1>1 DEF PiecesTo
<1>11. m + c.len = c.len * (Len(w) + 1) /\ m \in Nat
    <2>1. \A i, l \in Nat : i * l + i = i * (l + 1) /\ i * l \in Nat
        BY OneMore
    <2> QED BY <1>0, <1>10, <2>1
<1>12. f = SubSeq(y, m + 1, c.len * (Len(w) + 1))
    <2>1. SubSeq(k ++ (f ++ q), Len(k) + 1, Len(k) + Len(f)) = f
        <3>1. k \in Seq(Bytes) /\ f \in Seq(Bytes) /\ q \in Seq(Bytes)
            BY <1>0, <1>1, <1>4
        <3> QED BY <1>0, <3>1, MiddleIs
    <2> QED BY <1>0, <1>1, <1>4, <1>9, <1>11, <2>1
<1>13. PiecesTo(v, c.len, y, FALSE) /\ Len(v) = Len(w) + 1
    <2>1. PiecesTo(w, c.len, y, FALSE) /\ f \in Seq(Bytes) /\ FALSE \in BOOLEAN
        BY <1>0, <1>1, <1>4
    <2>2. PICK l \in BOOLEAN, n \in Nat : l = FALSE /\ n = c.len
        OBVIOUS
    <2>3. NextPiece(w, n, y, m, f) /\ PiecesTo(w, n, y, FALSE) /\ v = Append(w, Part(m, f, l))
        BY <1>0, <1>12, <2>1, <2>2 DEF NextPiece
    <2>4. PiecesTo(v, n, y, l)
        BY <1>0, <2>1, <2>3, PiecesMore
    <2>5. Len(v) = Len(w) + 1
        BY <1>0, <2>1, <2>3, PiecesMore
    <2> QED BY <1>0, <2>2, <2>4, <2>5
<1>14. PiecesTo(v, c.len, y, p = "check" /\ Q = Nil /\ Nil = Nil)
    <2>1. (p = "check" /\ Q = Nil /\ Nil = Nil) = FALSE
        BY <1>0, <1>6
    <2> QED BY <1>0, <1>13, <2>1
<1>15. kk = kk ++ Nil /\ Len(kk) = c.len * Len(v)
    BY <1>0, <1>8, <1>11, <1>13, JoinNone
<1>16. j < Len(b.data[cl])
    <2>1. b.data[cl] = g ++ e
        <3>1. Around(b, P, cl, R, x, g ++ e, r)
            BY <1>0, <1>3 DEF Opened
        <3> QED BY <1>0, <3>1 DEF Around
    <2>2. Len(g ++ e) = Len(g) + Len(e)
        BY <1>0, <1>4, JoinLen
    <2>3. Len(e) > 0 /\ Len(e) \in Nat
        BY <1>0, NilIs
    <2> QED BY <1>0, <1>4, <1>5, <2>1, <2>2, <2>3
<1>17. CheckAt(b, c, p, cl, j, Nil, v, y, P, Q, x, g, q, kk)
    BY <1>0, <1>6, <1>8, <1>14, <1>15, <1>16 DEF CheckAt
<1>18. Nil \in Seq(Bytes) /\ Len(Nil) < c.len
    BY <1>0, NilIs
<1> QED BY <1>0, <1>5, <1>17, <1>18 DEF CheckPart

\* The call passes to the next cluster: what is there.
LEMMA CheckPasses ==
    ASSUME NEW b, NEW c, NEW p, NEW cl, NEW o, NEW d, NEW w, NEW y,
           NEW P, NEW R, NEW x, NEW h, NEW t, NEW r, NEW k, CheckFound(b, c, p, cl, o, d, w, y, P, R, x, h, t, r, k),
           NEW f, f = d ++ t, NEW q, q = k ++ f, NEW n, n = b.pNext[cl]
    PROVE  /\ Standing(b, P ++ One(cl), R, q, Nil, r, n, 0) /\ n \in Units \cup {NULL} /\ (n = NULL <=> R = Nil)
           /\ (R = Nil => r = Nil /\ b.pLast = cl) /\ b.pStart # NULL
           /\ y = k ++ (f ++ r) /\ f \in Seq(Bytes) /\ Len(f) = Len(d) + Len(t) /\ q \in Seq(Bytes) /\ Len(q) = Len(k) + Len(f)
<1>1. /\ Opened(b, P, cl, R, x, h, t, r, t ++ r) /\ Len(h) = o /\ x ++ h = k ++ d
      /\ k \in Seq(Bytes) /\ d \in Seq(Bytes) /\ h \in Seq(Bytes) /\ t \in Seq(Bytes) /\ r \in Seq(Bytes) /\ x \in Seq(Bytes)
      /\ y = k ++ (d ++ (t ++ r))
    BY DEF CheckFound
<1>2. q = (x ++ h) ++ t
    <2>1. (k ++ d) ++ t = k ++ (d ++ t)
        BY <1>1, JoinAssociative
    <2> QED BY <1>1, <2>1
<1>3. PICK z : z = t ++ r
    OBVIOUS
<1>4. /\ Standing(b, P ++ One(cl), R, q, Nil, r, n, 0) /\ n \in Units \cup {NULL}
      /\ (n = NULL <=> R = Nil) /\ (R = Nil => r = Nil /\ b.pLast = cl) /\ b.pStart # NULL /\ q \in Seq(Bytes)
    <2>1. Opened(b, P, cl, R, x, h, t, r, z)
        BY <1>1, <1>3
    <2> QED BY <1>2, <2>1, OpenedNext
<1>5. (d ++ t) ++ r = d ++ (t ++ r)
    BY <1>1, JoinAssociative
<1>6. f \in Seq(Bytes) /\ Len(f) = Len(d) + Len(t)
    BY <1>1, JoinLen
<1>7. Len(q) = Len(k) + Len(f)
    BY <1>1, <1>6, JoinLen
<1> QED BY <1>1, <1>4, <1>5, <1>6, <1>7

\* A piece is full, and so is the cluster.
LEMMA CheckOver ==
    ASSUME NEW b, NEW c, NEW p, NEW cl, NEW o, NEW d, NEW w, NEW y, CheckPart(b, c, p, cl, o, d, w, y), c.len \in Nat, c.len > 0,
           NEW P, NEW R, NEW x, NEW h, NEW t, NEW r, NEW k, CheckFound(b, c, p, cl, o, d, w, y, P, R, x, h, t, r, k),
           Len(d) + Len(t) = c.len, NEW n, n = b.pNext[cl], NEW l \in BOOLEAN, l = (n = NULL /\ p = "check"),
           NEW f, f = d ++ t, NEW m, m = c.len * Len(w), NEW v, v = Append(w, Part(m, f, l))
    PROVE  CheckPart(b, c, p, n, 0, Nil, v, y) /\ n \in Units \cup {NULL}
<1>1. PICK q, PP : q = k ++ f /\ PP = P ++ One(cl)
    OBVIOUS
<1>2. /\ Standing(b, P ++ One(cl), R, q, Nil, r, n, 0) /\ n \in Units \cup {NULL} /\ (n = NULL <=> R = Nil)
      /\ y = k ++ (f ++ r) /\ f \in Seq(Bytes) /\ Len(f) = Len(d) + Len(t) /\ q \in Seq(Bytes) /\ Len(q) = Len(k) + Len(f)
    BY <1>1, CheckPasses
<1>3. Len(k) = m /\ PiecesTo(w, c.len, y, FALSE) /\ k \in Seq(Bytes) /\ r \in Seq(Bytes)
    BY DEF CheckFound
<1>4. Len(w) \in Nat
    BY <1>3 DEF PiecesTo
<1>5. m + c.len = c.len * (Len(w) + 1) /\ m \in Nat
    <2>1. \A i, j \in Nat : i * j + i = i * (j + 1) /\ i * j \in Nat
        BY OneMore
    <2> QED BY <1>4, <2>1
<1>6. f = SubSeq(y, m + 1, c.len * (Len(w) + 1))
    <2>1. SubSeq(k ++ (f ++ r), Len(k) + 1, Len(k) + Len(f)) = f
        <3>1. k \in Seq(Bytes) /\ f \in Seq(Bytes) /\ r \in Seq(Bytes)
            BY <1>2, <1>3
        <3> QED BY <3>1, MiddleIs
    <2> QED BY <1>2, <1>3, <1>5, <2>1
<1>7. PiecesTo(v, c.len, y, l) /\ Len(v) = Len(w) + 1
    <2>1. PICK j \in Nat : j = c.len
        OBVIOUS
    <2>2. NextPiece(w, j, y, m, f) /\ PiecesTo(w, j, y, FALSE) /\ f \in Seq(Bytes)
        BY <1>2, <1>3, <1>6, <2>1 DEF NextPiece
    <2>3. PiecesTo(v, j, y, l)
        BY <2>2, PiecesMore
    <2>4. Len(v) = Len(w) + 1
        BY <2>2, PiecesMore
    <2> QED BY <2>1, <2>3, <2>4
<1>8. PiecesTo(v, c.len, y, p = "check" /\ R = Nil /\ Nil = Nil)
    <2>1. (p = "check" /\ R = Nil /\ Nil = Nil) = l
        BY <1>2
    <2> QED BY <1>7, <2>1
<1>9. Len(q) = c.len * Len(v)
    BY <1>2, <1>3, <1>5, <1>7
<1>10. CheckAt(b, c, p, n, 0, Nil, v, y, PP, R, q, Nil, r, q)
    <2>1. Standing(b, PP, R, q, Nil, r, n, 0) /\ q \in Seq(Bytes)
        BY <1>1, <1>2
    <2>2. q ++ Nil = q ++ Nil /\ ~(0 > 0)
        OBVIOUS
    <2> QED BY <1>8, <1>9, <2>1, <2>2, Zenon DEF CheckAt
<1>11. Nil \in Seq(Bytes) /\ Len(Nil) < c.len
    BY NilIs
<1> QED BY <1>2, <1>10, <1>11 DEF CheckPart

\* The piece goes on in the next cluster.
LEMMA CheckCarries ==
    ASSUME NEW b, NEW c, NEW p, NEW cl, NEW o, NEW d, NEW w, NEW y, CheckPart(b, c, p, cl, o, d, w, y), c.len \in Nat, c.len > 0,
           NEW P, NEW R, NEW x, NEW h, NEW t, NEW r, NEW k, CheckFound(b, c, p, cl, o, d, w, y, P, R, x, h, t, r, k),
           Len(d) + Len(t) < c.len, NEW n, n = b.pNext[cl], NEW f, f = d ++ t
    PROVE  CheckPart(b, c, p, n, 0, f, w, y) /\ n \in Units \cup {NULL}
<1>1. PICK q, PP : q = k ++ f /\ PP = P ++ One(cl)
    OBVIOUS
<1>2. /\ Standing(b, P ++ One(cl), R, q, Nil, r, n, 0) /\ n \in Units \cup {NULL} /\ (n = NULL <=> R = Nil)
      /\ (R = Nil => r = Nil /\ b.pLast = cl) /\ b.pStart # NULL
      /\ y = k ++ (f ++ r) /\ f \in Seq(Bytes) /\ Len(f) = Len(d) + Len(t) /\ q \in Seq(Bytes)
    BY <1>1, CheckPasses
<1>3. /\ Len(k) = c.len * Len(w) /\ PiecesTo(w, c.len, y, FALSE) /\ k \in Seq(Bytes)
      /\ d \in Seq(Bytes) /\ h \in Seq(Bytes) /\ t \in Seq(Bytes) /\ r \in Seq(Bytes)
      /\ Opened(b, P, cl, R, x, h, t, r, t ++ r) /\ Len(h) = o /\ (o > 0 => o < Len(b.data[cl]))
    BY DEF CheckFound
<1>4. ~(p = "check" /\ R = Nil /\ f = Nil)
    <2> SUFFICES ASSUME p = "check", R = Nil, f = Nil PROVE FALSE
        OBVIOUS
    <2>1. Len(d) \in Nat /\ Len(t) \in Nat /\ Len(f) = 0 /\ Len(h) \in Nat
        BY <1>2, <1>3, NilIs
    <2>2. Len(t) = 0 /\ r = Nil
        <3>1. Len(f) = Len(d) + Len(t) /\ r = Nil
            BY <1>2
        <3>2. Len(d) + Len(t) = 0
            BY <2>1, <3>1
        <3>3. \A i, j \in Nat : i + j = 0 => j = 0
            OBVIOUS
        <3> QED BY <2>1, <3>1, <3>2, <3>3
    <2>3. t = Nil
        BY <1>3, <2>2, NilIs
    <2>4. y = k
        <3>1. f ++ r = Nil
            BY <1>3, <2>2, JoinNone
        <3> QED BY <1>2, <1>3, <3>1, JoinNone
    <2>5. Len(y) % c.len = 0
        <3>1. Len(w) \in Nat
            BY <1>3 DEF PiecesTo
        <3>2. PICK j \in Nat \ {0}, i \in Nat : j = c.len /\ i = Len(w)
            <4>1. c.len \in Nat \ {0}
                OBVIOUS
            <4> QED BY <3>1, <4>1
        <3>3. PICK s : s = Len(y)
            OBVIOUS
        <3>4. s = i * j + 0 /\ s \in Nat /\ 0 \in 0 .. j - 1
            <4>1. s = j * i
                BY <1>3, <2>4, <3>2, <3>3
            <4> QED BY <4>1
        <3>5. s % j = 0
            <4>1. i \in Int /\ j \in Nat \ {0}
                OBVIOUS
            <4> QED BY <3>4, <4>1, DividedIs
        <3> QED BY <3>2, <3>5, <3>3
    <2>6. Len(b.data[cl]) > 0
        <3>1. Len(b.data[b.pLast]) > 0 \/ Len(y) % c.len # 0
            BY <1>2 DEF CheckPart
        <3> QED BY <1>2, <2>5, <3>1
    <2>7. b.data[cl] = h ++ t
        <3>1. Around(b, P, cl, R, x, h ++ t, r)
            BY <1>3 DEF Opened
        <3> QED BY <3>1 DEF Around
    <2>8. b.data[cl] = h
        BY <1>3, <2>3, <2>7, JoinNone
    <2>9. o \in Nat /\ o > 0 /\ Len(b.data[cl]) = o
        BY <1>3, <2>1, <2>6, <2>8
    <2> QED BY <1>3, <2>9
<1>5. PiecesTo(w, c.len, y, p = "check" /\ R = Nil /\ f = Nil)
    <2>1. (p = "check" /\ R = Nil /\ f = Nil) = FALSE
        BY <1>4
    <2> QED BY <1>3, <2>1
<1>6. q ++ Nil = q
    BY <1>2, JoinNone
<1>7. CheckAt(b, c, p, n, 0, f, w, y, PP, R, q, Nil, r, k)
    BY <1>1, <1>2, <1>3, <1>5, <1>6 DEF CheckAt
<1>8. Len(f) < c.len
    BY <1>2
<1> QED BY <1>2, <1>7, <1>8 DEF CheckPart

\* How far into cluster c the program's buffer, with room for more bytes, reaches.
Reach(b, c, o, room) == Min({o + room, Len(b.data[c])})

\* Of t, as many bytes as there is room for.
Filled(t, u, room) ==
    /\ (room >= Len(t) => u = t)
    /\ (room < Len(t) => \E e \in Seq(Bytes) : t = u ++ e /\ e # Nil /\ Len(u) = room /\ u \in Seq(Bytes))

\* What goes into the program's buffer from one cluster.
LEMMA FilledIs ==
    ASSUME NEW b, NEW P, NEW c, NEW R, NEW x, NEW h, NEW t, NEW r, NEW z, Opened(b, P, c, R, x, h, t, r, z),
           NEW o, Len(h) = o, NEW room \in Nat, NEW u, u = SubSeq(b.data[c], o + 1, Reach(b, c, o, room))
    PROVE  Filled(t, u, room)
<1>1. PICK w : w = h ++ t /\ b.data[c] = w /\ Beyond(w, o) = t
    <2>1. PICK w : w = b.data[c]
        OBVIOUS
    <2>2. w = h ++ t /\ Beyond(w, o) = t
        BY <2>1, OpenedCut
    <2> QED BY <2>1, <2>2
<1>2. h \in Seq(Bytes) /\ t \in Seq(Bytes)
    BY DEF Opened
<1>3. Len(h) \in Nat /\ Len(t) \in Nat /\ Len(w) = o + Len(t) /\ o \in Nat /\ RestOf(b, c, o) = Len(t)
    <2>1. Len(h) \in Nat /\ Len(t) \in Nat
        BY <1>2, NilIs
    <2>2. Len(w) = Len(h) + Len(t)
        BY <1>1, <1>2, JoinLen
    <2> QED BY <1>1, <2>1, <2>2 DEF RestOf
<1>4. PICK m \in Int : m = Min({o + room, Len(w)}) /\ m <= o + room /\ m <= Len(w) /\ (m = o + room \/ m = Len(w))
    <2>1. PICK i \in Int, j \in Int : i = o + room /\ j = Len(w)
        <3>1. o + room \in Int /\ Len(w) \in Int
            BY <1>3
        <3> QED BY <3>1
    <2>2. PICK m : m = Min({i, j})
        OBVIOUS
    <2>3. m \in Int /\ m <= i /\ m <= j /\ (m = i \/ m = j)
        BY <2>2, MinIs
    <2> QED BY <2>1, <2>2, <2>3
<1>5. u = SubSeq(w, o + 1, m)
    BY <1>1, <1>4 DEF Reach
<1>6. ASSUME room >= Len(t) PROVE u = t
    <2>1. m = Len(w)
        BY <1>3, <1>4, <1>6
    <2> QED BY <1>1, <1>5, <2>1 DEF Beyond
<1>7. ASSUME room < Len(t)
      PROVE  \E e \in Seq(Bytes) : t = u ++ e /\ e # Nil /\ Len(u) = room /\ u \in Seq(Bytes)
    <2>1. m = o + room
        BY <1>3, <1>4, <1>7
    <2>2. PICK a, e : a = Upto(t, room) /\ e = Beyond(t, room)
        OBVIOUS
    <2>3. a \in Seq(Bytes) /\ e \in Seq(Bytes) /\ Len(a) = room /\ Len(e) = Len(t) - room /\ t = a ++ e
        <3>1. t \in Seq(Bytes) /\ room \in 0 .. Len(t)
            BY <1>2, <1>3, <1>7
        <3> QED BY <2>2, <3>1, CutHas
    <2>4. SubSeq(h ++ (a ++ e), Len(h) + 1, Len(h) + Len(a)) = a
        <3>1. h \in Seq(Bytes) /\ a \in Seq(Bytes) /\ e \in Seq(Bytes)
            BY <1>2, <2>3
        <3> QED BY <3>1, MiddleIs
    <2>5. u = a
        BY <1>1, <1>5, <2>1, <2>3, <2>4
    <2>6. e # Nil
        <3>1. Len(e) > 0
            BY <1>3, <1>7, <2>3
        <3>2. Len(Nil) = 0
            BY NilIs
        <3> QED BY <3>1, <3>2
    <2> QED BY <2>3, <2>5, <2>6
<1> QED BY <1>6, <1>7 DEF Filled

\* Where the call goes on, in cluster c or behind it.
NextAt(b, c, o, room, n, j) ==
    /\ (room < RestOf(b, c, o) => n = c /\ j = o + room)
    /\ (~(room < RestOf(b, c, o)) => n = b.pNext[c] /\ j = 0)

\* The bytes a step reads and the piece it makes.
CheckGoes(b, c, p, cl, o, d, w, room, u, f, n, j, m, l, v) ==
    /\ room = c.len - Len(d) /\ u = SubSeq(b.data[cl], o + 1, Reach(b, cl, o, room)) /\ f = d ++ u
    /\ NextAt(b, cl, o, room, n, j) /\ m = c.len * Len(w)
    /\ l \in BOOLEAN /\ l = (n = NULL /\ p = "check") /\ v = Append(w, Part(m, f, l))

\* What was filled, and where it goes on, keep the pieces what they have to be.
LEMMA CheckOn ==
    ASSUME NEW b, NEW c, NEW p, NEW cl, NEW o, NEW d, NEW w, NEW y, CheckPart(b, c, p, cl, o, d, w, y), c.len \in Nat, c.len > 0,
           cl # NULL, NEW room, NEW u, NEW f, NEW n, NEW j, NEW m, NEW l, NEW v,
           CheckGoes(b, c, p, cl, o, d, w, room, u, f, n, j, m, l, v), cl \in Units \cup {NULL}
    PROVE  /\ n \in Units \cup {NULL} /\ j \in Nat
           /\ (Len(f) = c.len => CheckPart(b, c, p, n, j, Nil, v, y))
           /\ (Len(f) # c.len => CheckPart(b, c, p, n, j, f, w, y))
<1>0. /\ room = c.len - Len(d) /\ u = SubSeq(b.data[cl], o + 1, Reach(b, cl, o, room)) /\ f = d ++ u
      /\ NextAt(b, cl, o, room, n, j) /\ m = c.len * Len(w)
      /\ l \in BOOLEAN /\ l = (n = NULL /\ p = "check") /\ v = Append(w, Part(m, f, l))
    BY DEF CheckGoes
<1>1. PICK P, R, x, h, t, r, k : CheckFound(b, c, p, cl, o, d, w, y, P, R, x, h, t, r, k)
    BY <1>0, CheckFinds
<1>2. /\ Opened(b, P, cl, R, x, h, t, r, t ++ r) /\ Len(h) = o
      /\ d \in Seq(Bytes) /\ h \in Seq(Bytes) /\ t \in Seq(Bytes) /\ Len(d) < c.len
    BY <1>0, <1>1 DEF CheckFound
<1>3. Len(d) \in Nat /\ room \in Nat /\ Len(t) \in Nat /\ o \in Nat /\ Len(d) + room = c.len
    <2>1. Len(d) \in Nat /\ Len(t) \in Nat /\ Len(h) \in Nat
        BY <1>2, NilIs
    <2>2. room = c.len - Len(d) /\ Len(d) < c.len /\ Len(h) = o
        BY <1>0, <1>2
    <2> QED BY <2>1, <2>2
<1>4. RestOf(b, cl, o) = Len(t)
    BY <1>0, <1>2, OpenedIs
<1>5. PICK z : z = t ++ r
    OBVIOUS
<1>6. Filled(t, u, room)
    <2>1. Opened(b, P, cl, R, x, h, t, r, z)
        BY <1>0, <1>2, <1>5
    <2> QED BY <1>0, <1>2, <1>3, <2>1, FilledIs
<1>7. CASE room < Len(t)
    <2>1. n = cl /\ j = o + room
        BY <1>0, <1>4, <1>7 DEF NextAt
    <2>2. PICK e \in Seq(Bytes) : t = u ++ e /\ e # Nil /\ Len(u) = room /\ u \in Seq(Bytes)
        BY <1>0, <1>6, <1>7 DEF Filled
    <2>3. Len(d) + Len(u) = c.len /\ j = o + Len(u)
        BY <1>0, <1>3, <2>1, <2>2
    <2>4. Len(f) = c.len
        <3>1. d \in Seq(Bytes) /\ u \in Seq(Bytes) /\ f = d ++ u
            BY <1>0, <1>2, <2>2
        <3> QED BY <2>3, <3>1, BytesLen
    <2>5. v = Append(w, Part(m, f, FALSE))
        <3>1. l = FALSE
            BY <1>0, <2>1
        <3> QED BY <1>0, <3>1
    <2>6. FillsUp(c, o, d, t, u, j, f)
        BY <1>0, <2>2, <2>3 DEF FillsUp
    <2>7. CheckPart(b, c, p, cl, j, Nil, v, y)
        BY <1>0, <1>1, <2>5, <2>6, CheckInside
    <2>8. j \in Nat
        <3>1. o + room \in Nat
            BY <1>3
        <3> QED BY <2>1, <3>1
    <2> QED BY <1>0, <2>1, <2>4, <2>7, <2>8
<1>8. ASSUME room >= Len(t) PROVE n = b.pNext[cl] /\ j = 0 /\ u = t /\ f = d ++ t
    <2>1. ~(room < RestOf(b, cl, o))
        BY <1>0, <1>3, <1>4, <1>8
    <2>2. u = t
        BY <1>0, <1>6, <1>8 DEF Filled
    <2> QED BY <1>0, <2>1, <2>2 DEF NextAt
<1>9. CASE room = Len(t)
    <2>1. n = b.pNext[cl] /\ j = 0 /\ u = t /\ f = d ++ t
        BY <1>0, <1>3, <1>8, <1>9
    <2>2. Len(d) + Len(t) = c.len
        BY <1>0, <1>3, <1>9
    <2>3. Len(f) = c.len
        <3>1. d \in Seq(Bytes) /\ t \in Seq(Bytes) /\ f = d ++ t
            BY <1>2, <2>1
        <3> QED BY <2>2, <3>1, BytesLen
    <2>4. CheckPart(b, c, p, n, 0, Nil, v, y) /\ n \in Units \cup {NULL}
        <3>1. n = b.pNext[cl] /\ f = d ++ t
            BY <2>1
        <3>2. l \in BOOLEAN /\ l = (n = NULL /\ p = "check") /\ m = c.len * Len(w) /\ v = Append(w, Part(m, f, l))
            BY <1>0
        <3> QED BY <1>1, <2>2, <3>1, <3>2, CheckOver, Zenon
    <2> QED BY <1>0, <2>1, <2>3, <2>4
<1>10. CASE room > Len(t)
    <2>1. n = b.pNext[cl] /\ j = 0 /\ u = t /\ f = d ++ t
        BY <1>0, <1>3, <1>8, <1>10
    <2>2. Len(d) + Len(t) < c.len
        BY <1>0, <1>3, <1>10
    <2>3. Len(f) # c.len
        <3>1. d \in Seq(Bytes) /\ t \in Seq(Bytes) /\ f = d ++ t
            BY <1>2, <2>1
        <3>2. Len(f) = Len(d) + Len(t) /\ Len(d) \in Nat /\ Len(t) \in Nat
            BY <3>1, BytesLen
        <3> QED BY <2>2, <3>2
    <2>4. CheckPart(b, c, p, n, 0, f, w, y) /\ n \in Units \cup {NULL}
        BY <1>0, <1>1, <2>1, <2>2, CheckCarries
    <2> QED BY <1>0, <2>1, <2>3, <2>4
<1> QED BY <1>0, <1>3, <1>7, <1>9, <1>10

\* As many pieces of n bytes as there are begun by l bytes.
CountOf(l, n) == (l + n - 1) \div n

\* Where piece i ends.
EndOf(n, i, l) == Min({n * i, l})

\* v is all the pieces of n bytes of y, the last one marked when isLast.
AllPieces(v, n, y, isLast) ==
    /\ v \in Seq(Nat \X Seq(Bytes) \X BOOLEAN) /\ Len(v) = CountOf(Len(y), n)
    /\ \A i \in 1 .. Len(v) : v[i] = Part(n * (i - 1), SubSeq(y, n * (i - 1) + 1, EndOf(n, i, Len(y))), isLast /\ i = Len(v))

\* More pieces are not shorter.
LEMMA MoreTimes ==
    \A n, i, j \in Nat : i <= j => n * i <= n * j
<1> SUFFICES ASSUME NEW n \in Nat, NEW i \in Nat, NEW j \in Nat, i <= j
             PROVE  n * i <= n * j
    OBVIOUS
<1>1. PICK k \in Nat : j = i + k
    <2>1. j - i \in Nat /\ j = i + (j - i)
        OBVIOUS
    <2> QED BY <2>1
<1>2. n * k \in Nat /\ n * i \in Nat
    BY OneMore
<1>3. n * j = n * i + n * k
    BY <1>1
<1> QED BY <1>2, <1>3

\* The end of a whole piece.
LEMMA EndIs ==
    ASSUME NEW n \in Nat, NEW i \in Nat, NEW l \in Nat, n * i <= l
    PROVE  EndOf(n, i, l) = n * i
<1>1. PICK a \in Nat : a = n * i
    BY OneMore
<1>2. Min({a, l}) = a
    BY <1>1, MinMax
<1> QED BY <1>1, <1>2 DEF EndOf

\* And of the last, shorter one.
LEMMA EndLast ==
    ASSUME NEW n \in Nat, NEW i \in Nat, NEW l \in Nat, n * i > l
    PROVE  EndOf(n, i, l) = l
<1>1. PICK a \in Nat : a = n * i
    BY OneMore
<1>2. Min({a, l}) = l
    BY <1>1, MinMax
<1> QED BY <1>1, <1>2 DEF EndOf

\* As many pieces as fit exactly, or one more.
LEMMA CountWhole ==
    ASSUME NEW n \in Nat \ {0}, NEW m \in Nat, NEW l, l = n * m
    PROVE  CountOf(l, n) = m
<1>1. PICK a \in Nat : a = l + n - 1 /\ a = m * n + (n - 1)
    <2>1. n * m \in Nat /\ n * m = m * n
        BY OneMore
    <2> QED BY <2>1
<1>2. n - 1 \in 0 .. n - 1 /\ m \in Int
    OBVIOUS
<1>3. a \div n = m
    BY <1>1, <1>2, DividedIs
<1> QED BY <1>1, <1>3 DEF CountOf

\* A rest counts as a piece.
LEMMA CountMore ==
    ASSUME NEW n \in Nat \ {0}, NEW m \in Nat, NEW e \in 1 .. n - 1, NEW l, l = n * m + e
    PROVE  CountOf(l, n) = m + 1
<1>1. PICK a \in Nat : a = l + n - 1 /\ a = (m + 1) * n + (e - 1)
    <2>1. n * m \in Nat /\ n * (m + 1) = n * m + n /\ (m + 1) * n = n * (m + 1)
        BY OneMore
    <2>2. l + n - 1 \in Nat /\ l + n - 1 = n * (m + 1) + (e - 1)
        BY <2>1
    <2> QED BY <2>1, <2>2
<1>2. e - 1 \in 0 .. n - 1 /\ m + 1 \in Int
    OBVIOUS
<1>3. a \div n = m + 1
    BY <1>1, <1>2, DividedIs
<1> QED BY <1>1, <1>3 DEF CountOf

\* The data ends with a full piece.
LEMMA PiecesWhole ==
    ASSUME NEW n \in Nat \ {0}, NEW y, NEW w, NEW g \in BOOLEAN, PiecesTo(w, n, y, g), Len(y) = n * Len(w)
    PROVE  AllPieces(w, n, y, g)
<1>1. /\ w \in Seq(Nat \X Seq(Bytes) \X BOOLEAN) /\ Len(w) \in Nat
      /\ \A i \in 1 .. Len(w) : w[i] = Part(n * (i - 1), SubSeq(y, n * (i - 1) + 1, n * i), g /\ i = Len(w))
    BY DEF PiecesTo
<1>2. Len(w) = CountOf(Len(y), n)
    BY <1>1, CountWhole
<1>3. ASSUME NEW i \in 1 .. Len(w)
      PROVE  EndOf(n, i, Len(y)) = n * i
    <2>1. i \in Nat /\ n \in Nat /\ i <= Len(w)
        BY <1>1
    <2>2. PICK j \in Nat : j = Len(w)
        BY <1>1
    <2>3. n * i <= n * j
        BY <2>1, <2>2, MoreTimes
    <2>4. n * j \in Nat
        BY <2>1, OneMore
    <2>5. n * i <= Len(y) /\ Len(y) \in Nat
        BY <2>2, <2>3, <2>4
    <2> QED BY <2>1, <2>5, EndIs
<1> QED BY <1>1, <1>2, <1>3 DEF AllPieces

\* The data ends with d, less than a piece.
LEMMA PiecesRest ==
    ASSUME NEW n \in Nat \ {0}, NEW k \in Seq(Bytes), NEW d \in Seq(Bytes), NEW y, y = k ++ d, NEW w, NEW g \in BOOLEAN,
           PiecesTo(w, n, y, FALSE), NEW m, m = n * Len(w), Len(k) = m, d # Nil, Len(d) < n, NEW v, v = Append(w, Part(m, d, g))
    PROVE  AllPieces(v, n, y, g)
<1>1. /\ w \in Seq(Nat \X Seq(Bytes) \X BOOLEAN) /\ Len(w) \in Nat
      /\ \A i \in 1 .. Len(w) : w[i] = Part(n * (i - 1), SubSeq(y, n * (i - 1) + 1, n * i), FALSE /\ i = Len(w))
    BY DEF PiecesTo
<1>2. m \in Nat /\ n * (Len(w) + 1) = m + n
    BY <1>1, OneMore
<1>3. Len(d) \in 1 .. n - 1 /\ Len(y) = m + Len(d) /\ Len(y) \in Nat
    <2>1. Len(d) \in Nat /\ Len(d) # 0
        BY NilIs
    <2>2. Len(y) = m + Len(d)
        BY JoinLen
    <2> QED BY <1>2, <2>1, <2>2
<1>4. Part(m, d, g) \in Nat \X Seq(Bytes) \X BOOLEAN
    BY <1>2 DEF Part
<1>5. v \in Seq(Nat \X Seq(Bytes) \X BOOLEAN) /\ Len(v) = Len(w) + 1
    BY <1>1, <1>4
<1>6. Len(v) = CountOf(Len(y), n)
    <2>1. PICK j \in Nat, e \in 1 .. n - 1, l \in Nat : j = Len(w) /\ e = Len(d) /\ l = Len(y)
        BY <1>1, <1>3
    <2>2. l = n * j + e
        BY <1>3, <2>1
    <2>3. CountOf(l, n) = j + 1
        BY <2>2, CountMore
    <2> QED BY <1>5, <2>1, <2>3
<1>7. d = SubSeq(y, m + 1, Len(y))
    <2>1. Beyond(k ++ d, Len(k)) = d
        BY CutJoined
    <2> QED BY <2>1 DEF Beyond
<1>8. ASSUME NEW i \in 1 .. Len(v)
      PROVE  v[i] = Part(n * (i - 1), SubSeq(y, n * (i - 1) + 1, EndOf(n, i, Len(y))), g /\ i = Len(v))
    <2>1. CASE i \in 1 .. Len(w)
        <3>1. v[i] = w[i] /\ i # Len(v) /\ i \in Nat /\ n \in Nat /\ i <= Len(w)
            BY <1>1, <1>5, <2>1
        <3>2. w[i] = Part(n * (i - 1), SubSeq(y, n * (i - 1) + 1, n * i), FALSE)
            BY <1>1, <2>1
        <3>3. (g /\ i = Len(v)) = FALSE
            BY <3>1
        <3>4. n * i <= Len(y)
            <4>1. PICK j \in Nat : j = Len(w)
                BY <1>1
            <4>2. n * i <= n * j
                BY <3>1, <4>1, MoreTimes
            <4>3. n * i \in Nat
                BY <3>1, OneMore
            <4> QED BY <1>2, <1>3, <4>1, <4>2, <4>3
        <3>5. EndOf(n, i, Len(y)) = n * i
            BY <1>3, <3>1, <3>4, EndIs
        <3> QED BY <3>1, <3>2, <3>3, <3>5
    <2>2. CASE i = Len(w) + 1
        <3>1. v[i] = Part(m, d, g)
            BY <1>1, <1>4, <2>2
        <3>2. i - 1 = Len(w) /\ n * (i - 1) = m
            BY <1>1, <2>2
        <3>3. (g /\ i = Len(v)) = g
            BY <1>5, <2>2
        <3>4. EndOf(n, i, Len(y)) = Len(y)
            <4>1. n * i > Len(y) /\ i \in Nat /\ n \in Nat
                BY <1>1, <1>2, <1>3, <2>2
            <4> QED BY <1>3, <4>1, EndLast
        <3> QED BY <1>7, <3>1, <3>2, <3>3, <3>4
    <2> QED BY <1>1, <1>5, <2>1, <2>2
<1> QED BY <1>5, <1>6, <1>8 DEF AllPieces

\* That is what is promised.
LEMMA PiecesPromised ==
    ASSUME NEW n \in Nat \ {0}, NEW y, NEW v, AllPieces(v, n, y, TRUE)
    PROVE  v = Promised!Pieces(y, n)
<1>1. v \in Seq(Nat \X Seq(Bytes) \X BOOLEAN) /\ Len(v) = CountOf(Len(y), n) /\ Len(v) \in Nat
    BY DEF AllPieces
<1>2. v = [i \in 1 .. Len(v) |-> v[i]]
    BY <1>1
<1>3. ASSUME NEW i \in 1 .. Len(v)
      PROVE  v[i] = <<n * (i - 1), SubSeq(y, n * (i - 1) + 1, Min({n * i, Len(y)})), i = Len(v)>>
    BY <1>1 DEF AllPieces, Part, EndOf
<1>4. v = [i \in 1 .. Len(v) |-> <<n * (i - 1), SubSeq(y, n * (i - 1) + 1, Min({n * i, Len(y)})), i = Len(v)>>]
    BY <1>2, <1>3
<1> QED BY <1>1, <1>4 DEF Promised!Pieces, Promised!Min, Min, CountOf

\* The third of three is set.
Third(t, z) == [t EXCEPT ![3] = z]

\* The mark of a piece, replaced.
LEMMA ThirdSet ==
    ASSUME NEW a, NEW b, NEW f, NEW z, NEW t, t = Part(a, b, f)
    PROVE  Third(t, z) = Part(a, b, z)
<1>0. t = <<a, b, f>>
    BY DEF Part
<1>1. DOMAIN t = 1 .. 3 /\ t[1] = a /\ t[2] = b
    BY <1>0
<1>2. PICK g : g = [t EXCEPT ![3] = z]
    OBVIOUS
<1>3. DOMAIN g = 1 .. 3 /\ g = [x \in 1 .. 3 |-> g[x]]
    BY <1>1, <1>2
<1>4. g[3] = z /\ g[1] = a /\ g[2] = b
    BY <1>1, <1>2
<1>5. PICK h : h = <<a, b, z>>
    OBVIOUS
<1>6. DOMAIN h = 1 .. 3 /\ h[1] = a /\ h[2] = b /\ h[3] = z
    BY <1>5
<1>7. h = [x \in 1 .. 3 |-> h[x]]
    BY <1>5
<1>8. \A x \in 1 .. 3 : x = 1 \/ x = 2 \/ x = 3
    OBVIOUS
<1>9. g = h
    BY <1>3, <1>4, <1>6, <1>7, <1>8
<1> QED BY <1>2, <1>5, <1>9 DEF Third, Part

\* Unmarked pieces are the lines promised.
LEMMA LinesPromised ==
    ASSUME NEW n \in Nat \ {0}, NEW y, NEW v, AllPieces(v, n, y, FALSE)
    PROVE  v = [i \in DOMAIN Promised!Pieces(y, n) |-> [Promised!Pieces(y, n)[i] EXCEPT ![3] = FALSE]]
<1>1. v \in Seq(Nat \X Seq(Bytes) \X BOOLEAN) /\ Len(v) = CountOf(Len(y), n) /\ Len(v) \in Nat
    BY DEF AllPieces
<1>2. v = [i \in 1 .. Len(v) |-> v[i]]
    BY <1>1
<1>3. ASSUME NEW i \in 1 .. Len(v)
      PROVE  v[i] = <<n * (i - 1), SubSeq(y, n * (i - 1) + 1, Min({n * i, Len(y)})), FALSE>>
    BY <1>1 DEF AllPieces, Part, EndOf
<1>4. PICK q : q = Promised!Pieces(y, n)
    OBVIOUS
<1>5. q = [i \in 1 .. Len(v) |-> <<n * (i - 1), SubSeq(y, n * (i - 1) + 1, Min({n * i, Len(y)})), i = Len(v)>>]
    BY <1>1, <1>4 DEF Promised!Pieces, Promised!Min, Min, CountOf
<1>6. ASSUME NEW i \in 1 .. Len(v) PROVE v[i] = [q[i] EXCEPT ![3] = FALSE]
    <2>1. PICK a, b, f, t : a = n * (i - 1) /\ b = SubSeq(y, n * (i - 1) + 1, Min({n * i, Len(y)})) /\ t = q[i] /\ t = <<a, b, f>>
        BY <1>5
    <2>2. t = Part(a, b, f)
        BY <2>1 DEF Part
    <2>3. Third(t, FALSE) = Part(a, b, FALSE)
        BY <2>2, ThirdSet
    <2>4. v[i] = Part(a, b, FALSE)
        BY <1>3, <2>1 DEF Part
    <2>5. v[i] = Third(t, FALSE)
        BY <2>3, <2>4
    <2> QED BY <2>1, <2>5 DEF Third
<1>7. DOMAIN q = 1 .. Len(v)
    BY <1>5
<1>8. v = [i \in DOMAIN q |-> [q[i] EXCEPT ![3] = FALSE]]
    BY <1>2, <1>6, <1>7
<1> QED BY <1>4, <1>8

\* A step of a look at the data begins where the last one ended.
LEMMA CheckBegins ==
    ASSUME IInv, pc \in {"check", "lines"}
    PROVE  /\ pc # "idle" /\ Listed(buf) /\ Asked(call) /\ bytes \in Seq(Bytes) /\ call.op = pc
           /\ CheckPart(buf, call, pc, cluster, offset, pData, out, bytes) /\ call.len \in Nat /\ call.len > 0
           /\ cluster \in Units \cup {NULL} /\ remainLen \in 0 .. MaxLen /\ offset \in Nat
<1>1. /\ pc # "idle" /\ Listed(buf) /\ Asked(call) /\ bytes \in Seq(Bytes) /\ remainLen \in 0 .. MaxLen /\ offset \in Nat
      /\ CheckPart(buf, call, pc, cluster, offset, pData, out, bytes) /\ cluster \in Units \cup {NULL}
    BY DEF IInv, Proceeding, Working
<1>2. call.op = pc
    BY <1>1 DEF CheckPart
<1>3. call.len \in 0 .. MaxLen /\ call.len > 0
    BY <1>1, <1>2 DEF Asked
<1> QED BY <1>1, <1>2, <1>3, BufferAssumption

\* What the callback was given in all, when the list is at its end.
AllGiven(c, p, d, w) == IF d = Nil THEN w ELSE Append(w, Part(c.len * Len(w), d, p = "check"))

\* Behind the last cluster all the pieces have been given.
LEMMA CheckGiven ==
    ASSUME NEW b, NEW c, NEW p, NEW o, NEW d, NEW w, NEW y, CheckPart(b, c, p, NULL, o, d, w, y), c.len \in Nat, c.len > 0,
           NEW v, v = AllGiven(c, p, d, w)
    PROVE  AllPieces(v, c.len, y, p = "check")
<1>1. PICK P, Q, x, h, z, k : CheckAt(b, c, p, NULL, o, d, w, y, P, Q, x, h, z, k)
    BY DEF CheckPart
<1>2. /\ k \in Seq(Bytes) /\ Standing(b, P, Q, x, h, z, NULL, o) /\ x ++ h = k ++ d
      /\ Len(k) = c.len * Len(w) /\ PiecesTo(w, c.len, y, p = "check" /\ Q = Nil /\ d = Nil)
    BY <1>1 DEF CheckAt
<1>3. d \in Seq(Bytes) /\ Len(d) < c.len /\ Contents(b) = y
    BY DEF CheckPart
<1>4. Q = Nil /\ z = Nil /\ Contents(b) = (x ++ h) ++ z /\ x ++ h \in Seq(Bytes)
    BY <1>2, StandingIs
<1>5. y = k ++ d
    <2>1. (x ++ h) ++ Nil = x ++ h
        BY <1>4, JoinNone
    <2> QED BY <1>2, <1>3, <1>4, <2>1
<1>6. PICK n \in Nat \ {0}, g \in BOOLEAN : n = c.len /\ g = (p = "check")
    <2>1. c.len \in Nat \ {0} /\ (p = "check") \in BOOLEAN
        OBVIOUS
    <2> QED BY <2>1
<1>7. CASE d = Nil
    <2>1. PiecesTo(w, n, y, g)
        <3>1. (p = "check" /\ Q = Nil /\ d = Nil) = g
            BY <1>4, <1>6, <1>7
        <3> QED BY <1>2, <1>6, <3>1
    <2>2. Len(y) = n * Len(w)
        <3>1. k ++ Nil = k
            BY <1>2, JoinNone
        <3> QED BY <1>2, <1>5, <1>6, <1>7, <3>1
    <2>3. AllPieces(w, n, y, g)
        BY <2>1, <2>2, PiecesWhole
    <2>4. v = w
        BY <1>7 DEF AllGiven
    <2> QED BY <1>6, <2>3, <2>4
<1>8. CASE d # Nil
    <2>1. PiecesTo(w, n, y, FALSE)
        <3>1. (p = "check" /\ Q = Nil /\ d = Nil) = FALSE
            BY <1>8
        <3> QED BY <1>2, <1>6, <3>1
    <2>2. PICK m : m = n * Len(w)
        OBVIOUS
    <2>3. Len(k) = m /\ Len(d) < n
        BY <1>2, <1>3, <1>6, <2>2
    <2>4. v = Append(w, Part(m, d, g))
        BY <1>6, <1>8, <2>2 DEF AllGiven
    <2>5. AllPieces(v, n, y, g)
        BY <1>2, <1>3, <1>5, <1>8, <2>1, <2>2, <2>3, <2>4, PiecesRest
    <2> QED BY <1>6, <2>5
<1> QED BY <1>7, <1>8

\* So a look at the data returns what was promised.
LEMMA CheckEndsKeeps ==
    ASSUME IInv, fault = "none", CheckEnds
    PROVE  Keeps
<1>1. pc \in {"check", "lines"} /\ cluster = NULL /\ buf' = buf
    BY DEF CheckEnds
<1>2. /\ pc # "idle" /\ Listed(buf) /\ Asked(call) /\ bytes \in Seq(Bytes) /\ call.op = pc
      /\ CheckPart(buf, call, pc, NULL, offset, pData, out, bytes) /\ call.len \in Nat /\ call.len > 0
    BY <1>1, CheckBegins
<1>3. PICK v : v = AllGiven(call, pc, pData, out)
    OBVIOUS
<1>4. Return(B!Done(0, v))
    <2>1. (TRUE /\ pc = "check") = (pc = "check")
        OBVIOUS
    <2> QED BY <1>3, <2>1 DEF CheckEnds, AllGiven, Part, Piece, Nil
<1>5. AllPieces(v, call.len, bytes, pc = "check")
    BY <1>2, <1>3, CheckGiven
<1>6. Contents(buf) = bytes /\ Kept(buf, bytes)
    BY <1>2 DEF CheckPart
<1>7. pc' = "idle" /\ reply' = B!Done(0, v)
    BY <1>4 DEF Return
<1>8. Visible' = Visible /\ Visible = bytes
    BY <1>1, <1>2, <1>6, <1>7 DEF Visible
<1>9. PICK n \in Nat \ {0} : n = call.len
    <2>1. call.len \in Nat \ {0}
        BY <1>2
    <2> QED BY <2>1
<1>10. ASSUME pc = "check" PROVE Promised!Effect(call)
    <2>1. AllPieces(v, n, bytes, TRUE)
        BY <1>5, <1>9, <1>10
    <2>2. v = Promised!Pieces(bytes, n)
        BY <2>1, PiecesPromised
    <2>3. Promised!CheckAllData(n)
        BY <1>7, <1>8, <2>2 DEF Promised!CheckAllData, B!Done, Promised!Done
    <2> QED BY <1>2, <1>9, <1>10, <2>3 DEF Promised!Effect
<1>11. ASSUME pc = "lines" PROVE Promised!Effect(call)
    <2>1. AllPieces(v, n, bytes, FALSE)
        BY <1>5, <1>9, <1>11
    <2>2. v = [i \in DOMAIN Promised!Pieces(bytes, n) |-> [Promised!Pieces(bytes, n)[i] EXCEPT ![3] = FALSE]]
        BY <2>1, LinesPromised
    <2>3. Promised!DumpLines(n)
        BY <1>7, <1>8, <2>2 DEF Promised!DumpLines, B!Done, Promised!Done
    <2> QED BY <1>2, <1>9, <1>11, <2>3 DEF Promised!Effect
<1>12. Promised!Effect(call)
    BY <1>1, <1>10, <1>11
<1>13. Listed(buf') /\ Kept(buf', Contents(buf')) /\ StartStays
    BY <1>1, <1>2, <1>6 DEF StartStays
<1> QED BY <1>2, <1>4, <1>12, <1>13, Returned

\* It goes on by one cluster, or by one full buffer.
LEMMA CheckClusterKeeps ==
    ASSUME IInv, fault = "none", CheckCluster
    PROVE  Keeps
<1>1. pc \in {"check", "lines"} /\ cluster # NULL /\ buf' = buf /\ pc' = pc /\ remainLen' = remainLen /\ Continue
    BY DEF CheckCluster
<1>2. /\ pc # "idle" /\ Listed(buf) /\ Asked(call) /\ bytes \in Seq(Bytes) /\ call.op = pc
      /\ CheckPart(buf, call, pc, cluster, offset, pData, out, bytes) /\ call.len \in Nat /\ call.len > 0
      /\ cluster \in Units \cup {NULL} /\ remainLen \in 0 .. MaxLen /\ offset \in Nat
    BY <1>1, CheckBegins
<1>3. PICK room, u, f, n, j, m :
          /\ room = call.len - Len(pData) /\ u = SubSeq(buf.data[cluster], offset + 1, Reach(buf, cluster, offset, room))
          /\ f = pData ++ u /\ m = call.len * Len(out) /\ n = cluster' /\ j = offset'
    OBVIOUS
<1>4. PICK l \in BOOLEAN : l = (n = NULL /\ pc = "check")
    OBVIOUS
<1>5. PICK v : v = Append(out, Part(m, f, l))
    OBVIOUS
<1>6. f = pData \o SubSeq(buf.data[cluster], offset + 1, Min({offset + room, dataLen(cluster)}))
    BY <1>3 DEF Reach, dataLen, ++
<1>7. /\ At(IF room < rest THEN cluster ELSE buf.pNext[cluster], NULL, IF room < rest THEN offset + room ELSE 0)
      /\ IF Len(f) = call.len THEN pData' = Nil /\ out' = v ELSE pData' = f /\ out' = out
    <2>1. /\ At(IF room < rest THEN cluster ELSE buf.pNext[cluster], NULL, IF room < rest THEN offset + room ELSE 0)
          /\ IF Len(f) = call.len
             THEN pData' = <<>> /\ out' = Append(out, Piece(f, (IF room < rest THEN cluster ELSE buf.pNext[cluster]) = NULL))
             ELSE pData' = f /\ UNCHANGED out
        BY <1>3, <1>6 DEF CheckCluster
    <2>2. n = IF room < rest THEN cluster ELSE buf.pNext[cluster]
        BY <1>3, <2>1 DEF At
    <2>3. Piece(f, n = NULL) = Part(m, f, l)
        BY <1>3, <1>4 DEF Piece, Part
    <2> QED BY <1>5, <2>1, <2>2, <2>3 DEF Nil
<1>8. NextAt(buf, cluster, offset, room, n, j) /\ prevCluster' = NULL
    BY <1>3, <1>7 DEF NextAt, At, rest, RestOf, dataLen
<1>9. CheckGoes(buf, call, pc, cluster, offset, pData, out, room, u, f, n, j, m, l, v)
    BY <1>3, <1>4, <1>5, <1>8 DEF CheckGoes
<1>10. n \in Units \cup {NULL} /\ j \in Nat
    BY <1>1, <1>2, <1>9, CheckOn
<1>11. CheckPart(buf, call, pc, n, j, pData', out', bytes)
    <2>1. CASE Len(f) = call.len
        <3>1. CheckPart(buf, call, pc, n, j, Nil, v, bytes)
            BY <1>1, <1>2, <1>9, <2>1, CheckOn
        <3> QED BY <1>7, <2>1, <3>1
    <2>2. CASE Len(f) # call.len
        <3>1. CheckPart(buf, call, pc, n, j, f, out, bytes)
            BY <1>1, <1>2, <1>9, <2>2, CheckOn
        <3> QED BY <1>7, <2>2, <3>1
    <2> QED BY <2>1, <2>2
<1>12. CheckPart(buf', call, pc, cluster', offset', pData', out', bytes)
    BY <1>1, <1>3, <1>11
<1>13. Working'
    BY <1>1, <1>12 DEF Working, Continue
<1>14. StartStays /\ Listed(buf')
    BY <1>1, <1>2 DEF StartStays
<1> QED BY <1>1, <1>2, <1>3, <1>8, <1>10, <1>13, <1>14, Continued

-----------------------------------------------------------------------------
(* _buffer_dump_to_file                                                     *)

\* What a step of the dump finds.
LEMMA FileBegins ==
    ASSUME IInv, pc = "file"
    PROVE  /\ pc # "idle" /\ Listed(buf) /\ bytes \in Seq(Bytes) /\ call.op = "file" /\ Contents(buf) = bytes /\ Kept(buf, bytes)
           /\ FilePart(buf, call, cluster, out, bytes) /\ remainLen \in 0 .. MaxLen
<1>1. /\ pc # "idle" /\ Listed(buf) /\ bytes \in Seq(Bytes) /\ remainLen \in 0 .. MaxLen
      /\ FilePart(buf, call, cluster, out, bytes)
    BY DEF IInv, Proceeding, Working
<1> QED BY <1>1 DEF FilePart

\* All of a cluster is written.
LEMMA FileOn ==
    ASSUME NEW b, NEW c, NEW cl, NEW w, NEW y, FilePart(b, c, cl, w, y), cl # NULL,
           NEW v, v = w ++ b.data[cl], NEW n, n = b.pNext[cl]
    PROVE  FilePart(b, c, n, v, y) /\ n \in Units \cup {NULL}
<1>1. PICK P, Q, z : Stands(b, P, Q, w, z) /\ cl = HeadOr(Q, NULL)
    BY DEF FilePart
<1>2. c.op = "file" /\ Contents(b) = y /\ Kept(b, y)
    BY DEF FilePart
<1>3. Q # Nil
    BY <1>1 DEF HeadOr
<1>4. PICK R, d, r : Around(b, P, cl, R, w, d, r)
    BY <1>1, <1>3, StandsOpen
<1>5. n = HeadOr(R, NULL) /\ HeadOr(R, NULL) \in Units \cup {NULL}
    BY <1>4, AroundIs
<1>6. Stands(b, P ++ One(cl), R, w ++ d, r)
    BY <1>4, AroundIs
<1>7. d = b.data[cl]
    BY <1>4 DEF Around
<1> QED BY <1>2, <1>5, <1>6, <1>7 DEF FilePart

\* The result of the dump, which leaves the bytes as they are.
LEMMA FileEffect ==
    ASSUME IInv, pc = "file", NEW r, Return(r), buf' = buf, r = B!Done(0, bytes) \/ r = B!Failed("system")
    PROVE  Promised!Effect(call)
<1>1. pc # "idle" /\ Contents(buf) = bytes /\ call.op = "file"
    BY FileBegins
<1>2. pc' = "idle" /\ reply' = r
    BY DEF Return
<1>3. Visible' = Visible /\ Visible = bytes
    BY <1>1, <1>2 DEF Visible
<1>4. Promised!DumpFile
    BY <1>2, <1>3 DEF Promised!DumpFile, B!Done, Promised!Done, B!Failed, Promised!Failed
<1> QED BY <1>1, <1>4 DEF Promised!Effect

\* A dump returns with all bytes written, or with an error.
LEMMA FileReturns ==
    ASSUME IInv, fault = "none", pc = "file", NEW r, Return(r), buf' = buf, r = B!Done(0, bytes) \/ r = B!Failed("system")
    PROVE  Keeps
<1>1. pc # "idle" /\ Listed(buf) /\ Contents(buf) = bytes /\ Kept(buf, bytes)
    BY FileBegins
<1>2. Promised!Effect(call)
    BY FileEffect
<1>3. Listed(buf') /\ Kept(buf', Contents(buf')) /\ StartStays
    BY <1>1 DEF StartStays
<1> QED BY <1>1, <1>2, <1>3, Returned

\* A dump that fails says so.
LEMMA DumpFailsKeeps ==
    ASSUME IInv, fault = "none", DumpFails
    PROVE  Keeps
<1>1. pc = "file" /\ Return(B!Failed("system")) /\ buf' = buf
    BY DEF DumpFails
<1> QED BY <1>1, FileReturns

\* Behind the last cluster all bytes have been written.
LEMMA DumpEndsKeeps ==
    ASSUME IInv, fault = "none", DumpEnds
    PROVE  Keeps
<1>1. pc = "file" /\ cluster = NULL /\ Return(B!Done(0, out)) /\ buf' = buf
    BY DEF DumpEnds
<1>2. FilePart(buf, call, cluster, out, bytes)
    BY <1>1, FileBegins
<1>3. PICK P, Q, z : Stands(buf, P, Q, out, z) /\ NULL = HeadOr(Q, NULL) /\ Contents(buf) = bytes
    BY <1>1, <1>2 DEF FilePart
<1>4. out \in Seq(Bytes) /\ Contents(buf) = out ++ z /\ z = Nil
    BY <1>3, StandsIs
<1>5. out = bytes
    BY <1>3, <1>4, JoinNone
<1> QED BY <1>1, <1>5, FileReturns

\* A program that is careful has its files take all they are given.
LEMMA DumpClusterKeeps ==
    ASSUME IInv, Careful = TRUE, fault = "none", DumpCluster
    PROVE  Keeps
<1>1. /\ pc = "file" /\ cluster # NULL /\ At(buf.pNext[cluster], NULL, 0) /\ buf' = buf /\ pc' = pc /\ remainLen' = remainLen
      /\ Continue /\ out' = out \o SubSeq(buf.data[cluster], 1, dataLen(cluster))
    BY DEF DumpCluster
<1>2. /\ pc # "idle" /\ Listed(buf) /\ FilePart(buf, call, cluster, out, bytes) /\ remainLen \in 0 .. MaxLen
    BY <1>1, FileBegins
<1>3. out' = out ++ buf.data[cluster]
    <2>1. PICK P, Q, z : Stands(buf, P, Q, out, z) /\ cluster = HeadOr(Q, NULL)
        BY <1>2 DEF FilePart
    <2>2. Q # Nil
        BY <1>1, <2>1 DEF HeadOr
    <2>3. PICK R, d, r : Around(buf, P, cluster, R, out, d, r)
        BY <2>1, <2>2, StandsOpen
    <2>4. d \in Seq(Bytes)
        BY <2>3, AroundIs
    <2>5. d = buf.data[cluster]
        BY <2>3 DEF Around
    <2>6. SubSeq(d, 1, Len(d)) = d
        BY <2>4
    <2> QED BY <1>1, <2>5, <2>6 DEF dataLen, ++
<1>4. FilePart(buf, call, buf.pNext[cluster], out', bytes) /\ buf.pNext[cluster] \in Units \cup {NULL}
    BY <1>1, <1>2, <1>3, FileOn
<1>5. FilePart(buf', call, cluster', out', bytes) /\ cluster' \in Units \cup {NULL} /\ prevCluster' = NULL /\ offset' = 0
    BY <1>1, <1>4 DEF At
<1>6. Working'
    BY <1>1, <1>5 DEF Working, Continue
<1>7. StartStays /\ Listed(buf')
    BY <1>1, <1>2 DEF StartStays
<1> QED BY <1>1, <1>2, <1>5, <1>6, <1>7, Continued

-----------------------------------------------------------------------------
(* Calls                                                                    *)

\* Between two calls.
LEMMA IdleIs ==
    ASSUME IInv, Idle
    PROVE  /\ pc = "idle" /\ call = NoCall /\ reply = NoReply /\ fault = "none" /\ Listed(buf) /\ buf \in Buffers
           /\ Kept(buf, Contents(buf)) /\ Contents(buf) \in Seq(Bytes) /\ Len(Contents(buf)) \in 0 .. Most /\ Most \in Nat
           /\ (first = NoCall \/ first = buf.pStart)
<1>1. /\ pc = "idle" /\ call = NoCall /\ reply = NoReply /\ fault = "none" /\ Listed(buf) /\ buf \in Buffers
      /\ Kept(buf, Contents(buf)) /\ (first = NoCall \/ first = buf.pStart)
    BY DEF IInv, Proceeding, Idle, Listed
<1>2. PICK s : Linked(buf, s)
    BY <1>1 DEF Listed
<1> QED BY <1>1, <1>2, ContentsIs, ContentsLen

\* The arguments of a call.
Arguments(op, o, n, d) ==
    /\ op \in Names
    /\ o \in Nat /\ n \in 0 .. MaxLen /\ d \in Seq(Bytes)
    /\ (op \in {"append", "insert"} => d # Nil) /\ (op \in {"delete", "read", "take", "check", "lines"} => n > 0)

\* A call with these arguments is one the program may ask for.
LEMMA AskedIs ==
    ASSUME NEW op, NEW o, NEW n, NEW d, Arguments(op, o, n, d), NEW c, c = Request(op, o, n, d)
    PROVE  Asked(c) /\ c.op = op /\ c.data = d
<1>0. /\ op \in Names
      /\ o \in Nat /\ n \in 0 .. MaxLen /\ d \in Seq(Bytes)
      /\ (op \in {"append", "insert"} => d # Nil) /\ (op \in {"delete", "read", "take", "check", "lines"} => n > 0)
    BY DEF Arguments
<1>1. c.op = op /\ c.offset = o /\ c.len = n /\ c.data = d
    BY DEF Request
<1>2. Bytes \subseteq Nat
    BY DEF Bytes
<1>3. d \in Seq(Nat)
    <2>1. d = [i \in 1 .. Len(d) |-> d[i]] /\ Len(d) \in Nat /\ \A i \in 1 .. Len(d) : d[i] \in Bytes
        BY <1>0
    <2>2. d \in [1 .. Len(d) -> Nat]
        BY <1>2, <2>1
    <2> QED BY <2>1, <2>2
<1>4. n \in Nat
    <2>1. MaxLen \in Nat
        BY BufferAssumption
    <2> QED BY <1>0, <2>1
<1>5. c \in AllCalls
    BY <1>0, <1>3, <1>4 DEF AllCalls, Request
<1> QED BY <1>0, <1>1, <1>5 DEF Asked

\* The data of a request: some bytes, named by the places behind the contents.
LEMMA GivenIs ==
    ASSUME IInv, Idle, NEW d \in Given
    PROVE  d \in Seq(Bytes) /\ d # Nil
<1>1. PICK n \in Lengths : d = [i \in 1 .. n |-> Len(Contents(buf)) + i]
    BY DEF Given
<1>2. PICK l \in Nat : l = Len(Contents(buf)) /\ l <= Most /\ Most \in Nat
    <2>1. Len(Contents(buf)) \in 0 .. Most /\ Most \in Nat
        BY IdleIs
    <2> QED BY <2>1
<1>3. n \in Nat /\ n > 0 /\ n <= MaxLen /\ MaxLen \in Nat
    BY BufferAssumption DEF Lengths
<1>4. \A i \in 1 .. n : l + i \in Bytes
    <2>1. Bytes = 0 .. Most + MaxLen
        BY DEF Bytes, Most
    <2> QED BY <1>2, <1>3, <2>1
<1>5. d \in [1 .. n -> Bytes]
    BY <1>1, <1>2, <1>4
<1>6. d \in Seq(Bytes) /\ Len(d) = n
    BY <1>3, <1>5
<1>7. d # Nil
    BY <1>3, <1>6, NilIs
<1> QED BY <1>6, <1>7

\* What requests are.
LEMMA RequestIs ==
    ASSUME IInv, Idle, NEW c \in Requests
    PROVE  Asked(c) /\ (c.op \notin {"append", "insert"} => c.data = Nil)
<1>1. Nil \in Seq(Bytes) /\ Nil = <<>> /\ 0 \in Nat /\ 0 \in 0 .. MaxLen
    BY NilIs, BufferAssumption DEF Nil
<1>2. ASSUME NEW n \in Lengths PROVE n \in 0 .. MaxLen /\ n > 0
    BY BufferAssumption DEF Lengths
<1>3. ASSUME NEW o \in Offsets PROVE o \in Nat
    <2>1. Len(Contents(buf)) \in Nat
        BY IdleIs
    <2> QED BY <2>1 DEF Offsets
<1>4. CASE c \in {Request("append", 0, 0, d) : d \in Given}
    <2>1. PICK d \in Given : c = Request("append", 0, 0, d)
        BY <1>4
    <2>2. d \in Seq(Bytes) /\ d # Nil
        BY GivenIs
    <2>3. Arguments("append", 0, 0, d)
        BY <1>1, <2>2 DEF Arguments, Names
    <2> QED BY <2>1, <2>3, AskedIs
<1>5. CASE c \in {Request("insert", o, 0, d) : o \in Offsets, d \in Given}
    <2>1. PICK o \in Offsets, d \in Given : c = Request("insert", o, 0, d)
        BY <1>5
    <2>2. d \in Seq(Bytes) /\ d # Nil /\ o \in Nat
        BY <1>3, GivenIs
    <2>3. Arguments("insert", o, 0, d)
        BY <1>1, <2>2 DEF Arguments, Names
    <2> QED BY <2>1, <2>3, AskedIs
<1>6. CASE c \in {Request(op, o, n, <<>>) : op \in {"delete", "read", "take"}, o \in Offsets, n \in Lengths}
    <2>1. PICK op \in {"delete", "read", "take"}, o \in Offsets, n \in Lengths : c = Request(op, o, n, Nil)
        BY <1>1, <1>6
    <2>2. o \in Nat /\ n \in 0 .. MaxLen /\ n > 0
        BY <1>2, <1>3
    <2>3. Arguments(op, o, n, Nil)
        BY <1>1, <2>2 DEF Arguments, Names
    <2>4. Asked(c) /\ c.data = Nil
        BY <2>1, <2>3, AskedIs
    <2> QED BY <2>4
<1>7. CASE c \in {Request(op, 0, n, <<>>) : op \in {"check", "lines"}, n \in Lengths}
    <2>1. PICK op \in {"check", "lines"}, n \in Lengths : c = Request(op, 0, n, Nil)
        BY <1>1, <1>7
    <2>2. n \in 0 .. MaxLen /\ n > 0
        BY <1>2
    <2>3. Arguments(op, 0, n, Nil)
        BY <1>1, <2>2 DEF Arguments, Names
    <2>4. Asked(c) /\ c.data = Nil
        BY <2>1, <2>3, AskedIs
    <2> QED BY <2>4
<1>8. CASE c \in {Request(op, 0, 0, <<>>) : op \in {"file", "defragment"}}
    <2>1. PICK op \in {"file", "defragment"} : c = Request(op, 0, 0, Nil)
        BY <1>1, <1>8
    <2>2. Arguments(op, 0, 0, Nil)
        BY <1>1 DEF Arguments, Names
    <2>3. Asked(c) /\ c.data = Nil
        BY <2>1, <2>2, AskedIs
    <2> QED BY <2>3
<1> QED BY <1>4, <1>5, <1>6, <1>7, <1>8 DEF Requests

\* A call is made, and its first step finds what it needs.
LEMMA Begun ==
    ASSUME IInv, Idle, NEW c, Asked(c), call' = c, bytes' = Contents(buf), pc' = c.op, UNCHANGED <<buf, reply, first, fault>>,
           cluster' \in Units \cup {NULL}, prevCluster' \in Units \cup {NULL}, offset' \in Nat, remainLen' \in 0 .. MaxLen,
           first # NoCall => KeepsStart(c), Working'
    PROVE  Keeps
<1>1. /\ pc = "idle" /\ call = NoCall /\ reply = NoReply /\ fault = "none" /\ Listed(buf) /\ Contents(buf) \in Seq(Bytes)
      /\ (first = NoCall \/ first = buf.pStart)
    BY IdleIs
<1>2. pc' # "idle" /\ c \in AllCalls
    BY DEF Asked, Names
<1>3. Proceeding'
    BY <1>1 DEF Proceeding
<1>4. IInv'
    BY <1>1, <1>2, <1>3 DEF IInv, KeepsStart
<1>5. Visible = Contents(buf) /\ Visible' = Contents(buf)
    BY <1>1, <1>2 DEF Visible
<1>6. Promised!Invoke
    BY <1>1, <1>2, <1>5 DEF Promised!Invoke, Promised!Idle
<1> QED BY <1>4, <1>6 DEF Keeps, Promised!Next

\* What a call finds at its offset.
Stood(b, o, at, y, P, Q, x, h, z, k) ==
    /\ Standing(b, P, Q, x, h, z, at.cluster, at.offset) /\ at.prev = End(P) /\ x ++ h = k
    /\ k \in Seq(Bytes) /\ z \in Seq(Bytes) /\ h \in Seq(Bytes) /\ x \in Seq(Bytes) /\ y = k ++ z
    /\ (o <= Len(y) => Len(k) = o) /\ (o > Len(y) => Q = Nil) /\ (Q = Nil => z = Nil) /\ (at.cluster = NULL <=> Q = Nil)
    /\ at.cluster \in Units \cup {NULL} /\ at.prev \in Units \cup {NULL} /\ at.offset \in Nat
    /\ (o = 0 => P = Nil) /\ (o > 0 => at.offset > 0) /\ (P = Nil => x = Nil) /\ (b.pStart = NULL => Q = Nil)

\* Every offset is at such a place.
LEMMA StoodIs ==
    ASSUME NEW b, Listed(b), NEW o \in Nat, NEW at, at = Locate(b, o), NEW y, y = Contents(b)
    PROVE  \E P, Q, x, h, z, k : Stood(b, o, at, y, P, Q, x, h, z, k)
<1>1. PICK s : b \in Buffers /\ Linked(b, s)
    BY DEF Listed
<1>2. PICK P, Q, x, h, z : Placed(b, o, at, P, Q, x, h, z)
    BY <1>1, PlacedIs
<1>3. /\ Standing(b, P, Q, x, h, z, at.cluster, at.offset) /\ at.prev = End(P) /\ at.offset \in Nat
      /\ (o <= Len(y) => Len(x ++ h) = o) /\ (o > Len(y) => Q = Nil)
      /\ (o = 0 => P = Nil) /\ (o > 0 => at.offset > 0)
    BY <1>2 DEF Placed
<1>4. /\ x \in Seq(Bytes) /\ h \in Seq(Bytes) /\ z \in Seq(Bytes) /\ x ++ h \in Seq(Bytes)
      /\ Contents(b) = (x ++ h) ++ z /\ (P = Nil => x = Nil)
      /\ (Q = Nil => h = Nil /\ z = Nil) /\ (at.cluster = NULL <=> Q = Nil)
      /\ at.cluster \in Units \cup {NULL} /\ End(P) \in Units \cup {NULL} /\ (b.pStart = NULL <=> P ++ Q = Nil)
    BY <1>3, StandingIs
<1>5. P ++ Q = Nil => Q = Nil
    <2>1. P \in Seq(Units) /\ Q \in Seq(Units)
        BY <1>3 DEF Standing, Stands
    <2> QED BY <2>1, JoinNotNil
<1>6. PICK k : k = x ++ h
    OBVIOUS
<1>7. Stood(b, o, at, y, P, Q, x, h, z, k)
    BY <1>3, <1>4, <1>5, <1>6 DEF Stood
<1> QED BY <1>7

\* An append has all of its data before it.
LEMMA AppendStart ==
    ASSUME NEW c, Asked(c), c.op = "append", NEW b, NEW y \in Seq(Bytes), y = Contents(b)
    PROVE  AppendPart(b, c, "append", c.data, y)
<1>1. c.data \in Seq(Bytes) /\ c.data # Nil
    BY DEF Asked
<1>2. Nil \in Seq(Bytes) /\ y = y ++ Nil /\ c.data = Nil ++ c.data
    BY <1>1, NilIs, JoinNone
<1> QED BY <1>1, <1>2 DEF AppendPart

\* So has an insertion.
LEMMA InsertStart ==
    ASSUME NEW b, Listed(b), NEW c, Asked(c), c.op = "insert", NEW at, at = Locate(b, c.offset), NEW y, y = Contents(b),
           NEW d, d = c.data, at.cluster = NULL \/ InsertFits(at.offset, Len(b.data[at.cluster]), Len(d))
    PROVE  /\ InsertPart(b, c, at.cluster, at.prev, at.offset, d, y)
           /\ at.cluster \in Units \cup {NULL} /\ at.prev \in Units \cup {NULL} /\ at.offset \in Nat
<1>1. c.data \in Seq(Bytes) /\ c.offset \in Nat
    BY DEF Asked
<1>2. PICK P, Q, x, h, z, k : Stood(b, c.offset, at, y, P, Q, x, h, z, k)
    BY <1>1, StoodIs
<1>3. /\ Standing(b, P, Q, x, h, z, at.cluster, at.offset) /\ at.prev = End(P) /\ x ++ h = k
      /\ k \in Seq(Bytes) /\ y = k ++ z
      /\ (c.offset <= Len(y) => Len(k) = c.offset) /\ (c.offset > Len(y) => z = Nil) /\ (at.cluster = NULL <=> Q = Nil)
      /\ at.cluster \in Units \cup {NULL} /\ at.prev \in Units \cup {NULL} /\ at.offset \in Nat
    BY <1>2 DEF Stood
<1>4. Nil \in Seq(Bytes) /\ k = k ++ Nil /\ c.data = Nil ++ d
    BY <1>1, <1>3, NilIs, JoinNone
<1>5. InsertedAt(b, c, at.cluster, at.prev, at.offset, d, y, P, Q, x, h, z, k, Nil)
    BY <1>3, <1>4 DEF InsertedAt
<1> QED BY <1>1, <1>3, <1>5 DEF InsertPart

\* A deletion has all that is to be deleted before it.
LEMMA DeleteStart ==
    ASSUME NEW b, Listed(b), NEW c, Asked(c), c.op = "delete", NEW at, at = Locate(b, c.offset), NEW y, y = Contents(b), Kept(b, y),
           NEW m \in Nat, c.offset > Len(y) \/ (c.offset + c.len <= Len(y) /\ c.len < Len(y) /\ m = c.len)
    PROVE  /\ DeletePart(b, c, "delete", at.cluster, at.prev, at.offset, m, y)
           /\ at.cluster \in Units \cup {NULL} /\ at.prev \in Units \cup {NULL} /\ at.offset \in Nat
<1>1. c.offset \in Nat
    BY DEF Asked
<1>2. PICK P, Q, x, h, z, k : Stood(b, c.offset, at, y, P, Q, x, h, z, k)
    BY <1>1, StoodIs
<1>3. /\ Standing(b, P, Q, x, h, z, at.cluster, at.offset) /\ at.prev = End(P) /\ x ++ h = k
      /\ k \in Seq(Bytes) /\ z \in Seq(Bytes) /\ y = k ++ z
      /\ (c.offset <= Len(y) => Len(k) = c.offset)
      /\ at.cluster \in Units \cup {NULL} /\ at.prev \in Units \cup {NULL} /\ at.offset \in Nat
    BY <1>2 DEF Stood
<1>4. y \in Seq(Bytes)
    BY <1>3, JoinLen
<1>5. CASE c.offset > Len(y)
    BY <1>3, <1>4, <1>5 DEF DeletePart
<1>6. CASE c.offset + c.len <= Len(y) /\ c.len < Len(y) /\ m = c.len
    <2>1. Nil \in Seq(Bytes) /\ Nil ++ z = z /\ Len(Nil) = 0
        BY <1>3, NilIs, JoinNone
    <2>2. c.offset <= Len(y)
        <3>1. c.len \in Nat /\ Len(y) \in Nat
            BY <1>4, <1>6, NilIs
        <3> QED BY <1>1, <1>6, <3>1
    <2>3. Len(k) = c.offset /\ Len(Nil) + m = c.len /\ y = k ++ (Nil ++ z)
        BY <1>3, <1>6, <2>1, <2>2
    <2>4. DeleteOn(b, c, at.cluster, at.prev, at.offset, m, y)
        BY <1>3, <2>1, <2>3 DEF DeleteOn
    <2> QED BY <1>3, <1>4, <1>6, <2>4 DEF DeletePart
<1> QED BY <1>5, <1>6

\* What a removal has to have before it.
TakeFits(b, o, n, at, l) ==
    \/ o >= l
    \/ o = 0 /\ n < l
    \/ o > 0 /\ n > Len(b.data[at.cluster]) - at.offset /\ o + n # l

\* Then it does not end where the list does, leaves something of the list, and, when it begins
\* inside a cluster, goes beyond that one.
TakeRuns(b, at, P, z, n) ==
    /\ n # Len(z) /\ (P = Nil /\ at.offset = 0 => n < Len(z))
    /\ (at.offset > 0 => n > Len(b.data[at.cluster]) - at.offset)

\* The condition on a removal is what TakeRuns asks for.
LEMMA TakeStart ==
    ASSUME NEW b, NEW o \in Nat, NEW at, NEW y, NEW P, NEW Q, NEW x, NEW h, NEW z, NEW k, Stood(b, o, at, y, P, Q, x, h, z, k), Kept(b, y),
           NEW n \in Nat, n > 0, TakeFits(b, o, n, at, Len(y)), Q # Nil
    PROVE  TakeRuns(b, at, P, z, n)
<1>1. /\ Standing(b, P, Q, x, h, z, at.cluster, at.offset) /\ x ++ h = k
      /\ k \in Seq(Bytes) /\ z \in Seq(Bytes) /\ h \in Seq(Bytes) /\ x \in Seq(Bytes) /\ y = k ++ z
      /\ (o <= Len(y) => Len(k) = o) /\ (o > Len(y) => Q = Nil) /\ at.cluster # NULL
      /\ at.offset \in Nat /\ (o > 0 => at.offset > 0)
    BY DEF Stood
<1>2. PICK R, t, r : Opened(b, P, at.cluster, R, x, h, t, r, z) /\ Len(h) = at.offset
    BY <1>1, StandingOpen
<1>3. /\ RestOf(b, at.cluster, at.offset) = Len(t) /\ Len(t) \in Nat /\ Len(h) \in Nat
    BY <1>2, OpenedIs
<1>4. t \in Seq(Bytes) /\ r \in Seq(Bytes) /\ z = t ++ r
    BY <1>2 DEF Opened
<1>5. Len(b.data[at.cluster]) - at.offset = Len(t)
    BY <1>3 DEF RestOf
<1>6. Len(z) = Len(t) + Len(r) /\ Len(r) \in Nat /\ Len(y) = Len(k) + Len(z) /\ Len(z) \in Nat /\ Len(k) \in Nat
    BY <1>1, <1>4, JoinLen, NilIs
<1>7. o <= Len(y) /\ Len(k) = o
    <2>1. ~(o > Len(y))
        BY <1>1
    <2>2. o <= Len(y)
        BY <1>6, <2>1
    <2> QED BY <1>1, <2>2
<1>8. o = 0 => at.offset = 0
    <2>1. Len(x ++ h) = Len(x) + Len(h) /\ Len(x) \in Nat
        BY <1>1, JoinLen, NilIs
    <2> QED BY <1>1, <1>2, <1>3, <1>7, <2>1
<1>9. CASE o >= Len(y)
    <2>1. Len(z) = 0 /\ Len(t) = 0
        BY <1>3, <1>6, <1>7, <1>9
    <2>2. o > 0
        <3>1. y # Nil
            <4>1. b.pStart # NULL
                BY DEF Stood
            <4> QED BY <4>1 DEF Kept
        <3>2. y \in Seq(Bytes)
            BY <1>1, JoinLen
        <3>3. Len(y) # 0
            BY <3>1, <3>2, NilIs
        <3> QED BY <1>6, <1>7, <1>9, <3>3
    <2>3. at.offset > 0 /\ at.offset # 0
        BY <1>1, <2>2
    <2>4. n > Len(t) /\ n # Len(z)
        BY <2>1
    <2> QED BY <1>5, <2>3, <2>4 DEF TakeRuns
<1>10. CASE o = 0 /\ n < Len(y)
    <2>1. Len(z) = Len(y)
        BY <1>6, <1>7, <1>10
    <2>2. n < Len(z) /\ n # Len(z)
        BY <1>6, <1>10, <2>1
    <2>3. ~(at.offset > 0)
        BY <1>8, <1>10
    <2> QED BY <2>2, <2>3 DEF TakeRuns
<1>11. CASE o > 0 /\ n > Len(b.data[at.cluster]) - at.offset /\ o + n # Len(y)
    <2>1. at.offset > 0 /\ at.offset # 0
        BY <1>1, <1>11
    <2>2. n # Len(z)
        BY <1>6, <1>7, <1>11
    <2> QED BY <1>11, <2>1, <2>2 DEF TakeRuns
<1> QED BY <1>9, <1>10, <1>11 DEF TakeFits

\* A read has all that is to be read before it.
LEMMA ReadStart ==
    ASSUME NEW b, Listed(b), NEW c, Asked(c), NEW p, p \in {"read", "take"}, c.op = p, NEW at, at = Locate(b, c.offset),
           NEW y, y = Contents(b), Kept(b, y), p = "take" => TakeFits(b, c.offset, c.len, at, Len(y)), NEW m, m = c.len
    PROVE  /\ ReadingPart(b, c, p, at.cluster, at.prev, at.offset, m, Nil, y)
           /\ at.cluster \in Units \cup {NULL} /\ at.prev \in Units \cup {NULL} /\ at.offset \in Nat
<1>1. c.offset \in Nat /\ m \in Nat /\ m > 0
    BY BufferAssumption DEF Asked
<1>2. PICK P, Q, x, h, z, k : Stood(b, c.offset, at, y, P, Q, x, h, z, k)
    BY <1>1, StoodIs
<1>3. /\ Standing(b, P, Q, x, h, z, at.cluster, at.offset) /\ at.prev = End(P) /\ x ++ h = k
      /\ k \in Seq(Bytes) /\ z \in Seq(Bytes) /\ y = k ++ z
      /\ (c.offset <= Len(y) => Len(k) = c.offset) /\ (c.offset > Len(y) => Q = Nil)
      /\ at.cluster \in Units \cup {NULL} /\ at.prev \in Units \cup {NULL} /\ at.offset \in Nat
    BY <1>2 DEF Stood
<1>4. Nil \in Seq(Bytes) /\ Nil ++ z = z /\ Len(Nil) = 0 /\ k ++ Nil = k /\ Len(Nil) + m = c.len
    BY <1>1, <1>3, NilIs, JoinNone
<1>5. ASSUME p = "take", Q # Nil
      PROVE  /\ m # Len(z) /\ (P = Nil /\ at.offset = 0 => m < Len(z))
             /\ (at.offset > 0 => m > Len(b.data[at.cluster]) - at.offset)
    <2>1. TakeFits(b, c.offset, m, at, Len(y))
        BY <1>5
    <2>2. TakeRuns(b, at, P, z, m)
        BY <1>1, <1>2, <1>5, <2>1, TakeStart
    <2> QED BY <2>2 DEF TakeRuns
<1>6. ReadAt(b, c, p, at.cluster, at.prev, at.offset, m, Nil, y, P, Q, x, h, z, k)
    BY <1>3, <1>4, <1>5 DEF ReadAt
<1>7. ASSUME p = "take", c.offset = 0 PROVE y = Nil \/ c.len < Len(y)
    <2>1. y \in Seq(Bytes)
        BY <1>3, JoinLen
    <2>2. Len(y) \in Nat /\ (Len(y) = 0 <=> y = Nil)
        BY <2>1, NilIs
    <2> QED BY <1>7, <2>2 DEF TakeFits
<1> QED BY <1>1, <1>3, <1>4, <1>6, <1>7 DEF ReadingPart

\* The list from its start.
LEMMA StartStands ==
    ASSUME NEW b, b \in Buffers, NEW s, Linked(b, s), NEW y, y = Contents(b)
    PROVE  /\ Stands(b, Nil, s, Nil, y) /\ b.pStart = HeadOr(s, NULL) /\ Standing(b, Nil, s, Nil, Nil, y, b.pStart, 0)
           /\ b.pStart \in Units \cup {NULL} /\ s \in Seq(Units) /\ y \in Seq(Bytes)
<1>1. s \in Seq(Units) /\ b.pStart = HeadOr(s, NULL)
    BY StartIs
<1>2. Contents(b) = Cat(b.data, s) /\ Contents(b) \in Seq(Bytes)
    BY ContentsIs
<1>3. Nil \in Seq(Units) /\ Nil ++ s = s /\ Cat(b.data, Nil) = Nil
    BY <1>1, NilIs, JoinNone, CatNone
<1>4. Stands(b, Nil, s, Nil, y)
    BY <1>1, <1>2, <1>3 DEF Stands
<1>5. Standing(b, Nil, s, Nil, Nil, y, b.pStart, 0)
    BY <1>1, <1>4, StandingAt
<1>6. b.pStart \in Units \cup {NULL}
    BY RecordIs
<1> QED BY <1>1, <1>2, <1>4, <1>5, <1>6

\* A dump begins with the first cluster.
LEMMA FileStart ==
    ASSUME NEW b, Listed(b), NEW c, c.op = "file", NEW y, y = Contents(b), Kept(b, y)
    PROVE  FilePart(b, c, b.pStart, Nil, y)
<1>1. PICK s : b \in Buffers /\ Linked(b, s)
    BY DEF Listed
<1>2. Stands(b, Nil, s, Nil, y) /\ b.pStart = HeadOr(s, NULL)
    BY <1>1, StartStands
<1> QED BY <1>2 DEF FilePart

\* No piece is all the pieces of no bytes.
LEMMA NoPieces ==
    \A n, y, f : PiecesTo(Nil, n, y, f)
BY DEF PiecesTo, Nil

\* So does a look at all the data.
LEMMA CheckStart ==
    ASSUME NEW b, Listed(b), NEW c, Asked(c), NEW p, p \in {"check", "lines"}, c.op = p, NEW y, y = Contents(b), Kept(b, y),
           p = "check" /\ b.pStart # NULL => Len(b.data[b.pLast]) > 0 \/ Len(y) % c.len # 0
    PROVE  CheckPart(b, c, p, b.pStart, 0, Nil, Nil, y)
<1>1. PICK s : b \in Buffers /\ Linked(b, s)
    BY DEF Listed
<1>2. Standing(b, Nil, s, Nil, Nil, y, b.pStart, 0)
    BY <1>1, StartStands
<1>3. c.len \in Nat /\ c.len > 0
    BY BufferAssumption DEF Asked
<1>4. Nil \in Seq(Bytes) /\ Len(Nil) = 0 /\ Len(Nil) < c.len
    BY <1>3, NilIs
<1>5. Len(Nil) = c.len * Len(Nil)
    <2>1. c.len * 0 = 0
        BY <1>3
    <2> QED BY <1>4, <2>1
<1>6. PiecesTo(Nil, c.len, y, p = "check" /\ s = Nil /\ Nil = Nil)
    <2>1. PICK f \in BOOLEAN : f = (p = "check" /\ s = Nil /\ Nil = Nil)
        OBVIOUS
    <2>2. PiecesTo(Nil, c.len, y, f)
        BY NoPieces
    <2> QED BY <2>1, <2>2
<1>7. CheckAt(b, c, p, b.pStart, 0, Nil, Nil, y, Nil, s, Nil, Nil, y, Nil)
    <2>1. Nil ++ Nil = Nil ++ Nil /\ ~(0 > 0)
        OBVIOUS
    <2> QED BY <1>2, <1>4, <1>5, <1>6, <2>1 DEF CheckAt
<1> QED BY <1>4, <1>7 DEF CheckPart

\* The defragmentation goes well from the start on, when that is what DefragmentRight found.
LEMMA DefragmentStart ==
    ASSUME Listed(buf), NEW c, c.op = "defragment", NEW y, y = Contents(buf), Kept(buf, y), DefragmentRight
    PROVE  DefragmentPart(buf, c, buf.pStart, y)
<1> DEFINE D == [cluster : Units, len : 0 .. Capacity]
           next(p) == buf.pNext[p.cluster]
           Behindp(p) == Len(buf.data[next(p)])
           Stops(p) == next(p) = NULL \/ TooMuch(p.len, Behindp(p))
           On(p) == [cluster |-> next(p), len |-> LeftBy(p.len, Behindp(p))]
           Eq(f) == f = [p \in D |-> IF Stops(p) THEN next(p) = NULL ELSE f[On(p)]]
           Right == CHOOSE f : Eq(f)
<1>1. PICK s : buf \in Buffers /\ Linked(buf, s)
    BY DEF Listed
<1>2. buf.pNext \in [Units -> Units \cup {NULL}] /\ buf.data \in [Units -> Held] /\ NULL \notin Units /\ Capacity \in Nat
    BY <1>1, RecordIs, BufferAssumption
<1>3. ASSUME NEW l \in 0 .. Capacity, NEW m \in 0 .. Capacity, ~TooMuch(l, m)
      PROVE  LeftBy(l, m) \in 0 .. Capacity
    BY <1>2, <1>3 DEF LeftBy, TooMuch
<1>4. ASSUME NEW p \in D, ~Stops(p)
      PROVE  On(p) \in D
    <2>1. p.cluster \in Units /\ p.len \in 0 .. Capacity
        OBVIOUS
    <2>2. next(p) \in Units
        BY <1>2, <1>4, <2>1
    <2>3. Behindp(p) \in 0 .. Capacity
        BY <1>2, <2>2, HeldIs
    <2>4. LeftBy(p.len, Behindp(p)) \in 0 .. Capacity
        BY <1>3, <1>4, <2>1, <2>3
    <2> QED BY <2>2, <2>4
<1>5. \E f : Eq(f)
    <2> DEFINE stop == {p \in D : Stops(p)}
               val == [p \in D |-> next(p) = NULL]
               go == [p \in D |-> On(p)]
    <2>1. \A p \in D : p \notin stop => go[p] \in D
        <3> HIDE DEF Stops, On, D
        <3> QED BY <1>4
    <2>2. PICK f : Recurses(f, D, stop, val, go)
        <3> HIDE DEF stop, val, go, D
        <3> QED BY <2>1, TailRecursion, Zenon
    <2>3. f = [p \in D |-> IF p \in stop THEN val[p] ELSE f[go[p]]]
        BY <2>2, Zenon DEF Recurses
    <2>4. Eq(f)
        <3> HIDE DEF Stops, On, next, D
        <3> QED BY <2>3
    <2> QED BY <2>4
<1>6. Eq(Right)
    <2> HIDE DEF Eq
    <2> QED BY <1>5, Zenon
<1>7. buf.pStart # NULL /\ Right[[cluster |-> buf.pStart, len |-> Len(buf.data[buf.pStart])]]
    BY Zenon DEF DefragmentRight, TooMuch, LeftBy, dataLen
<1> HIDE DEF Right
<1>8. ASSUME NEW p \in D PROVE Right[p] = IF Stops(p) THEN next(p) = NULL ELSE Right[On(p)]
    <2> HIDE DEF Stops, On, next, D
    <2> QED BY <1>6
<1> DEFINE G == {q \in Units \X (0 .. Capacity) : Right[[cluster |-> q[1], len |-> q[2]]]}
<1>9. ASSUME NEW u \in Units, NEW l \in 0 .. Capacity
      PROVE  <<u, l>> \in G <=> Right[[cluster |-> u, len |-> l]]
    OBVIOUS
<1>10. ASSUME NEW u \in Units, NEW l \in 0 .. Capacity, <<u, l>> \in G, buf.pNext[u] # NULL
       PROVE  /\ ~TooMuch(l, Len(buf.data[buf.pNext[u]]))
              /\ <<buf.pNext[u], LeftBy(l, Len(buf.data[buf.pNext[u]]))>> \in G
    <2>0. PICK p : p = [cluster |-> u, len |-> l]
        OBVIOUS
    <2>1. p \in D /\ p = [cluster |-> u, len |-> l] /\ p.cluster = u /\ p.len = l
        BY <2>0
    <2>2. Right[p]
        BY <1>9, <1>10, <2>1
    <2>3. ~Stops(p)
        BY <1>8, <1>10, <2>1, <2>2
    <2>4. On(p) \in D
        <3> HIDE DEF Stops, On, D
        <3> QED BY <1>4, <2>1, <2>3
    <2>5. Right[On(p)]
        <3>1. Right[p] = IF Stops(p) THEN next(p) = NULL ELSE Right[On(p)]
            <4> HIDE DEF Stops, On, next, D
            <4> QED BY <1>8, <2>1
        <3> HIDE DEF Stops, On, next, D
        <3> QED BY <2>2, <2>3, <3>1, Zenon
    <2>6. On(p) = [cluster |-> buf.pNext[u], len |-> LeftBy(l, Len(buf.data[buf.pNext[u]]))]
        BY <2>1
    <2>7. buf.pNext[u] \in Units /\ LeftBy(l, Len(buf.data[buf.pNext[u]])) \in 0 .. Capacity
        BY <2>4, <2>6
    <2>8. <<buf.pNext[u], LeftBy(l, Len(buf.data[buf.pNext[u]]))>> \in G
        <3> HIDE DEF G, On
        <3> QED BY <1>9, <2>5, <2>6, <2>7
    <2> QED BY <1>10, <2>1, <2>3, <2>8
<1>11. Smooth(G, buf.pNext, buf.data)
    <2> HIDE DEF G
    <2> QED BY <1>10 DEF Smooth
<1>12. Stands(buf, Nil, s, Nil, y) /\ buf.pStart = HeadOr(s, NULL) /\ buf.pStart \in Units \cup {NULL}
    BY <1>1, StartStands
<1>13. s # Nil
    BY <1>7, <1>12 DEF HeadOr
<1>14. PICK k, R, d, r : Around(buf, Nil, k, R, Nil, d, r) /\ k = buf.pStart
    BY <1>12, <1>13, StandsOpen
<1>15. /\ k \in Units /\ d = buf.data[k] /\ R \in Seq(Units) /\ Linked(buf, Nil ++ (One(k) ++ R)) /\ Nil \in Seq(Units)
    BY <1>14 DEF Around
<1>16. Segment(buf.pNext, buf.pNext[k], R, NULL)
    BY <1>15, LinkedAround
<1>17. <<k, Len(d)>> \in G
    <2>1. Len(d) \in 0 .. Capacity
        BY <1>2, <1>15, HeldIs
    <2> QED BY <1>7, <1>9, <1>14, <1>15, <2>1
<1> HIDE DEF G
<1>18. Ahead(buf.data, Len(d), R, G, buf.pNext, buf.data, k)
    BY <1>2, <1>11, <1>15, <1>16, <1>17 DEF Ahead
<1>19. y # Nil
    BY <1>7 DEF Kept
<1> QED BY <1>14, <1>18, <1>19 DEF DefragmentPart

\* What every call begins with.
Begins(c) ==
    /\ IInv /\ Idle /\ Asked(c) /\ call' = c /\ bytes' = Contents(buf) /\ pc' = c.op /\ pData' = c.data /\ out' = Nil
    /\ buf' = buf /\ reply' = reply /\ first' = first /\ fault' = fault /\ (first # NoCall => KeepsStart(c))

\* Its first step finds what it needs.
Prepared == cluster' \in Units \cup {NULL} /\ prevCluster' \in Units \cup {NULL} /\ offset' \in Nat /\ remainLen' \in 0 .. MaxLen /\ Working'

\* A call begins when its first step is prepared.
LEMMA PreparedKeeps ==
    ASSUME NEW c, Begins(c), Prepared
    PROVE  Keeps
BY Begun DEF Begins, Prepared

\* Those that begin with the first cluster have their locals.
LEMMA StartPrepared ==
    ASSUME NEW c, Begins(c), At(buf.pStart, NULL, 0), remainLen' = c.len, Working'
    PROVE  Prepared
<1>1. buf.pStart \in Units \cup {NULL}
    BY IdleIs, RecordIs DEF Begins
<1>2. c.len \in 0 .. MaxLen
    BY DEF Begins, Asked
<1> QED BY <1>1, <1>2 DEF At, Prepared

\* An append begins.
LEMMA AppendInvoked ==
    ASSUME NEW c, Begins(c), c.op = "append", At(buf.pStart, NULL, 0), remainLen' = c.len
    PROVE  Keeps
<1>1. AppendPart(buf, c, "append", c.data, Contents(buf))
    BY IdleIs, AppendStart DEF Begins
<1>2. Working'
    BY <1>1 DEF Begins, Working
<1> QED BY <1>2, StartPrepared, PreparedKeeps

\* A dump to a file begins.
LEMMA FileInvoked ==
    ASSUME NEW c, Begins(c), c.op = "file", At(buf.pStart, NULL, 0), remainLen' = c.len
    PROVE  Keeps
<1>1. FilePart(buf, c, buf.pStart, Nil, Contents(buf))
    BY IdleIs, FileStart DEF Begins
<1>2. Working'
    BY <1>1 DEF Begins, Working, At
<1> QED BY <1>2, StartPrepared, PreparedKeeps

\* A defragmentation begins.
LEMMA DefragmentInvoked ==
    ASSUME NEW c, Begins(c), c.op = "defragment", At(buf.pStart, NULL, 0), remainLen' = c.len, DefragmentRight
    PROVE  Keeps
<1>1. DefragmentPart(buf, c, buf.pStart, Contents(buf))
    BY IdleIs, DefragmentStart DEF Begins
<1>2. Working'
    BY <1>1 DEF Begins, Working, At
<1> QED BY <1>2, StartPrepared, PreparedKeeps

\* A look at all the data begins.
LEMMA CheckInvoked ==
    ASSUME NEW c, Begins(c), c.op \in {"check", "lines"}, At(buf.pStart, NULL, 0), remainLen' = c.len, c.data = Nil,
           c.op = "check" /\ buf.pStart # NULL => Len(buf.data[buf.pLast]) > 0 \/ Len(Contents(buf)) % c.len # 0
    PROVE  Keeps
<1>1. CheckPart(buf, c, c.op, buf.pStart, 0, Nil, Nil, Contents(buf))
    BY IdleIs, CheckStart DEF Begins
<1>2. Working'
    BY <1>1 DEF Begins, Working, At
<1> QED BY <1>2, StartPrepared, PreparedKeeps

\* An insertion begins.
LEMMA InsertInvoked ==
    ASSUME NEW c, Begins(c), c.op = "insert", NEW at, at = Locate(buf, c.offset), At(at.cluster, at.prev, at.offset), remainLen' = 0,
           at.cluster = NULL \/ InsertFits(at.offset, Len(buf.data[at.cluster]), Len(c.data))
    PROVE  Keeps
<1>1. /\ InsertPart(buf, c, at.cluster, at.prev, at.offset, c.data, Contents(buf))
      /\ at.cluster \in Units \cup {NULL} /\ at.prev \in Units \cup {NULL} /\ at.offset \in Nat
    BY IdleIs, InsertStart DEF Begins
<1>2. Working'
    BY <1>1 DEF Begins, Working, At
<1>3. 0 \in 0 .. MaxLen
    BY BufferAssumption
<1> QED BY <1>1, <1>2, <1>3, PreparedKeeps DEF Prepared, At

\* A read begins.
LEMMA ReadInvoked ==
    ASSUME NEW c, Begins(c), c.op \in {"read", "take"}, NEW at, at = Locate(buf, c.offset), At(at.cluster, at.prev, at.offset),
           remainLen' = c.len, c.op = "take" => TakeFits(buf, c.offset, c.len, at, Len(Contents(buf)))
    PROVE  Keeps
<1>1. /\ ReadingPart(buf, c, c.op, at.cluster, at.prev, at.offset, c.len, Nil, Contents(buf))
      /\ at.cluster \in Units \cup {NULL} /\ at.prev \in Units \cup {NULL} /\ at.offset \in Nat
    BY IdleIs, ReadStart DEF Begins
<1>2. Working'
    BY <1>1 DEF Begins, Working, At
<1>3. c.len \in 0 .. MaxLen
    BY DEF Begins, Asked
<1> QED BY <1>1, <1>2, <1>3, PreparedKeeps DEF Prepared, At

\* A deletion begins.
LEMMA DeleteInvoked ==
    ASSUME NEW c, Begins(c), c.op = "delete", NEW at, at = Locate(buf, c.offset), At(at.cluster, at.prev, at.offset),
           remainLen' = Max({0, Min({c.len, _buffer_get_len(buf) - c.offset})}),
           c.offset > Len(Contents(buf)) \/ (c.offset + c.len <= Len(Contents(buf)) /\ c.len < Len(Contents(buf)))
    PROVE  Keeps
<1>1. PICK s : buf \in Buffers /\ Linked(buf, s)
    BY IdleIs DEF Begins, Listed
<1>2. PICK l \in Nat : l = Len(Contents(buf)) /\ _buffer_get_len(buf) = l
    <2>1. Len(Contents(buf)) \in Nat
        BY IdleIs DEF Begins
    <2> QED BY <1>1, <2>1, GetLenIs
<1>3. c.len \in 0 .. MaxLen /\ c.len \in Nat /\ c.offset \in Nat
    BY BufferAssumption DEF Begins, Asked
<1>4. PICK i \in Int : i = l - c.offset
    BY <1>2, <1>3
<1>5. PICK j \in Int : j = Min({c.len, i}) /\ j = (IF c.len <= i THEN c.len ELSE i)
    <2>1. Min({c.len, i}) = (IF c.len <= i THEN c.len ELSE i)
        BY <1>3, MinMax
    <2> QED BY <1>3, <2>1
<1>6. PICK m \in Int : m = Max({0, j}) /\ m = (IF 0 >= j THEN 0 ELSE j)
    <2>1. PICK z \in Int : z = 0
        OBVIOUS
    <2>2. Max({z, j}) = (IF z >= j THEN z ELSE j)
        BY MinMax
    <2>3. (IF z >= j THEN z ELSE j) \in Int
        OBVIOUS
    <2> QED BY <2>1, <2>2, <2>3
<1>7. remainLen' = m
    BY <1>2, <1>4, <1>5, <1>6
<1>8. m \in 0 .. MaxLen /\ m \in Nat
    <2>1. MaxLen \in Nat /\ j = (IF c.len <= i THEN c.len ELSE i) /\ m = (IF 0 >= j THEN 0 ELSE j)
        BY <1>5, <1>6, BufferAssumption
    <2> QED BY <1>3, <2>1
<1>9. c.offset > l \/ (c.offset + c.len <= l /\ c.len < l /\ m = c.len)
    <2>1. j = (IF c.len <= i THEN c.len ELSE i) /\ m = (IF 0 >= j THEN 0 ELSE j)
        BY <1>5, <1>6
    <2>2. c.offset > l \/ (c.offset + c.len <= l /\ c.len < l)
        BY <1>2
    <2> QED BY <1>2, <1>3, <1>4, <2>1, <2>2
<1>10. PICK y : y = Contents(buf) /\ Kept(buf, y)
    BY IdleIs DEF Begins
<1>11. c.offset > Len(y) \/ (c.offset + c.len <= Len(y) /\ c.len < Len(y) /\ m = c.len)
    BY <1>2, <1>9, <1>10
<1>12. /\ DeletePart(buf, c, "delete", at.cluster, at.prev, at.offset, m, y)
      /\ at.cluster \in Units \cup {NULL} /\ at.prev \in Units \cup {NULL} /\ at.offset \in Nat
    <2>1. Listed(buf) /\ Asked(c)
        BY IdleIs DEF Begins
    <2> QED BY <1>8, <1>10, <1>11, <2>1, DeleteStart
<1>13. Working'
    BY <1>7, <1>10, <1>12 DEF Begins, Working, At
<1> QED BY <1>7, <1>8, <1>12, <1>13, PreparedKeeps DEF Prepared, At

\* A call the program may make begins.
LEMMA InvokeKeeps ==
    ASSUME IInv, Careful = TRUE, NEW c \in Allowed, Invoke(c)
    PROVE  Keeps
<1>1. c \in Requests /\ Proper(c) /\ (first # NoCall => KeepsStart(c))
    BY DEF Allowed
<1>2. Idle
    BY DEF Invoke
<1>3. Asked(c) /\ (c.op \notin {"append", "insert"} => c.data = Nil)
    BY <1>1, <1>2, RequestIs
<1>4. Begins(c)
    BY <1>1, <1>2, <1>3 DEF Begins, Invoke, Nil
<1>5. c.op \in Names
    BY <1>3 DEF Asked
<1>6. CASE c.op = "append"
    <2>1. At(buf.pStart, NULL, 0) /\ remainLen' = c.len
        BY <1>6 DEF Invoke
    <2> QED BY <1>4, <1>6, <2>1, AppendInvoked
<1>7. CASE c.op = "insert"
    <2>1. PICK at : at = Locate(buf, c.offset)
        OBVIOUS
    <2>2. At(at.cluster, at.prev, at.offset) /\ remainLen' = 0
        BY <1>7, <2>1 DEF Invoke
    <2>3. InsertRight(c.offset, Len(c.data))
        BY <1>1, <1>7 DEF Proper
    <2>4. at.cluster = NULL \/ InsertFits(at.offset, Len(buf.data[at.cluster]), Len(c.data))
        BY <2>1, <2>3 DEF InsertRight, InsertFits, dataLen
    <2> QED BY <1>4, <1>7, <2>1, <2>2, <2>4, InsertInvoked
<1>8. CASE c.op = "delete"
    <2>1. PICK at : at = Locate(buf, c.offset)
        OBVIOUS
    <2>2. At(at.cluster, at.prev, at.offset) /\ remainLen' = Max({0, Min({c.len, _buffer_get_len(buf) - c.offset})})
        BY <1>8, <2>1 DEF Invoke
    <2>3. c.offset > Len(Contents(buf)) \/ (c.offset + c.len <= Len(Contents(buf)) /\ c.len < Len(Contents(buf)))
        BY <1>1, <1>8 DEF Proper
    <2> QED BY <1>4, <1>8, <2>1, <2>2, <2>3, DeleteInvoked
<1>9. CASE c.op \in {"read", "take"}
    <2>1. PICK at : at = Locate(buf, c.offset)
        OBVIOUS
    <2>2. At(at.cluster, at.prev, at.offset) /\ remainLen' = c.len
        BY <1>9, <2>1 DEF Invoke
    <2>3. ASSUME c.op = "take" PROVE TakeFits(buf, c.offset, c.len, at, Len(Contents(buf)))
        <3>1. TakeRight(c.offset, c.len)
            BY <1>1, <2>3 DEF Proper
        <3> QED BY <2>1, <3>1 DEF TakeRight, TakeFits, dataLen
    <2> QED BY <1>4, <1>9, <2>1, <2>2, <2>3, ReadInvoked
<1>10. CASE c.op \in {"check", "lines"}
    <2>1. At(buf.pStart, NULL, 0) /\ remainLen' = c.len /\ c.data = Nil
        BY <1>3, <1>10 DEF Invoke
    <2>2. c.op = "check" /\ buf.pStart # NULL => Len(buf.data[buf.pLast]) > 0 \/ Len(Contents(buf)) % c.len # 0
        BY <1>1 DEF Proper, dataLen
    <2> QED BY <1>4, <1>10, <2>1, <2>2, CheckInvoked
<1>11. CASE c.op = "file"
    <2>1. At(buf.pStart, NULL, 0) /\ remainLen' = c.len
        BY <1>11 DEF Invoke
    <2> QED BY <1>4, <1>11, <2>1, FileInvoked
<1>12. CASE c.op = "defragment"
    <2>1. At(buf.pStart, NULL, 0) /\ remainLen' = c.len
        BY <1>12 DEF Invoke
    <2>2. DefragmentRight
        BY <1>1, <1>12 DEF Proper
    <2> QED BY <1>4, <1>12, <2>1, <2>2, DefragmentInvoked
<1> QED BY <1>5, <1>6, <1>7, <1>8, <1>9, <1>10, <1>11, <1>12 DEF Names

-----------------------------------------------------------------------------
(* The bytes get new names                                                  *)

\* The places 1 .. n, and the m behind the first n.
Places(n) == [i \in 1 .. n |-> i]
PlacesBehind(n, m) == [j \in 1 .. m |-> n + j]

\* The places up to n, and then the m behind them, are those up to n + m.
LEMMA PlacesAre ==
    ASSUME NEW n \in Nat, NEW m \in Nat
    PROVE  /\ Places(n) \in Seq(Nat) /\ Len(Places(n)) = n /\ PlacesBehind(n, m) \in Seq(Nat) /\ Len(PlacesBehind(n, m)) = m
           /\ Places(n) ++ PlacesBehind(n, m) = Places(n + m)
<1>1. Places(n) \in Seq(Nat) /\ Len(Places(n)) = n /\ \A i \in 1 .. n : Places(n)[i] = i
    <2>1. Places(n) \in [1 .. n -> Nat]
        BY DEF Places
    <2> QED BY <2>1 DEF Places
<1>2. PlacesBehind(n, m) \in Seq(Nat) /\ Len(PlacesBehind(n, m)) = m /\ \A j \in 1 .. m : PlacesBehind(n, m)[j] = n + j
    <2>1. PlacesBehind(n, m) \in [1 .. m -> Nat]
        BY DEF PlacesBehind
    <2> QED BY <2>1 DEF PlacesBehind
<1>3. PICK a \in Seq(Nat), d \in Seq(Nat) : a = Places(n) /\ d = PlacesBehind(n, m)
    BY <1>1, <1>2
<1>4. PICK e : e = a ++ d
    OBVIOUS
<1>5. e \in Seq(Nat) /\ Len(e) = n + m /\ (\A i \in 1 .. Len(a) : e[i] = a[i]) /\ (\A i \in 1 .. Len(d) : e[Len(a) + i] = d[i])
    <2>1. a ++ d \in Seq(Nat) /\ Len(a ++ d) = Len(a) + Len(d)
        BY JoinLen
    <2>2. (\A i \in 1 .. Len(a) : (a ++ d)[i] = a[i]) /\ (\A i \in 1 .. Len(d) : (a ++ d)[Len(a) + i] = d[i])
        <3>1. PICK N : N = Nat
            OBVIOUS
        <3>2. a \in Seq(N) /\ d \in Seq(N)
            BY <3>1
        <3>3. \A i \in 1 .. Len(a) : (a ++ d)[i] = a[i]
            BY <3>2, JoinIs
        <3>4. \A i \in 1 .. Len(d) : (a ++ d)[Len(a) + i] = d[i]
            BY <3>2, JoinIs
        <3> QED BY <3>3, <3>4
    <2>3. Len(a) = n /\ Len(d) = m
        BY <1>1, <1>2, <1>3
    <2> QED BY <1>4, <2>1, <2>2, <2>3
<1>6. \A i \in 1 .. n + m : e[i] = i
    <2> SUFFICES ASSUME NEW i \in 1 .. n + m PROVE e[i] = i
        OBVIOUS
    <2>1. CASE i <= n
        <3>1. i \in 1 .. n /\ i \in 1 .. Len(a)
            BY <1>1, <1>3, <2>1
        <3> QED BY <1>1, <1>3, <1>5, <3>1
    <2>2. CASE i > n
        <3>1. PICK j \in 1 .. m : i = n + j
            <4>1. i - n \in 1 .. m /\ i = n + (i - n)
                BY <2>2
            <4> QED BY <4>1
        <3>2. j \in 1 .. Len(d) /\ Len(a) = n
            BY <1>1, <1>2, <1>3
        <3> QED BY <1>2, <1>3, <1>5, <3>1, <3>2
    <2> QED BY <2>1, <2>2
<1>7. e = Places(n + m)
    <2>1. e = [i \in 1 .. Len(e) |-> e[i]]
        BY <1>5
    <2>2. e = [i \in 1 .. n + m |-> e[i]]
        BY <1>5, <2>1
    <2> QED BY <1>6, <2>2 DEF Places
<1> QED BY <1>1, <1>2, <1>3, <1>4, <1>7

\* The links and the data of b with new names, when its list is s.
Forgotten(b, s, u) == u \notin Range(s) \cup {b.pLast} /\ first = NoCall
NextNamed(b, s) == [u \in Units |-> IF Forgotten(b, s, u) THEN NULL ELSE b.pNext[u]]
BeforeIn(b, s, i) == Len(FlattenSeq([j \in 1 .. i - 1 |-> b.data[s[j]]]))
PlaceIn(s, u) == CHOOSE i \in DOMAIN s : s[i] = u
DataNamed(b, s) ==
    [u \in Units |-> IF Forgotten(b, s, u) THEN <<>> ELSE
                     [j \in DOMAIN b.data[u] |-> IF u \in Range(s) THEN BeforeIn(b, s, PlaceIn(s, u)) + j ELSE Stale]]

\* What Renamed changes.
LEMMA RenamedFields ==
    ASSUME NEW b \in Buffers, NEW s, Linked(b, s), NEW g, g = Renamed(b)
    PROVE  /\ g.pStart = b.pStart /\ g.pLast = b.pLast /\ g.clusterCount = b.clusterCount /\ g.held = b.held
           /\ g.pNext = NextNamed(b, s) /\ g.data = DataNamed(b, s)
           /\ g = Record(b.pStart, b.pLast, b.clusterCount, b.held, NextNamed(b, s), DataNamed(b, s))
<1>1. Chain(b, b.pStart) = s
    BY ContentsIs
<1>2. Renamed(b) = [b EXCEPT !.pNext = NextNamed(b, Chain(b, b.pStart)), !.data = DataNamed(b, Chain(b, b.pStart))]
    BY DEF Renamed, NextNamed, DataNamed, Forgotten, BeforeIn, PlaceIn
<1>3. g = [b EXCEPT !.pNext = NextNamed(b, s), !.data = DataNamed(b, s)]
    BY <1>1, <1>2
<1>4. b = Record(b.pStart, b.pLast, b.clusterCount, b.held, b.pNext, b.data)
    BY RecordIs
<1>5. PICK nx, d : nx = NextNamed(b, s) /\ d = DataNamed(b, s)
    OBVIOUS
<1>6. g = [b EXCEPT !.pNext = nx, !.data = d]
    BY <1>3, <1>5
<1>7. g = Record(b.pStart, b.pLast, b.clusterCount, b.held, nx, d)
    BY <1>4, <1>6 DEF Record
<1>8. g.pStart = b.pStart /\ g.pLast = b.pLast /\ g.clusterCount = b.clusterCount /\ g.held = b.held /\ g.pNext = nx /\ g.data = d
    BY <1>7 DEF Record
<1> QED BY <1>5, <1>7, <1>8

\* The bytes of a cluster of the list, by their places.
LEMMA NamedAt ==
    ASSUME NEW b \in Buffers, NEW s, Linked(b, s), NEW P \in Seq(Units), NEW u \in Units, NEW R \in Seq(Units), s = P ++ (One(u) ++ R)
    PROVE  /\ DataNamed(b, s)[u] = PlacesBehind(Len(Cat(b.data, P)), Len(b.data[u])) /\ u \in Range(s)
           /\ Len(Cat(b.data, P)) \in Nat /\ Len(b.data[u]) \in 0 .. Capacity /\ Len(Cat(b.data, P)) + Len(b.data[u]) <= Most
<1>1. b.data \in [Units -> Held] /\ b.data \in [Units -> Seq(Bytes)] /\ s \in Seq(Units)
    BY RecordIs, HeldSeq, StartIs
<1>2. One(u) \in Seq(Units) /\ Len(One(u)) = 1 /\ One(u)[1] = u /\ One(u) ++ R \in Seq(Units) /\ P ++ One(u) \in Seq(Units)
    BY OneIs, JoinLen
<1>3. PICK k \in Nat : k = Len(P)
    BY NilIs
<1>4. Len(s) = k + 1 + Len(R) /\ Len(R) \in Nat
    <2>1. Len(s) = Len(P) + Len(One(u) ++ R) /\ Len(One(u) ++ R) = Len(One(u)) + Len(R) /\ Len(R) \in Nat
        BY <1>2, JoinLen, NilIs
    <2> QED BY <1>2, <1>3, <2>1
<1>5. \A i \in 1 .. k : s[i] = P[i]
    <2>1. \A i \in 1 .. Len(P) : (P ++ (One(u) ++ R))[i] = P[i]
        BY <1>2, JoinAt
    <2> QED BY <1>3, <2>1
<1>6. s[k + 1] = u
    <2>1. (One(u) ++ R)[1] = One(u)[1]
        <3>1. \A i \in 1 .. Len(One(u)) : (One(u) ++ R)[i] = One(u)[i]
            BY <1>2, JoinAt
        <3> QED BY <1>2, <3>1
    <2>2. PICK w \in Seq(Units) : w = One(u) ++ R
        BY <1>2
    <2>3. Len(w) = 1 + Len(R)
        BY <1>2, <2>2, JoinLen
    <2>4. \A i \in 1 .. Len(w) : (P ++ w)[Len(P) + i] = w[i]
        BY JoinIs
    <2>5. 1 \in 1 .. Len(w)
        BY <1>4, <2>3
    <2>6. (P ++ w)[Len(P) + 1] = w[1]
        BY <2>4, <2>5
    <2> QED BY <1>2, <1>3, <2>1, <2>2, <2>6
<1>7. PlaceIn(s, u) = k + 1
    <2>1. DOMAIN s = 1 .. Len(s) /\ k + 1 \in DOMAIN s
        BY <1>1, <1>4
    <2>2. \A i, j \in 1 .. Len(s) : s[i] = s[j] => i = j
        BY DEF Linked, Segment
    <2>3. \A i \in DOMAIN s : s[i] = u <=> i = k + 1
        BY <1>6, <2>1, <2>2
    <2> QED BY <2>1, <2>3 DEF PlaceIn
<1>8. BeforeIn(b, s, k + 1) = Len(Cat(b.data, P))
    <2>1. Mapped(b.data, P) = [j \in 1 .. k |-> b.data[P[j]]]
        BY <1>3 DEF Mapped
    <2>2. [j \in 1 .. k |-> b.data[P[j]]] = [j \in 1 .. k |-> b.data[s[j]]]
        BY <1>5
    <2>3. (k + 1) - 1 = k
        OBVIOUS
    <2>4. [j \in 1 .. (k + 1) - 1 |-> b.data[s[j]]] = Mapped(b.data, P)
        BY <2>1, <2>2, <2>3
    <2> QED BY <2>4 DEF BeforeIn, Cat
<1>9. u \in Range(s)
    <2>1. Range(s) = {s[i] : i \in 1 .. Len(s)} /\ k + 1 \in 1 .. Len(s)
        <3>1. Range(s) = {s[i] : i \in 1 .. Len(s)}
            BY <1>1, RangeIs
        <3> QED BY <1>4, <3>1
    <2> QED BY <1>6, <2>1
<1>10. PICK n \in Nat, m \in Nat : n = Len(Cat(b.data, P)) /\ m = Len(b.data[u]) /\ m <= Capacity /\ DOMAIN b.data[u] = 1 .. m
    <2>1. Cat(b.data, P) \in Seq(Bytes) /\ b.data[u] \in Seq(Bytes) /\ Len(b.data[u]) \in 0 .. Capacity
        BY <1>1, CatMore, HeldIs
    <2> QED BY <2>1, NilIs, BufferAssumption
<1>11. DataNamed(b, s)[u] = [j \in 1 .. m |-> n + j]
    <2>1. ~Forgotten(b, s, u)
        BY <1>9 DEF Forgotten
    <2>2. DataNamed(b, s)[u] = [j \in DOMAIN b.data[u] |-> IF u \in Range(s) THEN BeforeIn(b, s, PlaceIn(s, u)) + j ELSE Stale]
        BY <2>1 DEF DataNamed
    <2>3. PICK q : q = BeforeIn(b, s, PlaceIn(s, u)) /\ q = n
        BY <1>7, <1>8, <1>10
    <2>4. DataNamed(b, s)[u] = [j \in 1 .. m |-> IF u \in Range(s) THEN q + j ELSE Stale]
        BY <1>10, <2>2, <2>3
    <2> QED BY <1>9, <2>3, <2>4
<1>12. n + m <= Most
    <2>1. PICK z : z = Cat(b.data, R) /\ z \in Seq(Bytes)
        BY <1>1, CatMore
    <2>2. Contents(b) = Cat(b.data, P) ++ Cat(b.data, One(u) ++ R) /\ Cat(b.data, P) \in Seq(Bytes) /\ Cat(b.data, One(u) ++ R) \in Seq(Bytes)
        <3>1. Contents(b) = Cat(b.data, s)
            BY ContentsIs
        <3>2. PICK w \in Seq(Units) : w = One(u) ++ R
            BY <1>2
        <3>3. Cat(b.data, P ++ w) = Cat(b.data, P) ++ Cat(b.data, w) /\ Cat(b.data, P) \in Seq(Bytes) /\ Cat(b.data, w) \in Seq(Bytes)
            BY <1>1, BytesJoin
        <3> QED BY <3>1, <3>2, <3>3
    <2>3. Cat(b.data, One(u) ++ R) = b.data[u] ++ z /\ b.data[u] \in Seq(Bytes)
        BY <1>1, <2>1, BytesMore
    <2>4. Len(Contents(b)) = n + Len(b.data[u] ++ z)
        <3>1. PICK v \in Seq(Bytes), w \in Seq(Bytes) : v = Cat(b.data, P) /\ w = Cat(b.data, One(u) ++ R)
            BY <2>2
        <3>2. Len(v ++ w) = Len(v) + Len(w)
            BY JoinLen
        <3> QED BY <1>10, <2>2, <2>3, <3>1, <3>2
    <2>5. Len(b.data[u] ++ z) = m + Len(z) /\ Len(z) \in Nat
        BY <1>10, <2>1, <2>3, JoinLen, NilIs
    <2>6. Len(Contents(b)) <= Most /\ Most \in Nat /\ Len(Contents(b)) \in Nat
        <3>1. Len(Contents(b)) \in 0 .. Most /\ Most \in Nat
            BY ContentsLen
        <3> QED BY <3>1
    <2> QED BY <2>4, <2>5, <2>6
<1>13. m \in 0 .. Capacity
    BY <1>10, BufferAssumption
<1> QED BY <1>9, <1>10, <1>11, <1>12, <1>13 DEF PlacesBehind

\* An element of a sequence, with those before it and behind it.
LEMMA SplitAt ==
    ASSUME NEW S, NEW s \in Seq(S), NEW k \in 0 .. Len(s) - 1
    PROVE  \E u \in S, R \in Seq(S) : /\ s = Upto(s, k) ++ (One(u) ++ R) /\ Upto(s, k) \in Seq(S) /\ u = s[k + 1]
                                      /\ Upto(s, k + 1) = Upto(s, k) ++ One(u)
<1>1. Len(s) \in Nat /\ k \in 0 .. Len(s) /\ k \in Nat
    BY NilIs
<1>2. PICK P \in Seq(S), Q \in Seq(S) : P = Upto(s, k) /\ Q = Beyond(s, k) /\ s = P ++ Q /\ Len(P) = k /\ Len(Q) = Len(s) - k
    BY <1>1, CutIs
<1>3. Q # Nil
    BY <1>1, <1>2, NilIs
<1>4. PICK u \in S, R \in Seq(S) : Q = One(u) ++ R
    BY <1>3, HeadSplit
<1>5. One(u) \in Seq(S) /\ Len(One(u)) = 1 /\ One(u)[1] = u
    BY OneIs
<1>6. PICK W \in Seq(S) : W = P ++ One(u) /\ Len(W) = k + 1
    <2>1. P ++ One(u) \in Seq(S) /\ Len(P ++ One(u)) = Len(P) + Len(One(u))
        BY <1>5, JoinLen
    <2> QED BY <1>2, <1>5, <2>1
<1>7. s = W ++ R
    <2>1. PICK v \in Seq(S) : v = One(u)
        BY <1>5
    <2>2. P ++ (v ++ R) = (P ++ v) ++ R
        BY JoinAssociative
    <2> QED BY <1>2, <1>4, <1>6, <2>1, <2>2
<1>8. Upto(s, k + 1) = W
    <2>1. Upto(W ++ R, Len(W)) = W
        BY CutJoined
    <2> QED BY <1>6, <1>7, <2>1
<1>9. u = s[k + 1]
    <2>1. \A i \in 1 .. Len(W) : (W ++ R)[i] = W[i]
        BY JoinAt
    <2>2. k + 1 \in 1 .. Len(W)
        BY <1>1, <1>6
    <2>3. s[k + 1] = W[k + 1]
        BY <1>7, <2>1, <2>2
    <2>4. W[Len(P) + 1] = One(u)[1]
        <3>0. PICK v \in Seq(S) : v = One(u)
            BY <1>5
        <3>1. \A i \in 1 .. Len(One(u)) : (P ++ One(u))[Len(P) + i] = One(u)[i]
            <4>1. \A i \in 1 .. Len(v) : (P ++ v)[Len(P) + i] = v[i]
                BY JoinIs
            <4> QED BY <3>0, <4>1
        <3>2. 1 \in 1 .. Len(One(u))
            BY <1>5
        <3>3. (P ++ One(u))[Len(P) + 1] = One(u)[1]
            BY <3>1, <3>2
        <3> QED BY <1>6, <3>3
    <2> QED BY <1>2, <1>5, <2>3, <2>4
<1> QED BY <1>2, <1>4, <1>6, <1>8, <1>9

\* The new names are names, and as many as there were.
LEMMA NamedTyped ==
    ASSUME NEW b \in Buffers, NEW s, Linked(b, s)
    PROVE  NextNamed(b, s) \in [Units -> Units \cup {NULL}] /\ DataNamed(b, s) \in [Units -> Held]
<1>1. b.pNext \in [Units -> Units \cup {NULL}] /\ b.data \in [Units -> Held] /\ s \in Seq(Units)
    BY RecordIs, StartIs
<1>2. NextNamed(b, s) \in [Units -> Units \cup {NULL}]
    BY <1>1 DEF NextNamed
<1>3. ASSUME NEW u \in Units PROVE DataNamed(b, s)[u] \in Held
    <2>1. CASE Forgotten(b, s, u)
        <3>1. DataNamed(b, s)[u] = Nil
            BY <2>1 DEF DataNamed, Nil
        <3> QED BY <3>1, NilHeld
    <2>2. CASE u \in Range(s)
        <3>1. PICK i \in 1 .. Len(s) : s[i] = u
            <4>1. Range(s) = {s[i] : i \in 1 .. Len(s)}
                BY <1>1, RangeIs
            <4> QED BY <2>2, <4>1
        <3>2. PICK k \in 0 .. Len(s) - 1 : i = k + 1
            <4>1. Len(s) \in Nat
                BY <1>1, NilIs
            <4>2. i - 1 \in 0 .. Len(s) - 1 /\ i = (i - 1) + 1
                BY <4>1
            <4> QED BY <4>2
        <3>3. PICK P \in Seq(Units), R \in Seq(Units) : s = P ++ (One(u) ++ R)
            <4>1. PICK v \in Units, R \in Seq(Units) : /\ s = Upto(s, k) ++ (One(v) ++ R) /\ Upto(s, k) \in Seq(Units) /\ v = s[k + 1]
                                                      /\ Upto(s, k + 1) = Upto(s, k) ++ One(v)
                BY <1>1, <3>2, SplitAt
            <4>2. v = u
                BY <3>1, <3>2, <4>1
            <4> QED BY <4>1, <4>2
        <3>4. PICK n \in Nat, m \in Nat : DataNamed(b, s)[u] = PlacesBehind(n, m) /\ m <= Capacity /\ n + m <= Most
            <4>1. /\ DataNamed(b, s)[u] = PlacesBehind(Len(Cat(b.data, P)), Len(b.data[u]))
                  /\ Len(Cat(b.data, P)) \in Nat /\ Len(b.data[u]) \in 0 .. Capacity /\ Len(Cat(b.data, P)) + Len(b.data[u]) <= Most
                BY <3>3, NamedAt
            <4>2. Len(b.data[u]) \in Nat /\ Len(b.data[u]) <= Capacity
                BY <4>1, BufferAssumption
            <4> QED BY <4>1, <4>2
        <3>5. \A j \in 1 .. m : n + j \in Bytes
            <4>1. Bytes = 0 .. Most + MaxLen /\ MaxLen \in Nat /\ Most \in Nat
                BY ContentsLen, BufferAssumption DEF Bytes, Most
            <4> QED BY <3>4, <4>1
        <3>6. PlacesBehind(n, m) \in [1 .. m -> Bytes]
            BY <3>5 DEF PlacesBehind
        <3>7. PlacesBehind(n, m) \in Seq(Bytes) /\ Len(PlacesBehind(n, m)) = m
            BY <3>6
        <3> QED BY <3>4, <3>7 DEF Held
    <2>3. CASE ~Forgotten(b, s, u) /\ u \notin Range(s)
        <3>1. DataNamed(b, s)[u] = [j \in DOMAIN b.data[u] |-> Stale]
            BY <2>3 DEF DataNamed
        <3>2. PICK m \in Nat : DOMAIN b.data[u] = 1 .. m /\ m <= Capacity
            <4>1. b.data[u] \in Seq(Bytes) /\ Len(b.data[u]) \in 0 .. Capacity
                BY <1>1, HeldIs
            <4>2. Len(b.data[u]) \in Nat /\ Len(b.data[u]) <= Capacity /\ DOMAIN b.data[u] = 1 .. Len(b.data[u])
                BY <4>1, BufferAssumption
            <4> QED BY <4>2
        <3>3. Stale \in Bytes
            <4>1. Bytes = 0 .. Most + MaxLen /\ MaxLen \in Nat /\ Most \in Nat
                BY ContentsLen, BufferAssumption DEF Bytes, Most
            <4> QED BY <4>1 DEF Stale
        <3>4. PICK e : e = DataNamed(b, s)[u] /\ e = [j \in 1 .. m |-> Stale]
            BY <3>1, <3>2
        <3>5. e \in [1 .. m -> Bytes]
            BY <3>3, <3>4
        <3>6. e \in Seq(Bytes) /\ Len(e) = m
            BY <3>5
        <3> QED BY <3>2, <3>4, <3>6 DEF Held
    <2> QED BY <2>1, <2>2, <2>3
<1>4. DataNamed(b, s) = [u \in Units |-> DataNamed(b, s)[u]]
    BY DEF DataNamed
<1>5. PICK d : d = DataNamed(b, s)
    OBVIOUS
<1>6. d \in [Units -> Held]
    BY <1>3, <1>4, <1>5
<1> QED BY <1>2, <1>5, <1>6

\* The bytes of a list are named by their places.
LEMMA NamedCat ==
    ASSUME NEW b \in Buffers, NEW s, Linked(b, s)
    PROVE  Cat(DataNamed(b, s), s) = Places(Len(Cat(b.data, s)))
<1>1. b.data \in [Units -> Held] /\ b.data \in [Units -> Seq(Bytes)] /\ s \in Seq(Units) /\ Len(s) \in Nat
    BY RecordIs, HeldSeq, StartIs, NilIs
<1>2. PICK d : d = DataNamed(b, s) /\ d \in [Units -> Seq(Bytes)]
    BY NamedTyped, HeldSeq
<1> DEFINE Done(k) == Cat(d, Upto(s, k)) = Places(Len(Cat(b.data, Upto(s, k))))
           G == {k \in Nat : k <= Len(s) => Done(k)}
<1>3. 0 \in G
    <2>1. Upto(s, 0) = Nil
        <3>1. Upto(s, 0) \in Seq(Units) /\ Len(Upto(s, 0)) = 0
            BY <1>1, CutIs
        <3> QED BY <3>1, NilIs
    <2>2. Cat(d, Nil) = Nil /\ Cat(b.data, Nil) = Nil
        BY CatNone
    <2>3. Places(Len(Nil)) = Nil
        <3>1. Places(0) \in Seq(Nat) /\ Len(Places(0)) = 0
            BY PlacesAre
        <3>2. Places(0) = Nil
            BY <3>1, NilIs
        <3> QED BY <3>2, NilIs
    <2> QED BY <2>1, <2>2, <2>3
<1>4. \A k \in G : k + 1 \in G
    <2> SUFFICES ASSUME NEW k \in Nat, k <= Len(s) => Done(k), k + 1 <= Len(s) PROVE Done(k + 1)
        OBVIOUS
    <2>1. k \in 0 .. Len(s) - 1 /\ k <= Len(s)
        BY <1>1
    <2>2. PICK u \in Units, R \in Seq(Units) : s = Upto(s, k) ++ (One(u) ++ R) /\ Upto(s, k) \in Seq(Units) /\ Upto(s, k + 1) = Upto(s, k) ++ One(u)
        BY <1>1, <2>1, SplitAt
    <2>3. PICK P \in Seq(Units) : P = Upto(s, k)
        BY <2>2
    <2>4. PICK n \in Nat, m \in Nat : n = Len(Cat(b.data, P)) /\ m = Len(b.data[u]) /\ d[u] = PlacesBehind(n, m)
        <3>1. /\ DataNamed(b, s)[u] = PlacesBehind(Len(Cat(b.data, P)), Len(b.data[u]))
              /\ Len(Cat(b.data, P)) \in Nat /\ Len(b.data[u]) \in 0 .. Capacity
            <4>1. s = P ++ (One(u) ++ R)
                BY <2>2, <2>3
            <4> QED BY <4>1, NamedAt
        <3>2. Len(b.data[u]) \in Nat
            BY <3>1
        <3> QED BY <1>2, <3>1, <3>2
    <2>5. Cat(d, P) = Places(n)
        BY <2>1, <2>3, <2>4
    <2>6. Cat(d, P ++ One(u)) = Cat(d, P) ++ d[u]
        BY <1>2, CatMore
    <2>7. Cat(b.data, P ++ One(u)) = Cat(b.data, P) ++ b.data[u] /\ Cat(b.data, P) \in Seq(Bytes) /\ b.data[u] \in Seq(Bytes)
        BY <1>1, BytesMore
    <2>8. Len(Cat(b.data, P ++ One(u))) = n + m
        BY <2>4, <2>7, JoinLen
    <2>9. Places(n) ++ PlacesBehind(n, m) = Places(n + m)
        BY PlacesAre
    <2>10. Cat(d, P ++ One(u)) = Places(Len(Cat(b.data, P ++ One(u))))
        BY <2>4, <2>5, <2>6, <2>8, <2>9
    <2> QED BY <2>2, <2>3, <2>10
<1>5. Nat \subseteq G
    <2> HIDE DEF G
    <2>1. G \subseteq Nat
        BY DEF G
    <2> QED BY <1>3, <1>4, <2>1, CountUp
<1>6. Done(Len(s))
    BY <1>1, <1>5
<1>7. Upto(s, Len(s)) = s
    BY <1>1 DEF Upto
<1> QED BY <1>2, <1>6, <1>7

\* A list with its bytes named anew is the same list.
LEMMA RenamedIs ==
    ASSUME NEW b \in Buffers, NEW s, Linked(b, s), NEW g, g = Renamed(b)
    PROVE  g \in Buffers /\ Linked(g, s) /\ g.pStart = b.pStart /\ Contents(g) = Places(Len(Contents(b)))
<1>1. PICK nx, d : nx = NextNamed(b, s) /\ d = DataNamed(b, s)
    OBVIOUS
<1>2. /\ g.pStart = b.pStart /\ g.pLast = b.pLast /\ g.clusterCount = b.clusterCount /\ g.held = b.held
      /\ g.pNext = nx /\ g.data = d /\ g = Record(b.pStart, b.pLast, b.clusterCount, b.held, nx, d)
    BY <1>1, RenamedFields
<1>3. nx \in [Units -> Units \cup {NULL}] /\ d \in [Units -> Held]
    BY <1>1, NamedTyped
<1>4. Typed(b.pStart, b.pLast, b.clusterCount, b.held, nx, d)
    BY <1>3, RecordIs DEF Typed
<1>5. g \in Buffers
    BY <1>2, <1>4, RecordIn
<1>6. s \in Seq(Units) /\ Range(s) \subseteq Units
    BY StartIs, RangeIs
<1>7. \A u \in Range(s) : nx[u] = b.pNext[u]
    BY <1>1, <1>6 DEF NextNamed, Forgotten
<1>8. Segment(b.pNext, b.pStart, s, NULL)
    BY DEF Linked
<1>9. Segment(nx, b.pStart, s, NULL)
    BY <1>7, <1>8, SegmentSame
<1>10. Linked(g, s)
    BY <1>2, <1>9 DEF Linked
<1>11. Contents(b) = Cat(b.data, s)
    BY ContentsIs
<1>12. Contents(g) = Cat(d, s)
    BY <1>2, <1>5, <1>10, ContentsIs
<1>13. Cat(d, s) = Places(Len(Cat(b.data, s)))
    BY <1>1, NamedCat
<1> QED BY <1>2, <1>5, <1>10, <1>11, <1>12, <1>13

\* The results are made use of: only the names of the bytes change.
LEMMA TakenKeeps ==
    ASSUME IInv, Taken
    PROVE  Keeps
<1>1. /\ reply # NoReply /\ reply' = NoReply /\ buf' = Renamed(buf) /\ call' = call /\ first' = first /\ fault' = fault /\ pc' = pc
      /\ cluster' = cluster /\ prevCluster' = prevCluster /\ offset' = offset /\ remainLen' = remainLen
    BY DEF Taken, locals
<1>2. pc = "idle" /\ call = NoCall /\ fault = "none" /\ Kept(buf, Contents(buf))
    BY <1>1 DEF IInv
<1>3. PICK s : buf \in Buffers /\ Linked(buf, s)
    BY DEF IInv, Proceeding, Listed
<1>4. buf' \in Buffers /\ Linked(buf', s) /\ buf'.pStart = buf.pStart /\ Contents(buf') = Places(Len(Contents(buf)))
    BY <1>1, <1>3, RenamedIs
<1>5. Contents(buf) \in Seq(Bytes) /\ Len(Contents(buf)) \in Nat
    BY <1>3, ContentsIs, NilIs
<1>6. Kept(buf', Contents(buf'))
    <2>1. ASSUME buf.pStart # NULL PROVE Contents(buf') # Nil
        <3>1. Contents(buf) # Nil
            BY <1>2, <2>1 DEF Kept
        <3>2. Len(Contents(buf)) # 0
            BY <1>5, <3>1, NilIs
        <3>3. Len(Places(Len(Contents(buf)))) = Len(Contents(buf))
            BY <1>5, PlacesAre
        <3> QED BY <1>4, <3>2, <3>3, NilIs
    <2> QED BY <1>4, <2>1 DEF Kept
<1>7. Listed(buf')
    BY <1>4 DEF Listed
<1>8. Proceeding'
    BY <1>1, <1>4, <1>7 DEF IInv, Proceeding
<1>9. IInv'
    BY <1>1, <1>2, <1>6, <1>8 DEF IInv
<1>10. Visible = Contents(buf) /\ Visible' = Contents(buf')
    BY <1>1, <1>2 DEF Visible
<1>11. Contents(buf') = [i \in DOMAIN Contents(buf) |-> i]
    <2>1. DOMAIN Contents(buf) = 1 .. Len(Contents(buf))
        BY <1>5
    <2> QED BY <1>4, <2>1 DEF Places
<1>12. Promised!Taken
    BY <1>1, <1>10, <1>11 DEF Promised!Taken
<1> QED BY <1>9, <1>12 DEF Keeps, Promised!Next

-----------------------------------------------------------------------------
(* All is deleted                                                           *)

\* The empty list.
LEMMA NoneLinked ==
    ASSUME NEW b, b \in Buffers, b.pStart = NULL, b.pLast = NULL, b.clusterCount = 0, b.held = {}
    PROVE  Linked(b, Nil) /\ Contents(b) = Nil
<1>1. Segment(b.pNext, NULL, Nil, NULL)
    BY SegmentOne
<1>2. Linked(b, Nil)
    BY <1>1, RangeOne, NilIs, EndOne DEF Linked
<1> QED BY <1>2, ContentsIs, CatNone

\* A look at the list without the lock changes nothing.
LEMMA DeleteAllLooksKeeps ==
    ASSUME IInv, DeleteAllLooks
    PROVE  Keeps
<1>1. /\ Idle /\ first' = buf.pStart /\ UNCHANGED <<buf, call, reply, bytes, fault>> /\ pc' = pc
      /\ cluster' = cluster /\ prevCluster' = prevCluster /\ offset' = offset /\ remainLen' = remainLen
    BY DEF DeleteAllLooks, locals
<1>2. pc = "idle" /\ call = NoCall /\ fault = "none" /\ Kept(buf, Contents(buf))
    BY <1>1, IdleIs
<1>3. Proceeding'
    BY <1>1 DEF IInv, Proceeding
<1>4. IInv'
    BY <1>1, <1>2, <1>3 DEF IInv
<1>5. Visible' = Visible
    BY <1>1 DEF Visible
<1> QED BY <1>1, <1>4, <1>5 DEF Keeps

\* The clusters that are freed are those handed out, each of them once.
LEMMA DeleteAllFreesKeeps ==
    ASSUME IInv, DeleteAllFrees
    PROVE  Keeps
<1>1. Idle /\ first # NoCall
    BY DEF DeleteAllFrees
<1>2. pc = "idle" /\ call = NoCall /\ reply = NoReply /\ fault = "none" /\ first = buf.pStart /\ buf \in Buffers
    BY <1>1, IdleIs
<1>3. PICK s : Linked(buf, s)
    BY <1>1, IdleIs DEF Listed
<1>4. Range(Chain(buf, first)) = buf.held
    BY <1>2, <1>3, ContentsIs DEF Linked
<1>5. /\ buf' = [buf EXCEPT !.pStart = NULL, !.pLast = NULL, !.clusterCount = 0, !.held = @ \ buf.held]
      /\ first' = NoCall /\ call' = call /\ reply' = reply /\ fault' = fault /\ pc' = pc
      /\ cluster' = cluster /\ prevCluster' = prevCluster /\ offset' = offset /\ remainLen' = remainLen
    BY <1>4 DEF DeleteAllFrees, locals
<1>6. buf = Record(buf.pStart, buf.pLast, buf.clusterCount, buf.held, buf.pNext, buf.data)
    BY <1>2, RecordIs
<1>7. buf' = Record(NULL, NULL, 0, {}, buf.pNext, buf.data)
    BY <1>5, <1>6 DEF Record
<1>8. Typed(NULL, NULL, 0, {}, buf.pNext, buf.data)
    BY <1>2, RecordIs DEF Typed
<1>9. buf' \in Buffers /\ buf'.pStart = NULL /\ buf'.pLast = NULL /\ buf'.clusterCount = 0 /\ buf'.held = {}
    BY <1>7, <1>8, RecordIn
<1>10. Linked(buf', Nil) /\ Contents(buf') = Nil
    BY <1>9, NoneLinked
<1>11. Listed(buf') /\ Kept(buf', Contents(buf'))
    BY <1>9, <1>10 DEF Listed, Kept
<1>12. Proceeding'
    BY <1>5, <1>11 DEF IInv, Proceeding
<1>13. IInv'
    BY <1>2, <1>5, <1>11, <1>12 DEF IInv
<1>14. Visible' = Nil
    BY <1>2, <1>5, <1>10 DEF Visible
<1>15. Promised!DeleteAll
    BY <1>2, <1>5, <1>14 DEF Promised!DeleteAll, Promised!Idle, Nil
<1> QED BY <1>13, <1>15 DEF Keeps, Promised!Next

\* The invariant holds of the buffer a program gets.
LEMMA InitIInv ==
    ASSUME Init
    PROVE  IInv /\ Promised!Init
<1>1. /\ buf = Record(NULL, NULL, 0, {}, [u \in Units |-> NULL], [u \in Units |-> Nil])
      /\ call = NoCall /\ reply = NoReply
      /\ pc = "idle" /\ cluster = NULL /\ prevCluster = NULL /\ offset = 0 /\ remainLen = 0 /\ first = NoCall /\ fault = "none"
    BY DEF Init, Record, Nil
<1>2. PICK nx, d : nx = [u \in Units |-> NULL] /\ d = [u \in Units |-> Nil]
    OBVIOUS
<1>3. nx \in [Units -> Units \cup {NULL}] /\ d \in [Units -> Held]
    BY <1>2, NilHeld
<1>4. Typed(NULL, NULL, 0, {}, nx, d)
    BY <1>3 DEF Typed
<1>5. buf \in Buffers /\ buf.pStart = NULL /\ buf.pLast = NULL /\ buf.clusterCount = 0 /\ buf.held = {}
    BY <1>1, <1>2, <1>4, RecordIn
<1>6. Linked(buf, Nil) /\ Contents(buf) = Nil
    BY <1>5, NoneLinked
<1>7. Listed(buf) /\ Kept(buf, Contents(buf))
    BY <1>5, <1>6 DEF Listed, Kept
<1>8. Proceeding
    <2>1. 0 \in 0 .. MaxLen
        BY BufferAssumption
    <2> QED BY <1>1, <1>7, <2>1 DEF Proceeding
<1>9. IInv
    BY <1>1, <1>7, <1>8 DEF IInv
<1>10. Visible = <<>>
    BY <1>1, <1>6 DEF Visible, Nil
<1> QED BY <1>1, <1>9, <1>10 DEF Promised!Init

-----------------------------------------------------------------------------
(* All steps                                                                *)

\* Every step of a call keeps the invariant and the promise.
LEMMA StepKeeps ==
    ASSUME IInv, Careful = TRUE, fault = "none", Step
    PROVE  Keeps
<1>1. ASSUME AppendCopy \/ AppendNoMemory \/ \E u \in Units : AppendGrow(u) PROVE Keeps
    BY <1>1, AppendCopyKeeps, AppendNoMemoryKeeps, AppendGrowKeeps
<1>2. ASSUME DeleteRefused \/ DeleteCluster \/ DeleteEnds PROVE Keeps
    BY <1>2, DeleteRefusedKeeps, DeleteClusterKeeps, DeleteEndsKeeps
<1>3. ASSUME ReadToEnd \/ ReadPart \/ ReadEnds PROVE Keeps
    BY <1>3, ReadToEndKeeps, ReadPartKeeps, ReadEndsKeeps
<1>4. ASSUME InsertInPlace \/ InsertNoMemory \/ InsertEnds \/ InsertAppends PROVE Keeps
    BY <1>4, InsertInPlaceKeeps, InsertNoMemoryKeeps, InsertEndsKeeps, InsertAppendsKeeps
<1>5. ASSUME \E u \in Units : InsertSplit(u) \/ InsertBefore(u) PROVE Keeps
    BY <1>5, InsertSplitKeeps, InsertBeforeKeeps
<1>6. ASSUME DefragmentCluster \/ DefragmentEnds PROVE Keeps
    BY <1>6, DefragmentClusterKeeps, DefragmentEndsKeeps
<1>7. ASSUME CheckCluster \/ CheckEnds \/ DumpCluster \/ DumpFails \/ DumpEnds PROVE Keeps
    BY <1>7, CheckClusterKeeps, CheckEndsKeeps, DumpClusterKeeps, DumpFailsKeeps, DumpEndsKeeps
<1> QED BY <1>1, <1>2, <1>3, <1>4, <1>5, <1>6, <1>7 DEF Step

\* So does whatever else may happen.
LEMMA NextKeeps ==
    ASSUME IInv, Careful = TRUE, [Next]_vars
    PROVE  Keeps
<1>1. CASE fault = "none" /\ Step
    BY <1>1, StepKeeps
<1>2. CASE \E c \in Allowed : Invoke(c)
    BY <1>2, InvokeKeeps
<1>3. CASE Taken
    BY <1>3, TakenKeeps
<1>4. CASE DeleteAllLooks \/ DeleteAllFrees
    BY <1>4, DeleteAllLooksKeeps, DeleteAllFreesKeeps
<1>5. CASE UNCHANGED vars
    <2>1. IInv'
        BY <1>5 DEF vars, locals, IInv, Proceeding, Working
    <2>2. Visible' = Visible /\ call' = call /\ reply' = reply
        BY <1>5 DEF vars, locals, Visible
    <2> QED BY <2>1, <2>2 DEF Keeps
<1> QED BY <1>1, <1>2, <1>3, <1>4, <1>5 DEF Next

\* The invariant holds in every state that a careful program reaches.
LEMMA Invariant ==
    ASSUME Careful = TRUE
    PROVE  Spec => []IInv
<1>1. Init => IInv
    BY InitIInv
<1>2. IInv /\ [Next]_vars => IInv'
    BY NextKeeps DEF Keeps
<1> QED BY <1>1, <1>2, PTL DEF Spec

-----------------------------------------------------------------------------
(* Theorems                                                                 *)

\* Every variable has its type, and no cluster ever holds more bytes than it has room for:
\* _buffer_cluster_append_data and the moves of _buffer_insert and _buffer_defragment.
THEOREM TypeCorrect ==
    ASSUME Careful = TRUE
    PROVE  Spec => []TypeOK
<1>1. ASSUME NEW d \in Held PROVE d \in BoundedSeq(Bytes, Capacity)
    <2>1. d \in Seq(Bytes) /\ Len(d) \in 0 .. Capacity
        <3>1. d \in Seq(Bytes) /\ Len(d) <= Capacity
            BY <1>1 DEF Held
        <3> QED BY <3>1, NilIs, BufferAssumption
    <2>2. PICK n \in 0 .. Capacity : n = Len(d)
        BY <2>1
    <2>3. d \in [1 .. n -> Bytes]
        BY <2>1, <2>2
    <2>4. \E m \in 0 .. Capacity : d \in [1 .. m -> Bytes]
        BY <2>2, <2>3
    <2>5. BoundedSeq(Bytes, Capacity) = UNION {[1 .. m -> Bytes] : m \in 0 .. Capacity}
        BY DEF BoundedSeq, SeqOf
    <2> QED BY <2>4, <2>5
<1>2. IInv => TypeOK
    <2> SUFFICES ASSUME IInv PROVE TypeOK
        OBVIOUS
    <2>1. Proceeding /\ buf \in Buffers
        BY DEF IInv, Proceeding, Listed
    <2>2. /\ buf.pStart \in Units \cup {NULL} /\ buf.pLast \in Units \cup {NULL} /\ buf.clusterCount \in Int /\ buf.held \in SUBSET Units
          /\ buf.pNext \in [Units -> Units \cup {NULL}] /\ buf.data \in [Units -> Held]
        BY <2>1, RecordIs
    <2>3. \A u \in Units : buf.data[u] \in BoundedSeq(Bytes, Capacity)
        BY <1>1, <2>2
    <2> QED BY <2>1, <2>2, <2>3 DEF TypeOK, Proceeding
<1> QED BY <1>2, Invariant, PTL

\* Between two calls every cluster handed out is in the list once, clusterCount is their
\* number and pLast the last of them: the linking in _buffer_alloc_new_cluster,
\* _buffer_alloc_new_cluster_and_insert_after and _buffer_free_cluster, and
\* AMCMutableBuffer_DeleteAll, which looks at the list before it takes the lock.
THEOREM ListHolds ==
    ASSUME Careful = TRUE
    PROVE  Spec => []ListIntact
<1>1. IInv => ListIntact
    <2> SUFFICES ASSUME IInv PROVE ListIntact
        OBVIOUS
    <2>1. PICK s : buf \in Buffers /\ Linked(buf, s)
        BY DEF IInv, Proceeding, Listed
    <2>2. Chain(buf, buf.pStart) = s /\ s \in Seq(Units)
        BY <2>1, ContentsIs
    <2>3. Range(s) = buf.held /\ buf.clusterCount = Len(s) /\ buf.pLast = End(s)
        BY <2>1 DEF Linked
    <2>4. IsInjective(s)
        <3>1. \A i, j \in 1 .. Len(s) : s[i] = s[j] => i = j
            BY <2>1 DEF Linked, Segment
        <3>2. DOMAIN s = 1 .. Len(s)
            BY <2>2
        <3> QED BY <3>1, <3>2 DEF IsInjective
    <2>5. End(s) = IF s = <<>> THEN NULL ELSE Last(s)
        BY DEF End, Last, Nil
    <2> QED BY <2>2, <2>3, <2>4, <2>5 DEF ListIntact
<1> QED BY <1>1, Invariant, PTL

\* The process ends inside a call only when an insertion finds no memory: no call runs off
\* the list, writes past a cluster or frees one twice.
THEOREM EndsOnly ==
    ASSUME Careful = TRUE
    PROVE  Spec => []EndsOnlyWithoutMemory
<1>1. IInv => EndsOnlyWithoutMemory
    BY DEF IInv, EndsOnlyWithoutMemory
<1> QED BY <1>1, Invariant, PTL

\* The calls of a careful program return and leave behind what they would with one sequence
\* of bytes, as AMCMutableBuffer.h has it: every step of the code is one of the
\* specification, or changes nothing that a caller sees.
THEOREM KeepsPromise ==
    ASSUME Careful = TRUE
    PROVE  Spec => ImplementsBytes
<1>1. Init => Promised!Init
    BY InitIInv
<1>2. IInv /\ [Next]_vars => [Promised!Next]_<<Visible, call, reply>>
    BY NextKeeps DEF Keeps
<1> QED BY <1>1, <1>2, Invariant, PTL DEF Spec, ImplementsBytes, Promised!Spec
=============================================================================
