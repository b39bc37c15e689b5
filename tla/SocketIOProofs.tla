--------------------------- MODULE SocketIOProofs ---------------------------
(***************************************************************************)
(* TLAPS proofs about SocketIO, for messages, sockets and buffers of every *)
(* size.                                                                   *)
(***************************************************************************)
EXTENDS SocketIO, SequenceTheorems, TLAPS

\* The places of the message.
Bytes == 1 .. Length

\* TypeOK in two parts: the sequences, and the rest.
SeqInv == {buf, kernel, far} \subseteq Seq(Bytes)

NumInv ==
  /\ fn \in Functions
  /\ busy \in BOOLEAN
  /\ calls \in 0 .. MaxCalls
  /\ count \in 0 .. Length
  /\ ret \in -1 .. Length
  /\ peer \in {"open", "fin", "rst"}
  /\ signals \in 0 .. MaxSignals
  /\ edge \in BOOLEAN

\* What a call has done stays within the buffer, and the buffer within the message.
LenInv ==
  /\ Len(buf) <= Length
  /\ busy => count <= Len(buf) /\ calls > 0

\* NothingLeftBehind is inductive: a reader returns only when the socket is empty,
\* and nothing else takes the edge of a reader that is not busy.
EdgeInv ==
  /\ fn \in Functions
  /\ NothingLeftBehind

-----------------------------------------------------------------------------
(* Sequences in parts.  Concatenation has a name that is not expanded where *)
(* what the lemmas say of it is enough.                                     *)

Cat(s, t) == s \o t

\* Bytes are moved, never dropped or made.
ReadInv == fn \in Readers => Cat(Cat(buf, kernel), far) = Message

WriteInv ==
  /\ fn \in Writers => IsPrefix(far, Message)
  /\ fn \in Writers /\ peer # "rst" => Cat(Cat(far, kernel), Rest) = Message

ByteInv == SeqInv /\ NumInv /\ LenInv /\ ReadInv /\ WriteInv

LEMMA CatType ==
  ASSUME NEW S, NEW s \in Seq(S), NEW t \in Seq(S)
  PROVE  Cat(s, t) \in Seq(S) /\ Len(Cat(s, t)) = Len(s) + Len(t)
  BY ConcatProperties DEF Cat

LEMMA CatAssociative ==
  ASSUME NEW S, NEW s \in Seq(S), NEW t \in Seq(S), NEW u \in Seq(S)
  PROVE  Cat(Cat(s, t), u) = Cat(s, Cat(t, u))
  BY ConcatAssociative DEF Cat

LEMMA CatPrefix ==
  ASSUME NEW S, NEW s \in Seq(S), NEW t \in Seq(S)
  PROVE  IsPrefix(s, Cat(s, t))
<1>1. Len(Cat(s, t)) = Len(s) + Len(t) /\ Len(s) \in Nat /\ Len(t) \in Nat
  BY CatType, LenProperties
<1>2. SubSeq(Cat(s, t), 1, Len(s)) = SubSeq(s, 1, Len(s))
  <2>1. CASE Len(s) = 0
    BY <2>1, SubSeqEmpty
  <2>2. CASE Len(s) > 0
    BY <1>1, <2>2, SubSeqOfConcat1 DEF Cat
  <2> QED
    BY <1>1, <2>1, <2>2
<1> QED
  BY <1>1, <1>2 DEF IsPrefix

LEMMA SplitSeq ==
  ASSUME NEW S, NEW s \in Seq(S), NEW k \in 0 .. Len(s)
  PROVE  /\ First(s, k) \in Seq(S) /\ From(s, k) \in Seq(S)
         /\ Len(First(s, k)) = k /\ Len(From(s, k)) = Len(s) - k
         /\ Cat(First(s, k), From(s, k)) = s
<1>1. Len(s) \in Nat /\ \A i \in 1 .. Len(s) : s[i] \in S
  BY LenProperties, ElementOfSeq
<1>2. First(s, k) \in Seq(S) /\ Len(First(s, k)) = k
  BY <1>1, SubSeqProperties DEF First
<1>3. From(s, k) \in Seq(S) /\ Len(From(s, k)) = Len(s) - k
  BY <1>1, SubSeqProperties DEF From
<1>4. 1 \in 1 .. Len(s) + 1 /\ k \in 1 - 1 .. Len(s) /\ Len(s) \in k .. Len(s)
  BY <1>1
<1>5. Cat(First(s, k), From(s, k)) = SubSeq(s, 1, Len(s))
  BY <1>4, ConcatAdjacentSubSeq DEF First, From, Cat
<1> QED
  BY <1>2, <1>3, <1>5, SubSeqFull

\* A piece goes from the beginning of one sequence to the end of the one before
\* it, and the whole is what it was.
LEMMA PieceMoved ==
  ASSUME NEW S, NEW a \in Seq(S), NEW b \in Seq(S), NEW c \in Seq(S), NEW k \in 0 .. Len(b)
  PROVE  /\ Cat(a, First(b, k)) \in Seq(S) /\ From(b, k) \in Seq(S)
         /\ Len(Cat(a, First(b, k))) = Len(a) + k
         /\ Cat(Cat(Cat(a, First(b, k)), From(b, k)), c) = Cat(Cat(a, b), c)
<1>1. First(b, k) \in Seq(S) /\ From(b, k) \in Seq(S) /\ Len(First(b, k)) = k
  BY SplitSeq
<1>2. Cat(a, First(b, k)) \in Seq(S) /\ Len(Cat(a, First(b, k))) = Len(a) + k
  BY <1>1, CatType
<1>3. Cat(First(b, k), From(b, k)) = b
  BY SplitSeq
<1>4. Cat(Cat(a, First(b, k)), From(b, k)) = Cat(a, b)
  BY <1>1, <1>3, CatAssociative
<1> QED
  BY <1>1, <1>2, <1>4

LEMMA PieceMovedAtEnd ==
  ASSUME NEW S, NEW a \in Seq(S), NEW b \in Seq(S), NEW c \in Seq(S), NEW k \in 0 .. Len(c)
  PROVE  /\ Cat(b, First(c, k)) \in Seq(S) /\ From(c, k) \in Seq(S)
         /\ Cat(Cat(a, Cat(b, First(c, k))), From(c, k)) = Cat(Cat(a, b), c)
<1>1. First(c, k) \in Seq(S) /\ From(c, k) \in Seq(S)
  BY SplitSeq
<1>2. Cat(a, b) \in Seq(S) /\ Cat(b, First(c, k)) \in Seq(S)
  BY <1>1, CatType
<1>3. Cat(First(c, k), From(c, k)) = c
  BY SplitSeq
<1>4. Cat(a, Cat(b, First(c, k))) = Cat(Cat(a, b), First(c, k))
  BY <1>1, CatAssociative
<1>5. Cat(Cat(Cat(a, b), First(c, k)), From(c, k)) = Cat(Cat(a, b), c)
  BY <1>1, <1>2, <1>3, CatAssociative
<1> QED
  BY <1>1, <1>2, <1>4, <1>5

\* The next piece of a buffer, where m are done.
LEMMA NextPieceMoved ==
  ASSUME NEW S, NEW a \in Seq(S), NEW b \in Seq(S), NEW s \in Seq(S),
         NEW m \in Nat, NEW k \in Nat, m + k <= Len(s)
  PROVE  /\ Cat(b, SubSeq(s, m + 1, m + k)) \in Seq(S)
         /\ Cat(Cat(a, Cat(b, SubSeq(s, m + 1, m + k))), From(s, m + k)) = Cat(Cat(a, b), From(s, m))
<1>1. Len(s) \in Nat /\ \A i \in 1 .. Len(s) : s[i] \in S
  BY LenProperties, ElementOfSeq
<1> DEFINE p == SubSeq(s, m + 1, m + k)
<1>2. p \in Seq(S)
  BY <1>1, SubSeqProperties
<1>3. Cat(p, From(s, m + k)) = From(s, m)
  <2>1. m + 1 \in 1 .. Len(s) + 1 /\ m + k \in (m + 1) - 1 .. Len(s) /\ Len(s) \in m + k .. Len(s)
    BY <1>1
  <2> QED
    BY <2>1, ConcatAdjacentSubSeq DEF Cat, From
<1>4. From(s, m + k) \in Seq(S)
  <2>1. m + k \in 0 .. Len(s)
    BY <1>1
  <2> QED
    BY <2>1, SplitSeq
<1> HIDE DEF p
<1>5. Cat(a, b) \in Seq(S) /\ Cat(b, p) \in Seq(S)
  BY <1>2, CatType
<1>6. Cat(a, Cat(b, p)) = Cat(Cat(a, b), p)
  BY <1>2, CatAssociative
<1>7. Cat(Cat(Cat(a, b), p), From(s, m + k)) = Cat(Cat(a, b), From(s, m))
  BY <1>2, <1>3, <1>4, <1>5, CatAssociative
<1> QED
  BY <1>5, <1>6, <1>7 DEF p

LEMMA MessageType == Message \in Seq(Bytes) /\ Len(Message) = Length /\ Length \in Nat
<1>1. Length \in Nat
  BY SocketAssumption
<1>2. Message \in [1 .. Length -> Bytes]
  BY DEF Message, Bytes
<1> QED
  BY <1>1, <1>2

-----------------------------------------------------------------------------
(* The edge. *)

LEMMA EdgeInit == Init => EdgeInv
  BY DEF Init, EdgeInv, NothingLeftBehind

LEMMA ReadersStep == EdgeInv /\ (readn \/ read_) => EdgeInv'
<1> SUFFICES ASSUME EdgeInv, readn \/ read_ PROVE EdgeInv'
  OBVIOUS
<1> USE DEF EdgeInv, NothingLeftBehind, Calling
<1>1. busy /\ fn \in Readers /\ fn' = fn
  BY DEF readn, read_, ReadSome, ReadsOn, Goes, Return, Readers
<1>2. CASE ReadSome
  <2>1. busy' = busy
    BY <1>2 DEF ReadSome, ReadsOn, Goes
  <2>2. PICK k \in 1 .. Least(Len(kernel), BUF_SIZE) : TRUE
    BY <1>2 DEF ReadSome, Got
  <2>3. kernel # <<>>
    <3>1. SUFFICES ASSUME kernel = <<>> PROVE FALSE
      OBVIOUS
    <3>2. Len(kernel) = 0 /\ BUF_SIZE \in Nat \ {0}
      BY <3>1, SocketAssumption
    <3> QED
      BY <2>2, <3>2 DEF Least
  <2> QED
    BY <1>1, <2>1, <2>3
<1>3. CASE kernel' = kernel /\ (Goes \/ kernel = <<>>)
  BY <1>1, <1>3 DEF Goes
<1>4. ReadSome \/ (kernel' = kernel /\ (Goes \/ kernel = <<>>))
  BY DEF readn, read_, ReadBlocks, Fails, Ends, io
<1> QED
  BY <1>2, <1>3, <1>4

LEMMA WritersStep == EdgeInv /\ (writen \/ write_ \/ writenAll) => EdgeInv'
<1> SUFFICES ASSUME EdgeInv, writen \/ write_ \/ writenAll PROVE EdgeInv'
  OBVIOUS
<1>1. fn \notin Readers /\ fn' = fn
  BY DEF writen, write_, writenAll, WriteString, WriteSome, StopsWhenFull, Goes, Return,
         Calling, world, Readers
<1> QED
  BY <1>1 DEF EdgeInv, NothingLeftBehind

LEMMA EdgeStep == EdgeInv /\ [Next]_vars => EdgeInv'
<1> SUFFICES ASSUME EdgeInv, [Next]_vars PROVE EdgeInv'
  OBVIOUS
<1> USE DEF EdgeInv, NothingLeftBehind
<1>1. CASE Arrive
  BY <1>1 DEF Arrive
<1>2. CASE PeerReads
  BY <1>2 DEF PeerReads, Writers, Readers
<1>3. CASE Leave
  BY <1>3 DEF Leave
<1>4. CASE Call
  BY <1>4 DEF Call
<1>5. CASE readn \/ read_
  BY <1>5, ReadersStep
<1>6. CASE writen \/ write_ \/ writenAll
  BY <1>6, WritersStep
<1>7. CASE UNCHANGED vars
  BY <1>7 DEF vars, io, world
<1> QED
  BY <1>1, <1>2, <1>3, <1>4, <1>5, <1>6, <1>7 DEF Next, Program

-----------------------------------------------------------------------------
(* The bytes, action by action. *)

LEMMA BytesImplyTypes == SeqInv /\ NumInv => TypeOK
  BY DEF SeqInv, NumInv, TypeOK, Bytes

LEMMA BytesImplyOrder ==
  ASSUME NumInv, ReadInv, WriteInv
  PROVE  ReadInOrder /\ WrittenInOrder
<1>1. ReadInOrder
  BY DEF ReadInv, ReadInOrder, Cat
<1>2. WrittenInOrder
  BY DEF WriteInv, WrittenInOrder, Cat
<1> QED
  BY <1>1, <1>2

LEMMA Lengths ==
  ASSUME SeqInv
  PROVE  /\ buf \in Seq(Bytes) /\ kernel \in Seq(Bytes) /\ far \in Seq(Bytes)
         /\ Len(buf) \in Nat /\ Len(kernel) \in Nat /\ Len(far) \in Nat
<1>1. buf \in Seq(Bytes) /\ kernel \in Seq(Bytes) /\ far \in Seq(Bytes)
  BY DEF SeqInv
<1> QED
  BY <1>1, LenProperties

LEMMA Numbers ==
  ASSUME NumInv
  PROVE  /\ Length \in Nat /\ BUF_SIZE \in Nat /\ SocketSize \in Nat /\ MaxCalls \in Nat
         /\ MaxSignals \in Nat /\ count \in Nat /\ calls \in Nat
  BY SocketAssumption DEF NumInv

LEMMA ReadersOrWriters == Functions = Readers \cup Writers /\ Readers \cap Writers = {}
  BY DEF Functions, Readers, Writers

LEMMA RestType ==
  ASSUME SeqInv, NumInv, LenInv
  PROVE  Rest \in Seq(Bytes)
<1>1. CASE busy
  <2>1. count \in 0 .. Len(buf)
    BY <1>1, Lengths, Numbers DEF LenInv
  <2>2. From(buf, count) \in Seq(Bytes)
    BY <2>1, Lengths, SplitSeq
  <2> QED
    BY <1>1, <2>2 DEF Rest
<1>2. CASE ~busy
  BY <1>2, Lengths, EmptySeq DEF Rest
<1> QED
  BY <1>1, <1>2

LEMMA CatEmpty ==
  ASSUME NEW S, NEW s \in Seq(S)
  PROVE  Cat(s, <<>>) = s /\ Cat(<<>>, s) = s
  BY ConcatEmptySeq DEF Cat

LEMMA ByteInit == Init => ByteInv
<1> SUFFICES ASSUME Init PROVE ByteInv
  OBVIOUS
<1>1. Length \in Nat \ {0} /\ MaxCalls \in Nat /\ MaxSignals \in Nat
  BY SocketAssumption
<1>2. <<>> \in Seq(Bytes) /\ Len(<<>>) = 0
  BY EmptySeq
<1>3. buf \in {<<>>, Message} /\ far \in {<<>>, Message} /\ kernel = <<>>
  BY DEF Init
<1>4. SeqInv
  BY <1>2, <1>3, MessageType DEF SeqInv
<1>5. NumInv
  <2>1. /\ fn \in Functions /\ busy = FALSE /\ calls = 0 /\ count = 0 /\ ret = 0
        /\ peer = "open" /\ signals = 0 /\ edge = FALSE
    BY DEF Init
  <2>2. 0 \in 0 .. MaxCalls /\ 0 \in 0 .. Length /\ 0 \in -1 .. Length /\ 0 \in 0 .. MaxSignals
    BY <1>1
  <2> QED
    BY <2>1, <2>2 DEF NumInv
<1>6. LenInv
  <2>1. Len(buf) <= Length
    BY <1>1, <1>2, <1>3, MessageType
  <2> QED
    BY <2>1 DEF Init, LenInv
<1>7. ReadInv
  <2>1. ASSUME fn \in Readers PROVE buf = <<>> /\ kernel = <<>> /\ far = Message
    BY <2>1 DEF Init
  <2> QED
    BY <1>2, <2>1, MessageType, CatEmpty DEF ReadInv
<1>8. WriteInv
  <2>1. ASSUME fn \in Writers PROVE far = <<>> /\ kernel = <<>> /\ Rest = Message
    BY <2>1, ReadersOrWriters DEF Init, Rest
  <2>2. IsPrefix(<<>>, Message)
    <3>1. Cat(<<>>, Message) = Message
      BY MessageType, CatEmpty
    <3>2. IsPrefix(<<>>, Cat(<<>>, Message))
      BY <1>2, MessageType, CatPrefix
    <3> QED
      BY <3>1, <3>2
  <2> QED
    BY <1>2, <2>1, <2>2, MessageType, CatEmpty DEF WriteInv
<1> QED
  BY <1>4, <1>5, <1>6, <1>7, <1>8 DEF ByteInv

LEMMA ArriveBytes == ByteInv /\ Arrive => ByteInv'
<1> SUFFICES ASSUME ByteInv, Arrive PROVE ByteInv'
  OBVIOUS
<1>1. SeqInv /\ NumInv /\ LenInv /\ ReadInv
  BY DEF ByteInv
<1>2. PICK k \in 1 .. Least(Len(far), SocketSize - Len(kernel)) :
        kernel' = Cat(kernel, First(far, k)) /\ far' = From(far, k)
  BY DEF Arrive, Cat
<1>3. /\ UNCHANGED <<fn, busy, calls, buf, count, ret, peer, signals>>
      /\ edge' = TRUE /\ fn \in Readers
  BY DEF Arrive
<1>4. k \in 0 .. Len(far)
  BY <1>1, <1>2, Lengths, Numbers DEF Least
<1>5. /\ kernel' \in Seq(Bytes) /\ far' \in Seq(Bytes)
      /\ Cat(Cat(buf, kernel'), far') = Cat(Cat(buf, kernel), far)
  BY <1>1, <1>2, <1>4, Lengths, PieceMoved, PieceMovedAtEnd
<1>6. SeqInv'
  BY <1>1, <1>3, <1>5 DEF SeqInv
<1>7. NumInv'
  BY <1>1, <1>3 DEF NumInv
<1>8. LenInv'
  BY <1>1, <1>3 DEF LenInv
<1>9. ReadInv'
  BY <1>1, <1>3, <1>5 DEF ReadInv
<1>10. WriteInv'
  BY <1>3, ReadersOrWriters DEF WriteInv
<1> QED
  BY <1>6, <1>7, <1>8, <1>9, <1>10 DEF ByteInv

LEMMA PeerReadsBytes == ByteInv /\ PeerReads => ByteInv'
<1> SUFFICES ASSUME ByteInv, PeerReads PROVE ByteInv'
  OBVIOUS
<1>1. SeqInv /\ NumInv /\ LenInv /\ WriteInv
  BY DEF ByteInv
<1>2. PICK k \in 1 .. Len(kernel) :
        far' = Cat(far, First(kernel, k)) /\ kernel' = From(kernel, k)
  BY DEF PeerReads, Cat
<1>3. /\ UNCHANGED <<fn, busy, calls, buf, count, ret, peer, edge, signals>>
      /\ fn \in Writers /\ peer = "open"
  BY DEF PeerReads
<1>4. Rest' = Rest /\ Rest \in Seq(Bytes)
  BY <1>1, <1>3, RestType DEF Rest
<1>5. k \in 0 .. Len(kernel)
  BY <1>1, <1>2, Lengths
<1>6. /\ kernel' \in Seq(Bytes) /\ far' \in Seq(Bytes)
      /\ Cat(Cat(far', kernel'), Rest) = Cat(Cat(far, kernel), Rest)
  BY <1>1, <1>2, <1>4, <1>5, Lengths, PieceMoved
<1>7. Cat(Cat(far', kernel'), Rest) = Message
  BY <1>1, <1>3, <1>6 DEF WriteInv
<1>8. IsPrefix(far', Message)
  <2>1. Cat(Cat(far', kernel'), Rest) = Cat(far', Cat(kernel', Rest))
    BY <1>4, <1>6, CatAssociative
  <2>2. Cat(kernel', Rest) \in Seq(Bytes)
    BY <1>4, <1>6, CatType
  <2> QED
    BY <1>6, <1>7, <2>1, <2>2, CatPrefix
<1>9. SeqInv'
  BY <1>1, <1>3, <1>6 DEF SeqInv
<1>10. NumInv'
  BY <1>1, <1>3 DEF NumInv
<1>11. LenInv'
  BY <1>1, <1>3 DEF LenInv
<1>12. ReadInv'
  BY <1>3, ReadersOrWriters DEF ReadInv
<1>13. WriteInv'
  BY <1>4, <1>7, <1>8 DEF WriteInv
<1> QED
  BY <1>9, <1>10, <1>11, <1>12, <1>13 DEF ByteInv

LEMMA LeaveBytes == ByteInv /\ Leave => ByteInv'
<1> SUFFICES ASSUME ByteInv, Leave PROVE ByteInv'
  OBVIOUS
<1>1. SeqInv /\ NumInv /\ LenInv /\ ReadInv /\ WriteInv
  BY DEF ByteInv
<1>2. /\ UNCHANGED <<fn, busy, calls, buf, count, ret, far, signals>>
      /\ edge' = TRUE /\ peer' \in {"fin", "rst"}
      /\ kernel' = kernel \/ kernel' = <<>>
      /\ fn \in Readers => kernel' = kernel
      /\ fn \notin Readers => peer' = "rst"
  BY DEF Leave
<1>3. SeqInv'
  BY <1>1, <1>2, EmptySeq DEF SeqInv
<1>4. NumInv'
  BY <1>1, <1>2 DEF NumInv
<1>5. LenInv'
  BY <1>1, <1>2 DEF LenInv
<1>6. ReadInv'
  BY <1>1, <1>2 DEF ReadInv
<1>7. WriteInv'
  BY <1>1, <1>2, ReadersOrWriters DEF WriteInv
<1> QED
  BY <1>3, <1>4, <1>5, <1>6, <1>7 DEF ByteInv

LEMMA CallBytes == ByteInv /\ Call => ByteInv'
<1> SUFFICES ASSUME ByteInv, Call PROVE ByteInv'
  OBVIOUS
<1>1. SeqInv /\ NumInv /\ LenInv /\ ReadInv /\ WriteInv
  BY DEF ByteInv
<1>2. /\ UNCHANGED <<fn, buf, ret, kernel, far, peer, signals>>
      /\ ~busy /\ busy' = TRUE /\ calls < MaxCalls /\ calls' = calls + 1
      /\ count' = 0 /\ edge' = FALSE /\ (fn = "writenAll" => calls = 0)
  BY DEF Call
<1>3. SeqInv'
  BY <1>1, <1>2 DEF SeqInv
<1>4. NumInv'
  <2>1. calls' \in 0 .. MaxCalls /\ 0 \in 0 .. Length
    BY <1>1, <1>2, Numbers DEF NumInv
  <2> QED
    BY <1>1, <1>2, <2>1 DEF NumInv
<1>5. LenInv'
  BY <1>1, <1>2, Lengths, Numbers DEF LenInv
<1>6. Rest' = Rest
  <2>1. From(buf, 0) = buf
    BY <1>1, Lengths, SubSeqFull DEF From
  <2> QED
    BY <1>1, <1>2, <2>1, Numbers DEF Rest
<1>7. ReadInv'
  BY <1>1, <1>2 DEF ReadInv
<1>8. WriteInv'
  BY <1>1, <1>2, <1>6 DEF WriteInv
<1> QED
  BY <1>3, <1>4, <1>5, <1>7, <1>8 DEF ByteInv

LEMMA ReadSomeBytes == ByteInv /\ busy /\ fn \in Readers /\ ReadSome => ByteInv'
<1> SUFFICES ASSUME ByteInv, busy, fn \in Readers, ReadSome PROVE ByteInv'
  OBVIOUS
<1>1. SeqInv /\ NumInv /\ LenInv /\ ReadInv
  BY DEF ByteInv
<1>2. PICK k \in 1 .. Length : /\ k \in 1 .. Least(Len(kernel), BUF_SIZE)
                               /\ kernel' = From(kernel, k)
                               /\ buf' = Cat(buf, First(kernel, k))
                               /\ count' = count + k
  BY DEF ReadSome, Got, Appended, Cat
<1>3. UNCHANGED <<fn, busy, calls, ret, far, peer, edge, signals>>
  BY DEF ReadSome, Got, ReadsOn, Goes, world
<1>4. k \in 0 .. Len(kernel) /\ k \in Nat
  BY <1>1, <1>2, Lengths, Numbers DEF Least
<1>5. /\ kernel' \in Seq(Bytes) /\ buf' \in Seq(Bytes) /\ Len(buf') = Len(buf) + k
      /\ Cat(Cat(buf', kernel'), far) = Cat(Cat(buf, kernel), far)
  BY <1>1, <1>2, <1>4, Lengths, PieceMoved
<1>6. Cat(Cat(buf', kernel'), far) = Message
  BY <1>1, <1>5 DEF ReadInv
<1>7. Len(buf') <= Length
  <2>1. Cat(buf', kernel') \in Seq(Bytes) /\ Len(Cat(buf', kernel')) = Len(buf') + Len(kernel')
    BY <1>5, CatType
  <2>2. Len(Cat(Cat(buf', kernel'), far)) = Len(buf') + Len(kernel') + Len(far)
    <3>1. far \in Seq(Bytes)
      BY <1>1, Lengths
    <3>2. Len(Cat(Cat(buf', kernel'), far)) = Len(Cat(buf', kernel')) + Len(far)
      BY <2>1, <3>1, CatType
    <3> QED
      BY <2>1, <3>2
  <2>3. Len(kernel') \in Nat /\ Len(buf') \in Nat
    BY <1>5, LenProperties
  <2> QED
    BY <1>1, <1>6, <2>2, <2>3, MessageType, Lengths
<1>8. LenInv' /\ count' \in 0 .. Length
  BY <1>1, <1>2, <1>3, <1>4, <1>5, <1>7, Lengths, Numbers DEF LenInv
<1>9. SeqInv'
  BY <1>1, <1>3, <1>5 DEF SeqInv
<1>10. NumInv'
  BY <1>1, <1>3, <1>8 DEF NumInv
<1>11. ReadInv'
  BY <1>3, <1>6 DEF ReadInv
<1>12. WriteInv'
  BY <1>3, ReadersOrWriters DEF WriteInv
<1> QED
  BY <1>8, <1>9, <1>10, <1>11, <1>12 DEF ByteInv

LEMMA WriteSomeBytes == ByteInv /\ busy /\ fn \in Writers /\ WriteSome => ByteInv'
<1> SUFFICES ASSUME ByteInv, busy, fn \in Writers, WriteSome PROVE ByteInv'
  OBVIOUS
<1>1. SeqInv /\ NumInv /\ LenInv /\ WriteInv
  BY DEF ByteInv
<1>2. PICK k \in 1 .. Length :
        /\ peer = "open"
        /\ k \in 1 .. Least(Len(buf) - count, SocketSize - Len(kernel))
        /\ kernel' = Cat(kernel, SubSeq(buf, count + 1, count + k))
        /\ count' = count + k
  BY DEF WriteSome, Put, Cat
<1>3. UNCHANGED <<fn, busy, calls, buf, ret, far, peer, edge, signals>>
  BY DEF WriteSome, Put, Goes, world
<1>4. count + k <= Len(buf) /\ k \in Nat
  <2>1. k <= Len(buf) - count /\ k \in Nat
    BY <1>1, <1>2, Lengths, Numbers DEF Least
  <2> QED
    BY <1>1, <2>1, Lengths, Numbers
<1>5. /\ kernel' \in Seq(Bytes)
      /\ Cat(Cat(far, kernel'), From(buf, count + k)) = Cat(Cat(far, kernel), From(buf, count))
  BY <1>1, <1>2, <1>4, Lengths, Numbers, NextPieceMoved
<1>6. Rest = From(buf, count) /\ Rest' = From(buf, count + k)
  BY <1>2, <1>3 DEF Rest
<1>7. Cat(Cat(far', kernel'), Rest') = Message
  BY <1>1, <1>2, <1>3, <1>5, <1>6 DEF WriteInv
<1>8. LenInv' /\ count' \in 0 .. Length
  BY <1>1, <1>2, <1>3, <1>4, Lengths, Numbers DEF LenInv
<1>9. SeqInv'
  BY <1>1, <1>3, <1>5 DEF SeqInv
<1>10. NumInv'
  BY <1>1, <1>3, <1>8 DEF NumInv
<1>11. ReadInv'
  BY <1>3, ReadersOrWriters DEF ReadInv
<1>12. WriteInv'
  BY <1>1, <1>3, <1>7 DEF WriteInv
<1> QED
  BY <1>8, <1>9, <1>10, <1>11, <1>12 DEF ByteInv

\* A call ends or goes on, and no byte is moved.  A writer that ends so has met
\* a reset, or has nothing left to write.
LEMMA StillBytes ==
  ASSUME ByteInv, busy,
         UNCHANGED <<fn, calls, io, world>>,
         busy' \in BOOLEAN, ret' \in {ret, -1, 0, count},
         signals' \in 0 .. MaxSignals,
         busy' \/ fn \in Readers \/ peer = "rst" \/ (fn = "writenAll" /\ count = Len(buf))
  PROVE  ByteInv'
<1>1. SeqInv /\ NumInv /\ LenInv /\ ReadInv /\ WriteInv
  BY DEF ByteInv
<1>2. UNCHANGED <<fn, calls, buf, count, kernel, far, peer, edge>>
  BY DEF io, world
<1>3. SeqInv'
  BY <1>1, <1>2 DEF SeqInv
<1>4. NumInv'
  <2>1. ret' \in -1 .. Length
    BY <1>1, Numbers DEF NumInv
  <2> QED
    BY <1>1, <1>2, <2>1 DEF NumInv
<1>5. LenInv'
  BY <1>1, <1>2 DEF LenInv
<1>6. ReadInv'
  BY <1>1, <1>2 DEF ReadInv
<1>7. WriteInv'
  <2>1. CASE fn \in Readers \/ peer = "rst"
    BY <1>1, <1>2, <2>1, ReadersOrWriters DEF WriteInv
  <2>2. CASE busy'
    <3>1. Rest' = Rest
      BY <1>2, <2>2 DEF Rest
    <3> QED
      BY <1>1, <1>2, <3>1 DEF WriteInv
  <2>3. CASE ~busy' /\ fn = "writenAll" /\ count = Len(buf)
    <3>1. Rest' = <<>>
      BY <1>1, <1>2, <2>3, Numbers DEF Rest, LenInv
    <3>2. From(buf, count) = <<>>
      BY <1>1, <2>3, Lengths, SubSeqEmpty DEF From
    <3>3. Rest' = Rest
      BY <3>1, <3>2 DEF Rest
    <3> QED
      BY <1>1, <1>2, <3>3 DEF WriteInv
  <2> QED
    BY <2>1, <2>2, <2>3
<1> QED
  BY <1>3, <1>4, <1>5, <1>6, <1>7 DEF ByteInv

\* A string that is written in part keeps its rest.
LEMMA KeepsRestBytes ==
  ASSUME ByteInv, busy, fn \in {"writen", "write_"}, KeepsRest, Return(count),
         UNCHANGED <<count, kernel, signals>>
  PROVE  ByteInv'
<1>1. SeqInv /\ NumInv /\ LenInv /\ WriteInv
  BY DEF ByteInv
<1>2. count \in 0 .. Len(buf)
  BY <1>1, Lengths, Numbers DEF LenInv
<1>3. buf' \in Seq(Bytes) /\ Len(buf') = Len(buf) - count
  BY <1>1, <1>2, Lengths, SplitSeq DEF KeepsRest
<1>4. /\ busy' = FALSE /\ ret' = count
      /\ UNCHANGED <<fn, calls, far, peer, edge, count, kernel, signals>>
  BY DEF Return, world
<1>5. SeqInv'
  BY <1>1, <1>3, <1>4 DEF SeqInv
<1>6. NumInv'
  <2>1. count \in -1 .. Length
    BY <1>1, Numbers DEF NumInv
  <2> QED
    BY <1>1, <1>4, <2>1 DEF NumInv
<1>7. LenInv'
  BY <1>1, <1>2, <1>3, <1>4, Lengths, Numbers DEF LenInv
<1>8. Rest' = Rest
  BY <1>4 DEF Rest, KeepsRest
<1>9. ReadInv'
  BY <1>4 DEF ReadInv, Readers
<1>10. WriteInv'
  BY <1>1, <1>4, <1>8 DEF WriteInv
<1> QED
  BY <1>5, <1>6, <1>7, <1>9, <1>10 DEF ByteInv

LEMMA ReadersBytes == ByteInv /\ (readn \/ read_) => ByteInv'
<1> SUFFICES ASSUME ByteInv, readn \/ read_ PROVE ByteInv'
  OBVIOUS
<1>1. busy /\ fn \in Readers
  BY DEF readn, read_, Calling, Readers
<1>2. NumInv
  BY DEF ByteInv
<1>3. CASE ReadSome
  BY <1>1, <1>3, ReadSomeBytes
<1>4. CASE Interrupted /\ Goes /\ UNCHANGED io
  <2>1. signals' \in 0 .. MaxSignals
    BY <1>2, <1>4, Numbers DEF NumInv, Interrupted
  <2>2. UNCHANGED <<fn, calls, io, world>> /\ busy' \in BOOLEAN /\ ret' = ret
    BY <1>2, <1>4 DEF NumInv, Goes
  <2> QED
    BY <1>1, <2>1, <2>2, StillBytes
<1>5. CASE (Return(count) \/ Return(-1) \/ Return(0)) /\ UNCHANGED <<io, signals>>
  <2>1. UNCHANGED <<fn, calls, io, world>> /\ busy' \in BOOLEAN /\ ret' \in {-1, 0, count}
    BY <1>5 DEF Return
  <2>2. signals' \in 0 .. MaxSignals
    BY <1>2, <1>5 DEF NumInv
  <2> QED
    BY <1>1, <2>1, <2>2, StillBytes
<1>6. \/ ReadSome
      \/ Interrupted /\ Goes /\ UNCHANGED io
      \/ (Return(count) \/ Return(-1) \/ Return(0)) /\ UNCHANGED <<io, signals>>
  BY DEF readn, read_, ReadBlocks, Fails, Ends
<1> QED
  BY <1>3, <1>4, <1>5, <1>6

LEMMA WritersBytes == ByteInv /\ (writen \/ write_ \/ writenAll) => ByteInv'
<1> SUFFICES ASSUME ByteInv, writen \/ write_ \/ writenAll PROVE ByteInv'
  OBVIOUS
<1>1. busy /\ fn \in Writers
  BY DEF writen, write_, writenAll, Calling, Writers
<1>2. NumInv
  BY DEF ByteInv
<1>3. CASE WriteSome
  BY <1>1, <1>3, WriteSomeBytes
<1>4. CASE (Interrupted \/ UNCHANGED signals) /\ Goes /\ UNCHANGED io
  <2>1. signals' \in 0 .. MaxSignals
    BY <1>2, <1>4, Numbers DEF NumInv, Interrupted
  <2>2. UNCHANGED <<fn, calls, io, world>> /\ busy' \in BOOLEAN /\ busy' /\ ret' = ret
    BY <1>1, <1>2, <1>4 DEF NumInv, Goes
  <2> QED
    BY <1>1, <2>1, <2>2, StillBytes
<1>5. CASE Fails /\ Return(-1) /\ UNCHANGED io
  <2>1. /\ UNCHANGED <<fn, calls, io, world, signals>> /\ busy' \in BOOLEAN
        /\ ret' = -1 /\ peer = "rst"
    BY <1>5 DEF Return, Fails
  <2>2. signals' \in 0 .. MaxSignals
    BY <1>2, <2>1 DEF NumInv
  <2> QED
    BY <1>1, <2>1, <2>2, StillBytes
<1>6. CASE KeepsRest /\ Return(count) /\ UNCHANGED <<count, kernel, signals>> /\ fn # "writenAll"
  BY <1>1, <1>6, KeepsRestBytes DEF Writers
<1>7. CASE fn = "writenAll" /\ count = Len(buf) /\ Return(count) /\ UNCHANGED <<io, signals>>
  <2>1. UNCHANGED <<fn, calls, io, world, signals>> /\ busy' \in BOOLEAN /\ ret' = count
    BY <1>7 DEF Return
  <2>2. signals' \in 0 .. MaxSignals
    BY <1>2, <2>1 DEF NumInv
  <2> QED
    BY <1>1, <1>7, <2>1, <2>2, StillBytes
<1>8. CASE writen \/ write_
  <2>1. fn # "writenAll" /\ WriteString
    BY <1>8 DEF writen, write_, Calling
  <2> QED
    BY <1>3, <1>4, <1>5, <1>6, <2>1 DEF WriteString, WriteBlocks, StopsWhenFull
<1>9. CASE writenAll
  BY <1>3, <1>4, <1>5, <1>7, <1>9 DEF writenAll, WriteBlocks, Calling
<1> QED
  BY <1>8, <1>9

LEMMA ByteStep == ByteInv /\ [Next]_vars => ByteInv'
<1>1. ByteInv /\ UNCHANGED vars => ByteInv'
  <2> SUFFICES ASSUME ByteInv, UNCHANGED vars PROVE ByteInv'
    OBVIOUS
  <2>1. UNCHANGED <<fn, busy, calls, buf, count, kernel, ret, far, peer, edge, signals>>
    BY DEF vars, io, world
  <2>2. SeqInv' /\ NumInv' /\ LenInv'
    BY <2>1 DEF ByteInv, SeqInv, NumInv, LenInv
  <2>3. ReadInv' /\ WriteInv'
    BY <2>1 DEF ByteInv, ReadInv, WriteInv, Rest
  <2> QED
    BY <2>2, <2>3 DEF ByteInv
<1> QED
  BY <1>1, ArriveBytes, PeerReadsBytes, LeaveBytes, CallBytes, ReadersBytes, WritersBytes
  DEF Next, Program

-----------------------------------------------------------------------------

\* A reader that returns leaves nothing in the socket that epoll has reported,
\* however the bytes come and whatever interrupts it.
THEOREM NothingLeftBehindCorrect == Spec => []NothingLeftBehind
<1>1. EdgeInv => NothingLeftBehind
  BY DEF EdgeInv
<1> QED
  BY EdgeInit, EdgeStep, <1>1, PTL DEF Spec

LEMMA BytesCorrect == Spec => []ByteInv
  BY ByteInit, ByteStep, PTL DEF Spec

\* Readers get the message in order and once, in whatever parts it comes.
THEOREM ReadInOrderCorrect == Spec => []ReadInOrder
<1>1. ByteInv => ReadInOrder
  BY BytesImplyOrder DEF ByteInv
<1> QED
  BY BytesCorrect, <1>1, PTL

\* The peer of a writer gets a beginning of the message, and a string that is
\* written in part can be written again.
THEOREM WrittenInOrderCorrect == Spec => []WrittenInOrder
<1>1. ByteInv => WrittenInOrder
  BY BytesImplyOrder DEF ByteInv
<1> QED
  BY BytesCorrect, <1>1, PTL

\* Every variable keeps its type; a return value is never more than the message.
THEOREM TypeCorrect == Spec => []TypeOK
<1>1. ByteInv => TypeOK
  BY BytesImplyTypes DEF ByteInv
<1> QED
  BY BytesCorrect, <1>1, PTL
=============================================================================
