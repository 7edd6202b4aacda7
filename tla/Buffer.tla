------------------------------ MODULE Buffer ------------------------------
(***************************************************************************)
(* mouse::Buffer (src/mouse/src/net/buffer.h, buffer.cc): a vector<char>   *)
(* with reader_index_ and writer_index_; the readable bytes lie between    *)
(* them, kCheapPrepend bytes are kept free in front.  Each public method   *)
(* is one action, with the private calls it makes (ensureWritableBytes,    *)
(* makeSpace, hasWritten) folded in.  A byte is named by the order in      *)
(* which the producer made it (1, 2, ...); 0 is a byte nobody wrote.  The  *)
(* model checks that the readable bytes behave as ByteStream says.         *)
(***************************************************************************)
EXTENDS Naturals, Sequences

CONSTANTS
    CheapPrepend,  \* kCheapPrepend (8)
    InitialSize,   \* kInitialSize (1024)
    ExtraBuf,      \* sizeof extrabuf in readFd (65536)
    MaxLen,        \* longest single append or prepend
    MaxBytes       \* bytes produced in a behaviour

VARIABLES
    buffer,        \* buffer_: index i + 1 holds buffer_[i]
    readerIndex,   \* reader_index_
    writerIndex,   \* writer_index_
    produced,      \* bytes handed to the buffer so far
    assertFailed   \* an assert of ensureWritableBytes or makeSpace failed

vars == <<buffer, readerIndex, writerIndex, produced, assertFailed>>

\* The longest the vector can get: resize(writer_index_ + len) with
\* writer_index_ at most the old size.
MaxSize == CheapPrepend + InitialSize + MaxBytes

TypeOK ==
    /\ buffer \in Seq(0 .. MaxBytes) /\ Len(buffer) <= MaxSize
    /\ readerIndex \in 0 .. writerIndex
    /\ writerIndex \in 0 .. Len(buffer)
    /\ produced \in 0 .. MaxBytes
    /\ assertFailed \in BOOLEAN

(* The methods work on a record s = [buf, r, w, fail] so that the calls a *)
(* method makes compose as they do in the code.                           *)

readableBytes(s) == s.w - s.r
writableBytes(s) == Len(s.buf) - s.w
prependableBytes(s) == s.r

\* std::copy of data to begin() + at.
CopyTo(b, at, data) ==
    [i \in 1 .. Len(b) |->
        IF at < i /\ i <= at + Len(data) THEN data[i - at] ELSE b[i]]

\* vector::resize(n) growing the vector: new chars are zero.
Resize(b, n) == b \o [i \in 1 .. n - Len(b) |-> 0]

\* The slide resets the indices but leaves the readable bytes where they were.
makeSpaceNoCopy(s, len) ==
    IF writableBytes(s) + prependableBytes(s) < len + CheapPrepend
    THEN [s EXCEPT !.buf = Resize(s.buf, s.w + len)]
    ELSE [s EXCEPT !.r = CheapPrepend, !.w = CheapPrepend + readableBytes(s),
                   !.fail = @ \/ ~(CheapPrepend < s.r)]

\* makeSpace(len), lines 161-179: grow the vector to writer_index_ + len,
\* or move the readable bytes to kCheapPrepend when that makes room.
makeSpace(s, len) ==
    IF writableBytes(s) + prependableBytes(s) < len + CheapPrepend
    THEN [s EXCEPT !.buf = Resize(s.buf, s.w + len)]
    ELSE [s EXCEPT !.buf = CopyTo(s.buf, CheapPrepend, SubSeq(s.buf, s.r + 1, s.w)),
                   !.r = CheapPrepend, !.w = CheapPrepend + readableBytes(s),
                   !.fail = @ \/ ~(CheapPrepend < s.r)]

\* makeSpace called whatever the free tail.
ensureWritableBytesAlways(s, len) ==
    LET t == makeSpace(s, len)
    IN  [t EXCEPT !.fail = @ \/ writableBytes(t) < len]

\* ensureWritableBytes(len), lines 105-112.
ensureWritableBytes(s, len) ==
    LET t == IF writableBytes(s) < len THEN makeSpace(s, len) ELSE s
    IN  [t EXCEPT !.fail = @ \/ writableBytes(t) < len]

\* append(data, len), lines 93-98: ensureWritableBytes, copy, hasWritten.
append(s, data) ==
    LET t == ensureWritableBytes(s, Len(data))
    IN  [t EXCEPT !.buf = CopyTo(t.buf, t.w, data), !.w = t.w + Len(data)]

Cur == [buf |-> buffer, r |-> readerIndex, w |-> writerIndex, fail |-> assertFailed]

Set(t) ==
    /\ buffer' = t.buf /\ readerIndex' = t.r /\ writerIndex' = t.w
    /\ assertFailed' = t.fail

\* The next k bytes of the producer.
Fresh(k) == [i \in 1 .. k |-> produced + i]

CanProduce(k) == ~assertFailed /\ produced + k <= MaxBytes

-----------------------------------------------------------------------------

\* Buffer(): kCheapPrepend + kInitialSize zero chars, both indices at kCheapPrepend.
Init ==
    /\ buffer = [i \in 1 .. CheapPrepend + InitialSize |-> 0]
    /\ readerIndex = CheapPrepend /\ writerIndex = CheapPrepend
    /\ produced = 0 /\ assertFailed = FALSE

\* append(str): the public entry, as used by send and the echo handler.
AppendData(len) ==
    /\ CanProduce(len)
    /\ Set(append(Cur, Fresh(len)))
    /\ produced' = produced + len

\* retrieve(len) and retrieveUntil(peek() + len): callers pass at most
\* readableBytes() (handleWrite passes what write() took of it).
Retrieve(len) ==
    /\ ~assertFailed /\ len <= readableBytes(Cur)
    /\ readerIndex' = readerIndex + len
    /\ UNCHANGED <<buffer, writerIndex, produced, assertFailed>>

\* retrieveAll and retrieveAsString (which copies the readable bytes first).
RetrieveAll ==
    /\ ~assertFailed
    /\ readerIndex' = CheapPrepend /\ writerIndex' = CheapPrepend
    /\ UNCHANGED <<buffer, produced, assertFailed>>

\* prepend(data, len), lines 129-135, within its precondition
\* len <= prependableBytes().
Prepend(len) ==
    /\ CanProduce(len) /\ len <= prependableBytes(Cur)
    /\ readerIndex' = readerIndex - len
    /\ buffer' = CopyTo(buffer, readerIndex - len, Fresh(len))
    /\ produced' = produced + len
    /\ UNCHANGED <<writerIndex, assertFailed>>

\* readv's result counted as fitting the vector when it overflows by one.
ReadFdOffByOne(n) ==
    LET writable == writableBytes(Cur)
        data == Fresh(n)
    IN  /\ CanProduce(n)
        /\ n <= writable + ExtraBuf
        /\ produced' = produced + n
        /\ IF n <= writable + 1
           THEN /\ buffer' = CopyTo(buffer, writerIndex, data)
                /\ writerIndex' = writerIndex + n
                /\ UNCHANGED <<readerIndex, assertFailed>>
           ELSE LET full == [Cur EXCEPT !.buf = CopyTo(buffer, writerIndex,
                                                       SubSeq(data, 1, writable)),
                                        !.w = Len(buffer)]
                IN  Set(append(full, SubSeq(data, writable + 1, n)))

\* readFd, buffer.cc lines 12-36: readv fills the writable tail, then
\* extrabuf; n bytes arrived (n >= 0; a failed readv only saves errno).
ReadFd(n) ==
    LET writable == writableBytes(Cur)
        data == Fresh(n)
    IN  /\ CanProduce(n)
        /\ n <= writable + ExtraBuf
        /\ produced' = produced + n
        /\ IF n <= writable
           THEN /\ buffer' = CopyTo(buffer, writerIndex, data)
                /\ writerIndex' = writerIndex + n
                /\ UNCHANGED <<readerIndex, assertFailed>>
           ELSE LET full == [Cur EXCEPT !.buf = CopyTo(buffer, writerIndex,
                                                       SubSeq(data, 1, writable)),
                                        !.w = Len(buffer)]
                IN  Set(append(full, SubSeq(data, writable + 1, n)))

Next ==
    \/ \E len \in 1 .. MaxLen : AppendData(len) \/ Prepend(len)
    \/ \E len \in 0 .. MaxLen : Retrieve(len)
    \/ RetrieveAll
    \/ \E n \in 0 .. MaxBytes : ReadFd(n)

Spec == Init /\ [][Next]_vars
-----------------------------------------------------------------------------
(* Properties                                                              *)

\* Neither the assert of makeSpace's sliding branch (kCheapPrepend <
\* reader_index_) nor the one ending ensureWritableBytes (writable >= len)
\* fails, whatever mix of appends, reads, retrieves and prepends came before:
\* makeSpace slides only when the free tail is short, so the gap in front
\* must be wider than kCheapPrepend.
BufferAssertsHold == ~assertFailed

\* The readable bytes, buffer_[reader_index_, writer_index_), are the bytes
\* appended, read or prepended and not yet retrieved, in their order, after
\* every slide, resize and readv that spills into extrabuf.
Readable == SubSeq(buffer, readerIndex + 1, writerIndex)

Abstract == INSTANCE ByteStream WITH content <- Readable, next <- produced + 1

BufferSpec == Abstract!Spec
====
