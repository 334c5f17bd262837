--------------------------- MODULE ManagedStreams ---------------------------
(***************************************************************************)
(* Managed/Src/OutputStream.cpp and InputStream.cpp over Interop/Src: what *)
(* one language has written item by item is read item by item, in either.  *)
(*                                                                         *)
(* The writer is module OutputBuffer, the readers are of InputBuffer, over *)
(* the buffer that the writer has made.  Most items are read from a single *)
(* blob, and only the writer can see to it that they lie in one.           *)
(***************************************************************************)
EXTENDS OutputBuffer

CONSTANTS
    Reader,         \* input streams over the buffer
    MaxItems,       \* a bound on the items that are written
    MaxBlobs        \* a bound on the blobs that they make

\* No blob of the buffer is empty, so there are no more of them than bytes.
ASSUME Items == MaxItems \in Nat /\ MaxBlobs \in Nat /\ Bytes <= MaxBlobs

VARIABLES
    managed,    \* whether the writer is an OutputStream
    script,     \* what was written: items and where they begin (history)
    cur,        \* the members of each reader's InputBuffer
    loop,       \* the loop of a read that is under way
    outcome,    \* of the last read
    next        \* of each reader: the item that it comes to next, or 0

writer  == <<vars, managed, script>>
reading == <<cur, loop, outcome, next>>

\* Where the blobs of the buffer begin; there are none behind its last one.
BlobStarts ==
    [b \in 1 .. MaxBlobs + 1 |->
        Len(FlattenSeq([k \in {j \in DOMAIN buffer : j < b} |->
                            BytesOf(buffer[k])]))]

R == INSTANCE InputBuffer WITH
        Stream <- Reader, Blobs <- MaxBlobs, start <- BlobStarts, op <- loop

MSInit ==
    /\ Init
    /\ managed \in BOOLEAN
    /\ script = <<>>
    /\ cur = [s \in Reader |-> R!Nothing]
    /\ loop = NoOp
    /\ outcome = "ok"
    /\ next = [s \in Reader |-> 0]

-----------------------------------------------------------------------------
(* The writer.  An exception ends it, and nothing is read then.            *)

Item(kind, n) ==
    /\ Len(script) < MaxItems
    /\ script' = Append(script, [kind |-> kind, size |-> n, from |-> Len(log)])
    /\ UNCHANGED <<managed, reading>>

\* Interop's OutputBuffer calls the method of its native one.
InteropWrite(kind, n) == IF kind = "variable" THEN WriteVariable(n) ELSE Write(n)

WriteNumber(n) == n # 0 /\ InteropWrite("number", n) /\ Item("number", n)

WriteVarUInt(n) == InteropWrite("variable", n) /\ Item("variable", n)

\* Allocate, and the encoding writes there; or Write(const void*, size).
WriteString(n) == InteropWrite("string", n) /\ Item("string", n)

\* Of an array without bytes, nothing is written.
WriteBytes(n) ==
    /\ managed /\ Ready
    /\ IF n # 0 THEN InteropWrite("bytes", n) ELSE UNCHANGED vars
    /\ Item("bytes", n)

\* A bond::blob, in native code.
WriteBondBlob(b, from, to) ==
    /\ ~managed
    /\ WriteBlob(b, from, to)
    /\ Item("bytes", to - from)

\* The rest of a write; a native writer may also flush.
Proceed ==
    /\ NextByte \/ NextPiece \/ Return \/ (~managed /\ Flush)
    /\ UNCHANGED <<managed, script, reading>>

\* The OutputStream is disposed of.
ManagedGetBuffer == GetBuffer /\ UNCHANGED <<managed, script, reading>>

-----------------------------------------------------------------------------
(* The readers.                                                            *)

At(s, kind) == next[s] \in DOMAIN script /\ script[next[s]].kind = kind

Size(s) == script[next[s]].size

\* A stream is read only until something throws.
Reads(s) ==
    /\ loop = NoOp /\ outcome = "ok"
    /\ next' = [next EXCEPT ![s] = @ + 1]
    /\ UNCHANGED writer

OpenStream(s) ==
    /\ phase = "moved" /\ loop = NoOp /\ next[s] = 0
    /\ cur' = [cur EXCEPT ![s] = R!At(1, Len(buffer) + 1, 0)]
    /\ next' = [next EXCEPT ![s] = 1]
    /\ UNCHANGED <<writer, loop, outcome>>

Clone(s, t) ==
    /\ next[s] # 0
    /\ UNCHANGED writer
    /\ R!GetCurrentBuffer(s, t)
    /\ outcome = "ok"
    /\ next' = [next EXCEPT ![t] = next[s]]

\* Mutant: what has a variable length is read like any other number.
InteropReadFixed(s, how) ==
    CASE how = "variable" -> R!ReadSingle(s, FastPath)
      [] how = "multiple" -> R!ReadMultiple(s, Size(s))
      [] how = "single"   -> R!ReadSingle(s, Size(s))

\* Interop's InputBuffer calls the method of its native one.
InteropRead(s, how) ==
    CASE how = "variable" -> R!ReadVariable(s, Size(s))
      [] how = "multiple" -> R!ReadMultiple(s, Size(s))
      [] how = "single"   -> R!ReadSingle(s, Size(s))

ReadNumber(s) == At(s, "number") /\ Reads(s) /\ InteropRead(s, "single")

ReadVarUInt(s) == At(s, "variable") /\ Reads(s) /\ InteropRead(s, "variable")

\* Allocate, in managed code; Read(void*, size), in native code.  Bond asks
\* for a string only if it is not empty.
ReadString(s) ==
    /\ At(s, "string") /\ Reads(s)
    /\ IF Size(s) = 0 THEN UNCHANGED <<cur, loop, outcome>>
       ELSE \E how \in {"single", "multiple"} : InteropRead(s, how)

\* There is no address of the first of no bytes.
ReadBytes(s) ==
    /\ At(s, "bytes") /\ Reads(s)
    /\ IF Size(s) = 0 THEN R!Throw /\ UNCHANGED cur
       ELSE InteropRead(s, "multiple")

\* Read(bond::blob&, size), in native code.
ReadBondBlob(s) == At(s, "bytes") /\ Reads(s) /\ InteropRead(s, "single")

\* Bond reads numbers of variable length to skip them.
SkipBytes(s) ==
    /\ next[s] \in DOMAIN script /\ ~At(s, "variable") /\ Reads(s)
    /\ InteropRead(s, "multiple")

ReadOn ==
    /\ UNCHANGED <<writer, next>>
    /\ R!Iterate \/ R!RollBack \/ R!NextByte \/ R!Return

-----------------------------------------------------------------------------
MSNext ==
    \/ \E n \in 0 .. Bytes : WriteNumber(n) \/ WriteString(n) \/ WriteBytes(n)
    \/ \E n \in 1 .. FastPath + 1 : WriteVarUInt(n)
    \/ \E b \in 1 .. SourceBlobs : \E from \in 0 .. BlobSize(b) :
        \E to \in from .. BlobSize(b) : WriteBondBlob(b, from, to)
    \/ Proceed
    \/ ManagedGetBuffer
    \/ \E s \in Reader :
        \/ OpenStream(s)
        \/ \E t \in Reader : Clone(s, t)
        \/ ReadNumber(s) \/ ReadVarUInt(s) \/ ReadString(s)
        \/ ReadBytes(s) \/ ReadBondBlob(s) \/ SkipBytes(s)
    \/ ReadOn

MSSpec == MSInit /\ [][MSNext]_<<writer, reading>>

-----------------------------------------------------------------------------
(* Properties.                                                             *)

Done(s) == next[s] # 0 /\ loop = NoOp /\ outcome = "ok"

Goal(k) == IF k \in DOMAIN script THEN script[k].from ELSE Len(log)

\* Items are read from where they were written, and every read finds its
\* bytes, in one blob where it needs to (InputBuffer.h:32).  An array without
\* bytes is the exception: it cannot be read (InputStream.cpp:115), or not
\* where the stream ends (InputBuffer.h:50).
ReadsItems ==
    /\ \A s \in Reader : Done(s) => R!PosOf(cur[s]) = Goal(next[s])
    /\ outcome = "threw" =>
        \E s \in Reader : next[s] > 1 /\ script[next[s] - 1].kind = "bytes"
                                      /\ script[next[s] - 1].size = 0

\* Streams that have come to the same item, one by reading and the other by
\* skipping, or from a clone, are in the same state, whatever blobs lie in
\* between; and behind the last item they are at their end.
SameCursor ==
    \A s, t \in Reader :
        /\ Done(s) /\ Done(t) /\ next[s] = next[t] => cur[s] = cur[t]
        /\ Done(s) /\ next[s] > Len(script) => cur[s].isEof
=============================================================================
