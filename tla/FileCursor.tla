------------------------------ MODULE FileCursor ------------------------------
(***************************************************************************)
(* The cursors of one open virtual file (MetadataVirtualFile in            *)
(* internal/nzbfilesystem/metadata_remote_file.go): position and the range *)
(* of the request for Seek and Read, readAtSharedNext and the streak of    *)
(* scrubs for ReadAt, over one forward-only reader that is opened, given   *)
(* up and opened again as the calls come.                                  *)
(*                                                                         *)
(* A byte is its offset: a reader opened at an offset delivers offsets in  *)
(* order, in pieces of any length, and what a caller is given is compared  *)
(* with what it asked for.  All calls of a file are under mvf.mu, one at a *)
(* time.  The file is a plain one: not encrypted, nested or remuxed.       *)
(***************************************************************************)
EXTENDS Integers

CONSTANTS
    FileSize,      \* meta.FileSize
    SkipLimit,     \* forwardSkipLimit
    ScrubLimit,    \* ephemeralStreakLimit
    MaxLen,        \* longest buffer of a call
    Clients        \* the clients to look at

ASSUME CursorAssumption ==
    /\ FileSize \in Nat \ {0} /\ SkipLimit \in Nat /\ ScrubLimit \in Nat \ {0}
    /\ MaxLen \in Nat \ {0}

VARIABLES
    client,        \* how the file is used, and by which HTTP request
    position,
    rangeEnd,      \* originalRangeEnd: 0 not known yet, -1 unbounded
    sharedNext,    \* readAtSharedNext: -1 invalidated
    streak,        \* ephemeralStreak
    reader,        \* the next and the last offset of the reader
    fcall,         \* the call in progress
    wrong,         \* history: a byte was not the one that was asked for
    condemned      \* history: the file was reported as corrupted

cursors == <<position, rangeEnd, sharedNext, streak>>
cursorVars == <<client, cursors, reader, fcall, wrong, condemned>>

NoReader == [next |-> -1, last |-> -1]
NoFileCall == [at |-> "idle", off |-> 0, want |-> 0, n |-> 0]

(* A client has a way to use the file ("stream" by Seek and Read, "handle" *)
(* by ReadAt, "mixed" by Read and ReadAt), the Range header of its request *)
(* as ParseRangeHeader reads it (<<>> none or several ranges, -1 an end    *)
(* that is not given), the range that http.ServeContent serves for it, and *)
(* the number of bytes that the segments really hold.                      *)
Client(use, header, from, to, holds) ==
    [use |-> use, header |-> header, from |-> from, to |-> to, holds |-> holds]

CursorInit ==
    /\ client \in Clients
    /\ position = 0 /\ rangeEnd = 0 /\ sharedNext = 0 /\ streak = 0
    /\ reader = NoReader
    /\ fcall = NoFileCall
    /\ wrong = FALSE /\ condemned = FALSE

-----------------------------------------------------------------------------
(* The reader.                                                             *)

(* Faulty variant: the end of the range counts as not yet read.            *)
HasMoreLate ==
    \/ rangeEnd # -1 /\ position <= rangeEnd + 1
    \/ rangeEnd = -1 /\ position < FileSize

(* hasMoreDataToRead.                                                      *)
HasMore ==
    \/ rangeEnd # -1 /\ position < rangeEnd
    \/ rangeEnd = -1 /\ position < FileSize

(* getRequestRange: start, end and the range's end that is remembered.     *)
RequestRange ==
    IF rangeEnd # 0 THEN <<position, rangeEnd, rangeEnd>>
    ELSE IF client.header # <<>> THEN <<client.header[1], client.header[2], client.header[2]>>
    ELSE <<position, -1, -1>>

(* The shared cursor of ReadAt is ahead of what the range starts with.     *)
StartOf(start, last) ==
    IF sharedNext > 0 /\ sharedNext < FileSize /\ start < sharedNext /\ sharedNext <= last
    THEN sharedNext ELSE start

(* ensureReader and createUsenetReader, followed by Next: a range that no  *)
(* segments cover is taken for corruption of the file.                     *)
EnsureReader(next) ==
    IF reader # NoReader
    THEN fcall' = [fcall EXCEPT !.at = next] /\ UNCHANGED <<reader, rangeEnd, condemned>>
    ELSE LET last == IF RequestRange[2] = -1 THEN FileSize - 1 ELSE RequestRange[2]
             start == StartOf(RequestRange[1], last) IN
         /\ rangeEnd' = RequestRange[3]
         /\ IF start >= 0 /\ start <= last /\ last < FileSize
            THEN /\ reader' = [next |-> start, last |-> last]
                 /\ fcall' = [fcall EXCEPT !.at = next]
                 /\ UNCHANGED condemned
            ELSE /\ condemned' = TRUE
                 /\ fcall' = NoFileCall
                 /\ UNCHANGED reader

(* What the reader can still deliver.                                      *)
Left == (IF reader.last < client.holds THEN reader.last ELSE client.holds - 1) - reader.next + 1

(* One Read of the reader: k bytes into the caller's buffer.               *)
Deliver(k) ==
    /\ k <= Left
    /\ reader' = [reader EXCEPT !.next = @ + k]
    /\ wrong' = (wrong \/ reader.next # fcall.off + fcall.n)

Return == fcall' = NoFileCall

-----------------------------------------------------------------------------
(* Seek and Read.                                                          *)

(* Faulty variant: a reader that is behind the new position is kept.       *)
SeekReaderKept(to) == reader' = IF to < position THEN NoReader ELSE reader

(* The reader only goes forward, one piece after the other.                *)
SeekReader(to) == reader' = IF to # position THEN NoReader ELSE reader

(* Offsets that the client seeks to: ServeContent asks for the size, goes  *)
(* back and goes to the start of the range; without a header, with several *)
(* ranges, it may go anywhere.                                             *)
SeekTargets ==
    IF client.use # "stream" THEN {}
    ELSE IF client.header = <<>> THEN 0..FileSize ELSE {0, client.from, FileSize}

Seek(to) ==
    /\ fcall.at = "idle" /\ to \in SeekTargets
    /\ SeekReader(to)
    /\ rangeEnd' = IF to # position THEN 0 ELSE rangeEnd
    /\ position' = to /\ sharedNext' = to /\ streak' = 0
    /\ UNCHANGED <<client, fcall, wrong, condemned>>

(* ServeContent reads no more than the range it serves.                    *)
Read(len) ==
    /\ fcall.at = "idle" /\ client.use # "handle"
    /\ position >= client.from /\ position + len - 1 <= client.to
    /\ fcall' = [at |-> "open", off |-> position, want |-> len, n |-> 0]
    /\ UNCHANGED <<client, cursors, reader, wrong, condemned>>

ReadOpen ==
    /\ fcall.at = "open"
    /\ EnsureReader("read")
    /\ UNCHANGED <<client, position, sharedNext, streak, wrong>>

ReadPiece(k) ==
    /\ fcall.at = "read"
    /\ k <= fcall.want - fcall.n /\ Deliver(k)
    /\ position' = position + k
    /\ IF fcall.n + k = fcall.want THEN Return ELSE fcall' = [fcall EXCEPT !.n = @ + k]
    /\ UNCHANGED <<client, rangeEnd, sharedNext, streak, condemned>>

(* At the reader's end the next iteration opens one for the rest, if any.  *)
ReadEnd ==
    /\ fcall.at = "read" /\ Left <= 0
    /\ IF HasMore THEN /\ reader' = NoReader /\ streak' = 0
                       /\ fcall' = [fcall EXCEPT !.at = "open"]
                  ELSE Return /\ UNCHANGED <<reader, streak>>
    /\ UNCHANGED <<client, position, rangeEnd, sharedNext, wrong, condemned>>

(* An error of the reader is returned; the reader stays.                   *)
ReadError ==
    /\ fcall.at = "read"
    /\ Return
    /\ UNCHANGED <<client, cursors, reader, wrong, condemned>>

-----------------------------------------------------------------------------
(* ReadAt.                                                                 *)

ForwardSkip(off) ==
    /\ reader # NoReader /\ sharedNext >= 0
    /\ off > sharedNext /\ off - sharedNext <= SkipLimit

Shared(off) ==
    \/ ForwardSkip(off)
    \/ sharedNext >= 0 /\ off = sharedNext
    \/ sharedNext = 0 /\ reader = NoReader /\ off = position

Least(a, b) == IF a < b THEN a ELSE b

(* The clamped buffer, then the path that serves it.                       *)
ReadAt(off, len) ==
    /\ fcall.at = "idle" /\ client.use # "stream"
    /\ fcall' = [at |-> IF ~Shared(off) THEN "ephemeral" ELSE IF ForwardSkip(off) THEN "skip"
                        ELSE "openAt",
                 off |-> off, want |-> Least(len, FileSize - off), n |-> 0]
    /\ UNCHANGED <<client, cursors, reader, wrong, condemned>>

OpenAt ==
    /\ fcall.at = "openAt"
    /\ EnsureReader("readAt")
    /\ UNCHANGED <<client, position, sharedNext, streak, wrong>>

(* The bytes up to the offset are discarded; when that fails the reader is *)
(* given up and an ephemeral one serves the call.                          *)
Skip ==
    /\ fcall.at = "skip"
    /\ \/ /\ Left >= fcall.off - sharedNext
          /\ reader' = [reader EXCEPT !.next = @ + fcall.off - sharedNext]
          /\ sharedNext' = fcall.off
          /\ fcall' = [fcall EXCEPT !.at = "readAt"]
          /\ UNCHANGED streak
       \/ /\ reader' = NoReader /\ streak' = 0 /\ sharedNext' = -1
          /\ fcall' = [fcall EXCEPT !.at = "ephemeral"]
    /\ UNCHANGED <<client, position, rangeEnd, wrong, condemned>>

(* The end of the shared path, with n bytes.                               *)
SharedReturn(n) == Return /\ sharedNext' = fcall.off + n /\ streak' = 0

ReadAtPiece(k) ==
    /\ fcall.at = "readAt"
    /\ k <= fcall.want - fcall.n /\ Deliver(k)
    /\ IF fcall.n + k = fcall.want THEN SharedReturn(fcall.n + k)
       ELSE fcall' = [fcall EXCEPT !.n = @ + k] /\ UNCHANGED <<sharedNext, streak>>
    /\ UNCHANGED <<client, position, rangeEnd, condemned>>

(* At its end another reader is opened, by position and the old cursor.    *)
ReadAtEnd ==
    /\ fcall.at = "readAt" /\ Left <= 0
    /\ IF HasMore THEN /\ reader' = NoReader /\ streak' = 0
                       /\ fcall' = [fcall EXCEPT !.at = "openAt"]
                       /\ UNCHANGED sharedNext
                  ELSE SharedReturn(fcall.n) /\ UNCHANGED reader
    /\ UNCHANGED <<client, position, rangeEnd, wrong, condemned>>

(* An error ends the call, which returns what it has and no error.         *)
ReadAtError ==
    /\ fcall.at = "readAt"
    /\ SharedReturn(fcall.n)
    /\ UNCHANGED <<client, position, rangeEnd, reader, wrong, condemned>>

(* Faulty variant: the cursor follows the call while the reader is kept.   *)
AfterScrubAlways(alive, off) == off

(* The shared cursor is set only when there is no reader it belongs to.    *)
AfterScrub(alive, off) == IF alive THEN sharedNext ELSE off

(* Faulty variant: one scrub too many.                                     *)
GivesUpLate == streak >= ScrubLimit
GivesUp == streak + 1 >= ScrubLimit

(* A reader of its own, or a cached segment, serves the call with n bytes; *)
(* after some scrubs in a row the shared reader is given up.               *)
Ephemeral(n) ==
    /\ fcall.at = "ephemeral" /\ n <= fcall.want
    /\ Return
    /\ IF reader # NoReader /\ ~GivesUp
       THEN /\ streak' = streak + 1
            /\ sharedNext' = AfterScrub(TRUE, fcall.off + n)
            /\ UNCHANGED reader
       ELSE /\ streak' = 0 /\ reader' = NoReader
            /\ sharedNext' \in {AfterScrub(FALSE, fcall.off + n), -1}   \* -1: no reader could be made
    /\ UNCHANGED <<client, position, rangeEnd, wrong, condemned>>

Lengths == 1..MaxLen

CallStep ==
    \/ ReadOpen \/ ReadEnd \/ ReadError \/ \E k \in Lengths : ReadPiece(k)
    \/ OpenAt \/ Skip \/ ReadAtEnd \/ ReadAtError \/ \E k \in Lengths : ReadAtPiece(k)
    \/ \E n \in 0..MaxLen : Ephemeral(n)

CursorNext ==
    \/ CallStep
    \/ \E to \in 0..FileSize : Seek(to)
    \/ \E len \in Lengths : Read(len) \/ \E off \in 0..(FileSize - 1) : ReadAt(off, len)

(* A client is served as its request says: without a header it streams the *)
(* file from the start or reads it by offset, where the segments hold what *)
(* was declared; with one, ServeContent serves the range of the header cut *)
(* to the file.                                                            *)
Honoured(c) ==
    /\ c.holds \in 0..FileSize
    /\ \/ c.use = "handle" /\ c.header = <<>> /\ c.holds = FileSize
       \/ c.use = "stream" /\ c.header = <<>> /\ c.from = 0 /\ c.to = FileSize - 1
       \/ /\ c.use = "stream" /\ c.header # <<>>
          /\ c.header = <<c.from, c.header[2]>> /\ c.header[2] \in Int
          /\ c.from \in 0..(FileSize - 1) /\ c.to \in c.from..(FileSize - 1)
          /\ c.header[2] = -1 \/ c.to <= c.header[2]

(* The cursors of a client that is served as it asks.                      *)
HonouredSpec == CursorInit /\ Honoured(client) /\ [][CursorNext]_cursorVars

-----------------------------------------------------------------------------
(* Properties.                                                             *)

(* Every variable has a value of its type; the shared reader is given up   *)
(* before there are more than ScrubLimit - 1 scrubs in a row.              *)
CursorTypeOK ==
    /\ client \in Clients
    /\ position \in 0..FileSize /\ rangeEnd \in Int
    /\ sharedNext \in -1..FileSize /\ streak \in 0..(ScrubLimit - 1)
    /\ reader = NoReader \/ reader \in [next : 0..FileSize, last : 0..(FileSize - 1)]
    /\ fcall \in [at : {"idle", "open", "read", "openAt", "skip", "readAt", "ephemeral"},
                  off : 0..FileSize, want : 0..MaxLen, n : 0..MaxLen]
    /\ wrong \in BOOLEAN /\ condemned \in BOOLEAN

(* Through seeks, ranges, skips, scrubs and readers that are given up and  *)
(* opened again, a client gets the bytes of the offsets it asks for.       *)
BytesAreThoseAsked == ~wrong

(* Between two calls of ReadAt the shared cursor is where the reader is,   *)
(* unless it is invalid or at the end of the file.                         *)
SharedCursorIsReaders ==
    client.use = "handle" /\ fcall.at = "idle" /\ reader # NoReader /\ sharedNext \in 0..(FileSize - 1)
        => sharedNext = reader.next

(* Every call comes to an end: a reader that ends early is opened again    *)
(* only as long as that gets on.                                           *)
FileCallsEnd == fcall.at # "idle" ~> fcall.at = "idle"

(* "caller guarantees 0 <= start <= end < filesize": the segments cover    *)
(* whatever range a reader is opened for.                                  *)
CallersStayInsideFile == ~condemned
===============================================================================
