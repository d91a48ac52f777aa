--------------------------- MODULE CaptureFormat ----------------------------
(***************************************************************************)
(* How messages of the modem get into a capture and out of it again.       *)
(* lib/src/hdlc.rs frames a message, lib/src/diag/mod.rs takes apart what  *)
(* the device hands over, and lib/src/qmdl.rs writes it to a gzip stream   *)
(* and reads that stream back, possibly while it is being written or after *)
(* it was cut short.                                                       *)
(*                                                                         *)
(* The same messages are analysed twice: live, from the pieces as they     *)
(* come, and later from the capture.  A byte is its number; what gzip does *)
(* to bytes is left out, and what remains is how many of them the file     *)
(* gives back at any time.                                                 *)
(***************************************************************************)
EXTENDS Naturals, SequencesExt

CONSTANTS
    Containers,       \* what the device may hand over: sequences of pieces
    Readable,         \* the messages the parser of diag/mod.rs understands
    crc(_),           \* CRC_CCITT of a sequence of bytes: two bytes, low one first
    MaxContainers,    \* bound on the containers of a capture
    MAX_EMPTY_READS

ASSUME CaptureAssumption == MaxContainers \in Nat /\ MAX_EMPTY_READS \in Nat \ {0}

MESSAGE_TERMINATOR == 126           \* 0x7e
MESSAGE_ESCAPE_CHAR == 125          \* 0x7d
ESCAPED_MESSAGE_TERMINATOR == 94    \* 0x5e
ESCAPED_MESSAGE_ESCAPE_CHAR == 93   \* 0x5d

-----------------------------------------------------------------------------
(* Frames. *)

Escape(s) ==
    FlattenSeq([i \in DOMAIN s |->
        CASE s[i] = MESSAGE_TERMINATOR -> <<MESSAGE_ESCAPE_CHAR, ESCAPED_MESSAGE_TERMINATOR>>
          [] s[i] = MESSAGE_ESCAPE_CHAR -> <<MESSAGE_ESCAPE_CHAR, ESCAPED_MESSAGE_ESCAPE_CHAR>>
          [] OTHER -> <<s[i]>>])

hdlc_encapsulate(data) == Escape(data) \o Escape(crc(data)) \o <<MESSAGE_TERMINATOR>>

Ok(m) == [ok |-> TRUE, is |-> m]
Err(e) == [ok |-> FALSE, is |-> e]

\* The bytes before the terminator without their escapes; a lone escape at the
\* end is dropped.
Unescape(s) ==
    LET step[i \in 0..Len(s)] ==
            IF i = 0 THEN [out |-> <<>>, escaping |-> FALSE, bad |-> FALSE]
            ELSE LET p == step[i - 1] IN
                 CASE p.escaping /\ s[i] = ESCAPED_MESSAGE_TERMINATOR ->
                        [p EXCEPT !.out = Append(@, MESSAGE_TERMINATOR), !.escaping = FALSE]
                   [] p.escaping /\ s[i] = ESCAPED_MESSAGE_ESCAPE_CHAR ->
                        [p EXCEPT !.out = Append(@, MESSAGE_ESCAPE_CHAR), !.escaping = FALSE]
                   [] p.escaping /\ s[i] \notin {ESCAPED_MESSAGE_TERMINATOR,
                                                 ESCAPED_MESSAGE_ESCAPE_CHAR} ->
                        [p EXCEPT !.bad = TRUE, !.escaping = FALSE]
                   [] ~p.escaping /\ s[i] = MESSAGE_ESCAPE_CHAR -> [p EXCEPT !.escaping = TRUE]
                   [] OTHER -> [p EXCEPT !.out = Append(@, s[i])]
    IN step[Len(s)]

\* A slip: the checksum is taken off before the escapes are.
DecapsulateRaw(data) ==
    IF Len(data) < 3 THEN Err("TooShort")
    ELSE IF Last(data) # MESSAGE_TERMINATOR THEN Err("NoTrailingCharacter")
    ELSE LET n == Len(data) - 1
             u == Unescape(SubSeq(data, 1, n - 2))
         IN IF u.bad THEN Err("InvalidEscapeSequence")
            ELSE IF crc(u.out) # SubSeq(data, n - 1, n) THEN Err("InvalidChecksum")
            ELSE Ok(u.out)

hdlc_decapsulate(data) ==
    IF Len(data) < 3 THEN Err("TooShort")
    ELSE IF Last(data) # MESSAGE_TERMINATOR THEN Err("NoTrailingCharacter")
    ELSE LET u == Unescape(Front(data))
             n == Len(u.out)
         IN IF u.bad THEN Err("InvalidEscapeSequence")
            ELSE IF n < 2 THEN Err("MissingChecksum")
            ELSE IF crc(SubSeq(u.out, 1, n - 2)) # SubSeq(u.out, n - 1, n)
                 THEN Err("InvalidChecksum")
            ELSE Ok(SubSeq(u.out, 1, n - 2))

from_hdlc(data) ==
    LET r == hdlc_decapsulate(data)
    IN IF r.ok /\ r.is \notin Readable THEN Err("MessageParsingError") ELSE r

\* split_inclusive at the terminator, and read_until over all of s: what comes
\* after the last terminator is a part too.
SplitInclusive(s) ==
    LET stops == SetToSortSeq({i \in DOMAIN s : s[i] = MESSAGE_TERMINATOR \/ i = Len(s)}, <)
    IN [k \in DOMAIN stops |->
            SubSeq(s, IF k = 1 THEN 1 ELSE stops[k - 1] + 1, stops[k])]

Parse(s) == LET parts == SplitInclusive(s) IN [k \in DOMAIN parts |-> from_hdlc(parts[k])]

\* A piece (HdlcEncapsulatedMessage) as the modem makes it: whole frames and
\* terminated noise, and perhaps the beginning of a frame that stays cut.
PieceData(piece) ==
    FlattenSeq([i \in DOMAIN piece.items |->
        IF piece.items[i].ok THEN hdlc_encapsulate(piece.items[i].is)
        ELSE piece.items[i].is]) \o piece.rest

\* MessagesContainer::messages
messages(container) ==
    FlattenSeq([i \in DOMAIN container |-> Parse(PieceData(container[i]))])

-----------------------------------------------------------------------------

VARIABLES
    task,       \* what the diag task does with the capture
    container,  \* the pieces of the container at hand that are still to be written
    pending,    \* the container at hand
    received,   \* how many containers came
    empties,    \* empty_reads
    written,    \* the bytes handed to the encoder
    file,       \* how many of them the file gives back
    header,     \* whether the gzip header is in the file
    live,       \* what the live analysis got
    sent,       \* history: the messages the containers analysed were made of
    torn,       \* history: some piece did not end in a terminator
    reader      \* a QmdlMessageReader

writer == <<task, container, pending, received, empties>>
disk == <<written, file, header>>
vars == <<task, container, pending, received, empties, written, file, header,
          live, sent, torn, reader>>

NoReader == [pc |-> "none", gzip |-> FALSE, at |-> 0, seen |-> 0, eof |-> FALSE,
             out |-> <<>>, due |-> <<>>]

\* new_entry and QmdlWriter::new: an empty file.
Init ==
    /\ task = "read" /\ container = <<>> /\ pending = <<>> /\ received = 0 /\ empties = 0
    /\ written = <<>> /\ file = 0 /\ header = FALSE
    /\ live = <<>> /\ sent = <<>> /\ torn = FALSE
    /\ reader = NoReader

Tasks == {"read", "write", "analyse", "close", "closed", "gone", "killed", "unpowered"}

TypeOK ==
    /\ task \in Tasks
    /\ received \in 0..MaxContainers /\ empties \in 0..MAX_EMPTY_READS
    /\ file \in 0..Len(written) /\ header \in BOOLEAN
    /\ file > 0 => header
    /\ reader.pc \in {"none", "reading", "done"}
    /\ reader.at <= reader.seen /\ reader.seen <= Len(written)

-----------------------------------------------------------------------------
(* The diag device and the diag task. *)

\* get_next_messages_container: a read without data is tried again, and a run
\* of them is an error; so is a container that does not parse.
EmptyRead ==
    /\ task = "read" /\ empties < MAX_EMPTY_READS
    /\ empties' = empties + 1
    /\ task' = IF empties' = MAX_EMPTY_READS THEN "gone" ELSE task
    /\ UNCHANGED <<container, pending, received, disk, live, sent, torn, reader>>

\* Eight bytes or fewer are dropped, and count as a sign of life.
ShortRead ==
    /\ task = "read" /\ empties > 0
    /\ empties' = 0
    /\ UNCHANGED <<task, container, pending, received, disk, live, sent, torn, reader>>

ReadFails ==
    /\ task = "read" /\ task' = "gone"
    /\ UNCHANGED <<container, pending, received, empties, disk, live, sent, torn, reader>>

Receive(c) ==
    /\ task = "read" /\ received < MaxContainers
    /\ task' = "write" /\ container' = c /\ pending' = c
    /\ received' = received + 1 /\ empties' = 0
    /\ UNCHANGED <<disk, live, sent, torn, reader>>

\* write_container: one write_all for each piece.
WritePiece ==
    /\ task = "write" /\ container # <<>>
    /\ written' = written \o PieceData(Head(container))
    /\ torn' = (torn \/ Head(container).rest # <<>>)
    /\ container' = Tail(container)
    /\ UNCHANGED <<task, pending, received, empties, file, header, live, sent, reader>>

\* One that fails may have taken part of the piece.
WriteFails ==
    /\ task = "write" /\ container # <<>>
    /\ \E n \in 0..Len(PieceData(Head(container))) :
         written' = written \o SubSeq(PieceData(Head(container)), 1, n)
    /\ task' = "close"
    /\ UNCHANGED <<container, pending, received, empties, file, header, live, sent, torn, reader>>

\* The encoder passes on what it likes of what it was given, byte by byte.
Spill ==
    /\ task \in {"write", "close"} /\ file < Len(written)
    /\ file' = file + 1 /\ header' = TRUE
    /\ UNCHANGED <<writer, written, live, sent, torn, reader>>

\* A slip: the container counts as written when the encoder has it.
FlushLater ==
    /\ task = "write" /\ container = <<>>
    /\ task' = "analyse"
    /\ UNCHANGED <<container, pending, received, empties, disk, live, sent, torn, reader>>

Flush ==
    /\ task = "write" /\ container = <<>>
    /\ task' = "analyse" /\ file' = Len(written) /\ header' = TRUE
    /\ UNCHANGED <<container, pending, received, empties, written, live, sent, torn, reader>>

\* flush fails, or the size cannot be saved: the recording is stopped.
StopOnError ==
    /\ \/ task = "write" /\ container = <<>>
       \/ task = "analyse"
    /\ task' = "close"
    /\ UNCHANGED <<container, pending, received, empties, disk, live, sent, torn, reader>>

\* analyze_container
Analyse ==
    /\ task = "analyse" /\ task' = "read"
    /\ live' = live \o messages(pending)
    /\ sent' = sent \o FlattenSeq([i \in DOMAIN pending |->
                          SelectSeq(pending[i].items, LAMBDA m : m.ok /\ m.is \in Readable)])
    /\ UNCHANGED <<container, pending, received, empties, disk, torn, reader>>

\* The recording is stopped between two containers.
Stop ==
    /\ task = "read" /\ task' = "close"
    /\ UNCHANGED <<container, pending, received, empties, disk, live, sent, torn, reader>>

\* QmdlWriter::close writes what the encoder still has, or fails.
Close ==
    /\ task = "close" /\ task' = "closed"
    /\ \/ file' = Len(written) /\ header' = TRUE
       \/ UNCHANGED <<file, header>>
    /\ UNCHANGED <<container, pending, received, empties, written, live, sent, torn, reader>>

\* The process dies, and its readers with it; or the power fails, and the file
\* is what had reached the flash.
Killed ==
    /\ task \notin {"killed", "unpowered"} /\ task' = "killed"
    /\ reader' = NoReader
    /\ UNCHANGED <<container, pending, received, empties, disk, live, sent, torn>>

PowerLost ==
    /\ task # "unpowered" /\ task' = "unpowered"
    /\ file' \in 0..file /\ header' \in {header, file' > 0}
    /\ reader' = NoReader
    /\ UNCHANGED <<container, pending, received, empties, written, live, sent, torn>>

-----------------------------------------------------------------------------
(* A reader: re-analysis, a download or the packet explorer. *)

\* QmdlMessageReader::new looks for the header to tell gzip from older captures.
Open ==
    /\ reader.pc # "reading"
    /\ reader' = [NoReader EXCEPT !.pc = "reading", !.gzip = header,
                                  !.due = IF task = "unpowered" THEN <<>> ELSE live]
    /\ UNCHANGED <<writer, disk, live, sent, torn>>

Unread == SubSeq(written, reader.at + 1, reader.seen)
HasFrame == \E i \in DOMAIN Unread : Unread[i] = MESSAGE_TERMINATOR
Reading == reader.pc = "reading"

\* QmdlAsyncReader::poll_read: what is there (taking less of it would only put
\* off the next read); or the end, expected or not, which is remembered.
Fill ==
    /\ Reading /\ reader.gzip /\ ~reader.eof /\ ~HasFrame
    /\ IF reader.seen < file
       THEN reader' = [reader EXCEPT !.seen = file]
       ELSE reader' = [reader EXCEPT !.eof = TRUE]
    /\ UNCHANGED <<writer, disk, live, sent, torn>>

\* get_next_message: up to the next terminator.
GetNextMessage ==
    /\ Reading /\ HasFrame
    /\ LET frame == SplitInclusive(Unread)[1] IN
       reader' = [reader EXCEPT !.at = @ + Len(frame), !.out = Append(@, from_hdlc(frame))]
    /\ UNCHANGED <<writer, disk, live, sent, torn>>

\* A slip: the end is forgotten once what was there has been returned.
RestAndOn ==
    /\ Reading /\ reader.eof /\ ~HasFrame /\ Unread # <<>>
    /\ reader' = [reader EXCEPT !.at = reader.seen, !.out = Append(@, from_hdlc(Unread)),
                                !.eof = FALSE]
    /\ UNCHANGED <<writer, disk, live, sent, torn>>

\* get_next_message at the end of the file: what is left counts as a message.
Rest ==
    /\ Reading /\ reader.eof /\ ~HasFrame /\ Unread # <<>>
    /\ reader' = [reader EXCEPT !.at = reader.seen, !.out = Append(@, from_hdlc(Unread))]
    /\ UNCHANGED <<writer, disk, live, sent, torn>>

Finish ==
    /\ Reading /\ ~HasFrame /\ Unread = <<>>
    /\ reader.eof \/ ~reader.gzip
    /\ reader' = [reader EXCEPT !.pc = "done"]
    /\ UNCHANGED <<writer, disk, live, sent, torn>>

\* A file without a header is read as it is.  If its writer puts gzip data there
\* meanwhile, the reader takes that for messages: noise, cut at some bytes.
ReadRaw ==
    /\ Reading /\ ~reader.gzip /\ header /\ Len(reader.out) < MaxContainers
    /\ reader' = [reader EXCEPT !.out = Append(@, Err("InvalidChecksum"))]
    /\ UNCHANGED <<writer, disk, live, sent, torn>>

Next ==
    \/ EmptyRead \/ ShortRead \/ ReadFails \/ \E c \in Containers : Receive(c)
    \/ WritePiece \/ WriteFails \/ Spill \/ Flush \/ StopOnError \/ Analyse
    \/ Stop \/ Close \/ Killed \/ PowerLost
    \/ Open \/ Fill \/ GetNextMessage \/ Rest \/ Finish \/ ReadRaw

Spec == Init /\ [][Next]_vars

-----------------------------------------------------------------------------
(* Properties. *)

Messages(s) == SelectSeq(s, LAMBDA r : r.ok)

\* The live analysis gets the messages the modem sent, each once and in order,
\* whatever bytes they and their checksums consist of and whatever noise is
\* between them (MessagesContainer::messages, hdlc_decapsulate).
LiveIsExact == TypeOK /\ Messages(live) = sent

\* A reader returns what the file holds, frame by frame, and then at most one
\* error for a frame that was cut: it invents no message, and does not go on
\* when the writer does (QmdlAsyncReader: "an unexpected EOF in a Gzip file
\* [is] just a truncated file").  One that found no header may return noise.
ReadIsGenuine ==
    LET held == Parse(SubSeq(written, 1, file)) IN
    \E k \in 0..Len(reader.out) :
        /\ k > 0 => IsPrefix(SubSeq(reader.out, 1, k), held)
        /\ reader.gzip => Len(reader.out) <= k + 1
        /\ \A i \in (k + 1)..Len(reader.out) : ~reader.out[i].ok

\* Re-analysis finds what the live analysis found: all that was analysed when
\* the reader was opened is in what it returns, the recording still running or
\* the process killed (write_container flushes before analyze_container).  Only
\* a piece that ends within a frame, or a loss of power, parts the two.
LiveIsReplayed ==
    reader.pc = "done" /\ ~torn => IsPrefix(reader.due, reader.out)
=============================================================================
