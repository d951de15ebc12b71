---- MODULE MjpgProxy ----
(***************************************************************************)
(* The input plugin input_http: it connects to the HTTP output of another  *)
(* mjpg_streamer, cuts the stream into pictures and publishes each.        *)
(* The server writes what send_stream of httpd.c writes; the connection    *)
(* may break at every byte, and the plugin connects again.                 *)
(*                                                                         *)
(* Bytes are numbers, because the test for the end of a header works on    *)
(* their bits. A piece of header text is the byte of one letter.           *)
(***************************************************************************)
EXTENDS Integers, Sequences

CONSTANTS
    Frames,     \* the pictures the server may send: sequences of bytes
    BufferSize  \* BUFFER_SIZE

Byte == 0..255
Lf == 10
Cr == 13
Text == 116

\* "--boundarydonotcross", shortened.
Boundary == <<45, 45, 98>>

\* The two headers of send_stream: "HTTP/1.0 200 OK", text, an empty line, the
\* first boundary; and, before each picture, text and an empty line.
ResponseHeader == <<79, 75, Cr, Lf, Text, Cr, Lf, Cr, Lf>> \o Boundary \o <<Cr, Lf>>
PartHeader     == <<Text, Cr, Lf, Cr, Lf>>
PartEnd        == <<Cr, Lf>> \o Boundary \o <<Cr, Lf>>

\* What a connection delivers first: for IsCrlfCrlf the response header ends
\* behind "OK", so the rest of it up to the boundary is taken for a picture.
HeaderRest == <<Text, Cr, Lf>>

\* A picture that does not hold the boundary.
Clean(f) == ~ \E i \in 1..(Len(f) - 2) : SubSeq(f, i, i + 2) = Boundary

\* Bytes the extractor must keep to recognise the end of a picture of n bytes.
Needs(n) == n + 2 + Len(Boundary)

ASSUME ProxyAssumption ==
    /\ Frames \subseteq Seq(Byte)
    /\ BufferSize \in Nat /\ Needs(Len(HeaderRest)) < BufferSize

VARIABLES
    stop,     \* *(state->should_stop), that is pglobal->stop
    worker,   \* the plugin's thread: "connect", "stream" or "ended"
    wire,     \* bytes the server has written and the plugin not received
    sent,     \* what the server's present section is to deliver (history)
    due,      \* 1 until the section's boundary delivers something (history)
    tooBig,   \* something was sent that does not fit the buffer (history)
    unclean,  \* a picture was sent that holds a boundary (history)
    part, last4, matched, \* the parser: part, last_four_bytes, boundary
    buffer,   \* the first length bytes of state->buffer
    image     \* what on_image_received was called with in this section

parser == <<part, last4, matched, buffer>>
proxyVars   == <<stop, worker, wire, sent, due, tooBig, unclean, parser, image>>

NoBytes == <<0, 0, 0, 0>>
NoImage == [length |-> 0, data |-> <<>>]

ProxyTypeOK ==
    /\ stop \in BOOLEAN
    /\ worker \in {"connect", "stream", "ended"}
    /\ wire \in Seq(Byte)
    /\ sent \in Frames \cup {HeaderRest, <<>>}
    /\ due \in Int
    /\ tooBig \in BOOLEAN /\ unclean \in BOOLEAN
    /\ part \in {"header", "content"}
    /\ last4 \in [1..4 -> Byte]
    /\ matched \in 0..(Len(Boundary) - 1)
    /\ buffer \in Seq(Byte) /\ Len(buffer) < BufferSize
    /\ image.length \in Int /\ image.data \in Seq(Byte)

ProxyInit ==
    /\ stop = FALSE
    /\ worker = "connect"
    /\ wire = <<>>
    /\ sent = <<>>
    /\ due = 0
    /\ tooBig = FALSE /\ unclean = FALSE
    /\ part = "header" /\ last4 = NoBytes /\ matched = 0 /\ buffer = <<>>
    /\ image = NoImage

\* init_extractor_state.
ResetParser == part' = "header" /\ last4' = NoBytes /\ matched' = 0 /\ buffer' = <<>>

-----------------------------------------------------------------------------
(* The parser, misc.c and extract_data.                                    *)

\* push_byte: (*bytes << 8) | byte, with byte a signed char.
Push(w, b) == IF b < 128 THEN <<w[2], w[3], w[4], b>> ELSE <<255, 255, 255, b>>

Bit(b, weight) == (b \div weight) % 2 = 1

\* (mask & b) == mask for the masks 8 + 4 + 1 and 8 + 2 of is_crlf.
CoversCr(b) == Bit(b, 8) /\ Bit(b, 4) /\ Bit(b, 1)
CoversLf(b) == Bit(b, 8) /\ Bit(b, 2)

\* mutant: compare all the bits
IsCrlfCrlfExact(w) == w = <<Cr, Lf, Cr, Lf>>

IsCrlfCrlf(w) == CoversCr(w[1]) /\ CoversLf(w[2]) /\ CoversCr(w[3]) /\ CoversLf(w[4])

\* search_pattern_compare: a mismatch starts over, without looking at the byte
\* again.
Compare(n, b) == IF Boundary[n + 1] = b THEN n + 1 ELSE 0

HeaderByte(b) ==
    /\ part = "header"
    /\ last4' = Push(last4, b)
    /\ part' = IF IsCrlfCrlf(last4') THEN "content" ELSE "header"
    /\ UNCHANGED <<matched, buffer, image, due>>

\* mutant: only the boundary is cut off
DeliverWithCrlf(data) ==
    LET n == Len(data) - Len(Boundary)
    IN  image' = [length |-> n, data |-> SubSeq(data, 1, n)]

\* The boundary and the CR LF before it are cut off, then the callback runs.
Deliver(data) ==
    LET n == Len(data) - (Len(Boundary) + 2)
    IN  image' = [length |-> n, data |-> SubSeq(data, 1, n)]

StoreByte(b) ==
    LET found == Compare(matched, b) = Len(Boundary)
    IN  \/ /\ found
           /\ Deliver(Append(buffer, b))
           /\ due' = due - 1
           /\ ResetParser
        \/ /\ ~found
           /\ buffer' = Append(buffer, b)
           /\ matched' = Compare(matched, b)
           /\ UNCHANGED <<part, last4, image, due>>

\* mutant: no test for a full buffer
ContentByteUnchecked(b) ==
    /\ part = "content"
    /\ StoreByte(b)

\* mutant: one byte of the buffer is wasted
ContentByteEarly(b) ==
    /\ part = "content"
    /\ \/ Len(buffer) >= BufferSize - 2 /\ UNCHANGED <<parser, image, due>>
       \/ Len(buffer) < BufferSize - 2 /\ StoreByte(b)

\* A full buffer takes nothing more, nor is the boundary looked for.
ContentByte(b) ==
    /\ part = "content"
    /\ \/ Len(buffer) >= BufferSize - 1 /\ UNCHANGED <<parser, image, due>>
       \/ Len(buffer) < BufferSize - 1 /\ StoreByte(b)

\* One turn of the loop in extract_data. How recv cuts the stream into pieces
\* makes no difference to it.
Receive ==
    /\ worker = "stream"
    /\ ~stop
    /\ wire # <<>>
    /\ wire' = Tail(wire)
    /\ HeaderByte(Head(wire)) \/ ContentByte(Head(wire))
    /\ UNCHANGED <<stop, worker, sent, tooBig, unclean>>

-----------------------------------------------------------------------------
(* The connection, connect_and_stream, and the server at its other end.    *)

\* connect succeeds at last (until then it is tried again every 5 s), the
\* request is sent, and the server answers with its header.
Connect ==
    /\ worker = "connect"
    /\ worker' = "stream"
    /\ ResetParser
    /\ wire' = ResponseHeader
    /\ sent' = HeaderRest
    /\ due' = 1
    /\ tooBig' = FALSE /\ unclean' = FALSE
    /\ image' = NoImage
    /\ UNCHANGED stop

\* The server sends its next picture.
SendFrame ==
    /\ worker = "stream"
    /\ wire = <<>>
    /\ sent' \in Frames
    /\ wire' = PartHeader \o sent' \o PartEnd
    /\ due' = 1
    /\ tooBig' = (tooBig \/ Needs(Len(sent')) > BufferSize - 1)
    /\ unclean' = (unclean \/ ~Clean(sent'))
    /\ image' = NoImage
    /\ UNCHANGED <<stop, worker, parser>>

\* recv fails or finds the end, or comes back to find stop set: the socket is
\* closed, and the thread ends if it has to stop.
Disconnect ==
    /\ worker = "stream"
    /\ worker' = IF stop THEN "ended" ELSE "connect"
    /\ wire' = <<>>
    /\ sent' = <<>>
    /\ due' = 0
    /\ UNCHANGED <<stop, tooBig, unclean, parser, image>>

\* signal_handler sets stop; a second later input_stop cancels the thread.
Stop ==
    /\ ~stop
    /\ stop' = TRUE
    /\ UNCHANGED <<worker, wire, sent, due, tooBig, unclean, parser, image>>

Cancel ==
    /\ stop
    /\ worker # "ended"
    /\ worker' = "ended"
    /\ UNCHANGED <<stop, wire, sent, due, tooBig, unclean, parser, image>>

ProxyNext == Receive \/ Connect \/ SendFrame \/ Disconnect \/ Stop \/ Cancel

ProxySpec == ProxyInit /\ [][ProxyNext]_proxyVars

-----------------------------------------------------------------------------

\* on_image_received is never called with a negative length, which memcpy would
\* take for a huge one: wherever the connection broke, a boundary is found only
\* with two bytes of content before it, unless this connection has seen a picture
\* that holds a boundary itself (one with less than two bytes before it is enough).
\* And the variables have their types.
LengthNeverNegative == ProxyTypeOK /\ (image.length < 0 => unclean)

\* A boundary delivers, byte for byte, what the server sent before it, and nothing
\* is delivered twice, although pictures may hold parts of a boundary, line ends
\* and empty lines, and connections break anywhere; a picture that holds a
\* boundary harms no connection but its own.
WholeImages ==
    worker = "stream" /\ ~unclean => due >= 0 /\ (due = 0 => image.data = sent)

\* Every picture the server has sent in full is delivered by the time its last
\* byte is there, unless the connection has seen one that does not fit or that
\* holds a boundary. One that fills the buffer to its last byte fits.
EveryFrameArrives ==
    worker = "stream" /\ wire = <<>> => due = 0 \/ tooBig \/ unclean \/ stop

====
