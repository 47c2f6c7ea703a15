------------------------------ MODULE HttpStream ------------------------------
(***************************************************************************)
(* One connection as a stream of bytes: a client that pipelines requests   *)
(* and, once it has upgraded, sends WebSocket frames; TCP, which delivers  *)
(* the bytes in any pieces; the input Buffer, the HttpParser, byte by      *)
(* byte, the callback that answers a request, WsHandler and WsCodec.       *)
(*                                                                         *)
(* Bytes are numbers, most of them ASCII.  Names of headers and their      *)
(* values other than numbers are one byte long: L is Content-Length, C is  *)
(* Connection (with c for close), U an upgrade; l is content-length, which *)
(* the parser does not know, as it compares names with their case.         *)
(***************************************************************************)
EXTENDS Buffer

CONSTANTS
    Scripts,        \* what a client may have to send: sequences of messages
    MaxKeepAlive,   \* kMaxKeepAliveRequests, 1000 in the code
    Short,          \* the longest payload whose length fits in 7 bits, 125
    Base            \* the values of a length byte, 256

ASSUME StreamAssumption == Byte \subseteq Nat /\ Short \in Nat /\ Base \in Nat \ {0} /\ MaxKeepAlive \in Nat

VARIABLES
    todo,      \* messages the client has still to send
    wire,      \* bytes on their way
    buf,       \* input_buffer_
    reading,   \* no, or the context the running message callback has found
    fed,       \* how many of the readable bytes the parser has taken
    ctx,       \* the connection's context: http (with its parser) or ws
    parser,
    count,     \* request_count
    conn,      \* the connection's state
    stalled,   \* output_buffer_ is not empty
    wcc,       \* write_complete_cb_
    script,    \* history: everything the client has to send
    queue,     \* history: bytes received and not consumed, in order
    consumed,  \* history: the number of bytes consumed
    requests,  \* history: requests handed to the callback
    frames,    \* history: frames WsHandler has handled
    sent       \* history: what was sent and not dropped

vars == <<todo, wire, buf, reading, fed, ctx, parser, count, conn, stalled, wcc,
          script, queue, consumed, requests, frames, sent>>

-------------------------------------------------------------------------------
(* HttpParser: parse_char for each state. *)

Space == {9, 10, 11, 12, 13, 32}
CR == 13
LF == 10

Fresh == [state |-> "kStart", path |-> <<>>, query |-> <<>>, field |-> <<>>, value |-> <<>>,
          headers |-> <<>>, length |-> 0, body |-> <<>>, complete |-> FALSE, used |-> 0]

(* headers_[field] = value; the last one counts. *)
GetHeader(headers, name) ==
    LET at == {i \in DOMAIN headers : headers[i][1] = name} IN
    IF at = {} THEN <<>> ELSE headers[CHOOSE i \in at : \A k \in at : k <= i][2]

(* stoull of a well-formed number. *)
Number(digits) ==
    LET upTo[i \in 0..Len(digits)] == IF i = 0 THEN 0 ELSE 10 * upTo[i - 1] + (digits[i] - 48)
    IN upTo[Len(digits)]

TransitionToBody(p) ==
    LET n == Number(GetHeader(p.headers, <<76>>)) IN
    IF n > 0 THEN [p EXCEPT !.state = "kBody", !.length = n, !.body = <<>>]
    ELSE [p EXCEPT !.complete = TRUE]

AddHeader(p, next) ==
    [p EXCEPT !.headers = Append(@, <<p.field, p.value>>), !.state = next]

MutBodyDone(p) == Len(p.body) > p.length
BodyDone(p) == Len(p.body) >= p.length

ParseChar(p, c) ==
    LET Goto(s) == [p EXCEPT !.state = s]
        Field == [p EXCEPT !.field = <<c>>, !.state = "kHeaderField"] IN
    CASE p.state = "kStart" -> IF c \in Space THEN p ELSE Goto("kMethod")
      [] p.state = "kMethod" -> IF c = 32 THEN Goto("kBeforePath") ELSE p
      [] p.state = "kBeforePath" -> IF c = 32 THEN p ELSE [p EXCEPT !.path = <<c>>, !.state = "kPath"]
      [] p.state = "kPath" -> CASE c = 63 -> Goto("kQuery")
                                [] c = 32 -> Goto("kVersionH")
                                [] OTHER -> [p EXCEPT !.path = Append(@, c)]
      [] p.state = "kQuery" -> IF c = 32 THEN Goto("kVersionH") ELSE [p EXCEPT !.query = Append(@, c)]
      [] p.state = "kVersionH" -> IF c = 72 THEN Goto("kVersionT1") ELSE p
      [] p.state = "kVersionT1" -> IF c = 84 THEN Goto("kVersionSlash") ELSE p
      [] p.state = "kVersionSlash" -> IF c = 47 THEN Goto("kVersionMajor") ELSE p
      [] p.state = "kVersionMajor" -> IF c = 46 THEN Goto("kVersionMinor") ELSE p
      [] p.state = "kVersionMinor" -> CASE c = CR -> Goto("kAfterVersion")
                                        [] c = LF -> Goto("kHeaderLF")
                                        [] OTHER -> p
      [] p.state = "kAfterVersion" -> IF c = LF THEN Goto("kHeaderLF") ELSE p
      [] p.state = "kHeaderLF" -> CASE c = CR -> Goto("kHeaderFieldStart")
                                    [] c = LF -> TransitionToBody(p)
                                    [] OTHER -> Field
      [] p.state = "kHeaderFieldStart" -> IF c = LF THEN TransitionToBody(p) ELSE Field
      [] p.state = "kHeaderField" -> IF c = 58 THEN Goto("kHeaderBeforeValue")
                                     ELSE [p EXCEPT !.field = Append(@, c)]
      [] p.state = "kHeaderBeforeValue" -> IF c = 32 THEN p
                                           ELSE [p EXCEPT !.value = <<c>>, !.state = "kHeaderValue"]
      [] p.state = "kHeaderValue" -> CASE c = CR -> AddHeader(p, "kHeaderValueLF")
                                       [] c = LF -> AddHeader(p, "kHeaderLF")
                                       [] OTHER -> [p EXCEPT !.value = Append(@, c)]
      [] p.state = "kHeaderValueLF" -> IF c = LF THEN Goto("kHeaderLF") ELSE p
      [] p.state = "kBody" -> LET q == [p EXCEPT !.body = Append(@, c)] IN
                              [q EXCEPT !.complete = BodyDone(q)]

(* feed, up to the byte that completes a request or to the last one. *)
ParseUpTo(p, bytes) ==
    LET run[i \in 0..Len(bytes)] ==
            IF i = 0 THEN [p EXCEPT !.used = 0]
            ELSE LET q == run[i - 1] IN
                 IF q.complete THEN q ELSE [ParseChar(q, bytes[i]) EXCEPT !.used = i]
    IN run[Len(bytes)]

-------------------------------------------------------------------------------
(* WsCodec.  128 separates the FIN bit from the opcode; Short + 1 and      *)
(* Short + 2 stand for the 16 bit and the 64 bit length, Short + 3 for the *)
(* mask bit (126, 127 and 128 in the code).                                *)

Closing == 8
Ping == 9
Pong == 10

Bit(a, k) == (a \div (2 ^ k)) % 2
Xor(a, b) ==
    LET low[k \in 0..8] == IF k = 0 THEN 0 ELSE low[k - 1] + ((Bit(a, k - 1) + Bit(b, k - 1)) % 2) * 2 ^ (k - 1)
    IN low[8]

(* A number of n bytes, the first the most significant. *)
BigEndian(bytes) ==
    LET upTo[i \in 0..Len(bytes)] == IF i = 0 THEN 0 ELSE Base * upTo[i - 1] + bytes[i]
    IN upTo[Len(bytes)]

(* The length shifted by 0 to 8 bytes. *)
Shift(len) == LET by[i \in 0..8] == IF i = 0 THEN len ELSE by[i - 1] \div Base IN by
ToBytes(len, n) == [i \in 1..n |-> Shift(len)[n - i] % Base]

(* The bytes of the extended length, by the 7 bits in the second byte. *)
Extended(len7) == IF len7 = Short + 1 THEN 2 ELSE IF len7 = Short + 2 THEN 8 ELSE 0

Incomplete == [used |-> 0, frame |-> <<>>]

MutMaskAt(i) == (i % 4) + 1
MaskAt(i) == ((i - 1) % 4) + 1

Decode(data) ==
    IF Len(data) < 2 THEN Incomplete ELSE
    LET masked == data[2] \div (Short + 3) = 1
        len7 == data[2] % (Short + 3)
        ext == Extended(len7) IN
    IF Len(data) < 2 + ext THEN Incomplete ELSE
    LET len == IF ext = 0 THEN len7 ELSE BigEndian(SubSeq(data, 3, 2 + ext))
        header == 2 + ext + (IF masked THEN 4 ELSE 0) IN
    IF Len(data) < header + len THEN Incomplete ELSE
    LET raw == SubSeq(data, header + 1, header + len)
        key == SubSeq(data, header - 3, header) IN
    [used |-> header + len,
     frame |-> [fin |-> data[1] \div 128, opcode |-> data[1] % 16,
                payload |-> IF masked THEN [i \in 1..len |-> Xor(raw[i], key[MaskAt(i)])] ELSE raw]]

Encode(opcode, payload) ==
    LET len == Len(payload) IN
    <<128 + opcode>>
    \o (IF len <= Short THEN <<len>>
        ELSE IF len < Base * Base THEN <<Short + 1>> \o ToBytes(len, 2)
        ELSE <<Short + 2>> \o ToBytes(len, 8))
    \o payload

-------------------------------------------------------------------------------
(* The client.  A request has a query or none, lines that end in CR LF or  *)
(* LF, headers and a body; a frame is masked or not.                       *)

Line(m) == IF m.crlf THEN <<CR, LF>> ELSE <<LF>>

HeaderBytes(m) ==
    LET upTo[i \in 0..Len(m.headers)] ==
            IF i = 0 THEN <<>>
            ELSE upTo[i - 1] \o m.headers[i][1] \o <<58, 32>> \o m.headers[i][2] \o Line(m)
    IN upTo[Len(m.headers)]

Key == <<1, 2, 4, 7>>

Bytes(m) ==
    IF m.kind = "request"
    THEN <<71, 32, 47>> \o (IF m.query THEN <<63, 113>> ELSE <<>>) \o <<32, 72, 84, 47, 49, 46, 49>>
         \o Line(m) \o HeaderBytes(m) \o Line(m) \o m.body
    ELSE LET len == Len(m.payload)
             head == Encode(m.opcode, m.payload) IN
         IF m.masked
         THEN [i \in 1..(Len(head) - len) |-> IF i = 2 THEN head[2] + Short + 3 ELSE head[i]]
              \o Key \o [i \in 1..len |-> Xor(m.payload[i], Key[((i - 1) % 4) + 1])]
         ELSE head

Messages == UNION {{s[i] : i \in DOMAIN s} : s \in Scripts}

ASSUME ScriptsAssumption == Scripts \subseteq Seq(Messages) /\ \A m \in Messages : Bytes(m) \in Seq(Byte)

(* Frames follow the server's 101.  Bound: one message on its way. *)
ClientSend ==
    /\ todo # <<>>
    /\ Head(todo).kind = "frame" => <<"101">> \in {sent[i] : i \in DOMAIN sent}
    /\ wire' = wire \o Bytes(Head(todo)) /\ todo' = Tail(todo)
    /\ UNCHANGED <<buf, reading, fed, ctx, parser, count, conn, stalled, wcc,
                   script, queue, consumed, requests, frames, sent>>

Init ==
    /\ script \in Scripts /\ todo = script /\ wire = <<>>
    /\ buf = EmptyBuffer /\ reading = "no" /\ fed = 0
    /\ ctx = "http" /\ parser = Fresh /\ count = 0
    /\ conn = "connected" /\ stalled = FALSE /\ wcc = "none"
    /\ queue = <<>> /\ consumed = 0 /\ requests = <<>> /\ frames = <<>> /\ sent = <<>>

-------------------------------------------------------------------------------
(* handle_read: one readv, then the message callback, which looks at the   *)
(* connection's context once.                                              *)

Read(n) ==
    /\ conn = "connected" /\ reading = "no"
    /\ n <= Len(wire) /\ n <= MaxRead(buf)
    /\ buf' = read_from_fd(buf, SubSeq(wire, 1, n))
    /\ queue' = queue \o SubSeq(wire, 1, n)
    /\ wire' = SubSeq(wire, n + 1, Len(wire))
    /\ reading' = ctx /\ fed' = 0
    /\ UNCHANGED <<todo, ctx, parser, count, conn, stalled, wcc, script, consumed, requests, frames, sent>>

(* buf->retrieve of what the handler has used ends the callback. *)
Retrieve(n) ==
    /\ buf' = retrieve(buf, n)
    /\ queue' = SubSeq(queue, n + 1, Len(queue)) /\ consumed' = consumed + n
    /\ reading' = "no" /\ fed' = 0

(* HttpParser::feed goes on to the end of a request or of the bytes. *)
Feed ==
    /\ reading = "http" /\ ~parser.complete /\ fed < readable_bytes(buf)
    /\ LET p == ParseUpTo(parser, SubSeq(Readable(buf), fed + 1, readable_bytes(buf))) IN
       parser' = p /\ fed' = fed + p.used
    /\ UNCHANGED <<todo, wire, buf, reading, ctx, count, conn, stalled, wcc,
                   script, queue, consumed, requests, frames, sent>>

FeedEnd ==
    /\ reading = "http" /\ ~parser.complete /\ fed = readable_bytes(buf)
    /\ Retrieve(fed)
    /\ UNCHANGED <<todo, wire, ctx, parser, count, conn, stalled, wcc, script, requests, frames, sent>>

(* send_in_loop with the write-complete callback cb: all is written, or    *)
(* some of it waits, or the write fails.  force_close acts at once.        *)
Sends(item, cb) ==
    \/ conn # "connected" /\ UNCHANGED <<conn, stalled, sent>>
    \/ conn = "connected" /\ stalled /\ sent' = Append(sent, item) /\ UNCHANGED <<conn, stalled>>
    \/ /\ conn = "connected" /\ ~stalled
       /\ \/ /\ sent' = Append(sent, item) /\ conn' = IF cb = "close" THEN "disconnected" ELSE conn
             /\ UNCHANGED stalled
          \/ sent' = Append(sent, item) /\ stalled' = TRUE /\ UNCHANGED conn
          \/ conn' = "disconnected" /\ UNCHANGED <<stalled, sent>>

MutWhenWritten(keep) == "keep"
WhenWritten(keep) == IF keep THEN "keep" ELSE "close"
SendResponse(keep) ==
    /\ wcc' = WhenWritten(keep)
    /\ Sends(<<"response", keep>>, WhenWritten(keep))

(* wants_keep_alive: C: c is Connection: close; the version is always 1.1. *)
WantsKeepAlive(p) == GetHeader(p.headers, <<67>>) # <<99>>
IsUpgrade(p) == GetHeader(p.headers, <<85>>) # <<>>

(* The request callback of main, then reset.  What the handlers answer is  *)
(* left out; try_handle_upgrade answers 101, or an error that closes.      *)
Callback ==
    /\ reading = "http" /\ parser.complete
    /\ requests' = Append(requests, [path |-> parser.path, query |-> parser.query,
                                     headers |-> parser.headers, body |-> parser.body])
    /\ IF IsUpgrade(parser)
       THEN /\ UNCHANGED count
            /\ \/ Sends(<<"101">>, wcc) /\ ctx' = "ws" /\ UNCHANGED wcc
               \/ SendResponse(FALSE) /\ UNCHANGED ctx
       ELSE /\ count' = count + 1
            /\ SendResponse(WantsKeepAlive(parser) /\ count < MaxKeepAlive) /\ UNCHANGED ctx
    /\ parser' = Fresh
    /\ UNCHANGED <<todo, wire, buf, reading, fed, script, queue, consumed, frames>>

(* WsHandler::feed: one frame at most, however many there are. *)
WsFeed ==
    /\ reading = "ws"
    /\ LET d == Decode(Readable(buf)) IN
       /\ Retrieve(d.used)
       /\ IF d.used = 0 THEN UNCHANGED <<conn, stalled, sent, frames>>
          ELSE /\ frames' = Append(frames, d.frame)
               /\ CASE d.frame.opcode = Ping -> Sends(<<"frame", Encode(Pong, d.frame.payload)>>, wcc)
                    [] d.frame.opcode = Closing -> Sends(<<"frame", Encode(Closing, <<>>)>>, wcc)
                    [] OTHER -> UNCHANGED <<conn, stalled, sent>>
    /\ UNCHANGED <<todo, wire, ctx, parser, count, wcc, script, requests>>

(* handle_write: the output buffer empties, or the write fails. *)
HandleWrite ==
    /\ conn = "connected" /\ reading = "no" /\ stalled
    /\ \/ stalled' = FALSE /\ conn' = IF wcc = "close" THEN "disconnected" ELSE conn
       \/ conn' = "disconnected" /\ UNCHANGED stalled
    /\ UNCHANGED <<todo, wire, buf, reading, fed, ctx, parser, count, wcc,
                   script, queue, consumed, requests, frames, sent>>

Next ==
    \/ ClientSend
    \/ \E n \in 1..Len(wire) : Read(n)
    \/ Feed \/ FeedEnd \/ Callback \/ WsFeed \/ HandleWrite

Spec == Init /\ [][Next]_vars

-------------------------------------------------------------------------------
(* Properties *)

(* BufferExact: through all the moves, growths and shrinkings of the       *)
(* vector the readable bytes are the bytes received and not consumed, in   *)
(* order, and the indices stay inside the vector (make_space, shrink,      *)
(* read_from_fd with its second buffer).                                   *)
BufferExact == BufferOK(buf) /\ Readable(buf) = queue

Ends == LET upTo[i \in 0..Len(script)] == IF i = 0 THEN 0 ELSE upTo[i - 1] + Len(Bytes(script[i])) IN upTo
Fed == consumed + (IF reading = "http" THEN fed ELSE 0)

(* A request as clients write them: no delimiter inside a name or a value, *)
(* a value that is missing only before CR LF, and a body as long as the    *)
(* header says whose spelling the parser knows.                            *)
WellFormed(m) ==
    /\ m.kind = "request"
    /\ m.headers \in Seq(Seq(Byte) \X Seq(Byte)) /\ m.body \in Seq(Byte)
    /\ \A h \in {m.headers[i] : i \in DOMAIN m.headers} :
           /\ h[1] # <<>> /\ \A i \in DOMAIN h[1] : h[1][i] \notin {CR, LF, 58}
           /\ h[2] # <<>> => h[2][1] # 32 /\ \A i \in DOMAIN h[2] : h[2][i] \notin {CR, LF}
           /\ h[2] = <<>> => m.crlf /\ h[1] # <<76>>
    /\ Number(GetHeader(m.headers, <<76>>)) = Len(m.body)

Upgrades(m) == \E i \in DOMAIN m.headers : m.headers[i][1] = <<85>>

(* The message i is such a request, and so are those before it, none of which *)
(* asks for an upgrade.                                                       *)
Plain(i) == \A k \in 1..i : WellFormed(script[k]) /\ (k < i => ~Upgrades(script[k]))

SameRequest(r, m) ==
    /\ r.path = <<47>> /\ r.query = (IF m.query THEN <<113>> ELSE <<>>) /\ r.body = m.body
    /\ \A h \in {m.headers[i] : i \in DOMAIN m.headers} :
           GetHeader(m.headers, h[1]) # <<>> => GetHeader(r.headers, h[1]) = GetHeader(m.headers, h[1])

(* RequestsFramed: wherever TCP cuts the stream, the callback is called    *)
(* once for each request whose last byte was fed, in order, with the query,*)
(* the headers and the body the client sent, and never with part of        *)
(* another (HttpParser::feed, reset between pipelined requests).           *)
RequestsFramed ==
    \A i \in DOMAIN script : Plain(i) =>
        LET done == Len(requests) + (IF parser.complete THEN 1 ELSE 0) IN
        /\ done >= i <=> Ends[i] <= Fed
        /\ Len(requests) >= i => SameRequest(requests[i], script[i])

(* A frame as clients send them, with a length of 64 bits, and what it     *)
(* carries; the frame that answers a ping or a close.                      *)
GoodFrame(m) ==
    /\ m.kind = "frame" /\ m.opcode \in 0..15 /\ m.masked \in BOOLEAN
    /\ m.payload \in Seq(0..255) /\ Shift(Len(m.payload))[8] = 0
Carried(m) == [fin |-> 1, opcode |-> m.opcode, payload |-> m.payload]
ReplyTo(f) ==
    IF f.opcode = Ping THEN [fin |-> 1, opcode |-> Pong, payload |-> f.payload]
    ELSE [fin |-> 1, opcode |-> Closing, payload |-> <<>>]

(* The elements of s at the given places, in order. *)
Only(s, places) ==
    LET upTo[i \in 0..Len(s)] ==
            IF i = 0 THEN <<>> ELSE IF i \in places THEN Append(upTo[i - 1], s[i]) ELSE upTo[i - 1]
    IN upTo[Len(s)]
Replies == Only(sent, {i \in DOMAIN sent : sent[i][1] = "frame"})
Asking == Only(frames, {i \in DOMAIN frames : frames[i].opcode \in {Ping, Closing}})

(* FramesExact: of a script of requests, the last of which may ask for the *)
(* upgrade, and frames, the frames handled are the first ones the client   *)
(* sent, unmasked, and no byte of a frame is lost or taken for another's   *)
(* however the stream is cut and whatever length form it has; each ping    *)
(* and close is answered, in order, by a frame that decodes to the payload *)
(* it should have (WsCodec, WsHandler).                                    *)
FramesExact ==
    \A u \in 0..Len(script) : Plain(u) /\ (\A k \in (u + 1)..Len(script) : GoodFrame(script[k])) =>
        /\ Len(frames) <= Len(script) - u
        /\ \A i \in DOMAIN frames : frames[i] = Carried(script[u + i])
        /\ frames # <<>> => consumed = Ends[u + Len(frames)]
        /\ Len(Replies) <= Len(Asking) /\ (conn = "connected" => Len(Replies) = Len(Asking))
        /\ \A i \in DOMAIN Replies :
               Decode(Replies[i][2]) = [used |-> Len(Replies[i][2]), frame |-> ReplyTo(Asking[i])]

(* ClosingHolds: after a response that announced Connection: close the     *)
(* connection is closed, or the close waits for the rest of the output,    *)
(* unless a pipelined request was answered with keep-alive behind it and   *)
(* took the callback away (send_response).                                 *)
ClosingHolds ==
    \A i \in DOMAIN sent :
        /\ sent[i] = <<"response", FALSE>>
        /\ \A k \in DOMAIN sent : k > i => sent[k] # <<"response", TRUE>>
        => conn = "disconnected" \/ (stalled /\ wcc = "close")

===============================================================================
