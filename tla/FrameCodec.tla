----------------------------- MODULE FrameCodec -----------------------------
(***************************************************************************)
(* The control wire format as functions (mutsuki-service-ipc/src/frame.rs, *)
(* io.rs, codec.rs, limits.rs, and the codec choice of server_conn.rs):    *)
(* binary frames with a length prefix and a fixed header, and JSON lines.  *)
(* A payload is its length, a set of flags the set of their names; the     *)
(* length fields keep their width.  Opcodes and the check of the token are *)
(* those of mutsuki-service-control/src/lib.rs and of handle_request.      *)
(***************************************************************************)
EXTENDS Integers, Sequences, FiniteSets

CONSTANTS
  HeaderLen,   \* BINARY_HEADER_LEN (24)
  LenBits,     \* bits of a length field (32)
  ByteBits,    \* bits of a byte (8)
  Brace        \* the byte '{' (123)

ASSUME CodecAssumption ==
  /\ HeaderLen \in Nat /\ LenBits \in Nat /\ ByteBits \in 1..LenBits
  /\ Brace \in 0..(2^ByteBits - 1)

Refused == [ok |-> FALSE]

\* `as u32`.
Width(n) == n % 2^LenBits

\* ControlIpcLimits::from_section.
LimitsOf(section) ==
  [frame |-> section.frame,
   payload |-> IF section.payload < section.frame THEN section.payload ELSE section.frame,
   line |-> section.line,
   inFlight |-> IF section.inFlight > 1 THEN section.inFlight ELSE 1]

-----------------------------------------------------------------------------
KnownFlags == {"request", "response", "error", "cancel"}

\* FrameFlags::from_bits.
FlagsValid(flags) ==
  /\ flags \subseteq KnownFlags
  /\ IF "cancel" \in flags THEN flags \cap {"response", "error"} = {}
     ELSE /\ ("request" \in flags) # ("response" \in flags)
          /\ "error" \in flags => "response" \in flags

FlagsOf(kind) ==
  CASE kind = "request" -> {"request"}
    [] kind = "ok" -> {"response"}
    [] kind = "error" -> {"response", "error"}
    [] kind = "cancel" -> {"cancel"}

\* validate_frame_length.
LengthValid(len, limits) == len # 0 /\ len <= limits.frame /\ len >= HeaderLen

\* What encode_frame_into writes, and when it refuses to.
FrameBytes(opcode, flags, id, payload) ==
  [ok |-> TRUE, declared |-> Width(HeaderLen + payload), magic |-> TRUE, major |-> 1,
   opcode |-> opcode, flags |-> flags, id |-> id, payloadLen |-> Width(payload), payload |-> payload]

EncodeFrame(opcode, flags, id, payload, limits) ==
  IF id # 0 /\ payload <= limits.payload /\ LengthValid(HeaderLen + payload, limits)
  THEN FrameBytes(opcode, flags, id, payload) ELSE Refused

\* decode_frame_header.
HeaderValid(f, limits) ==
  /\ f.magic /\ f.major = 1 /\ FlagsValid(f.flags) /\ f.id # 0
  /\ f.payloadLen <= limits.payload

\* read_binary_frame_into: the declared length must be that of the header and
\* the payload; then as many bytes are read.
ReadFrame(f, limits) ==
  IF /\ LengthValid(f.declared, limits) /\ HeaderValid(f, limits)
     /\ f.declared = HeaderLen + f.payloadLen
  THEN [ok |-> TRUE, opcode |-> f.opcode, flags |-> f.flags, id |-> f.id, payload |-> f.payloadLen]
  ELSE Refused

\* read_frame_prefix and read_payload_or_discard: the server reads the header,
\* then the payload, which it throws away when it has no permit.  The rest is
\* what stays in the stream of the frame's own bytes.
ReadInTwoParts(f, limits, allocate) ==
  IF ~LengthValid(f.declared, limits) \/ ~HeaderValid(f, limits) THEN Refused
  ELSE IF f.declared # HeaderLen + f.payloadLen THEN Refused
  ELSE [ok |-> TRUE, opcode |-> f.opcode, id |-> f.id,
        payload |-> IF allocate THEN f.payloadLen ELSE 0, rest |-> f.payload - f.payloadLen]

\* serve_stream decides by the first byte, which of a binary frame is the
\* first of its length.
FirstByte(f) == f.declared \div 2^(LenBits - ByteBits)

ServedAs(firstByte) == IF firstByte = Brace THEN "jsonl" ELSE "binary"

-----------------------------------------------------------------------------
\* encode_jsonl counts the newline, read_jsonl_line and decode_jsonl do not.
\* A line is its length without the newline.
EncodeLine(len, limits) == len + 1 <= limits.line

\* read_jsonl_line: a carriage return at the end is dropped, an oversized line
\* is read to its end, be that a newline or the end of the stream, and another
\* line without its newline is an error.
ReadLine(len, ends, limits) ==
  IF len > limits.line THEN "oversized"
  ELSE IF ends = "eof" THEN (IF len = 0 THEN "closed" ELSE "truncated")
  ELSE "line"

-----------------------------------------------------------------------------
\* ControlMethod in the order of its opcodes.
ControlMethods ==
  <<"service_status", "service_shutdown", "core_status", "plugin_list", "plugin_reload",
    "plugin_deployment_set", "plugin_deployment_clear", "runner_list", "runner_restart",
    "runner_stop", "event_source_list", "event_source_restart", "core_begin_drain",
    "task_submit_batch", "task_list", "task_cancel", "task_outcome", "task_events_after",
    "health_check", "log_tail", "task_outcomes_batch", "task_wait", "runtime_statistics",
    "host_metrics">>

OpcodeCancel == 32767

\* is_mutating.
IsMutating(method) ==
  method \in {"service_shutdown", "plugin_reload", "plugin_deployment_set",
              "plugin_deployment_clear", "runner_restart", "runner_stop",
              "event_source_restart", "core_begin_drain", "task_submit_batch", "task_cancel"}

\* from_opcode.
MethodOf(opcode) == IF opcode \in DOMAIN ControlMethods THEN ControlMethods[opcode] ELSE "unknown"

\* What serve_binary makes of a frame, and handle_request of its request: a
\* frame that is no request, or of an unknown method, ends the connection.
Dispatched(opcode, flags, tokenMatches) ==
  IF "cancel" \in flags \/ opcode = OpcodeCancel THEN "cancel"
  ELSE IF "request" \notin flags \/ MethodOf(opcode) = "unknown" THEN "connection_ends"
  ELSE IF ~tokenMatches THEN "unauthorized"
  ELSE MethodOf(opcode)

-----------------------------------------------------------------------------
\* Whatever the encoder accepts the reader of the same limits reads back, in
\* one part or in two, and leaves nothing of it in the stream; and what the
\* encoder refuses for its size no reader of these limits would have taken.
\* Lengths that do not fit their field are excluded by the frame limit.
FramesReadable(sections, payloads) ==
  \A section \in sections, payload \in payloads, id \in 0..1,
     kind \in {"request", "ok", "error", "cancel"} :
    section.frame < 2^LenBits =>
      LET limits == LimitsOf(section)
          f == EncodeFrame(1, FlagsOf(kind), id, payload, limits)
          raw == FrameBytes(1, FlagsOf(kind), id, payload)
      IN IF f.ok
         THEN /\ ReadFrame(f, limits) = [ok |-> TRUE, opcode |-> 1, flags |-> FlagsOf(kind),
                                         id |-> id, payload |-> payload]
              /\ \A allocate \in BOOLEAN : ReadInTwoParts(f, limits, allocate).rest = 0
         ELSE payload < 2^LenBits - HeaderLen => ~ReadFrame(raw, limits).ok

\* A binary frame is served as one as long as the frame limit keeps the first
\* byte of the length below that of a brace.
FramesRecognised(sections, payloads) ==
  \A section \in sections, payload \in payloads :
    LET f == EncodeFrame(1, {"request"}, 1, payload, LimitsOf(section)) IN
      f.ok /\ section.frame < Brace * 2^(LenBits - ByteBits) => ServedAs(FirstByte(f)) = "binary"

\* The flags a peer accepts: those the encoders use, and a cancel that is
\* also marked as a request.
FlagsExact ==
  {flags \in SUBSET (KnownFlags \cup {"other"}) : FlagsValid(flags)}
    = {FlagsOf(k) : k \in {"request", "ok", "error", "cancel"}} \cup {{"cancel", "request"}}

\* A line the encoder accepts is read; the reader takes one byte more.
LinesReadable(sections) ==
  \A section \in sections : \A len \in 0..(section.line + 2) :
    LET limits == LimitsOf(section) IN
      /\ EncodeLine(len, limits) => ReadLine(len, "newline", limits) = "line"
      /\ ReadLine(len, "newline", limits) = "line" <=> EncodeLine(len, limits) \/ len = limits.line

\* Opcodes name one method each, none of them a cancel; a request without the
\* token reaches no handler, least of all a mutating one.
OpcodesExact ==
  /\ \A i, j \in DOMAIN ControlMethods : ControlMethods[i] = ControlMethods[j] => i = j
  /\ MethodOf(OpcodeCancel) = "unknown"
  /\ {i \in DOMAIN ControlMethods : IsMutating(MethodOf(i))} = {2, 5, 6, 7, 9, 10, 12, 13, 14, 16}
  /\ \A opcode \in 0..(Len(ControlMethods) + 1), flags \in SUBSET KnownFlags :
       FlagsValid(flags) => Dispatched(opcode, flags, FALSE) \notin {ControlMethods[i] : i \in DOMAIN ControlMethods}
=============================================================================
