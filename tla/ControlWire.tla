---------------------------- MODULE ControlWire ----------------------------
(***************************************************************************)
(* The byte stream between one ControlSession (client) and the             *)
(* serve_binary loop of one server connection, as two FIFO sequences of    *)
(* frames.  The stream is a local socket: frames are neither lost nor      *)
(* reordered, but a frame may be cut short when the task that writes it    *)
(* is aborted, a write waits while the buffer of its direction is full,    *)
(* and a read or a write may fail at any time.                             *)
(***************************************************************************)
EXTENDS Naturals, Sequences, FiniteSets

CONSTANTS
  Requests,     \* the request ids a session hands out (next_id), one per send
  NoRequest,    \* not a request id
  Mutating,     \* the requests whose method is_mutating
  MaxInFlight,  \* limits.max_in_flight, the same on both sides
  WireCap       \* how many frames the buffer of a direction holds

ASSUME WireAssumption ==
  /\ NoRequest \notin Requests
  /\ Mutating \subseteq Requests
  /\ MaxInFlight \in Nat \ {0}
  /\ WireCap \in Nat \ {0}

VARIABLES
  up,           \* frames written by the client and not yet read by the server
  down,         \* frames written by the server and not yet read by the client
  hungUp        \* the client closed or dropped its end of the stream

wireVars == <<up, down, hungUp>>

(* What a reply says: the handler's own response, or an error the          *)
(* connection produced itself (limit exceeded, bad body, request cancelled)*)
Bodies == {"handled", "rejected"}

UpFrame == [kind : {"request", "cancel"}, id : Requests]

(* A "torn" frame is the prefix of a reply whose writer was aborted in the *)
(* middle of write_all.  `of' is the request whose task produced the body. *)
DownFrame == [kind : {"reply", "torn"}, id : Requests, of : Requests, body : Bodies]

Request(r) == [kind |-> "request", id |-> r]

CancelFrame(r) == [kind |-> "cancel", id |-> r]

Reply(r, b) == [kind |-> "reply", id |-> r, of |-> r, body |-> b]

Torn(r) == [kind |-> "torn", id |-> r, of |-> r, body |-> "rejected"]

WireTypeOK ==
  /\ up \in Seq(UpFrame)
  /\ down \in Seq(DownFrame)
  /\ hungUp \in BOOLEAN

WireInit ==
  /\ up = <<>>
  /\ down = <<>>
  /\ hungUp = FALSE

(* A frame can be written to the buffer without waiting for its reader.    *)
Room(buffer) == Len(buffer) < WireCap
=============================================================================
