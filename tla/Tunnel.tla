------------------------------- MODULE Tunnel -------------------------------
(***************************************************************************)
(* One client connection from its first byte to its last log entry         *)
(* (handle_client in proxy.rs): the protocol is sniffed, the handshake is  *)
(* read in whatever pieces the network delivers, nodes are tried one after *)
(* another, the client is told, and the bytes are relayed.                 *)
(*                                                                         *)
(* A byte is its place in the client's or the target's stream; the header  *)
(* of a forwarded request is rewritten as a whole and is one token.  What  *)
(* the nodes are is Dispatch's matter; here they connect or fail.          *)
(***************************************************************************)
EXTENDS Naturals, SequencesExt

CONSTANTS
  Ends,          \* where the reads of a SOCKS5 handshake end in the client's stream
  Refusing,      \* those after which it may be refused with an answer
  MethodLength,  \* bytes that tell an HTTP request
  HeaderLength,  \* bytes of an HTTP request's header
  Payload,       \* bytes of the client's after its handshake
  TargetLength,      \* bytes of the target's
  Chunk,         \* the most a buffered read takes
  Tries          \* fail_fast.max_attempts

ASSUME TunnelAssumption ==
  /\ Ends \in Seq(Nat) /\ Len(Ends) > 0 /\ Last(Ends) > 0
  /\ \A i, j \in DOMAIN Ends : i < j => Ends[i] <= Ends[j]
  /\ HeaderLength \in Nat /\ MethodLength \in 1..HeaderLength
  /\ Payload \in Nat /\ TargetLength \in Nat
  /\ Chunk \in Nat \ {0} /\ Tries \in Nat \ {0}

Protocols == {"socks5", "connect", "forward"}

VARIABLES
  protocol,   \* what the client speaks; "other" is none of the three
  taken,      \* bytes read off the client's stream
  buffer,     \* bytes read and not used yet; from the dial on, the initial payload
  field,      \* SOCKS5 reads done
  stage,      \* where handle_client is
  tries,      \* nodes tried
  verified,   \* target_verified of the node that connected
  prefetched, \* bytes of the target's read along with a CONNECT answer
  upstream,   \* what each node tried was sent of the client's
  answered,   \* bytes read off the target's stream
  delivered,  \* what the client was sent of the target's
  told,       \* what the client was told
  ended,      \* the directions that reached their end
  bytesUp, bytesDown, \* TransferCounters
  noted       \* the outcomes logged

tunnelVars == << protocol, taken, buffer, field, stage, tries, verified,
                 prefetched, upstream, answered, delivered, told, ended,
                 bytesUp, bytesDown, noted >>

TunnelInit ==
  /\ protocol \in Protocols \union {"other"}
  /\ taken = 0 /\ buffer = << >> /\ field = 0
  /\ stage = "sniffing"
  /\ tries = 0 /\ verified = FALSE /\ prefetched = << >>
  /\ upstream = [t \in 1..Tries |-> << >>]
  /\ answered = 0 /\ delivered = << >>
  /\ told = << >> /\ ended = {}
  /\ bytesUp = 0 /\ bytesDown = 0
  /\ noted = << >>

Handshaking == {"sniffing", "fields", "header"}

\* The bytes from first to last of a stream.
Bytes(first, last) == [i \in 1..(last + 1 - first) |-> first + i - 1]

HandshakeLength == IF protocol = "socks5" THEN Last(Ends) ELSE HeaderLength

\* What the client's stream holds.
StreamLength == HandshakeLength + Payload

\* A read takes what has come, at most most bytes.
ReadsOf(last, from, most) == {size \in 1..most : from + size <= last}

-----------------------------------------------------------------------------
(* The handshake. *)

\* sniff_protocol reads byte by byte.
SniffLength == IF protocol \in {"connect", "forward"} THEN MethodLength ELSE 1

Sniff ==
  /\ stage = "sniffing"
  /\ taken' = taken + 1
  /\ buffer' = Append(buffer, taken')
  /\ stage' = IF taken' < SniffLength THEN "sniffing"
              ELSE CASE protocol = "socks5" -> "fields"
                     [] protocol = "other" -> "over"
                     [] OTHER -> "header"
  /\ UNCHANGED << protocol, field, tries, verified, prefetched, upstream, answered,
                  delivered, told, ended, bytesUp, bytesDown, noted >>

\* The bytes that the next read of a SOCKS5 handshake is to have.
FieldLength == Ends[field + 1] - (IF field = 0 THEN 0 ELSE Ends[field])

\* read_exact_buffered reads no more than the field lacks,
\* read_http_request_header whatever has come.
ReadLimit ==
  CASE stage = "fields" /\ Len(buffer) < FieldLength -> FieldLength - Len(buffer)
    [] stage = "header" /\ Len(buffer) < HeaderLength -> Chunk
    [] OTHER -> 0

ReadHandshake ==
  /\ \E size \in ReadsOf(StreamLength, taken, ReadLimit) :
       /\ taken' = taken + size
       /\ buffer' = buffer \o Bytes(taken + 1, taken')
  /\ UNCHANGED << protocol, field, stage, tries, verified, prefetched, upstream,
                  answered, delivered, told, ended, bytesUp, bytesDown, noted >>

\* A field has come.  The methods or the credentials may be refused; after
\* the last one the target is known.
ReadField(refused) ==
  /\ stage = "fields" /\ Len(buffer) >= FieldLength
  /\ refused => field + 1 \in Refusing
  /\ buffer' = SubSeq(buffer, FieldLength + 1, Len(buffer))
  /\ field' = field + 1
  /\ told' = IF refused THEN Append(told, "refused") ELSE told
  /\ stage' = IF refused THEN "over"
              ELSE IF field' = Len(Ends) THEN "dialing" ELSE "fields"
  /\ UNCHANGED << protocol, taken, tries, verified, prefetched, upstream, answered,
                  delivered, ended, bytesUp, bytesDown, noted >>

\* A forwarded request is sent on with a header of its own, a CONNECT is not.
HeaderOnly == IF protocol = "forward" THEN << 0 >> ELSE << >>

\* Mutant: what was read beyond the header is dropped.
PayloadLeft == HeaderOnly

\* parse_http_proxy_request, rewrite_http_forward_header.
InitialPayload ==
  HeaderOnly \o SubSeq(buffer, HeaderLength + 1, Len(buffer))

\* handle_http_proxy_header; 407 when refused.
UseHeader(refused) ==
  /\ stage = "header" /\ Len(buffer) >= HeaderLength
  /\ buffer' = InitialPayload
  /\ told' = IF refused THEN Append(told, "refused") ELSE told
  /\ stage' = IF refused THEN "over" ELSE "dialing"
  /\ UNCHANGED << protocol, taken, field, tries, verified, prefetched, upstream,
                  answered, delivered, ended, bytesUp, bytesDown, noted >>

\* The client leaves, stalls for 5 s, or sends what does not parse.
GiveUp ==
  /\ stage \in Handshaking
  /\ stage' = "over"
  /\ UNCHANGED << protocol, taken, buffer, field, tries, verified, prefetched,
                  upstream, answered, delivered, told, ended, bytesUp, bytesDown, noted >>

-----------------------------------------------------------------------------
(* The nodes. *)

NodeUnreachable ==
  /\ stage = "dialing" /\ tries < Tries
  /\ tries' = tries + 1
  /\ UNCHANGED << protocol, taken, buffer, field, stage, verified, prefetched,
                  upstream, answered, delivered, told, ended, bytesUp, bytesDown, noted >>

\* Mutant: the counters begin with the relay.
NoBytes == 0

\* The node will be sent these before the relay begins.
InitialBytes == Len(buffer)

\* Nothing of the client's is sent before handle_client has the node.  Only
\* a CONNECT is answered by a header that is read with what follows it; a
\* request forwarded through an HTTP proxy verifies nothing of its target.
NodeConnects(kind, early) ==
  /\ stage = "dialing" /\ tries < Tries
  /\ early = 0 \/ (kind = "http" /\ protocol # "forward" /\ early <= TargetLength)
  /\ tries' = tries + 1
  /\ verified' = (kind = "socks" \/ protocol # "forward")
  /\ answered' = early
  /\ prefetched' = Bytes(1, early)
  /\ bytesDown' = early
  /\ bytesUp' = InitialBytes
  /\ stage' = IF protocol = "forward" THEN "handing" ELSE "replying"
  /\ UNCHANGED << protocol, taken, buffer, field, upstream, delivered, told, ended,
                  noted >>

\* No node is left, or the time for all of them is over.  What cannot be told
\* to the client is not logged either.
NoNode(reached) ==
  /\ stage = "dialing"
  /\ told' = IF reached THEN Append(told, "error") ELSE told
  /\ noted' = IF reached THEN Append(noted, "exhausted") ELSE noted
  /\ stage' = "over"
  /\ UNCHANGED << protocol, taken, buffer, field, tries, verified, prefetched,
                  upstream, answered, delivered, ended, bytesUp, bytesDown >>

-----------------------------------------------------------------------------
(* complete_client_handshake. *)

Reply ==
  /\ stage = "replying"
  /\ told' = Append(told, "ok")
  /\ stage' = "handing"
  /\ UNCHANGED << protocol, taken, buffer, field, tries, verified, prefetched,
                  upstream, answered, delivered, ended, bytesUp, bytesDown, noted >>

\* The node gets what was read of the client's beyond its handshake, ...
HandInitial ==
  /\ stage = "handing"
  /\ upstream' = [upstream EXCEPT ![tries] = buffer]
  /\ stage' = "returning"
  /\ UNCHANGED << protocol, taken, buffer, field, tries, verified, prefetched,
                  answered, delivered, told, ended, bytesUp, bytesDown, noted >>

FirstOutcome ==
  IF verified /\ protocol # "forward" THEN "established" ELSE "unverified"

\* Mutant: what came with the answer to a CONNECT is dropped.
NoneReturned == << >>

Returned == prefetched

\* ... and the client what was read of the target's.
ReturnPrefetched ==
  /\ stage = "returning"
  /\ delivered' = Returned
  /\ stage' = "relaying"
  /\ noted' = Append(noted, FirstOutcome)
  /\ UNCHANGED << protocol, taken, buffer, field, tries, verified, prefetched,
                  upstream, answered, told, ended, bytesUp, bytesDown >>

\* A write fails, or the deadline of the dial passes in the middle of it.
HandoverFails ==
  /\ stage \in {"replying", "handing", "returning"}
  /\ \/ UNCHANGED << upstream, delivered >>
     \/ /\ stage = "handing"
        /\ \E size \in 1..Len(buffer) :
             upstream' = [upstream EXCEPT ![tries] = SubSeq(buffer, 1, size)]
        /\ UNCHANGED delivered
     \/ /\ stage = "returning"
        /\ \E size \in 1..Len(prefetched) : delivered' = SubSeq(prefetched, 1, size)
        /\ UNCHANGED upstream
  /\ noted' = Append(noted, "setup_error")
  /\ stage' = "over"
  /\ UNCHANGED << protocol, taken, buffer, field, tries, verified, prefetched,
                  answered, told, ended, bytesUp, bytesDown >>

-----------------------------------------------------------------------------
(* copy_bidirectional over the HttpObserver. *)

Upload(reached) ==
  /\ stage = "relaying" /\ "up" \notin ended
  /\ \E size \in ReadsOf(StreamLength, taken, Chunk) :
       /\ taken' = taken + size
       /\ IF reached
          THEN /\ upstream' = [upstream EXCEPT ![tries] = @ \o Bytes(taken + 1, taken')]
               /\ bytesUp' = bytesUp + size
          ELSE UNCHANGED << upstream, bytesUp >>
  /\ stage' = IF reached THEN "relaying" ELSE "broken"
  /\ UNCHANGED << protocol, buffer, field, tries, verified, prefetched,
                  answered, delivered, told, ended, bytesDown, noted >>

\* The observer counts what it reads, whether it reaches the client or not.
Download(reached) ==
  /\ stage = "relaying" /\ "down" \notin ended
  /\ \E size \in ReadsOf(TargetLength, answered, Chunk) :
       /\ answered' = answered + size
       /\ bytesDown' = bytesDown + size
       /\ delivered' = IF reached THEN delivered \o Bytes(answered + 1, answered')
                       ELSE delivered
  /\ stage' = IF reached THEN "relaying" ELSE "broken"
  /\ UNCHANGED << protocol, taken, buffer, field, tries, verified, prefetched,
                  upstream, told, ended, bytesUp, noted >>

\* One side closes: the other is told and may go on.
EndDirection(way) ==
  /\ stage = "relaying" /\ way \notin ended
  /\ ended' = ended \union {way}
  /\ stage' = IF ended' = {"up", "down"} THEN "relayed" ELSE "relaying"
  /\ UNCHANGED << protocol, taken, buffer, field, tries, verified, prefetched,
                  upstream, answered, delivered, told, bytesUp, bytesDown, noted >>

Break ==
  /\ stage = "relaying"
  /\ stage' = "broken"
  /\ UNCHANGED << protocol, taken, buffer, field, tries, verified, prefetched,
                  upstream, answered, delivered, told, ended, bytesUp, bytesDown, noted >>

\* The observer saw the status of the answer; whether it counts is for
\* observe_forward_response to say.
NoteAnswer ==
  /\ stage \in {"relaying", "relayed", "broken"}
  /\ protocol = "forward" /\ answered > 0
  /\ noted # << >> /\ Last(noted) # "answer"
  /\ noted' = Append(noted, "answer")
  /\ UNCHANGED << protocol, taken, buffer, field, stage, tries, verified, prefetched,
                  upstream, answered, delivered, told, ended, bytesUp, bytesDown >>

Finish ==
  /\ stage \in {"relayed", "broken"}
  /\ noted' = Append(noted, IF stage = "relayed" THEN "finished" ELSE "broken_off")
  /\ stage' = "over"
  /\ UNCHANGED << protocol, taken, buffer, field, tries, verified, prefetched,
                  upstream, answered, delivered, told, ended, bytesUp, bytesDown >>

\* serve is stopped, or accepts no more, and aborts its clients.
AbortClient ==
  /\ stage # "over" /\ stage # "aborted"
  /\ stage' = "aborted"
  /\ UNCHANGED << protocol, taken, buffer, field, tries, verified, prefetched,
                  upstream, answered, delivered, told, ended, bytesUp, bytesDown, noted >>

TunnelNext ==
  \/ Sniff \/ ReadHandshake \/ GiveUp
  \/ \E refused \in BOOLEAN : ReadField(refused) \/ UseHeader(refused)
  \/ NodeUnreachable
  \/ \E kind \in {"socks", "http"}, early \in 0..Chunk : NodeConnects(kind, early)
  \/ \E reached \in BOOLEAN : NoNode(reached) \/ Upload(reached) \/ Download(reached)
  \/ Reply \/ HandInitial \/ ReturnPrefetched \/ HandoverFails
  \/ \E way \in {"up", "down"} : EndDirection(way)
  \/ Break \/ NoteAnswer \/ Finish
  \/ AbortClient

TunnelSpec == TunnelInit /\ [][TunnelNext]_tunnelVars

-----------------------------------------------------------------------------
(* However the network cuts the client's stream, and however many nodes    *)
(* were tried before, what a node gets is the client's stream behind the   *)
(* handshake, from its start, in order and without a gap, and one node     *)
(* gets it: a request is never repeated at a second node.                  *)
ClientStreamIntact ==
  LET whole == HeaderOnly \o Bytes(HandshakeLength + 1, StreamLength)
  IN  /\ \A t \in 1..Tries : IsPrefix(upstream[t], whole)
      /\ \A t \in 1..Tries : upstream[t] # << >> => t = tries
      /\ stage = "relaying" => upstream[tries] = SubSeq(whole, 1, Len(upstream[tries]))
                               /\ Len(upstream[tries])
                                    = Len(HeaderOnly) + taken - HandshakeLength

(* The client hears of its target before anything of it, never after an    *)
(* error, and gets the target's stream without a gap, what came with the   *)
(* answer to a CONNECT included.                                           *)
TargetStreamIntact ==
  /\ IsPrefix(delivered, Bytes(1, TargetLength))
  /\ stage = "relaying" => Len(delivered) = answered
  /\ Len(told) <= 1
  /\ delivered # << >> /\ protocol # "forward" => told = << "ok" >>
  /\ delivered # << >> /\ protocol = "forward" => told = << >>

(* Every connection that was told its target is there, or is not, is       *)
(* logged with that outcome, and what the log says of its transfer is what *)
(* was transferred.                                                        *)
LoggedAsItWent ==
  /\ stage = "over" /\ told = << "ok" >> =>
       noted # << >> /\ Head(noted) \in {"established", "setup_error"}
  /\ told = << "error" >> => noted = << "exhausted" >>
  /\ noted # << >> /\ Last(noted) \in {"finished", "broken_off"} =>
       /\ Head(noted) = FirstOutcome
       /\ bytesUp = Len(upstream[tries])
       /\ bytesDown >= Len(delivered)
       /\ Last(noted) = "finished" => bytesDown = Len(delivered)

(* Nothing is lost, repeated or misreported on either side.                *)
TunnelInv == ClientStreamIntact /\ TargetStreamIntact /\ LoggedAsItWent
=============================================================================
