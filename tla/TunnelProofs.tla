---------------------------- MODULE TunnelProofs ----------------------------
(***************************************************************************)
(* Theorems about one connection (module Tunnel), for every length of the  *)
(* handshake, of its reads and of either stream, and every number of       *)
(* nodes.                                                                  *)
(*                                                                         *)
(*   TunnelTypeCorrect  every variable keeps its type                      *)
(*   TunnelHolds        nothing is lost, repeated or misreported           *)
(*                                                                         *)
(* The invariant says at each stage which bytes of the client's stream are *)
(* in the buffer and at the node, and which of the target's are with the   *)
(* client: a stretch of the stream (Bytes), whose ends are the numbers     *)
(* taken and answered.  The lemmas on stretches are all that is needed of  *)
(* sequences.                                                              *)
(***************************************************************************)
EXTENDS Tunnel, SequenceTheorems, TLAPS

-----------------------------------------------------------------------------
(* Stretches of a stream. *)

\* A stretch has the bytes from first to last.
LEMMA BytesAre ==
    ASSUME NEW first \in Nat, NEW last \in Nat, first <= last + 1
    PROVE  /\ Bytes(first, last) \in Seq(Nat)
           /\ Len(Bytes(first, last)) = last + 1 - first
           /\ \A i \in 1..(last + 1 - first) : Bytes(first, last)[i] = first + i - 1
<1>1. last + 1 - first \in Nat
  OBVIOUS
<1>2. \A i \in 1..(last + 1 - first) : first + i - 1 \in Nat
  OBVIOUS
<1> QED
  BY <1>1, <1>2 DEF Bytes

\* What follows a stretch makes it longer.
LEMMA BytesJoin ==
    ASSUME NEW first \in Nat, NEW last \in Nat, NEW more \in Nat,
           first <= last + 1, last <= more
    PROVE  Bytes(first, last) \o Bytes(last + 1, more) = Bytes(first, more)
<1>1. /\ Bytes(first, last) \in Seq(Nat) /\ Len(Bytes(first, last)) = last + 1 - first
      /\ \A i \in 1..(last + 1 - first) : Bytes(first, last)[i] = first + i - 1
  BY BytesAre
<1>2. /\ Bytes(last + 1, more) \in Seq(Nat) /\ Len(Bytes(last + 1, more)) = more - last
      /\ \A i \in 1..(more - last) : Bytes(last + 1, more)[i] = last + i
  <2>1. last + 1 \in Nat /\ last + 1 <= more + 1
    OBVIOUS
  <2>2. /\ Bytes(last + 1, more) \in Seq(Nat)
        /\ Len(Bytes(last + 1, more)) = more + 1 - (last + 1)
        /\ \A i \in 1..(more + 1 - (last + 1)) : Bytes(last + 1, more)[i] = last + 1 + i - 1
    BY <2>1, BytesAre
  <2>3. more + 1 - (last + 1) = more - last
    OBVIOUS
  <2>4. \A i \in 1..(more - last) : last + 1 + i - 1 = last + i
    OBVIOUS
  <2> QED
    BY <2>2, <2>3, <2>4
<1>3. /\ Bytes(first, more) \in Seq(Nat) /\ Len(Bytes(first, more)) = more + 1 - first
      /\ \A i \in 1..(more + 1 - first) : Bytes(first, more)[i] = first + i - 1
  <2>1. first <= more + 1
    OBVIOUS
  <2> QED
    BY <2>1, BytesAre
<1> DEFINE a == Bytes(first, last)
           b == Bytes(last + 1, more)
           c == Bytes(first, more)
<1>4. /\ a \in Seq(Nat) /\ b \in Seq(Nat) /\ c \in Seq(Nat)
      /\ Len(a) = last + 1 - first /\ Len(b) = more - last /\ Len(c) = more + 1 - first
      /\ \A i \in 1..(last + 1 - first) : a[i] = first + i - 1
      /\ \A i \in 1..(more - last) : b[i] = last + i
      /\ \A i \in 1..(more + 1 - first) : c[i] = first + i - 1
  BY <1>1, <1>2, <1>3
<1> HIDE DEF a, b, c
<1>5. /\ a \o b \in Seq(Nat) /\ Len(a \o b) = Len(a) + Len(b)
      /\ \A i \in 1..(Len(a) + Len(b)) : (a \o b)[i] = IF i <= Len(a) THEN a[i] ELSE b[i - Len(a)]
  BY <1>4, ConcatProperties
<1>6. Len(a \o b) = Len(c)
  BY <1>4, <1>5
<1>7. ASSUME NEW i \in 1..Len(a \o b) PROVE (a \o b)[i] = c[i]
  <2>1. c[i] = first + i - 1 /\ i \in 1..(Len(a) + Len(b))
    BY <1>4, <1>5, <1>6
  <2>2. CASE i <= Len(a)
    <3>1. a[i] = first + i - 1
      BY <1>4, <2>2
    <3> QED
      BY <1>5, <2>1, <2>2, <3>1
  <2>3. CASE ~ i <= Len(a)
    <3>1. i - Len(a) \in 1..(more - last)
      BY <1>4, <2>1, <2>3
    <3>2. b[i - Len(a)] = last + (i - Len(a))
      BY <1>4, <3>1
    <3>3. last + (i - Len(a)) = first + i - 1
      BY <1>4
    <3> QED
      BY <1>5, <2>1, <2>3, <3>2, <3>3
  <2> QED
    BY <2>2, <2>3
<1>8. a \o b = c
  BY <1>4, <1>5, <1>6, <1>7, SeqEqual
<1> QED
  BY <1>8 DEF a, b, c

\* What is left of a stretch without its first bytes.
LEMMA BytesRest ==
    ASSUME NEW first \in Nat, NEW last \in Nat, NEW size \in Nat,
           first + size <= last + 1
    PROVE  SubSeq(Bytes(first, last), size + 1, Len(Bytes(first, last)))
             = Bytes(first + size, last)
<1>1. first <= last + 1 /\ first + size \in Nat
  OBVIOUS
<1>2. /\ Bytes(first, last) \in Seq(Nat) /\ Len(Bytes(first, last)) = last + 1 - first
      /\ \A i \in 1..(last + 1 - first) : Bytes(first, last)[i] = first + i - 1
  BY <1>1, BytesAre
<1>3. /\ Bytes(first + size, last) \in Seq(Nat)
      /\ Len(Bytes(first + size, last)) = last + 1 - (first + size)
      /\ \A i \in 1..(last + 1 - (first + size)) :
           Bytes(first + size, last)[i] = first + size + i - 1
  BY <1>1, BytesAre
<1> DEFINE a == Bytes(first, last)
           b == Bytes(first + size, last)
<1> HIDE DEF a, b
<1>4. SubSeq(a, size + 1, Len(a)) = b
  BY <1>2, <1>3 DEF a, b
<1> QED
  BY <1>4 DEF a, b

\* What agrees with a longer sequence is a prefix of it.
LEMMA PrefixAgrees ==
    ASSUME NEW s \in Seq(Nat), NEW w \in Seq(Nat), Len(s) <= Len(w),
           \A i \in 1..Len(s) : s[i] = w[i]
    PROVE  IsPrefix(s, w) /\ s = SubSeq(w, 1, Len(s))
<1>1. /\ SubSeq(w, 1, Len(s)) \in Seq(Nat) /\ Len(SubSeq(w, 1, Len(s))) = Len(s)
      /\ \A i \in 1..Len(s) : SubSeq(w, 1, Len(s))[i] = w[i]
  OBVIOUS
<1>2. s = SubSeq(w, 1, Len(s))
  BY <1>1, SeqEqual
<1>3. s = SubSeq(s, 1, Len(s))
  BY SubSeqFull
<1> QED
  BY <1>2, <1>3 DEF IsPrefix

\* A prefix is the beginning.
LEMMA PrefixBegins ==
    ASSUME NEW s \in Seq(Nat), NEW w \in Seq(Nat), IsPrefix(s, w)
    PROVE  Len(s) <= Len(w) /\ s = SubSeq(w, 1, Len(s))
<1>1. s = SubSeq(s, 1, Len(s))
  BY SubSeqFull
<1> QED
  BY <1>1 DEF IsPrefix

\* A shorter stretch behind the same header is a prefix.
LEMMA BytesArePrefix ==
    ASSUME NEW header \in Seq(Nat), NEW first \in Nat, NEW last \in Nat, NEW more \in Nat,
           first <= last + 1, last <= more
    PROVE  IsPrefix(header \o Bytes(first, last), header \o Bytes(first, more))
<1>1. first <= more + 1
  OBVIOUS
<1>2. /\ Bytes(first, last) \in Seq(Nat) /\ Len(Bytes(first, last)) = last + 1 - first
      /\ \A i \in 1..(last + 1 - first) : Bytes(first, last)[i] = first + i - 1
  BY BytesAre
<1>3. /\ Bytes(first, more) \in Seq(Nat) /\ Len(Bytes(first, more)) = more + 1 - first
      /\ \A i \in 1..(more + 1 - first) : Bytes(first, more)[i] = first + i - 1
  BY <1>1, BytesAre
<1> DEFINE a == Bytes(first, last)
           b == Bytes(first, more)
<1>4. /\ a \in Seq(Nat) /\ b \in Seq(Nat) /\ Len(a) <= Len(b)
      /\ \A i \in 1..Len(a) : a[i] = b[i]
  BY <1>2, <1>3
<1> HIDE DEF a, b
<1>5. /\ header \o a \in Seq(Nat) /\ Len(header \o a) = Len(header) + Len(a)
      /\ \A i \in 1..(Len(header) + Len(a)) :
           (header \o a)[i] = IF i <= Len(header) THEN header[i] ELSE a[i - Len(header)]
  BY <1>4, ConcatProperties
<1>6. /\ header \o b \in Seq(Nat) /\ Len(header \o b) = Len(header) + Len(b)
      /\ \A i \in 1..(Len(header) + Len(b)) :
           (header \o b)[i] = IF i <= Len(header) THEN header[i] ELSE b[i - Len(header)]
  BY <1>4, ConcatProperties
<1>7. Len(header) \in Nat /\ Len(a) \in Nat /\ Len(b) \in Nat
  BY <1>4
<1>8. ASSUME NEW i \in 1..Len(header \o a) PROVE (header \o a)[i] = (header \o b)[i]
  <2>1. CASE i <= Len(header)
    BY <1>4, <1>5, <1>6, <1>7, <2>1
  <2>2. CASE ~ i <= Len(header)
    <3>1. i - Len(header) \in 1..Len(a)
      BY <1>5, <1>7, <2>2
    <3>2. i \in 1..(Len(header) + Len(a)) /\ i \in 1..(Len(header) + Len(b))
      BY <1>4, <1>5, <1>7
    <3>3. (header \o a)[i] = a[i - Len(header)]
      BY <1>5, <2>2, <3>2
    <3>4. (header \o b)[i] = b[i - Len(header)]
      BY <1>6, <2>2, <3>2
    <3> QED
      BY <1>4, <3>1, <3>3, <3>4
  <2> QED
    BY <1>7, <2>1, <2>2
<1>9. IsPrefix(header \o a, header \o b)
  <2>1. Len(header \o a) <= Len(header \o b)
    BY <1>4, <1>5, <1>6, <1>7
  <2> QED
    BY <1>5, <1>6, <1>8, <2>1, PrefixAgrees
<1> QED
  BY <1>9 DEF a, b

\* A part of a prefix is one.
LEMMA CutIsPrefix ==
    ASSUME NEW s \in Seq(Nat), NEW w \in Seq(Nat), IsPrefix(s, w), NEW size \in 0..Len(s)
    PROVE  SubSeq(s, 1, size) \in Seq(Nat) /\ IsPrefix(SubSeq(s, 1, size), w)
           /\ Len(SubSeq(s, 1, size)) = size
<1>1. /\ SubSeq(s, 1, size) \in Seq(Nat) /\ Len(SubSeq(s, 1, size)) = size
      /\ \A i \in 1..size : SubSeq(s, 1, size)[i] = s[i]
  OBVIOUS
<1>2. Len(s) <= Len(w) /\ \A i \in 1..Len(s) : s[i] = w[i]
  <2>1. Len(s) <= Len(w) /\ s = SubSeq(w, 1, Len(s))
    BY PrefixBegins
  <2> QED
    BY <2>1
<1>3. \A i \in 1..Len(SubSeq(s, 1, size)) : SubSeq(s, 1, size)[i] = w[i]
  BY <1>1, <1>2
<1>4. Len(SubSeq(s, 1, size)) <= Len(w)
  BY <1>1, <1>2
<1> QED
  BY <1>1, <1>3, <1>4, PrefixAgrees

\* Nothing is a prefix of anything.
LEMMA NothingIsPrefix == ASSUME NEW w \in Seq(Nat) PROVE IsPrefix(<< >>, w)
  BY DEF IsPrefix

-----------------------------------------------------------------------------
(* The inductive invariant. *)

\* What has been read of the client's stream behind its handshake, as a node
\* gets it, what of the target's, and all there is for a node.
FromClient == HeaderOnly \o Bytes(HandshakeLength + 1, taken)
FromTarget == Bytes(1, answered)
ForNode == HeaderOnly \o Bytes(HandshakeLength + 1, StreamLength)

\* Where the SOCKS5 reads done have ended.
Passed == IF field = 0 THEN 0 ELSE Ends[field]

Answers == {"refused", "ok", "error"}
Outcomes == {"exhausted", "established", "unverified", "setup_error", "answer",
             "finished", "broken_off"}
Unconnected == Handshaking \union {"dialing"}
HandingOver == {"replying", "handing", "returning"}
Transferring == {"relaying", "relayed", "broken"}
Connected == HandingOver \union Transferring

TunnelType ==
  /\ protocol \in Protocols \union {"other"}
  /\ taken \in Nat /\ buffer \in Seq(Nat) /\ field \in Nat
  /\ stage \in Unconnected \union Connected \union {"over", "aborted"}
  /\ tries \in 0..Tries /\ verified \in BOOLEAN /\ prefetched \in Seq(Nat)
  /\ upstream \in [1..Tries -> Seq(Nat)]
  /\ answered \in 0..TargetLength /\ delivered \in Seq(Nat)
  /\ told \in Seq(Answers) /\ ended \subseteq {"up", "down"}
  /\ bytesUp \in Nat /\ bytesDown \in Nat
  /\ noted \in Seq(Outcomes)

\* The buffer is the stretch of the client's stream behind what was used of it.
HandshakeInv ==
  /\ protocol = "other" => stage \in {"sniffing", "over", "aborted"}
  /\ stage = "sniffing" => /\ field = 0 /\ taken < SniffLength
                           /\ buffer = Bytes(1, taken)
  /\ stage = "fields" => /\ protocol = "socks5" /\ field < Len(Ends)
                         /\ Passed <= taken /\ taken <= StreamLength
                         /\ buffer = Bytes(Passed + 1, taken)
  /\ stage = "header" => /\ protocol \in {"connect", "forward"}
                         /\ taken <= StreamLength
                         /\ buffer = Bytes(1, taken)
  /\ stage \in Connected \union {"dialing"} => /\ HandshakeLength <= taken
                                               /\ taken <= StreamLength
  /\ stage \in HandingOver \union {"dialing"} => buffer = FromClient

\* One node has what was read for it, and its counter says how much.
UpstreamInv ==
  /\ stage \in Handshaking => tries = 0
  /\ stage \in Connected => tries \in 1..Tries
  /\ \A t \in 1..Tries : upstream[t] # << >> => t = tries
  /\ \A t \in 1..Tries : IsPrefix(upstream[t], ForNode)
  /\ stage \in Unconnected \union {"replying", "handing"} =>
       \A t \in 1..Tries : upstream[t] = << >>
  /\ stage \in {"returning", "relaying", "relayed"} => upstream[tries] = FromClient
  /\ stage \in {"replying", "handing"} => bytesUp = Len(buffer)
  /\ stage \in {"returning"} \union Transferring => bytesUp = Len(upstream[tries])

\* The client has what was read of the target's, and its counter says how much.
DownstreamInv ==
  /\ stage \in HandingOver => prefetched = FromTarget
  /\ stage \in Connected => bytesDown = answered
  /\ stage \in Unconnected \union HandingOver => delivered = << >>
  /\ stage \in {"relaying", "relayed"} => delivered = FromTarget
  /\ stage = "broken" => Len(delivered) <= answered
  /\ IsPrefix(delivered, Bytes(1, TargetLength))

\* What the client is told once a node has connected.
Confirmation == IF protocol = "forward" THEN << >> ELSE << "ok" >>

ToldInv ==
  /\ stage \in Unconnected \union {"replying"} => told = << >>
  /\ stage = "replying" => protocol # "forward"
  /\ stage \in Connected \ {"replying"} => told = Confirmation
  /\ stage \in Connected => verified \/ protocol = "forward"
  /\ Len(told) <= 1
  /\ delivered # << >> => told = Confirmation

NotedInv ==
  /\ stage \in Unconnected \union HandingOver => noted = << >>
  /\ stage \in Transferring => /\ noted # << >> /\ Head(noted) = FirstOutcome
                               /\ Last(noted) \notin {"finished", "broken_off"}
  /\ LoggedAsItWent

TunnelIInv ==
  /\ TunnelType /\ HandshakeInv /\ UpstreamInv /\ DownstreamInv /\ ToldInv /\ NotedInv

-----------------------------------------------------------------------------
(* What the lengths and the stretches are. *)

\* The sniffed bytes are of the handshake, the handshake is of the stream.
LEMMA LengthsFit ==
    ASSUME TunnelType
    PROVE  /\ HandshakeLength \in Nat /\ StreamLength \in Nat
           /\ HandshakeLength <= StreamLength
           /\ SniffLength \in 1..HandshakeLength
           /\ HeaderOnly \in Seq(Nat)
           /\ TargetLength \in Nat /\ Tries \in Nat /\ Chunk \in Nat
           /\ HeaderLength \in Nat
<1>1. Last(Ends) \in Nat /\ Last(Ends) >= 1
  BY TunnelAssumption DEF Last
<1>2. HeaderLength \in Nat /\ MethodLength \in 1..HeaderLength /\ HeaderLength >= 1
  BY TunnelAssumption
<1>3. HandshakeLength \in Nat /\ HandshakeLength >= 1
  BY <1>1, <1>2 DEF HandshakeLength
<1>4. SniffLength \in 1..HandshakeLength
  BY <1>1, <1>2, <1>3 DEF SniffLength, HandshakeLength
<1>5. HeaderOnly \in Seq(Nat)
  BY DEF HeaderOnly
<1> QED
  BY <1>2, <1>3, <1>4, <1>5, TunnelAssumption DEF StreamLength

LEMMA BehindHandshake ==
    ASSUME TunnelType, NEW last \in Nat, HandshakeLength <= last
    PROVE  HandshakeLength + 1 \in Nat /\ HandshakeLength + 1 <= last + 1
<1>1. HandshakeLength \in Nat
  BY LengthsFit
<1> QED
  BY <1>1

\* What a client speaks decides the lengths.
LEMMA LengthsStay ==
    ASSUME UNCHANGED protocol
    PROVE  /\ HandshakeLength' = HandshakeLength /\ StreamLength' = StreamLength
           /\ SniffLength' = SniffLength /\ HeaderOnly' = HeaderOnly
           /\ ForNode' = ForNode /\ Confirmation' = Confirmation
  BY DEF HandshakeLength, StreamLength, SniffLength, HeaderOnly, ForNode, Confirmation

LEMMA FromClientStays ==
    ASSUME UNCHANGED << protocol, taken >> PROVE FromClient' = FromClient
  BY DEF FromClient, HandshakeLength, HeaderOnly

\* What was read of the target's is the beginning of it.
LEMMA TargetStretch ==
    ASSUME NEW count \in Nat, NEW whole \in Nat, count <= whole
    PROVE  /\ Bytes(1, count) \in Seq(Nat) /\ Len(Bytes(1, count)) = count
           /\ Bytes(1, whole) \in Seq(Nat)
           /\ IsPrefix(Bytes(1, count), Bytes(1, whole))
<1>1. 1 \in Nat /\ 1 <= count + 1 /\ 1 <= whole + 1 /\ count + 1 - 1 = count
  OBVIOUS
<1>2. Bytes(1, count) \in Seq(Nat) /\ Len(Bytes(1, count)) = count + 1 - 1
      /\ Bytes(1, whole) \in Seq(Nat)
  BY <1>1, BytesAre
<1>3. IsPrefix(<< >> \o Bytes(1, count), << >> \o Bytes(1, whole))
  <2>1. << >> \in Seq(Nat)
    OBVIOUS
  <2> QED
    BY <1>1, <2>1, BytesArePrefix
<1> QED
  BY <1>1, <1>2, <1>3, ConcatEmptySeq

\* What is for the node, and what was read of the target's, is made of bytes.
LEMMA ForNodeIs ==
    ASSUME TunnelType
    PROVE  /\ ForNode \in Seq(Nat)
           /\ FromTarget \in Seq(Nat) /\ Len(FromTarget) = answered
           /\ Bytes(1, TargetLength) \in Seq(Nat)
           /\ IsPrefix(FromTarget, Bytes(1, TargetLength))
<1>1. /\ HandshakeLength \in Nat /\ StreamLength \in Nat /\ HandshakeLength <= StreamLength
      /\ HeaderOnly \in Seq(Nat) /\ TargetLength \in Nat
  BY LengthsFit
<1>2. Bytes(HandshakeLength + 1, StreamLength) \in Seq(Nat)
  <2>1. HandshakeLength + 1 \in Nat /\ HandshakeLength + 1 <= StreamLength + 1
    BY <1>1
  <2> QED
    BY <1>1, <2>1, BytesAre
<1>3. ForNode \in Seq(Nat)
  BY <1>1, <1>2, ConcatProperties DEF ForNode
<1>4. answered \in Nat /\ answered <= TargetLength
  BY <1>1 DEF TunnelType
<1> QED
  BY <1>1, <1>3, <1>4, TargetStretch DEF FromTarget

\* So is what was read for the node, once the handshake is over.
LEMMA FromClientIs ==
    ASSUME TunnelType, HandshakeLength <= taken, taken <= StreamLength
    PROVE  FromClient \in Seq(Nat) /\ IsPrefix(FromClient, ForNode)
<1>1. /\ HandshakeLength \in Nat /\ StreamLength \in Nat /\ taken \in Nat
      /\ HeaderOnly \in Seq(Nat)
  BY LengthsFit DEF TunnelType
<1>2. HandshakeLength + 1 \in Nat /\ HandshakeLength + 1 <= taken + 1
  BY <1>1
<1>3. Bytes(HandshakeLength + 1, taken) \in Seq(Nat)
  BY <1>1, <1>2, BytesAre
<1>4. IsPrefix(HeaderOnly \o Bytes(HandshakeLength + 1, taken),
               HeaderOnly \o Bytes(HandshakeLength + 1, StreamLength))
  BY <1>1, <1>2, BytesArePrefix
<1> QED
  BY <1>1, <1>3, <1>4, ConcatProperties DEF FromClient, ForNode

\* A further read continues it, ...
LEMMA FromClientGrows ==
    ASSUME TunnelType, HandshakeLength <= taken, UNCHANGED protocol,
           NEW size \in Nat, taken' = taken + size
    PROVE  /\ Bytes(taken + 1, taken') \in Seq(Nat)
           /\ Len(Bytes(taken + 1, taken')) = size
           /\ FromClient' = FromClient \o Bytes(taken + 1, taken')
<1>1. /\ HandshakeLength \in Nat /\ StreamLength \in Nat /\ taken \in Nat
      /\ HeaderOnly \in Seq(Nat)
  BY LengthsFit DEF TunnelType
<1>2. taken' \in Nat /\ taken <= taken' /\ taken + 1 <= taken' + 1 /\ taken + 1 \in Nat
  BY <1>1
<1>3. HandshakeLength + 1 \in Nat /\ HandshakeLength + 1 <= taken + 1
  BY <1>1
<1>4. /\ Bytes(taken + 1, taken') \in Seq(Nat)
      /\ Len(Bytes(taken + 1, taken')) = taken' + 1 - (taken + 1)
  BY <1>2, BytesAre
<1>5. Bytes(HandshakeLength + 1, taken) \in Seq(Nat)
  BY <1>1, <1>3, BytesAre
<1>6. Bytes(HandshakeLength + 1, taken) \o Bytes(taken + 1, taken')
        = Bytes(HandshakeLength + 1, taken')
  BY <1>1, <1>2, <1>3, BytesJoin
<1>7. FromClient' = HeaderOnly \o Bytes(HandshakeLength + 1, taken')
  BY LengthsStay DEF FromClient
<1>8. FromClient' = FromClient \o Bytes(taken + 1, taken')
  <2>1. (HeaderOnly \o Bytes(HandshakeLength + 1, taken)) \o Bytes(taken + 1, taken')
          = HeaderOnly \o (Bytes(HandshakeLength + 1, taken) \o Bytes(taken + 1, taken'))
    BY <1>1, <1>4, <1>5, ConcatAssociative
  <2> QED
    BY <1>6, <1>7, <2>1 DEF FromClient
<1> QED
  BY <1>1, <1>4, <1>8

\* ... on the target's side as well.
LEMMA FromTargetGrows ==
    ASSUME TunnelType, NEW size \in Nat, answered' = answered + size
    PROVE  FromTarget' = FromTarget \o Bytes(answered + 1, answered')
<1>1. answered \in Nat
  BY LengthsFit DEF TunnelType
<1>2. answered' \in Nat /\ answered <= answered' /\ 1 <= answered + 1 /\ 1 \in Nat
  BY <1>1
<1>3. Bytes(1, answered) \o Bytes(answered + 1, answered') = Bytes(1, answered')
  BY <1>1, <1>2, BytesJoin
<1> QED
  BY <1>3 DEF FromTarget

\* A read of the handshake continues the stretch in the buffer.
LEMMA BufferGrows ==
    ASSUME NEW first \in Nat, NEW last \in Nat, first <= last + 1, NEW size \in Nat
    PROVE  /\ Bytes(first, last) \o Bytes(last + 1, last + size) = Bytes(first, last + size)
           /\ Bytes(first, last + size) \in Seq(Nat)
<1>1. last + size \in Nat /\ last <= last + size /\ first <= last + size + 1
  OBVIOUS
<1> QED
  BY <1>1, BytesJoin, BytesAre

\* A sniffed byte continues it, too.
LEMMA BufferSniffs ==
    ASSUME NEW last \in Nat
    PROVE  Append(Bytes(1, last), last + 1) = Bytes(1, last + 1)
<1>1. last + 1 \in Nat /\ last <= last + 1 /\ last + 1 <= last + 1 + 1 /\ 1 <= last + 1 /\ 1 \in Nat
      /\ last + 1 + 1 - (last + 1) = 1
  OBVIOUS
<1>2. /\ Bytes(last + 1, last + 1) \in Seq(Nat) /\ Len(Bytes(last + 1, last + 1)) = 1
      /\ \A i \in 1..1 : Bytes(last + 1, last + 1)[i] = last + 1 + i - 1
  BY <1>1, BytesAre
<1>3. Bytes(last + 1, last + 1)[1] = last + 1
  BY <1>2
<1>4. Bytes(last + 1, last + 1) = << last + 1 >>
  <2>1. << last + 1 >> \in Seq(Nat) /\ Len(<< last + 1 >>) = 1 /\ << last + 1 >>[1] = last + 1
    OBVIOUS
  <2>2. \A i \in 1..1 : Bytes(last + 1, last + 1)[i] = << last + 1 >>[i]
    BY <1>3, <2>1
  <2> QED
    BY <1>2, <2>1, <2>2, SeqEqual
<1>5. Bytes(1, last) \in Seq(Nat)
  BY <1>1, BytesAre
<1>6. Bytes(1, last) \o Bytes(last + 1, last + 1) = Bytes(1, last + 1)
  BY <1>1, BytesJoin
<1> QED
  BY <1>1, <1>4, <1>5, <1>6, AppendIsConcat

-----------------------------------------------------------------------------
(* What is told and what is noted. *)

\* The stages are sets of names.
USE DEF Handshaking, Unconnected, HandingOver, Transferring, Connected

LEMMA AnswersDiffer ==
    /\ << >> # << "ok" >> /\ << >> # << "error" >> /\ << >> # << "refused" >>
    /\ << "ok" >> # << "error" >> /\ << "ok" >> # << "refused" >> /\ << "error" >> # << "refused" >>
<1>1. /\ Len(<< >>) = 0 /\ Len(<< "ok" >>) = 1 /\ Len(<< "error" >>) = 1 /\ Len(<< "refused" >>) = 1
      /\ << "ok" >>[1] = "ok" /\ << "error" >>[1] = "error" /\ << "refused" >>[1] = "refused"
  OBVIOUS
<1> QED
  BY <1>1

\* The first answer is the only one.
LEMMA FirstAnswer ==
    ASSUME NEW answer \in Answers
    PROVE  /\ Append(<< >>, answer) = << answer >> /\ << answer >> \in Seq(Answers)
           /\ Len(<< answer >>) = 1
  OBVIOUS

LEMMA NoAnswer == << >> \in Seq(Answers) /\ Len(<< >>) = 0
  OBVIOUS

\* An outcome is noted behind those noted before.
LEMMA NoteAdds ==
    ASSUME noted \in Seq(Outcomes), NEW outcome \in Outcomes, noted' = Append(noted, outcome)
    PROVE  /\ noted' \in Seq(Outcomes) /\ noted' # << >> /\ Last(noted') = outcome
           /\ noted = << >> => Head(noted') = outcome /\ noted' = << outcome >>
           /\ noted # << >> => Head(noted') = Head(noted)
<1>1. /\ noted' \in Seq(Outcomes) /\ noted' # << >> /\ Len(noted') = Len(noted) + 1
      /\ noted'[Len(noted) + 1] = outcome /\ \A i \in 1..Len(noted) : noted'[i] = noted[i]
  BY AppendProperties
<1>2. Last(noted') = outcome
  BY <1>1 DEF Last
<1>3. Head(noted') = IF noted = << >> THEN outcome ELSE Head(noted)
  BY HeadTailAppend
<1>4. noted = << >> => noted' = << outcome >>
  OBVIOUS
<1> QED
  BY <1>1, <1>2, <1>3, <1>4

\* Nothing to be said against a log with nothing in it, when nothing was told.
LEMMA SilentIsLogged ==
    ASSUME noted' = << >>, told' = << >> \/ (stage' # "over" /\ told' = << "ok" >>)
                           \/ told' = << "refused" >>
    PROVE  LoggedAsItWent'
  BY AnswersDiffer DEF LoggedAsItWent

-----------------------------------------------------------------------------
(* Each step keeps the invariant, conjunct by conjunct. *)

LEMMA GiveUpKeeps ==
    ASSUME TunnelIInv, GiveUp
    PROVE  TunnelIInv'
<1>1. /\ HandshakeLength' = HandshakeLength /\ StreamLength' = StreamLength
      /\ SniffLength' = SniffLength /\ HeaderOnly' = HeaderOnly
      /\ ForNode' = ForNode /\ Confirmation' = Confirmation
  BY LengthsStay DEF GiveUp
<1>2. FromClient' = FromClient
  BY FromClientStays DEF GiveUp
<1>3. TunnelType'
  BY <1>1, <1>2 DEF TunnelIInv, TunnelType, GiveUp
<1>4. HandshakeInv'
  BY <1>1, <1>2 DEF TunnelIInv, TunnelType, HandshakeInv, Passed, GiveUp
<1>5. UpstreamInv'
  BY <1>1, <1>2 DEF TunnelIInv, TunnelType, UpstreamInv, GiveUp
<1>6. DownstreamInv'
  BY <1>1, <1>2 DEF TunnelIInv, TunnelType, DownstreamInv, FromTarget, GiveUp
<1>7. ToldInv'
  BY <1>1, <1>2 DEF TunnelIInv, TunnelType, ToldInv, GiveUp
<1>8. NotedInv'
  <2>1. noted' = << >> /\ told' = << >> /\ stage' = "over"
    BY DEF TunnelIInv, NotedInv, ToldInv, GiveUp
  <2>2. LoggedAsItWent'
    BY <2>1, SilentIsLogged
  <2> QED
    BY <2>1, <2>2 DEF NotedInv
<1> QED
  BY <1>3, <1>4, <1>5, <1>6, <1>7, <1>8 DEF TunnelIInv

LEMMA NodeUnreachableKeeps ==
    ASSUME TunnelIInv, NodeUnreachable
    PROVE  TunnelIInv'
<1>1. /\ HandshakeLength' = HandshakeLength /\ StreamLength' = StreamLength
      /\ SniffLength' = SniffLength /\ HeaderOnly' = HeaderOnly
      /\ ForNode' = ForNode /\ Confirmation' = Confirmation
  BY LengthsStay DEF NodeUnreachable
<1>2. FromClient' = FromClient
  BY FromClientStays DEF NodeUnreachable
<1>3. tries' \in 0..Tries
  BY LengthsFit DEF TunnelIInv, TunnelType, NodeUnreachable
<1>4. TunnelType'
  BY <1>1, <1>2, <1>3 DEF TunnelIInv, TunnelType, NodeUnreachable
<1>5. HandshakeInv'
  BY <1>1, <1>2 DEF TunnelIInv, TunnelType, HandshakeInv, Passed, NodeUnreachable
<1>6. UpstreamInv'
  BY <1>1, <1>2 DEF TunnelIInv, TunnelType, UpstreamInv, NodeUnreachable
<1>7. DownstreamInv'
  BY <1>1, <1>2 DEF TunnelIInv, TunnelType, DownstreamInv, FromTarget, NodeUnreachable
<1>8. ToldInv'
  BY <1>1, <1>2 DEF TunnelIInv, TunnelType, ToldInv, NodeUnreachable
<1>9. NotedInv'
  BY <1>1, <1>2
     DEF TunnelIInv, TunnelType, NotedInv, LoggedAsItWent, FirstOutcome, NodeUnreachable
<1> QED
  BY <1>4, <1>5, <1>6, <1>7, <1>8, <1>9 DEF TunnelIInv

LEMMA ReplyKeeps ==
    ASSUME TunnelIInv, Reply
    PROVE  TunnelIInv'
<1>1. /\ HandshakeLength' = HandshakeLength /\ StreamLength' = StreamLength
      /\ SniffLength' = SniffLength /\ HeaderOnly' = HeaderOnly
      /\ ForNode' = ForNode /\ Confirmation' = Confirmation
  BY LengthsStay DEF Reply
<1>2. FromClient' = FromClient
  BY FromClientStays DEF Reply
<1>3. told = << >> /\ told' = << "ok" >> /\ told' \in Seq(Answers) /\ Len(told') = 1
  BY FirstAnswer DEF TunnelIInv, ToldInv, Reply, Answers
<1>4. noted = << >> /\ noted' = << >> /\ stage' = "handing"
  BY DEF TunnelIInv, NotedInv, Reply
<1>5. Confirmation = << "ok" >>
  BY DEF TunnelIInv, ToldInv, Reply, Confirmation
<1>6. TunnelType'
  BY <1>1, <1>2, <1>3 DEF TunnelIInv, TunnelType, Reply
<1>7. HandshakeInv'
  BY <1>1, <1>2 DEF TunnelIInv, TunnelType, HandshakeInv, Passed, Reply
<1>8. UpstreamInv'
  BY <1>1, <1>2 DEF TunnelIInv, TunnelType, UpstreamInv, Reply
<1>9. DownstreamInv'
  BY <1>1, <1>2 DEF TunnelIInv, TunnelType, DownstreamInv, FromTarget, Reply
<1>10. ToldInv'
  BY <1>1, <1>2, <1>3, <1>5 DEF TunnelIInv, TunnelType, ToldInv, Reply
<1>11. NotedInv'
  <2>1. LoggedAsItWent'
    BY <1>3, <1>4, SilentIsLogged
  <2> QED
    BY <1>4, <2>1 DEF NotedInv
<1> QED
  BY <1>6, <1>7, <1>8, <1>9, <1>10, <1>11 DEF TunnelIInv

LEMMA HandInitialKeeps ==
    ASSUME TunnelIInv, HandInitial
    PROVE  TunnelIInv'
<1>1. /\ HandshakeLength' = HandshakeLength /\ StreamLength' = StreamLength
      /\ SniffLength' = SniffLength /\ HeaderOnly' = HeaderOnly
      /\ ForNode' = ForNode /\ Confirmation' = Confirmation
  BY LengthsStay DEF HandInitial
<1>2. FromClient' = FromClient
  BY FromClientStays DEF HandInitial
<1>3. /\ stage = "handing" /\ tries \in 1..Tries /\ buffer = FromClient
      /\ upstream \in [1..Tries -> Seq(Nat)]
      /\ \A t \in 1..Tries : upstream[t] = << >>
      /\ FromClient \in Seq(Nat) /\ IsPrefix(FromClient, ForNode)
  BY FromClientIs DEF TunnelIInv, TunnelType, HandshakeInv, UpstreamInv, HandInitial
<1>4. /\ upstream' \in [1..Tries -> Seq(Nat)]
      /\ upstream'[tries] = FromClient
      /\ \A t \in 1..Tries : t # tries => upstream'[t] = << >>
  BY <1>3 DEF HandInitial
<1>5. \A t \in 1..Tries : IsPrefix(upstream'[t], ForNode)
  BY <1>3, <1>4, ForNodeIs, NothingIsPrefix DEF TunnelIInv
<1>6. TunnelType'
  BY <1>1, <1>2, <1>4 DEF TunnelIInv, TunnelType, HandInitial
<1>7. HandshakeInv'
  BY <1>1, <1>2 DEF TunnelIInv, TunnelType, HandshakeInv, Passed, HandInitial
<1>8. UpstreamInv'
  BY <1>1, <1>2, <1>3, <1>4, <1>5 DEF TunnelIInv, TunnelType, UpstreamInv, HandInitial
<1>9. DownstreamInv'
  BY <1>1, <1>2 DEF TunnelIInv, TunnelType, DownstreamInv, FromTarget, HandInitial
<1>10. ToldInv'
  BY <1>1, <1>2 DEF TunnelIInv, TunnelType, ToldInv, HandInitial
<1>11. NotedInv'
  BY <1>1, <1>2 DEF TunnelIInv, TunnelType, NotedInv, LoggedAsItWent, FirstOutcome, HandInitial
<1> QED
  BY <1>6, <1>7, <1>8, <1>9, <1>10, <1>11 DEF TunnelIInv

LEMMA ReturnPrefetchedKeeps ==
    ASSUME TunnelIInv, ReturnPrefetched
    PROVE  TunnelIInv'
<1>1. /\ HandshakeLength' = HandshakeLength /\ StreamLength' = StreamLength
      /\ SniffLength' = SniffLength /\ HeaderOnly' = HeaderOnly
      /\ ForNode' = ForNode /\ Confirmation' = Confirmation
  BY LengthsStay DEF ReturnPrefetched
<1>2. FromClient' = FromClient
  BY FromClientStays DEF ReturnPrefetched
<1>3. /\ FirstOutcome \in Outcomes \ {"finished", "broken_off"} /\ FirstOutcome' = FirstOutcome
  BY DEF FirstOutcome, Outcomes, ReturnPrefetched
<1>4. noted = << >> /\ noted' = Append(noted, FirstOutcome) /\ noted \in Seq(Outcomes)
  BY DEF TunnelIInv, TunnelType, NotedInv, ReturnPrefetched
<1>5. /\ noted' \in Seq(Outcomes) /\ noted' # << >> /\ Last(noted') = FirstOutcome
      /\ Head(noted') = FirstOutcome
  BY <1>3, <1>4, NoteAdds
<1>6. delivered' = FromTarget /\ FromTarget' = FromTarget /\ stage' = "relaying"
  BY DEF TunnelIInv, DownstreamInv, ReturnPrefetched, Returned, FromTarget
<1>7. FromTarget \in Seq(Nat) /\ IsPrefix(FromTarget, Bytes(1, TargetLength))
  BY ForNodeIs DEF TunnelIInv
<1>8. told' = Confirmation
  BY DEF TunnelIInv, ToldInv, ReturnPrefetched
<1>9. TunnelType'
  BY <1>1, <1>2, <1>5, <1>6, <1>7 DEF TunnelIInv, TunnelType, ReturnPrefetched
<1>10. HandshakeInv'
  BY <1>1, <1>2 DEF TunnelIInv, TunnelType, HandshakeInv, Passed, ReturnPrefetched
<1>11. UpstreamInv'
  BY <1>1, <1>2 DEF TunnelIInv, TunnelType, UpstreamInv, ReturnPrefetched
<1>12. DownstreamInv'
  BY <1>6, <1>7 DEF TunnelIInv, DownstreamInv, ReturnPrefetched
<1>13. ToldInv'
  BY <1>1, <1>2, <1>8 DEF TunnelIInv, TunnelType, ToldInv, ReturnPrefetched
<1>14. NotedInv'
  <2>1. LoggedAsItWent'
    <3>1. told' # << "error" >>
      BY <1>1, <1>8, AnswersDiffer DEF Confirmation
    <3> QED
      BY <1>3, <1>5, <1>6, <3>1 DEF LoggedAsItWent
  <2> QED
    BY <1>3, <1>5, <1>6, <2>1 DEF NotedInv
<1> QED
  BY <1>9, <1>10, <1>11, <1>12, <1>13, <1>14 DEF TunnelIInv

LEMMA BreakKeeps ==
    ASSUME TunnelIInv, Break
    PROVE  TunnelIInv'
<1>1. /\ HandshakeLength' = HandshakeLength /\ StreamLength' = StreamLength
      /\ SniffLength' = SniffLength /\ HeaderOnly' = HeaderOnly
      /\ ForNode' = ForNode /\ Confirmation' = Confirmation
  BY LengthsStay DEF Break
<1>2. FromClient' = FromClient
  BY FromClientStays DEF Break
<1>3. FromTarget \in Seq(Nat) /\ Len(FromTarget) = answered /\ answered \in Nat
  BY ForNodeIs, LengthsFit DEF TunnelIInv, TunnelType
<1>4. TunnelType'
  BY <1>1, <1>2 DEF TunnelIInv, TunnelType, Break
<1>5. HandshakeInv'
  BY <1>1, <1>2 DEF TunnelIInv, TunnelType, HandshakeInv, Passed, Break
<1>6. UpstreamInv'
  BY <1>1, <1>2 DEF TunnelIInv, TunnelType, UpstreamInv, Break
<1>7. DownstreamInv'
  BY <1>1, <1>2, <1>3 DEF TunnelIInv, TunnelType, DownstreamInv, FromTarget, Break
<1>8. ToldInv'
  BY <1>1, <1>2 DEF TunnelIInv, TunnelType, ToldInv, Break
<1>9. NotedInv'
  BY <1>1, <1>2 DEF TunnelIInv, TunnelType, NotedInv, LoggedAsItWent, FirstOutcome, Break
<1> QED
  BY <1>4, <1>5, <1>6, <1>7, <1>8, <1>9 DEF TunnelIInv

LEMMA NoteAnswerKeeps ==
    ASSUME TunnelIInv, NoteAnswer
    PROVE  TunnelIInv'
<1>1. /\ HandshakeLength' = HandshakeLength /\ StreamLength' = StreamLength
      /\ SniffLength' = SniffLength /\ HeaderOnly' = HeaderOnly
      /\ ForNode' = ForNode /\ Confirmation' = Confirmation
  BY LengthsStay DEF NoteAnswer
<1>2. FromClient' = FromClient
  BY FromClientStays DEF NoteAnswer
<1>3. /\ noted \in Seq(Outcomes) /\ noted # << >> /\ noted' = Append(noted, "answer")
      /\ "answer" \in Outcomes /\ Head(noted) = FirstOutcome /\ FirstOutcome' = FirstOutcome
      /\ stage' \in Transferring /\ stage' = stage
  BY DEF TunnelIInv, TunnelType, NotedInv, NoteAnswer, Outcomes, FirstOutcome
<1>4. /\ noted' \in Seq(Outcomes) /\ noted' # << >> /\ Last(noted') = "answer"
      /\ Head(noted') = FirstOutcome
  BY <1>3, NoteAdds
<1>5. told' = Confirmation
  BY DEF TunnelIInv, ToldInv, NoteAnswer
<1>6. TunnelType'
  BY <1>1, <1>2, <1>4 DEF TunnelIInv, TunnelType, NoteAnswer
<1>7. HandshakeInv'
  BY <1>1, <1>2 DEF TunnelIInv, TunnelType, HandshakeInv, Passed, NoteAnswer
<1>8. UpstreamInv'
  BY <1>1, <1>2 DEF TunnelIInv, TunnelType, UpstreamInv, NoteAnswer
<1>9. DownstreamInv'
  BY <1>1, <1>2 DEF TunnelIInv, TunnelType, DownstreamInv, FromTarget, NoteAnswer
<1>10. ToldInv'
  BY <1>1, <1>2 DEF TunnelIInv, TunnelType, ToldInv, NoteAnswer
<1>11. NotedInv'
  <2>1. LoggedAsItWent'
    <3>1. told' # << "error" >>
      BY <1>1, <1>5, AnswersDiffer DEF Confirmation
    <3> QED
      BY <1>3, <1>4, <3>1 DEF LoggedAsItWent
  <2> QED
    BY <1>3, <1>4, <2>1 DEF NotedInv
<1> QED
  BY <1>6, <1>7, <1>8, <1>9, <1>10, <1>11 DEF TunnelIInv

LEMMA FinishKeeps ==
    ASSUME TunnelIInv, Finish
    PROVE  TunnelIInv'
<1>1. /\ HandshakeLength' = HandshakeLength /\ StreamLength' = StreamLength
      /\ SniffLength' = SniffLength /\ HeaderOnly' = HeaderOnly
      /\ ForNode' = ForNode /\ Confirmation' = Confirmation
  BY LengthsStay DEF Finish
<1>2. FromClient' = FromClient
  BY FromClientStays DEF Finish
<1>3. /\ noted \in Seq(Outcomes) /\ noted # << >>
      /\ Head(noted) = FirstOutcome /\ FirstOutcome' = FirstOutcome
      /\ noted' = Append(noted, IF stage = "relayed" THEN "finished" ELSE "broken_off")
      /\ stage' = "over"
  BY DEF TunnelIInv, TunnelType, NotedInv, Finish, FirstOutcome
<1>4. /\ noted' \in Seq(Outcomes) /\ noted' # << >> /\ Head(noted') = FirstOutcome
      /\ Last(noted') = IF stage = "relayed" THEN "finished" ELSE "broken_off"
  BY <1>3, NoteAdds DEF Outcomes
<1>5. told' = Confirmation /\ (verified \/ protocol = "forward")
  BY DEF TunnelIInv, ToldInv, Finish
<1>6. /\ bytesUp' = Len(upstream'[tries'])
      /\ bytesDown' >= Len(delivered')
      /\ stage = "relayed" => bytesDown' = Len(delivered')
  <2>1. Len(FromTarget) = answered /\ answered \in Nat
    BY ForNodeIs, LengthsFit DEF TunnelIInv, TunnelType
  <2> QED
    BY <2>1 DEF TunnelIInv, TunnelType, UpstreamInv, DownstreamInv, Finish
<1>7. TunnelType'
  BY <1>1, <1>2, <1>4 DEF TunnelIInv, TunnelType, Finish
<1>8. HandshakeInv'
  BY <1>1, <1>2 DEF TunnelIInv, TunnelType, HandshakeInv, Passed, Finish
<1>9. UpstreamInv'
  BY <1>1, <1>2 DEF TunnelIInv, TunnelType, UpstreamInv, Finish
<1>10. DownstreamInv'
  BY <1>1, <1>2 DEF TunnelIInv, TunnelType, DownstreamInv, FromTarget, Finish
<1>11. ToldInv'
  BY <1>1, <1>2 DEF TunnelIInv, TunnelType, ToldInv, Finish
<1>12. NotedInv'
  <2>1. told' # << "error" >>
    BY <1>1, <1>5, AnswersDiffer DEF Confirmation
  <2>2. told' = << "ok" >> => Head(noted') = "established"
    BY <1>4, <1>5, AnswersDiffer DEF Confirmation, FirstOutcome
  <2>3. LoggedAsItWent'
    BY <1>3, <1>4, <1>6, <2>1, <2>2 DEF LoggedAsItWent
  <2> QED
    BY <1>3, <2>3 DEF NotedInv
<1> QED
  BY <1>7, <1>8, <1>9, <1>10, <1>11, <1>12 DEF TunnelIInv

LEMMA NoNodeKeeps ==
    ASSUME TunnelIInv, NEW reached \in BOOLEAN, NoNode(reached)
    PROVE  TunnelIInv'
<1>1. /\ HandshakeLength' = HandshakeLength /\ StreamLength' = StreamLength
      /\ SniffLength' = SniffLength /\ HeaderOnly' = HeaderOnly
      /\ ForNode' = ForNode /\ Confirmation' = Confirmation
  BY LengthsStay DEF NoNode
<1>2. FromClient' = FromClient
  BY FromClientStays DEF NoNode
<1>3. stage = "dialing" /\ stage' = "over" /\ told = << >> /\ noted = << >>
  BY DEF TunnelIInv, ToldInv, NotedInv, NoNode
<1>4. \/ told' = << "error" >> /\ noted' = << "exhausted" >>
      \/ told' = << >> /\ noted' = << >>
  BY <1>3, FirstAnswer DEF NoNode, Answers
<1>5. told' \in Seq(Answers) /\ Len(told') <= 1 /\ noted' \in Seq(Outcomes)
  <2>1. << "exhausted" >> \in Seq(Outcomes) /\ << >> \in Seq(Outcomes)
    BY DEF Outcomes
  <2>2. << "error" >> \in Seq(Answers) /\ Len(<< "error" >>) = 1
    BY FirstAnswer DEF Answers
  <2>3. CASE told' = << "error" >> /\ noted' = << "exhausted" >>
    BY <2>1, <2>2, <2>3
  <2>4. CASE told' = << >> /\ noted' = << >>
    BY <2>1, <2>4, NoAnswer
  <2> QED
    BY <1>4, <2>3, <2>4
<1>6. delivered' = << >>
  BY <1>3 DEF TunnelIInv, DownstreamInv, NoNode
<1>7. TunnelType'
  BY <1>1, <1>2, <1>5 DEF TunnelIInv, TunnelType, NoNode
<1>8. HandshakeInv'
  BY <1>1, <1>2 DEF TunnelIInv, TunnelType, HandshakeInv, Passed, NoNode
<1>9. UpstreamInv'
  BY <1>1, <1>2 DEF TunnelIInv, TunnelType, UpstreamInv, NoNode
<1>10. DownstreamInv'
  BY <1>1, <1>2 DEF TunnelIInv, TunnelType, DownstreamInv, FromTarget, NoNode
<1>11. ToldInv'
  BY <1>3, <1>5, <1>6 DEF ToldInv
<1>12. NotedInv'
  <2>1. CASE told' = << "error" >> /\ noted' = << "exhausted" >>
    <3>1. Last(noted') = "exhausted"
      BY <2>1 DEF Last
    <3>2. LoggedAsItWent'
      BY <2>1, <3>1, AnswersDiffer DEF LoggedAsItWent
    <3> QED
      BY <1>3, <3>2 DEF NotedInv
  <2>2. CASE told' = << >> /\ noted' = << >>
    <3>1. LoggedAsItWent'
      BY <2>2, SilentIsLogged
    <3> QED
      BY <1>3, <3>1 DEF NotedInv
  <2> QED
    BY <1>4, <2>1, <2>2
<1> QED
  BY <1>7, <1>8, <1>9, <1>10, <1>11, <1>12 DEF TunnelIInv

LEMMA EndDirectionKeeps ==
    ASSUME TunnelIInv, NEW way \in {"up", "down"}, EndDirection(way)
    PROVE  TunnelIInv'
<1>1. /\ HandshakeLength' = HandshakeLength /\ StreamLength' = StreamLength
      /\ SniffLength' = SniffLength /\ HeaderOnly' = HeaderOnly
      /\ ForNode' = ForNode /\ Confirmation' = Confirmation
  BY LengthsStay DEF EndDirection
<1>2. FromClient' = FromClient
  BY FromClientStays DEF EndDirection
<1>3. TunnelType'
  BY <1>1, <1>2 DEF TunnelIInv, TunnelType, EndDirection
<1>4. HandshakeInv'
  BY <1>1, <1>2 DEF TunnelIInv, TunnelType, HandshakeInv, Passed, EndDirection
<1>5. UpstreamInv'
  BY <1>1, <1>2 DEF TunnelIInv, TunnelType, UpstreamInv, EndDirection
<1>6. DownstreamInv'
  BY <1>1, <1>2 DEF TunnelIInv, TunnelType, DownstreamInv, FromTarget, EndDirection
<1>7. ToldInv'
  BY <1>1, <1>2 DEF TunnelIInv, TunnelType, ToldInv, EndDirection
<1>8. NotedInv'
  BY <1>1, <1>2 DEF TunnelIInv, TunnelType, NotedInv, LoggedAsItWent, FirstOutcome, EndDirection
<1> QED
  BY <1>3, <1>4, <1>5, <1>6, <1>7, <1>8 DEF TunnelIInv

LEMMA AbortClientKeeps ==
    ASSUME TunnelIInv, AbortClient
    PROVE  TunnelIInv'
<1>1. /\ HandshakeLength' = HandshakeLength /\ StreamLength' = StreamLength
      /\ SniffLength' = SniffLength /\ HeaderOnly' = HeaderOnly
      /\ ForNode' = ForNode /\ Confirmation' = Confirmation
  BY LengthsStay DEF AbortClient
<1>2. FromClient' = FromClient
  BY FromClientStays DEF AbortClient
<1>3. TunnelType'
  BY <1>1, <1>2 DEF TunnelIInv, TunnelType, AbortClient
<1>4. HandshakeInv'
  BY <1>1, <1>2 DEF TunnelIInv, TunnelType, HandshakeInv, Passed, AbortClient
<1>5. UpstreamInv'
  BY <1>1, <1>2 DEF TunnelIInv, TunnelType, UpstreamInv, AbortClient
<1>6. DownstreamInv'
  BY <1>1, <1>2 DEF TunnelIInv, TunnelType, DownstreamInv, FromTarget, AbortClient
<1>7. ToldInv'
  BY <1>1, <1>2 DEF TunnelIInv, TunnelType, ToldInv, AbortClient
<1>8. NotedInv'
  BY <1>1, <1>2 DEF TunnelIInv, TunnelType, NotedInv, LoggedAsItWent, FirstOutcome, AbortClient
<1> QED
  BY <1>3, <1>4, <1>5, <1>6, <1>7, <1>8 DEF TunnelIInv

LEMMA SniffKeeps ==
    ASSUME TunnelIInv, Sniff
    PROVE  TunnelIInv'
<1>1. /\ HandshakeLength' = HandshakeLength /\ StreamLength' = StreamLength
      /\ SniffLength' = SniffLength /\ HeaderOnly' = HeaderOnly
      /\ ForNode' = ForNode /\ Confirmation' = Confirmation
  BY LengthsStay DEF Sniff
<1>2. /\ SniffLength \in 1..HandshakeLength /\ HandshakeLength \in Nat /\ StreamLength \in Nat
      /\ HandshakeLength <= StreamLength /\ taken \in Nat
  BY LengthsFit DEF TunnelIInv, TunnelType
<1>3. /\ stage = "sniffing" /\ field = 0 /\ buffer = Bytes(1, taken) /\ taken < SniffLength
      /\ taken' = taken + 1 /\ field' = 0
  BY DEF TunnelIInv, HandshakeInv, Sniff
<1>4. buffer' = Bytes(1, taken') /\ buffer' \in Seq(Nat)
  <2>1. buffer' = Bytes(1, taken')
    BY <1>2, <1>3, BufferSniffs DEF Sniff
  <2>2. 1 \in Nat /\ taken' \in Nat /\ 1 <= taken' + 1
    BY <1>2, <1>3
  <2> QED
    BY <2>1, <2>2, BytesAre
<1>5. Passed' = 0 /\ 0 + 1 = 1
  BY <1>3 DEF Passed
<1>6. taken' <= StreamLength /\ taken' \in Nat
  BY <1>2, <1>3
<1>7. TunnelType'
  BY <1>1, <1>4 DEF TunnelIInv, TunnelType, Sniff
<1>8. HandshakeInv'
  <2>1. stage' = "sniffing" => taken' < SniffLength'
    BY <1>1, <1>3 DEF Sniff
  <2>2. stage' = "fields" => protocol = "socks5" /\ field' < Len(Ends)
    BY <1>3, TunnelAssumption DEF Sniff
  <2>3. stage' = "header" => protocol \in {"connect", "forward"}
    BY DEF Sniff, TunnelIInv, TunnelType, Protocols
  <2>4. /\ stage' \in {"sniffing", "fields", "header", "over"} /\ protocol' = protocol
        /\ protocol = "other" => stage' \in {"sniffing", "over"}
    BY DEF Sniff
  <2> QED
    BY <1>1, <1>3, <1>4, <1>5, <1>6, <2>1, <2>2, <2>3, <2>4 DEF HandshakeInv
<1>9. UpstreamInv'
  BY <1>1 DEF TunnelIInv, TunnelType, UpstreamInv, Sniff
<1>10. DownstreamInv'
  BY <1>1 DEF TunnelIInv, TunnelType, DownstreamInv, FromTarget, Sniff
<1>11. ToldInv'
  BY <1>1 DEF TunnelIInv, TunnelType, ToldInv, Sniff
<1>12. NotedInv'
  <2>1. noted' = << >> /\ told' = << >>
    BY DEF TunnelIInv, NotedInv, ToldInv, Sniff
  <2>2. LoggedAsItWent'
    BY <2>1, SilentIsLogged
  <2>3. stage' \notin Transferring
    BY DEF Sniff
  <2> QED
    BY <2>1, <2>2, <2>3 DEF NotedInv
<1> QED
  BY <1>7, <1>8, <1>9, <1>10, <1>11, <1>12 DEF TunnelIInv

LEMMA ReadHandshakeKeeps ==
    ASSUME TunnelIInv, ReadHandshake
    PROVE  TunnelIInv'
<1>1. /\ HandshakeLength' = HandshakeLength /\ StreamLength' = StreamLength
      /\ SniffLength' = SniffLength /\ HeaderOnly' = HeaderOnly
      /\ ForNode' = ForNode /\ Confirmation' = Confirmation
  BY LengthsStay DEF ReadHandshake
<1>2. PICK size \in ReadsOf(StreamLength, taken, ReadLimit) :
        taken' = taken + size /\ buffer' = buffer \o Bytes(taken + 1, taken')
  BY DEF ReadHandshake
<1>3. /\ taken \in Nat /\ StreamLength \in Nat /\ Chunk \in Nat /\ HeaderLength \in Nat
      /\ buffer \in Seq(Nat) /\ Len(buffer) \in Nat
  BY LengthsFit DEF TunnelIInv, TunnelType
<1>4. stage = "fields" => FieldLength \in Int
  <2>1. stage = "fields" => field \in Nat /\ field < Len(Ends)
    BY DEF TunnelIInv, TunnelType, HandshakeInv
  <2>2. Ends \in Seq(Nat) /\ Len(Ends) \in Nat
    BY TunnelAssumption
  <2>3. stage = "fields" => /\ Ends[field + 1] \in Nat
                            /\ field # 0 => Ends[field] \in Nat
    BY <2>1, <2>2
  <2> QED
    BY <2>3 DEF FieldLength
<1>5. ReadLimit \in Int
  BY <1>3, <1>4 DEF ReadLimit
<1>6. size \in Nat /\ taken + size <= StreamLength
  BY <1>2, <1>3, <1>5 DEF ReadsOf
<1>7. stage \in {"fields", "header"} /\ stage' = stage
  <2>1. ReadLimit # 0
    BY <1>2, <1>5 DEF ReadsOf
  <2> QED
    BY <2>1 DEF ReadLimit, ReadHandshake
<1>8. PICK first \in Nat : /\ first <= taken + 1 /\ buffer = Bytes(first, taken)
                           /\ stage = "fields" => first = Passed + 1
                           /\ stage = "header" => first = 1
  <2>1. CASE stage = "header"
    <3>1. 1 \in Nat /\ 1 <= taken + 1
      BY <1>3
    <3> QED
      BY <2>1, <3>1 DEF TunnelIInv, HandshakeInv
  <2>2. CASE stage = "fields"
    <3>1. Passed + 1 \in Nat /\ Passed + 1 <= taken + 1
      <4>1. field \in Nat /\ field < Len(Ends) /\ Passed <= taken
        BY <2>2 DEF TunnelIInv, TunnelType, HandshakeInv
      <4>2. Passed \in Nat
        BY <4>1, TunnelAssumption DEF Passed
      <4> QED
        BY <1>3, <4>1, <4>2
    <3> QED
      BY <2>2, <3>1 DEF TunnelIInv, HandshakeInv
  <2> QED
    BY <1>7, <2>1, <2>2
<1>9. buffer' = Bytes(first, taken') /\ buffer' \in Seq(Nat)
  <2>1. /\ Bytes(first, taken) \o Bytes(taken + 1, taken + size) = Bytes(first, taken + size)
        /\ Bytes(first, taken + size) \in Seq(Nat)
    BY <1>3, <1>6, <1>8, BufferGrows
  <2> QED
    BY <1>2, <1>8, <2>1
<1>10. Passed' = Passed /\ taken' \in Nat /\ taken <= taken' /\ taken' <= StreamLength
  BY <1>2, <1>3, <1>6 DEF Passed, ReadHandshake
<1>11. TunnelType'
  BY <1>1, <1>9, <1>10 DEF TunnelIInv, TunnelType, ReadHandshake
<1>12. HandshakeInv'
  <2>1. protocol' = protocol /\ field' = field
    BY DEF ReadHandshake
  <2>2. CASE stage = "header"
    <3>1. /\ stage' = "header" /\ protocol \in {"connect", "forward"}
          /\ buffer' = Bytes(1, taken')
      BY <1>7, <1>8, <1>9, <2>2 DEF TunnelIInv, HandshakeInv
    <3> QED
      BY <1>1, <1>10, <2>1, <3>1 DEF HandshakeInv
  <2>3. CASE stage = "fields"
    <3>1. /\ stage' = "fields" /\ protocol = "socks5" /\ field < Len(Ends) /\ Passed <= taken
          /\ buffer' = Bytes(Passed' + 1, taken')
      BY <1>7, <1>8, <1>9, <1>10, <2>3 DEF TunnelIInv, HandshakeInv
    <3>2. Passed' <= taken'
      <4>1. field \in Nat /\ Passed \in Nat
        BY <3>1, TunnelAssumption DEF Passed, TunnelIInv, TunnelType
      <4> QED
        BY <1>3, <1>10, <3>1, <4>1
    <3> QED
      BY <1>1, <1>10, <2>1, <3>1, <3>2 DEF HandshakeInv
  <2> QED
    BY <1>7, <2>2, <2>3
<1>13. UpstreamInv'
  BY <1>1, <1>7 DEF TunnelIInv, TunnelType, UpstreamInv, ReadHandshake
<1>14. DownstreamInv'
  BY <1>1 DEF TunnelIInv, TunnelType, DownstreamInv, FromTarget, ReadHandshake
<1>15. ToldInv'
  BY <1>1 DEF TunnelIInv, TunnelType, ToldInv, ReadHandshake
<1>16. NotedInv'
  <2>1. noted' = << >> /\ told' = << >>
    BY <1>7 DEF TunnelIInv, NotedInv, ToldInv, ReadHandshake
  <2>2. LoggedAsItWent'
    BY <2>1, SilentIsLogged
  <2> QED
    BY <1>7, <2>1, <2>2 DEF NotedInv
<1> QED
  BY <1>11, <1>12, <1>13, <1>14, <1>15, <1>16 DEF TunnelIInv

LEMMA UseHeaderKeeps ==
    ASSUME TunnelIInv, NEW refused \in BOOLEAN, UseHeader(refused)
    PROVE  TunnelIInv'
<1>1. /\ HandshakeLength' = HandshakeLength /\ StreamLength' = StreamLength
      /\ SniffLength' = SniffLength /\ HeaderOnly' = HeaderOnly
      /\ ForNode' = ForNode /\ Confirmation' = Confirmation
  BY LengthsStay DEF UseHeader
<1>2. FromClient' = FromClient
  BY FromClientStays DEF UseHeader
<1>3. /\ told = << >> /\ noted = << >> /\ noted' = << >> /\ delivered' = << >>
      /\ told' = << "refused" >> \/ told' = << >>
      /\ ~ refused => told' = << >>
      /\ refused => stage' = "over"
      /\ stage \in Handshaking
  BY FirstAnswer DEF TunnelIInv, NotedInv, ToldInv, DownstreamInv, UseHeader, Answers
<1>4. told' \in Seq(Answers) /\ Len(told') <= 1
  <2>1. CASE told' = << "refused" >>
    BY <2>1, FirstAnswer DEF Answers
  <2>2. CASE told' = << >>
    BY <2>2, NoAnswer
  <2> QED
    BY <1>3, <2>1, <2>2
<1>5. /\ stage = "header" /\ buffer = Bytes(1, taken) /\ taken \in Nat /\ taken <= StreamLength
      /\ protocol # "socks5" /\ protocol # "other" /\ HandshakeLength = HeaderLength
      /\ HeaderLength \in Nat /\ HeaderOnly \in Seq(Nat) /\ StreamLength \in Nat
  BY LengthsFit DEF TunnelIInv, TunnelType, HandshakeInv, UseHeader, HandshakeLength
<1>6. Len(buffer) = taken
  <2>1. 1 \in Nat /\ 1 <= taken + 1 /\ taken + 1 - 1 = taken
    BY <1>5
  <2> QED
    BY <1>5, <2>1, BytesAre
<1>7. HeaderLength <= taken
  BY <1>6 DEF UseHeader
<1>8. buffer' = FromClient
  <2>1. 1 \in Nat /\ 1 + HeaderLength <= taken + 1 /\ 1 + HeaderLength = HeaderLength + 1
    BY <1>5, <1>7
  <2>2. SubSeq(buffer, HeaderLength + 1, Len(buffer)) = Bytes(1 + HeaderLength, taken)
    BY <1>5, <2>1, BytesRest
  <2>3. buffer' = HeaderOnly \o SubSeq(buffer, HeaderLength + 1, Len(buffer))
    BY DEF UseHeader, InitialPayload
  <2> QED
    BY <1>5, <2>1, <2>2, <2>3 DEF FromClient
<1>9. buffer' \in Seq(Nat)
  BY <1>5, <1>7, <1>8, FromClientIs DEF TunnelIInv
<1>10. stage' \in {"over", "dialing"} /\ taken' = taken /\ protocol' = protocol
  BY DEF UseHeader
<1>11. TunnelType'
  BY <1>1, <1>2, <1>4, <1>9 DEF TunnelIInv, TunnelType, UseHeader
<1>12. HandshakeInv'
  BY <1>1, <1>2, <1>5, <1>7, <1>8, <1>10 DEF HandshakeInv
<1>13. UpstreamInv'
  BY <1>1, <1>2 DEF TunnelIInv, TunnelType, UpstreamInv, UseHeader
<1>14. DownstreamInv'
  BY <1>1, <1>2 DEF TunnelIInv, TunnelType, DownstreamInv, FromTarget, UseHeader
<1>15. ToldInv'
  BY <1>3, <1>4 DEF ToldInv, UseHeader
<1>16. NotedInv'
  <2>1. LoggedAsItWent'
    BY <1>3, SilentIsLogged
  <2>2. stage' \notin Transferring
    BY DEF UseHeader
  <2> QED
    BY <1>3, <2>1, <2>2 DEF NotedInv
<1> QED
  BY <1>11, <1>12, <1>13, <1>14, <1>15, <1>16 DEF TunnelIInv

LEMMA ReadFieldKeeps ==
    ASSUME TunnelIInv, NEW refused \in BOOLEAN, ReadField(refused)
    PROVE  TunnelIInv'
<1>1. /\ HandshakeLength' = HandshakeLength /\ StreamLength' = StreamLength
      /\ SniffLength' = SniffLength /\ HeaderOnly' = HeaderOnly
      /\ ForNode' = ForNode /\ Confirmation' = Confirmation
  BY LengthsStay DEF ReadField
<1>2. FromClient' = FromClient
  BY FromClientStays DEF ReadField
<1>3. /\ told = << >> /\ noted = << >> /\ noted' = << >> /\ delivered' = << >>
      /\ told' = << "refused" >> \/ told' = << >>
      /\ ~ refused => told' = << >>
      /\ refused => stage' = "over"
      /\ stage \in Handshaking
  BY FirstAnswer DEF TunnelIInv, NotedInv, ToldInv, DownstreamInv, ReadField, Answers
<1>4. told' \in Seq(Answers) /\ Len(told') <= 1
  <2>1. CASE told' = << "refused" >>
    BY <2>1, FirstAnswer DEF Answers
  <2>2. CASE told' = << >>
    BY <2>2, NoAnswer
  <2> QED
    BY <1>3, <2>1, <2>2
<1>5. /\ stage = "fields" /\ protocol = "socks5" /\ field \in Nat /\ field < Len(Ends)
      /\ Passed <= taken /\ taken <= StreamLength /\ taken \in Nat
      /\ buffer = Bytes(Passed + 1, taken)
      /\ HandshakeLength = Last(Ends) /\ HeaderOnly = << >> /\ StreamLength \in Nat
      /\ field' = field + 1 /\ taken' = taken /\ protocol' = protocol
  BY LengthsFit DEF TunnelIInv, TunnelType, HandshakeInv, ReadField, HandshakeLength, HeaderOnly
<1>6. Ends \in Seq(Nat) /\ Len(Ends) \in Nat
  BY TunnelAssumption
<1>7. field + 1 \in 1..Len(Ends) /\ Ends[field + 1] \in Nat
  BY <1>5, <1>6
<1>8. Passed \in Nat /\ Passed <= Ends[field + 1] /\ FieldLength = Ends[field + 1] - Passed
  <2>1. CASE field = 0
    BY <1>7, <2>1 DEF Passed, FieldLength
  <2>2. CASE field # 0
    <3>1. field \in DOMAIN Ends /\ field + 1 \in DOMAIN Ends /\ field < field + 1
          /\ Ends[field] \in Nat
      BY <1>5, <1>6, <1>7, <2>2
    <3>2. Ends[field] <= Ends[field + 1]
      BY <3>1, TunnelAssumption
    <3> QED
      BY <2>2, <3>1, <3>2 DEF Passed, FieldLength
  <2> QED
    BY <2>1, <2>2
<1>9. Len(buffer) = taken - Passed
  <2>1. Passed + 1 \in Nat /\ Passed + 1 <= taken + 1 /\ taken + 1 - (Passed + 1) = taken - Passed
    BY <1>5, <1>8
  <2>2. Len(Bytes(Passed + 1, taken)) = taken + 1 - (Passed + 1)
    BY <1>5, <2>1, BytesAre
  <2> QED
    BY <1>5, <2>1, <2>2
<1>10. Ends[field + 1] <= taken
  <2>1. Len(buffer) >= FieldLength
    BY DEF ReadField
  <2> QED
    BY <1>5, <1>7, <1>8, <1>9, <2>1
<1>11. Passed' = Ends[field + 1]
  BY <1>5 DEF Passed
<1>12. buffer' = Bytes(Passed' + 1, taken') /\ buffer' \in Seq(Nat)
  <2>1. /\ Passed + 1 \in Nat /\ FieldLength \in Nat
        /\ Passed + 1 + FieldLength = Ends[field + 1] + 1
        /\ Ends[field + 1] + 1 \in Nat /\ Ends[field + 1] + 1 <= taken + 1
    BY <1>5, <1>7, <1>8, <1>10
  <2>2. SubSeq(buffer, FieldLength + 1, Len(buffer)) = Bytes(Passed + 1 + FieldLength, taken)
    BY <1>5, <2>1, BytesRest
  <2>3. buffer' = Bytes(Ends[field + 1] + 1, taken)
    BY <2>1, <2>2 DEF ReadField
  <2>4. Bytes(Ends[field + 1] + 1, taken) \in Seq(Nat)
    BY <1>5, <2>1, BytesAre
  <2> QED
    BY <1>5, <1>11, <2>3, <2>4
<1>13. stage' = "dialing" => buffer' = FromClient /\ HandshakeLength <= taken
  <2>1. stage' = "dialing" => HandshakeLength = Ends[field + 1]
    BY <1>5 DEF ReadField, Last
  <2>2. FromClient = Bytes(HandshakeLength + 1, taken) \/ stage' # "dialing"
    <3>1. ASSUME stage' = "dialing" PROVE << >> \o buffer' = buffer'
      BY <1>12, ConcatEmptySeq
    <3> QED
      BY <1>5, <1>11, <1>12, <2>1, <3>1 DEF FromClient
  <2> QED
    BY <1>5, <1>10, <1>11, <1>12, <2>1, <2>2
<1>14. /\ stage' \in {"over", "dialing", "fields"}
       /\ stage' = "fields" => field' < Len(Ends)
  BY <1>5, <1>6, <1>7 DEF ReadField
<1>15. TunnelType'
  BY <1>1, <1>2, <1>4, <1>5, <1>12, <1>14 DEF TunnelIInv, TunnelType, ReadField
<1>16. HandshakeInv'
  BY <1>1, <1>2, <1>5, <1>10, <1>11, <1>12, <1>13, <1>14 DEF HandshakeInv
<1>17. UpstreamInv'
  BY <1>1, <1>2 DEF TunnelIInv, TunnelType, UpstreamInv, ReadField
<1>18. DownstreamInv'
  BY <1>1, <1>2 DEF TunnelIInv, TunnelType, DownstreamInv, FromTarget, ReadField
<1>19. ToldInv'
  BY <1>3, <1>4 DEF ToldInv, ReadField
<1>20. NotedInv'
  <2>1. LoggedAsItWent'
    BY <1>3, SilentIsLogged
  <2>2. stage' \notin Transferring
    BY DEF ReadField
  <2> QED
    BY <1>3, <2>1, <2>2 DEF NotedInv
<1> QED
  BY <1>15, <1>16, <1>17, <1>18, <1>19, <1>20 DEF TunnelIInv

LEMMA NodeConnectsKeeps ==
    ASSUME TunnelIInv, NEW kind \in {"socks", "http"}, NEW early \in 0..Chunk,
           NodeConnects(kind, early)
    PROVE  TunnelIInv'
<1>1. /\ HandshakeLength' = HandshakeLength /\ StreamLength' = StreamLength
      /\ SniffLength' = SniffLength /\ HeaderOnly' = HeaderOnly
      /\ ForNode' = ForNode /\ Confirmation' = Confirmation
  BY LengthsStay DEF NodeConnects
<1>2. FromClient' = FromClient
  BY FromClientStays DEF NodeConnects
<1>3. /\ TargetLength \in Nat /\ Tries \in Nat /\ Chunk \in Nat
      /\ early \in Nat /\ early <= TargetLength
  BY LengthsFit DEF TunnelIInv, NodeConnects
<1>4. Bytes(1, early) \in Seq(Nat) /\ answered' = early /\ FromTarget' = Bytes(1, early)
  <2>1. 1 \in Nat /\ 1 <= early + 1
    BY <1>3
  <2> QED
    BY <1>3, <2>1, BytesAre DEF NodeConnects, FromTarget
<1>5. /\ stage = "dialing" /\ stage' \in {"replying", "handing"} /\ tries' \in 1..Tries
      /\ stage' = IF protocol = "forward" THEN "handing" ELSE "replying"
      /\ buffer = FromClient /\ buffer' = buffer /\ told = << >> /\ noted = << >>
      /\ told' = << >> /\ noted' = << >> /\ delivered' = << >> /\ upstream' = upstream
      /\ \A t \in 1..Tries : upstream[t] = << >>
      /\ bytesUp' = Len(buffer) /\ Len(buffer) \in Nat /\ protocol' = protocol
  BY <1>3
     DEF TunnelIInv, TunnelType, HandshakeInv, UpstreamInv, ToldInv, NotedInv, DownstreamInv,
         NodeConnects, InitialBytes
<1>6. TunnelType'
  BY <1>1, <1>2, <1>3, <1>4, <1>5 DEF TunnelIInv, TunnelType, NodeConnects
<1>7. HandshakeInv'
  BY <1>1, <1>2 DEF TunnelIInv, TunnelType, HandshakeInv, Passed, NodeConnects
<1>8. UpstreamInv'
  BY <1>1, <1>5 DEF TunnelIInv, UpstreamInv
<1>9. DownstreamInv'
  BY <1>4, <1>5 DEF TunnelIInv, DownstreamInv, NodeConnects
<1>10. ToldInv'
  <2>1. protocol = "forward" => Confirmation' = << >>
    BY <1>5 DEF Confirmation
  <2>2. verified' \/ protocol = "forward"
    BY DEF NodeConnects
  <2> QED
    BY <1>5, <2>1, <2>2, NoAnswer DEF ToldInv
<1>11. NotedInv'
  <2>1. LoggedAsItWent'
    BY <1>5, SilentIsLogged
  <2> QED
    BY <1>5, <2>1 DEF NotedInv
<1> QED
  BY <1>6, <1>7, <1>8, <1>9, <1>10, <1>11 DEF TunnelIInv

LEMMA HandoverFailsKeeps ==
    ASSUME TunnelIInv, HandoverFails
    PROVE  TunnelIInv'
<1>1. /\ HandshakeLength' = HandshakeLength /\ StreamLength' = StreamLength
      /\ SniffLength' = SniffLength /\ HeaderOnly' = HeaderOnly
      /\ ForNode' = ForNode /\ Confirmation' = Confirmation
  BY LengthsStay DEF HandoverFails
<1>2. FromClient' = FromClient
  BY FromClientStays DEF HandoverFails
<1>3. /\ stage \in HandingOver /\ stage' = "over" /\ noted = << >> /\ tries \in 1..Tries
      /\ noted' = Append(noted, "setup_error") /\ noted \in Seq(Outcomes)
      /\ told' = told /\ told \in {<< >>, Confirmation} /\ prefetched = FromTarget
      /\ stage # "replying" => told = Confirmation
      /\ buffer = FromClient /\ HandshakeLength <= taken /\ taken <= StreamLength
      /\ delivered = << >> /\ \A t \in 1..Tries : upstream[t] # << >> => t = tries
      /\ upstream \in [1..Tries -> Seq(Nat)] /\ tries' = tries
      /\ \A t \in 1..Tries : IsPrefix(upstream[t], ForNode)
  BY
     DEF TunnelIInv, TunnelType, HandshakeInv, UpstreamInv, DownstreamInv, ToldInv, NotedInv,
         HandoverFails
<1>4. /\ noted' \in Seq(Outcomes) /\ noted' # << >> /\ Last(noted') = "setup_error"
      /\ Head(noted') = "setup_error"
  BY <1>3, NoteAdds DEF Outcomes
<1>5. told' # << "error" >>
  BY <1>3, AnswersDiffer DEF Confirmation
<1>6. /\ FromClient \in Seq(Nat) /\ IsPrefix(FromClient, ForNode) /\ ForNode \in Seq(Nat)
      /\ FromTarget \in Seq(Nat) /\ IsPrefix(FromTarget, Bytes(1, TargetLength))
      /\ Bytes(1, TargetLength) \in Seq(Nat)
  BY <1>3, FromClientIs, ForNodeIs DEF TunnelIInv
<1>7. /\ upstream' \in [1..Tries -> Seq(Nat)]
      /\ \A t \in 1..Tries : upstream'[t] # << >> => t = tries
      /\ \A t \in 1..Tries : IsPrefix(upstream'[t], ForNode)
  <2>1. CASE UNCHANGED upstream
    BY <1>3, <2>1
  <2>2. ASSUME NEW size \in 1..Len(buffer),
               upstream' = [upstream EXCEPT ![tries] = SubSeq(buffer, 1, size)]
        PROVE  /\ upstream' \in [1..Tries -> Seq(Nat)]
               /\ \A t \in 1..Tries : upstream'[t] # << >> => t = tries
               /\ \A t \in 1..Tries : IsPrefix(upstream'[t], ForNode)
    <3>1. size \in 0..Len(FromClient)
      BY <1>3, <1>6
    <3>2. SubSeq(buffer, 1, size) \in Seq(Nat) /\ IsPrefix(SubSeq(buffer, 1, size), ForNode)
      BY <1>3, <1>6, <3>1, CutIsPrefix
    <3> QED
      BY <1>3, <2>2, <3>2
  <2> QED
    BY <2>1, <2>2 DEF HandoverFails
<1>8. /\ delivered' \in Seq(Nat) /\ IsPrefix(delivered', Bytes(1, TargetLength))
      /\ delivered' # << >> => stage = "returning"
  <2>1. CASE UNCHANGED delivered
    BY <1>3, <2>1 DEF TunnelIInv, TunnelType, DownstreamInv
  <2>2. ASSUME NEW size \in 1..Len(prefetched), delivered' = SubSeq(prefetched, 1, size),
               stage = "returning"
        PROVE  delivered' \in Seq(Nat) /\ IsPrefix(delivered', Bytes(1, TargetLength))
    <3>1. size \in 0..Len(FromTarget)
      BY <1>3, <1>6
    <3>2. SubSeq(prefetched, 1, size) \in Seq(Nat)
          /\ IsPrefix(SubSeq(prefetched, 1, size), Bytes(1, TargetLength))
      BY <1>3, <1>6, <3>1, CutIsPrefix
    <3> QED
      BY <2>2, <3>2
  <2> QED
    BY <2>1, <2>2 DEF HandoverFails
<1>9. TunnelType'
  BY <1>1, <1>2, <1>4, <1>7, <1>8 DEF TunnelIInv, TunnelType, HandoverFails
<1>10. HandshakeInv'
  BY <1>1, <1>2 DEF TunnelIInv, TunnelType, HandshakeInv, Passed, HandoverFails
<1>11. UpstreamInv'
  BY <1>1, <1>3, <1>7 DEF UpstreamInv
<1>12. DownstreamInv'
  BY <1>3, <1>8 DEF DownstreamInv
<1>13. ToldInv'
  <2>1. Len(told') <= 1
    BY <1>3 DEF TunnelIInv, ToldInv
  <2>2. delivered' # << >> => told' = Confirmation'
    BY <1>1, <1>3, <1>8
  <2> QED
    BY <1>3, <2>1, <2>2 DEF ToldInv
<1>14. NotedInv'
  <2>1. LoggedAsItWent'
    BY <1>3, <1>4, <1>5, AnswersDiffer DEF LoggedAsItWent
  <2> QED
    BY <1>3, <1>4, <2>1 DEF NotedInv
<1> QED
  BY <1>9, <1>10, <1>11, <1>12, <1>13, <1>14 DEF TunnelIInv

LEMMA UploadKeeps ==
    ASSUME TunnelIInv, NEW reached \in BOOLEAN, Upload(reached)
    PROVE  TunnelIInv'
<1>1. /\ HandshakeLength' = HandshakeLength /\ StreamLength' = StreamLength
      /\ SniffLength' = SniffLength /\ HeaderOnly' = HeaderOnly
      /\ ForNode' = ForNode /\ Confirmation' = Confirmation
  BY LengthsStay DEF Upload
<1>2. PICK size \in ReadsOf(StreamLength, taken, Chunk) :
        /\ taken' = taken + size
        /\ IF reached
           THEN /\ upstream' = [upstream EXCEPT ![tries] = @ \o Bytes(taken + 1, taken')]
                /\ bytesUp' = bytesUp + size
           ELSE UNCHANGED << upstream, bytesUp >>
  BY DEF Upload
<1>3. /\ stage = "relaying" /\ tries \in 1..Tries /\ upstream \in [1..Tries -> Seq(Nat)]
      /\ upstream[tries] = FromClient /\ bytesUp = Len(upstream[tries])
      /\ HandshakeLength <= taken /\ taken <= StreamLength
      /\ \A t \in 1..Tries : upstream[t] # << >> => t = tries
      /\ \A t \in 1..Tries : IsPrefix(upstream[t], ForNode)
      /\ taken \in Nat /\ StreamLength \in Nat /\ HandshakeLength \in Nat /\ Chunk \in Nat
      /\ tries' = tries /\ protocol' = protocol /\ bytesUp \in Nat
      /\ stage' = IF reached THEN "relaying" ELSE "broken"
  BY LengthsFit DEF TunnelIInv, TunnelType, HandshakeInv, UpstreamInv, Upload
<1>4. size \in Nat /\ taken + size <= StreamLength
  BY <1>2, <1>3 DEF ReadsOf
<1>5. taken' \in Nat /\ HandshakeLength <= taken' /\ taken' <= StreamLength
  BY <1>2, <1>3, <1>4
<1>6. FromClient \in Seq(Nat)
  BY <1>3, FromClientIs DEF TunnelIInv
<1>7. /\ Bytes(taken + 1, taken') \in Seq(Nat) /\ Len(Bytes(taken + 1, taken')) = size
      /\ FromClient' = FromClient \o Bytes(taken + 1, taken')
  BY <1>2, <1>3, <1>4, FromClientGrows DEF TunnelIInv
<1>8. FromClient' \in Seq(Nat) /\ Len(FromClient') = Len(FromClient) + size
  BY <1>6, <1>7, ConcatProperties
<1>9. IsPrefix(FromClient', ForNode)
  <2>1. /\ HeaderOnly \in Seq(Nat) /\ HandshakeLength + 1 \in Nat /\ HandshakeLength + 1 <= taken' + 1
    <3>1. HeaderOnly \in Seq(Nat)
      BY LengthsFit DEF TunnelIInv
    <3>2. HandshakeLength \in Nat /\ taken' \in Nat /\ HandshakeLength <= taken'
      BY <1>3, <1>5
    <3>3. HandshakeLength + 1 \in Nat /\ HandshakeLength + 1 <= taken' + 1
      BY <3>2, BehindHandshake DEF TunnelIInv
    <3> QED
      BY <3>1, <3>3
  <2>2. IsPrefix(HeaderOnly \o Bytes(HandshakeLength + 1, taken'), ForNode)
    BY <1>3, <1>5, <2>1, BytesArePrefix DEF ForNode
  <2> QED
    BY <1>1, <2>2 DEF FromClient
<1>10. /\ upstream' \in [1..Tries -> Seq(Nat)]
       /\ \A t \in 1..Tries : upstream'[t] # << >> => t = tries
       /\ \A t \in 1..Tries : IsPrefix(upstream'[t], ForNode)
       /\ bytesUp' \in Nat /\ bytesUp' = Len(upstream'[tries])
       /\ reached => upstream'[tries] = FromClient'
  <2>1. CASE reached
    <3>1. /\ upstream' = [upstream EXCEPT ![tries] = FromClient'] /\ bytesUp' = bytesUp + size
      BY <1>2, <1>3, <1>7, <2>1
    <3> QED
      BY <1>3, <1>4, <1>6, <1>8, <1>9, <3>1
  <2>2. CASE ~ reached
    BY <1>2, <1>3, <2>2
  <2> QED
    BY <2>1, <2>2
<1>11. told' = Confirmation /\ told' # << "error" >> /\ stage' # "over"
       /\ FirstOutcome' = FirstOutcome /\ noted' = noted
       /\ noted # << >> /\ Head(noted) = FirstOutcome
       /\ Last(noted) \notin {"finished", "broken_off"}
       /\ stage = "relaying" /\ stage' \in {"relaying", "broken"}
  <2>1. told = Confirmation /\ told' = told
    BY DEF TunnelIInv, ToldInv, Upload
  <2>2. told' # << "error" >>
    BY <2>1, AnswersDiffer DEF Confirmation
  <2>3. noted # << >> /\ Head(noted) = FirstOutcome /\ Last(noted) \notin {"finished", "broken_off"}
    BY DEF TunnelIInv, NotedInv, Upload
  <2> QED
    BY <2>1, <2>2, <2>3 DEF Upload, FirstOutcome
<1>12. TunnelType'
  BY <1>1, <1>3, <1>5, <1>10 DEF TunnelIInv, TunnelType, Upload
<1>13. HandshakeInv'
  <2>1. protocol # "other"
    BY <1>3 DEF TunnelIInv, HandshakeInv
  <2> QED
    BY <1>1, <1>3, <1>5, <2>1 DEF HandshakeInv
<1>14. UpstreamInv'
  BY <1>1, <1>3, <1>10 DEF UpstreamInv
<1>15. DownstreamInv'
  <2>1. Len(FromTarget) = answered /\ answered \in Nat
    BY ForNodeIs, LengthsFit DEF TunnelIInv, TunnelType
  <2> QED
    BY <1>3, <2>1 DEF TunnelIInv, DownstreamInv, Upload, FromTarget
<1>16. ToldInv'
  BY <1>1 DEF TunnelIInv, TunnelType, ToldInv, Upload
<1>17. NotedInv'
  <2>1. LoggedAsItWent'
    BY <1>11 DEF LoggedAsItWent
  <2> QED
    BY <1>11, <2>1 DEF NotedInv
<1> QED
  BY <1>12, <1>13, <1>14, <1>15, <1>16, <1>17 DEF TunnelIInv

LEMMA DownloadKeeps ==
    ASSUME TunnelIInv, NEW reached \in BOOLEAN, Download(reached)
    PROVE  TunnelIInv'
<1>1. /\ HandshakeLength' = HandshakeLength /\ StreamLength' = StreamLength
      /\ SniffLength' = SniffLength /\ HeaderOnly' = HeaderOnly
      /\ ForNode' = ForNode /\ Confirmation' = Confirmation
  BY LengthsStay DEF Download
<1>2. FromClient' = FromClient
  BY FromClientStays DEF Download
<1>3. PICK size \in ReadsOf(TargetLength, answered, Chunk) :
        /\ answered' = answered + size /\ bytesDown' = bytesDown + size
        /\ delivered' = IF reached THEN delivered \o Bytes(answered + 1, answered') ELSE delivered
  BY DEF Download
<1>4. /\ answered \in Nat /\ answered <= TargetLength /\ TargetLength \in Nat /\ Chunk \in Nat
      /\ stage = "relaying" /\ delivered = FromTarget /\ bytesDown = answered
      /\ stage' = IF reached THEN "relaying" ELSE "broken"
  BY LengthsFit DEF TunnelIInv, TunnelType, DownstreamInv, Download
<1>5. size \in Nat /\ answered + size <= TargetLength
  BY <1>3, <1>4 DEF ReadsOf
<1>6. answered' \in 0..TargetLength /\ answered <= answered' /\ bytesDown' = answered'
  BY <1>3, <1>4, <1>5
<1>7. FromTarget' = FromTarget \o Bytes(answered + 1, answered')
  BY <1>3, <1>5, FromTargetGrows DEF TunnelIInv
<1>8. /\ FromTarget \in Seq(Nat) /\ Len(FromTarget) = answered
      /\ IsPrefix(FromTarget, Bytes(1, TargetLength))
  BY ForNodeIs DEF TunnelIInv
<1>9. /\ FromTarget' \in Seq(Nat) /\ IsPrefix(FromTarget', Bytes(1, TargetLength))
  BY <1>4, <1>6, TargetStretch DEF FromTarget
<1>10. /\ delivered' \in Seq(Nat) /\ IsPrefix(delivered', Bytes(1, TargetLength))
       /\ reached => delivered' = FromTarget'
       /\ ~ reached => Len(delivered') <= answered'
  BY <1>3, <1>4, <1>6, <1>7, <1>8, <1>9
<1>11. told' = Confirmation /\ told' # << "error" >> /\ stage' # "over"
       /\ FirstOutcome' = FirstOutcome /\ noted' = noted
       /\ noted # << >> /\ Head(noted) = FirstOutcome
       /\ Last(noted) \notin {"finished", "broken_off"}
       /\ stage = "relaying" /\ stage' \in {"relaying", "broken"}
  <2>1. told = Confirmation /\ told' = told
    BY DEF TunnelIInv, ToldInv, Download
  <2>2. told' # << "error" >>
    BY <2>1, AnswersDiffer DEF Confirmation
  <2>3. noted # << >> /\ Head(noted) = FirstOutcome /\ Last(noted) \notin {"finished", "broken_off"}
    BY DEF TunnelIInv, NotedInv, Download
  <2> QED
    BY <2>1, <2>2, <2>3 DEF Download, FirstOutcome
<1>12. TunnelType'
  BY <1>1, <1>2, <1>4, <1>6, <1>10 DEF TunnelIInv, TunnelType, Download
<1>13. HandshakeInv'
  BY <1>1, <1>2, <1>4 DEF TunnelIInv, TunnelType, HandshakeInv, Passed, Download
<1>14. UpstreamInv'
  BY <1>1, <1>2 DEF TunnelIInv, TunnelType, UpstreamInv, Download
<1>15. DownstreamInv'
  BY <1>4, <1>6, <1>10 DEF DownstreamInv
<1>16. ToldInv'
  BY <1>1, <1>2 DEF TunnelIInv, TunnelType, ToldInv, Download
<1>17. NotedInv'
  <2>1. LoggedAsItWent'
    BY <1>11 DEF LoggedAsItWent
  <2> QED
    BY <1>11, <2>1 DEF NotedInv
<1> QED
  BY <1>12, <1>13, <1>14, <1>15, <1>16, <1>17 DEF TunnelIInv

-----------------------------------------------------------------------------
(* The theorems. *)

LEMMA StutterKeeps == ASSUME TunnelIInv, UNCHANGED tunnelVars PROVE TunnelIInv'
<1>1. /\ HandshakeLength' = HandshakeLength /\ StreamLength' = StreamLength
      /\ SniffLength' = SniffLength /\ ForNode' = ForNode /\ Confirmation' = Confirmation
      /\ FromClient' = FromClient /\ FromTarget' = FromTarget /\ Passed' = Passed
      /\ FirstOutcome' = FirstOutcome
  BY LengthsStay, FromClientStays DEF tunnelVars, FromTarget, Passed, FirstOutcome
<1>2. TunnelType'
  BY DEF TunnelIInv, TunnelType, tunnelVars
<1>3. HandshakeInv'
  BY <1>1 DEF TunnelIInv, HandshakeInv, tunnelVars
<1>4. UpstreamInv'
  BY <1>1 DEF TunnelIInv, UpstreamInv, tunnelVars
<1>5. DownstreamInv'
  BY <1>1 DEF TunnelIInv, DownstreamInv, tunnelVars
<1>6. ToldInv'
  BY <1>1 DEF TunnelIInv, ToldInv, tunnelVars
<1>7. NotedInv'
  BY <1>1 DEF TunnelIInv, NotedInv, LoggedAsItWent, tunnelVars
<1> QED
  BY <1>2, <1>3, <1>4, <1>5, <1>6, <1>7 DEF TunnelIInv

LEMMA TunnelBegins == ASSUME TunnelInit PROVE TunnelIInv
<1>1. Tries \in Nat /\ TargetLength \in Nat
  BY TunnelAssumption
<1>2. TunnelType
  <2>1. << >> \in Seq(Nat) /\ << >> \in Seq(Answers) /\ << >> \in Seq(Outcomes)
    BY EmptySeq
  <2>2. upstream \in [1..Tries -> Seq(Nat)]
    BY <2>1 DEF TunnelInit
  <2>3. tries \in 0..Tries /\ answered \in 0..TargetLength
    BY <1>1 DEF TunnelInit
  <2>4. verified \in BOOLEAN /\ ended \subseteq {"up", "down"}
    BY DEF TunnelInit
  <2>5. taken \in Nat /\ field \in Nat /\ bytesUp \in Nat /\ bytesDown \in Nat
    BY DEF TunnelInit
  <2>6. /\ buffer \in Seq(Nat) /\ prefetched \in Seq(Nat) /\ delivered \in Seq(Nat)
        /\ told \in Seq(Answers) /\ noted \in Seq(Outcomes)
    BY <2>1 DEF TunnelInit
  <2>7. /\ protocol \in Protocols \union {"other"}
        /\ stage \in Unconnected \union Connected \union {"over", "aborted"}
    BY DEF TunnelInit
  <2> QED
    BY <2>2, <2>3, <2>4, <2>5, <2>6, <2>7 DEF TunnelType
<1>3. SniffLength > 0 /\ Bytes(1, 0) = << >>
  <2>1. 1 \in Nat /\ 0 \in Nat /\ 1 <= 0 + 1
    OBVIOUS
  <2>2. Bytes(1, 0) \in Seq(Nat) /\ Len(Bytes(1, 0)) = 0 + 1 - 1
    BY <2>1, BytesAre
  <2>3. SniffLength > 0
    BY <1>2, LengthsFit
  <2> QED
    BY <2>2, <2>3, EmptySeq
<1>4. ForNode \in Seq(Nat) /\ Bytes(1, TargetLength) \in Seq(Nat)
  BY <1>2, ForNodeIs
<1>5. HandshakeInv
  BY <1>3 DEF TunnelInit, HandshakeInv
<1>6. UpstreamInv
  <2>1. \A t \in 1..Tries : upstream[t] = << >>
    BY DEF TunnelInit
  <2>2. \A t \in 1..Tries : IsPrefix(upstream[t], ForNode)
    BY <1>4, <2>1, NothingIsPrefix
  <2> QED
    BY <2>1, <2>2 DEF TunnelInit, UpstreamInv
<1>7. DownstreamInv
  BY <1>4, NothingIsPrefix DEF TunnelInit, DownstreamInv
<1>8. ToldInv
  BY NoAnswer DEF TunnelInit, ToldInv
<1>9. NotedInv
  <2>1. LoggedAsItWent
    BY AnswersDiffer DEF TunnelInit, LoggedAsItWent
  <2> QED
    BY <2>1 DEF TunnelInit, NotedInv
<1> QED
  BY <1>2, <1>5, <1>6, <1>7, <1>8, <1>9 DEF TunnelIInv

\* Every step of the connection keeps the invariant.
LEMMA TunnelKeeps == ASSUME TunnelIInv, TunnelNext PROVE TunnelIInv'
<1>1. CASE Sniff \/ ReadHandshake \/ GiveUp
  BY <1>1, SniffKeeps, ReadHandshakeKeeps, GiveUpKeeps
<1>2. CASE \E refused \in BOOLEAN : ReadField(refused) \/ UseHeader(refused)
  BY <1>2, ReadFieldKeeps, UseHeaderKeeps
<1>3. CASE NodeUnreachable
  BY <1>3, NodeUnreachableKeeps
<1>4. CASE \E kind \in {"socks", "http"}, early \in 0..Chunk : NodeConnects(kind, early)
  BY <1>4, NodeConnectsKeeps
<1>5. CASE \E reached \in BOOLEAN : NoNode(reached) \/ Upload(reached) \/ Download(reached)
  BY <1>5, NoNodeKeeps, UploadKeeps, DownloadKeeps
<1>6. CASE Reply \/ HandInitial \/ ReturnPrefetched \/ HandoverFails
  BY <1>6, ReplyKeeps, HandInitialKeeps, ReturnPrefetchedKeeps, HandoverFailsKeeps
<1>7. CASE \E way \in {"up", "down"} : EndDirection(way)
  BY <1>7, EndDirectionKeeps
<1>8. CASE Break \/ NoteAnswer \/ Finish \/ AbortClient
  BY <1>8, BreakKeeps, NoteAnswerKeeps, FinishKeeps, AbortClientKeeps
<1> QED
  BY <1>1, <1>2, <1>3, <1>4, <1>5, <1>6, <1>7, <1>8 DEF TunnelNext

\* The inductive invariant of a connection.
THEOREM TunnelInvariant == TunnelSpec => []TunnelIInv
<1>1. TunnelInit => TunnelIInv
  BY TunnelBegins
<1>2. TunnelIInv /\ [TunnelNext]_tunnelVars => TunnelIInv'
  BY TunnelKeeps, StutterKeeps
<1> QED
  BY <1>1, <1>2, PTL DEF TunnelSpec

\* Every variable of a connection keeps its type, whatever the network does.
THEOREM TunnelTypeCorrect == TunnelSpec => []TunnelType
<1>1. TunnelIInv => TunnelType
  BY DEF TunnelIInv
<1> QED
  BY <1>1, TunnelInvariant, PTL

LEMMA ClientStreamKept == ASSUME TunnelIInv PROVE ClientStreamIntact
<1>1. TunnelType
  BY DEF TunnelIInv
<1>2. ForNode \in Seq(Nat) /\ HeaderOnly \in Seq(Nat) /\ HandshakeLength \in Nat
  BY <1>1, ForNodeIs, LengthsFit
<1>3. /\ \A t \in 1..Tries : IsPrefix(upstream[t], ForNode)
      /\ \A t \in 1..Tries : upstream[t] # << >> => t = tries
  BY DEF TunnelIInv, UpstreamInv
<1>4. ASSUME stage = "relaying"
      PROVE  /\ upstream[tries] = SubSeq(ForNode, 1, Len(upstream[tries]))
             /\ Len(upstream[tries]) = Len(HeaderOnly) + taken - HandshakeLength
  <2>1. /\ upstream[tries] = FromClient /\ tries \in 1..Tries /\ taken \in Nat
        /\ HandshakeLength <= taken /\ taken <= StreamLength
        /\ upstream[tries] \in Seq(Nat)
    BY <1>4 DEF TunnelIInv, TunnelType, HandshakeInv, UpstreamInv
  <2>2. upstream[tries] = SubSeq(ForNode, 1, Len(upstream[tries]))
    BY <1>2, <1>3, <2>1, PrefixBegins
  <2>3. /\ Bytes(HandshakeLength + 1, taken) \in Seq(Nat)
        /\ Len(Bytes(HandshakeLength + 1, taken)) = taken + 1 - (HandshakeLength + 1)
    <3>1. HandshakeLength + 1 \in Nat /\ HandshakeLength + 1 <= taken + 1
      BY <1>2, <2>1
    <3> QED
      BY <2>1, <3>1, BytesAre
  <2>4. Len(FromClient) = Len(HeaderOnly) + Len(Bytes(HandshakeLength + 1, taken))
    BY <1>2, <2>3, ConcatProperties DEF FromClient
  <2>5. Len(HeaderOnly) \in Nat /\ HandshakeLength \in Nat /\ taken \in Nat
    BY <1>2, <2>1
  <2>6. taken + 1 - (HandshakeLength + 1) = taken - HandshakeLength
    BY <2>5
  <2>7. Len(upstream[tries]) = Len(HeaderOnly) + (taken - HandshakeLength)
    BY <2>1, <2>3, <2>4, <2>6
  <2>8. Len(upstream[tries]) = Len(HeaderOnly) + taken - HandshakeLength
    BY <2>5, <2>7
  <2> QED
    BY <2>2, <2>8
<1> QED
  BY <1>3, <1>4 DEF ClientStreamIntact, ForNode

LEMMA TargetStreamKept == ASSUME TunnelIInv PROVE TargetStreamIntact
<1>1. Len(FromTarget) = answered
  BY ForNodeIs DEF TunnelIInv
<1> QED
  BY <1>1 DEF TunnelIInv, DownstreamInv, ToldInv, Confirmation, TargetStreamIntact

\* However the network cuts the two streams, wherever it breaks and however
\* many nodes are tried, no byte behind the handshake is lost, repeated or
\* given to a second node, and the log tells what was told and transferred.
THEOREM TunnelHolds == TunnelSpec => []TunnelInv
<1>1. TunnelIInv => TunnelInv
  BY ClientStreamKept, TargetStreamKept DEF TunnelIInv, NotedInv, TunnelInv
<1> QED
  BY <1>1, TunnelInvariant, PTL
=============================================================================
