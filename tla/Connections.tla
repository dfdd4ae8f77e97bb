----------------------------- MODULE Connections ----------------------------
(***************************************************************************)
(* The stream a session runs over: messages framed on a byte stream, and   *)
(* the listeners that accept the connections.                              *)
(***************************************************************************)
EXTENDS Integers, Sequences

(***************************************************************************)
(* Messages over a byte stream (remote/protocol_message_transport.cpp,     *)
(* remote/protocol_buffer.h): a header with the size of the payload, then  *)
(* the payload.  The stream hands its bytes out in pieces; the peer may go *)
(* away at any byte; the reading side may be destroyed while a read waits. *)
(* The reader is the loop of ServerConnection::Run.                        *)
(*                                                                         *)
(* A byte has Radix values, and a header is the bytes of a uint32_t, the   *)
(* low one first.  Writes of one side are serialised by                    *)
(* transport::WriteQueue.                                                  *)
(***************************************************************************)
CONSTANTS
  Radix,           \* values of a byte
  kMaxMessageSize, \* size of the reader's buffer
  Outboxes         \* what the peer may send: sequences of payloads

Bytes == Seq(0 .. Radix - 1)

kHeaderSize == 4

\* The numbers of a MessageSizeType.
MessageSizes == 0 .. Radix * (Radix * (Radix * Radix)) - 1

\* A message is not empty, and its size fits the header.
ASSUME FramingAssumption ==
  /\ Radix \in Nat \ {0, 1} /\ kMaxMessageSize \in Nat
  /\ \A box \in Outboxes :
       /\ box \in Seq(Bytes)
       /\ \A i \in DOMAIN box : box[i] # <<>> /\ Len(box[i]) \in MessageSizes

VARIABLES
  outbox,      \* payloads the peer has yet to write
  sent,        \* payloads it has written
  wire,        \* bytes on their way
  stream,      \* "open", "ended" by the peer, or "failed"
  reader,      \* what a read waits for: its phase, and the bytes it has
  want,        \* number of bytes ReadExact was asked for
  reading_,    \* ProtocolMessageTransport::reading_
  owned,       \* cancelation_ has not expired
  delivered    \* payloads handed to OnTransportMessageReceived

fvars == <<outbox, sent, wire, stream, reader, want, reading_, owned, delivered>>

peerVars == <<outbox, sent, stream>>

FInit ==
  /\ outbox \in Outboxes /\ sent = <<>> /\ wire = <<>> /\ stream = "open"
  /\ reader = [phase |-> "idle", data |-> <<>>] /\ want = 0
  /\ reading_ = FALSE /\ owned = TRUE /\ delivered = <<>>

-----------------------------------------------------------------------------
(* protocol_buffer.h *)

Zeros(n) == [i \in 1..n |-> 0]

\* PrependMessageSize and UpdateMessageSize write this in front of a payload.
Header(size) ==
  <<size % Radix, (size \div Radix) % Radix, ((size \div Radix) \div Radix) % Radix,
    (((size \div Radix) \div Radix) \div Radix) % Radix>>

\* GetMessagePayloadSize of a whole header.
GetMessagePayloadSize(header) ==
  header[1] + Radix * (header[2] + Radix * (header[3] + Radix * header[4]))

GetIncomingMessageSize(header) == kHeaderSize + GetMessagePayloadSize(header)

-----------------------------------------------------------------------------
(* The peer *)

Write ==
  /\ outbox # <<>> /\ stream = "open"
  /\ wire' = wire \o Header(Len(Head(outbox))) \o Head(outbox)
  /\ sent' = Append(sent, Head(outbox)) /\ outbox' = Tail(outbox)
  /\ UNCHANGED <<stream, reader, want, reading_, owned, delivered>>

\* The peer or the network goes away: the bytes not yet delivered are lost
\* from some point on, and a read then returns no bytes, or an error.
Cut ==
  /\ stream = "open"
  /\ stream' \in {"ended", "failed"}
  /\ \E n \in 0..Len(wire) : wire' = SubSeq(wire, 1, n)
  /\ UNCHANGED <<outbox, sent, reader, want, reading_, owned, delivered>>

-----------------------------------------------------------------------------
(* ProtocolMessageTransport::read and the loop that calls it *)

Suspended == reader.phase \in {"header", "payload"}

\* The caller's loop is over: Close, or a return.
LoopEnds == reader' = [phase |-> "done", data |-> <<>>] /\ UNCHANGED want

\* A read that fails, or returns no bytes, ends the loop.
ReadReturnsNothing ==
  /\ reading_' = FALSE /\ LoopEnds
  /\ UNCHANGED delivered

\* ERR_IO_PENDING when a read is already under way.
StartRead ==
  /\ reader.phase = "idle" /\ owned
  /\ \/ reading_ /\ LoopEnds /\ UNCHANGED reading_
     \/ /\ ~reading_ /\ reading_' = TRUE
        /\ reader' = [phase |-> "header", data |-> <<>>] /\ want' = kHeaderSize
  /\ UNCHANGED <<peerVars, wire, owned, delivered>>

\* The header is read, or what there was of it: the rest of the array is 0.
HeaderRead(data) ==
  LET size == GetIncomingMessageSize(data \o Zeros(kHeaderSize - Len(data)))
              - kHeaderSize
  IN \/ /\ data = <<>> \/ size = 0 \/ size > kMaxMessageSize
        /\ ReadReturnsNothing
     \/ /\ data # <<>> /\ size \in 1..kMaxMessageSize
        /\ reader' = [phase |-> "payload", data |-> <<>>] /\ want' = size
        /\ UNCHANGED <<reading_, delivered>>

\* The payload is read, or what there was of it.
PayloadRead(data) ==
  \/ data = <<>> /\ ReadReturnsNothing
  \/ /\ data # <<>>
     /\ reading_' = FALSE
     /\ reader' = [phase |-> "idle", data |-> <<>>] /\ UNCHANGED want
     /\ delivered' = Append(delivered, data)

\* ReadExact returns, and its caller goes on.
Returns(data) ==
  \/ reader.phase = "header" /\ HeaderRead(data)
  \/ reader.phase = "payload" /\ PayloadRead(data)

\* Mutant: every read of a payload is given the room of all of it.
SubspanWhole ==
  IF reader.phase = "payload" THEN want ELSE want - Len(reader.data)

\* data.subspan(total_read).
Subspan == want - Len(reader.data)

ReadExpired == ~owned

\* A read of the stream returns some bytes.
ReadExact ==
  /\ Suspended /\ wire # <<>> /\ stream # "failed"
  /\ \E n \in 1..Len(wire) :
       /\ n <= Subspan
       /\ wire' = SubSeq(wire, n + 1, Len(wire))
       /\ LET data == reader.data \o SubSeq(wire, 1, n)
          IN \/ ReadExpired /\ LoopEnds /\ UNCHANGED <<reading_, delivered>>
             \/ ~ReadExpired /\ Len(data) >= want /\ Returns(data)
             \/ /\ ~ReadExpired /\ Len(data) < want
                /\ reader' = [reader EXCEPT !.data = data]
                /\ UNCHANGED <<want, reading_, delivered>>
  /\ UNCHANGED <<peerVars, owned>>

\* A read returns no bytes at the end of the stream: what was read is returned.
ReadEnd ==
  /\ Suspended /\ wire = <<>> /\ stream = "ended"
  /\ \/ ReadExpired /\ LoopEnds /\ UNCHANGED <<reading_, delivered>>
     \/ ~ReadExpired /\ Returns(reader.data)
  /\ UNCHANGED <<peerVars, wire, owned>>

\* A read fails; one whose owner is gone is aborted.
ReadError ==
  /\ Suspended /\ (stream = "failed" \/ ~owned)
  /\ \/ ReadExpired /\ LoopEnds /\ UNCHANGED <<reading_, delivered>>
     \/ ~ReadExpired /\ ReadReturnsNothing
  /\ UNCHANGED <<peerVars, wire, owned>>

\* The session is torn down, with the transport and its member state.
TearDown ==
  /\ owned /\ owned' = FALSE
  /\ UNCHANGED <<peerVars, wire, reader, want, reading_, delivered>>

FNext ==
  \/ Write \/ Cut \/ StartRead \/ ReadExact \/ ReadEnd \/ ReadError \/ TearDown

FSpec == FInit /\ [][FNext]_fvars

-----------------------------------------------------------------------------
\* part is what comes first in whole.
IsStartOf(part, whole) ==
  Len(part) <= Len(whole) /\ \A k \in DOMAIN part : part[k] = whole[k]

\* Messages arrive in the order they were written, each as it was written; the
\* last one may be a part of a message only when the stream ended inside it.
DeliveredInOrder ==
  \A i \in DOMAIN delivered :
    /\ i \in DOMAIN sent
    /\ \/ delivered[i] = sent[i]
       \/ /\ i = Len(delivered) /\ stream = "ended"
          /\ IsStartOf(delivered[i], sent[i])

\* A message handed to the session is a whole message of the peer: ReadExact
\* "Reads exactly data.size() bytes from the transport".
MessageIsWhole == IsStartOf(delivered, sent)

\* A read that resumes after its transport was destroyed writes no member of it
\* and hands nothing on.
AbortedReadIsSilent == [][~owned => UNCHANGED <<reading_, delivered>>]_fvars

Oversized(i) == \E j \in DOMAIN sent : j <= i /\ Len(sent[j]) > kMaxMessageSize

\* While the stream stays open and the session is not torn down, a message that
\* was written arrives, unless it or one before it exceeds the buffer.
SentIsDelivered ==
  \A i \in 1..2 :
    (i <= Len(sent)) ~> \/ Len(delivered) >= i \/ stream # "open" \/ ~owned
                        \/ Oversized(i)

-----------------------------------------------------------------------------
(***************************************************************************)
(* The listeners of the server: RemoteListener (remote/remote_listener.h), *)
(* one per endpoint, and the part of RemoteSessionManager                  *)
(* (remote/remote_session_manager.cpp) that starts and stops them and owns *)
(* the accepted connections.                                               *)
(*                                                                         *)
(* InitAsync and ShutdownAsync are coroutines: ShutdownAsync may be called *)
(* while InitAsync waits for an acceptor to open.                          *)
(***************************************************************************)
CONSTANTS
  Endpoints,      \* number of endpoints_
  MaxAccepted     \* bound: connections accepted in a behaviour

ASSUME ListenersAssumption == Endpoints \in Nat /\ MaxAccepted \in Nat

Listener == 1..Endpoints

VARIABLES
  run,            \* RemoteListener::Run: "none", "opening", "accepting", "ended"
  acceptor_,      \* the acceptor was told to close
  opened_,        \* RemoteListener::opened_
  open_,          \* open_completion_ and open_status_: "waiting", "good", "bad"
  close_,         \* close_completion_ is complete
  init,           \* InitAsync: "off", the listener it waits for, "good" or "bad"
  stopping,           \* ShutdownAsync: "off", the listeners it waits for, "done"
  listeners_,
  connections_,
  alive_,
  accepted        \* number of connections accepted so far

lvars == <<run, acceptor_, opened_, open_, close_, init, stopping, listeners_,
           connections_, alive_, accepted>>

listenerVars == <<run, acceptor_, opened_, open_, close_>>

managerVars == <<init, stopping, listeners_, connections_, alive_, accepted>>

LInit ==
  /\ run = [i \in Listener |-> "none"]
  /\ acceptor_ = {} /\ opened_ = {} /\ close_ = {}
  /\ open_ = [i \in Listener |-> "waiting"]
  /\ init = <<"off">> /\ stopping = <<"off">>
  /\ listeners_ = <<>> /\ connections_ = {} /\ alive_ = TRUE /\ accepted = 0

-----------------------------------------------------------------------------
(* RemoteListener *)

\* CoSpawn of Run: the acceptor starts to open.
RunStarts(i) == run' = [run EXCEPT ![i] = "opening"]

\* acceptor_.open() succeeds; it may have done so just before a close.
Opened(i) ==
  /\ run[i] = "opening"
  /\ run' = [run EXCEPT ![i] = "accepting"]
  /\ opened_' = opened_ \cup {i} /\ open_' = [open_ EXCEPT ![i] = "good"]
  /\ UNCHANGED <<acceptor_, close_, managerVars>>

\* Run returns an error: one before the acceptor opened is that of the start.
OnTransportClosed(i) ==
  open_' = [open_ EXCEPT ![i] = IF i \in opened_ THEN @ ELSE "bad"]

\* Run, or the accept handler, throws.
OnListenerException(i) ==
  \/ i \in opened_ /\ UNCHANGED open_
  \/ i \notin opened_ /\ open_' = [open_ EXCEPT ![i] = "bad"]

\* Mutant: a listener that ends does not say so.
CloseIsSilent(i) == UNCHANGED close_

CloseCompletes(i) == close_' = close_ \cup {i}

\* Run ends: the acceptor cannot open, or cannot accept, or is closed.
RunEnds(i) ==
  /\ run[i] \in {"opening", "accepting"}
  /\ run' = [run EXCEPT ![i] = "ended"]
  /\ OnTransportClosed(i) \/ OnListenerException(i)
  /\ CloseCompletes(i)
  /\ UNCHANGED <<acceptor_, opened_, managerVars>>

-----------------------------------------------------------------------------
(* RemoteSessionManager *)

\* The loop over endpoints_: create the listener of one and wait for it to open;
\* its transport may be refused.
StartListener(i) ==
  \/ i > Endpoints /\ init' = <<"good">> /\ UNCHANGED <<run, listeners_>>
  \/ i <= Endpoints /\ init' = <<"bad">> /\ UNCHANGED <<run, listeners_>>
  \/ /\ i <= Endpoints /\ listeners_' = Append(listeners_, i)
     /\ RunStarts(i) /\ init' = <<"open", i>>

InitAsync ==
  /\ init = <<"off">> /\ stopping = <<"off">> /\ alive_
  /\ StartListener(1)
  /\ UNCHANGED <<acceptor_, opened_, open_, close_, stopping, connections_, alive_,
                 accepted>>

\* The acceptor opened, or failed to: go on with the next endpoint, or return.
InitResumes ==
  /\ init[1] = "open" /\ open_[init[2]] # "waiting"
  /\ \/ open_[init[2]] = "bad" /\ init' = <<"bad">> /\ UNCHANGED <<run, listeners_>>
     \/ open_[init[2]] = "good" /\ StartListener(init[2] + 1)
  /\ UNCHANGED <<acceptor_, opened_, open_, close_, stopping, connections_, alive_,
                 accepted>>

\* Mutant: the accept handler does not ask whether the manager is alive.
HandlerIsAlive == TRUE

\* alive.expired() in the accept handler.
HandlerAlive == alive_

\* An accepted connection becomes the manager's, unless that is shutting down.
OnSessionAccepted(i) ==
  /\ run[i] = "accepting" /\ i \notin acceptor_ /\ accepted < MaxAccepted
  /\ accepted' = accepted + 1
  /\ connections_' = IF HandlerAlive THEN connections_ \cup {accepted'}
                     ELSE connections_
  /\ UNCHANGED <<listenerVars, init, stopping, listeners_, alive_>>

\* A connection closes; its handler is dropped when the manager is gone.
OnConnectionClosed ==
  /\ alive_
  /\ \E c \in connections_ : connections_' = connections_ \ {c}
  /\ UNCHANGED <<listenerVars, init, stopping, listeners_, alive_, accepted>>

\* The listeners are awaited one after the other, then the connections dropped.
AwaitListeners(listeners) ==
  \/ /\ listeners = <<>>
     /\ stopping' = <<"done">> /\ connections_' = {} /\ UNCHANGED acceptor_
  \/ /\ listeners # <<>>
     /\ stopping' = <<"closing", listeners>>
     /\ acceptor_' = acceptor_ \cup {Head(listeners)} /\ UNCHANGED connections_

ShutdownAsync ==
  /\ stopping = <<"off">> /\ alive_
  /\ alive_' = FALSE /\ listeners_' = <<>>
  /\ AwaitListeners(listeners_)
  /\ UNCHANGED <<run, opened_, open_, close_, init, accepted>>

ShutdownResumes ==
  /\ stopping[1] = "closing" /\ Head(stopping[2]) \in close_
  /\ AwaitListeners(Tail(stopping[2]))
  /\ UNCHANGED <<run, opened_, open_, close_, init, listeners_, alive_, accepted>>

LNext ==
  \/ InitAsync \/ InitResumes \/ ShutdownAsync \/ ShutdownResumes
  \/ OnConnectionClosed
  \/ \E i \in Listener : Opened(i) \/ RunEnds(i) \/ OnSessionAccepted(i)

LSpec == LInit /\ [][LNext]_lvars

-----------------------------------------------------------------------------
\* When ShutdownAsync has returned the manager owns no connection, and takes
\* none even from a listener that InitAsync started during the shutdown.
NoOrphanConnection == stopping = <<"done">> => connections_ = {}

\* InitAsync reports success only when every listener has opened.
GoodMeansListening == init = <<"good">> => opened_ = Listener

\* No accepted connection outlives the server unseen, and a start that answers
\* Good left a listener listening (remote_session_manager.cpp, remote_listener.h).
ListenersAreSound == NoOrphanConnection /\ GoodMeansListening

\* InitAsync and ShutdownAsync return: no listener ends without completing what
\* they wait for.
StartAndStopReturn ==
  /\ (init[1] = "open") ~> (init[1] # "open")
  /\ (stopping[1] = "closing") ~> (stopping = <<"done">>)
=============================================================================
