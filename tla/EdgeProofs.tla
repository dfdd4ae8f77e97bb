----------------------------- MODULE EdgeProofs -----------------------------
(***************************************************************************)
(* Proofs about the two edges of a session: the connections it runs over,  *)
(* and the adapter that gives legacy items to its subscriptions.           *)
(***************************************************************************)
EXTENDS Connections, LegacyAdapter, TLAPS

\* A step that names no prover is tried with these.
USE SMTT(30), ZenonT(30)

(***************************************************************************)
(* Connections, for any number of endpoints, any messages and any way in   *)
(* which the stream hands out its bytes: no connection is left over by a   *)
(* shutdown, a start that answers Good listens, and what is delivered is   *)
(* what was sent, in order.                                                *)
(***************************************************************************)

(***************************************************************************)
(* Listeners.  The manager is alive exactly until ShutdownAsync is called; *)
(* InitAsync waits for the listener of an endpoint only when those of all  *)
(* earlier endpoints have opened.                                          *)
(***************************************************************************)
ListenersInv ==
  /\ alive_ = TRUE <=> stopping = <<"off">>
  /\ NoOrphanConnection
  /\ opened_ \subseteq Listener /\ DOMAIN open_ = Listener
  /\ \A i \in Listener : open_[i] = "good" => i \in opened_
  /\ \/ init \in {<<"off">>, <<"bad">>}
     \/ init = <<"good">> /\ opened_ = Listener
     \/ \E i \in Listener : init = <<"open", i>> /\ 1 .. i - 1 \subseteq opened_

\* Whether it starts the listener of the next endpoint or has started them all,
\* InitAsync has waited for every earlier one.
LEMMA StartKeepsInv ==
  ASSUME ListenersInv, NEW i \in Nat \ {0}, 1 .. i - 1 \subseteq opened_,
         i - 1 <= Endpoints, StartListener(i),
         UNCHANGED <<opened_, open_, stopping, connections_, alive_>>
  PROVE  ListenersInv'
<1>1. CASE i > Endpoints /\ init' = <<"good">>
  <2>1. i - 1 = Endpoints
    BY <1>1, ListenersAssumption
  <2>2. opened_ = Listener
    BY <2>1, Zenon DEF ListenersInv, Listener
  <2> QED
    BY <1>1, <2>2 DEF ListenersInv, NoOrphanConnection, Listener
<1>2. CASE init' = <<"bad">>
  BY <1>2 DEF ListenersInv, NoOrphanConnection, Listener
<1>3. CASE i <= Endpoints /\ init' = <<"open", i>>
  <2>1. i \in Listener
    BY <1>3, ListenersAssumption DEF Listener
  <2> QED
    BY <1>3, <2>1 DEF ListenersInv, NoOrphanConnection, Listener
<1> QED
  BY <1>1, <1>2, <1>3, Zenon DEF StartListener

\* Every step of a listener or of the manager keeps the invariant.
LEMMA ListenersInvStep == ListenersInv /\ [LNext]_lvars => ListenersInv'
<1> SUFFICES ASSUME ListenersInv, [LNext]_lvars PROVE ListenersInv'
  OBVIOUS
<1>1. CASE InitAsync
  <2>1. 1 .. 1 - 1 \subseteq opened_ /\ 1 - 1 <= Endpoints
    BY ListenersAssumption
  <2> QED
    BY <1>1, <2>1, StartKeepsInv DEF InitAsync
<1>2. CASE InitResumes
  <2>1. PICK i \in Listener : init = <<"open", i>> /\ 1 .. i - 1 \subseteq opened_
    BY <1>2 DEF InitResumes, ListenersInv
  <2>2. init[2] = i /\ i \in Nat \ {0} /\ i <= Endpoints
    BY <2>1, ListenersAssumption DEF Listener
  <2>3. UNCHANGED <<opened_, open_, stopping, connections_, alive_>>
    BY <1>2 DEF InitResumes
  <2>4. CASE init' = <<"bad">>
    BY <2>3, <2>4 DEF ListenersInv, NoOrphanConnection, Listener
  <2>5. CASE open_[i] = "good" /\ StartListener(i + 1)
    <3>1. i \in opened_
      BY <2>5 DEF ListenersInv
    <3>2. 1 .. (i + 1) - 1 \subseteq opened_ /\ (i + 1) - 1 <= Endpoints
      BY <2>1, <2>2, <3>1
    <3>3. i + 1 \in Nat \ {0}
      BY <2>2
    <3> QED
      BY <2>3, <2>5, <3>2, <3>3, StartKeepsInv
  <2> QED
    BY <1>2, <2>2, <2>4, <2>5 DEF InitResumes
<1>3. CASE ShutdownAsync
  BY <1>3 DEF ShutdownAsync, AwaitListeners, ListenersInv, NoOrphanConnection, Listener
<1>4. CASE ShutdownResumes
  <2>1. stopping # <<"off">> /\ UNCHANGED <<opened_, open_, init, alive_>>
    BY <1>4 DEF ShutdownResumes
  <2>2. \/ stopping' = <<"done">> /\ connections_' = {}
        \/ stopping' = <<"closing", Tail(stopping[2])>>
    BY <1>4 DEF ShutdownResumes, AwaitListeners
  <2> QED
    BY <2>1, <2>2 DEF ListenersInv, NoOrphanConnection, Listener
<1>5. CASE OnConnectionClosed
  BY <1>5 DEF OnConnectionClosed, ListenersInv, NoOrphanConnection, Listener, listenerVars
<1>6. ASSUME NEW i \in Listener, Opened(i) PROVE ListenersInv'
  <2>1. /\ opened_' = opened_ \cup {i} /\ open_' = [open_ EXCEPT ![i] = "good"]
        /\ UNCHANGED managerVars
    BY <1>6 DEF Opened
  <2> QED
    BY <2>1, Zenon DEF ListenersInv, NoOrphanConnection, Listener, managerVars
<1>7. ASSUME NEW i \in Listener, RunEnds(i) PROVE ListenersInv'
  <2>1. /\ opened_' = opened_ /\ UNCHANGED managerVars
        /\ DOMAIN open_' = Listener
        /\ \A j \in Listener : open_'[j] = "good" => open_[j] = "good"
    BY <1>7 DEF RunEnds, OnTransportClosed, OnListenerException, ListenersInv
  <2> QED
    BY <2>1 DEF ListenersInv, NoOrphanConnection, Listener, managerVars
<1>8. ASSUME NEW i \in Listener, OnSessionAccepted(i) PROVE ListenersInv'
  <2>1. /\ UNCHANGED <<opened_, open_, init, stopping, alive_>>
        /\ connections_' # connections_ => alive_
    BY <1>8 DEF OnSessionAccepted, HandlerAlive, listenerVars
  <2> QED
    BY <2>1 DEF ListenersInv, NoOrphanConnection, Listener
<1>9. CASE UNCHANGED lvars
  BY <1>9 DEF lvars, ListenersInv, NoOrphanConnection, Listener
<1> QED
  BY <1>1, <1>2, <1>3, <1>4, <1>5, <1>6, <1>7, <1>8, <1>9 DEF LNext

\* However starting, accepting and stopping interleave, a finished shutdown has
\* left no connection, and InitAsync answers Good only when every endpoint has
\* its listener (remote_session_manager.cpp, remote_listener.h).
THEOREM ListenersStaySound == LSpec => []ListenersAreSound
<1>1. LInit => ListenersInv
  BY DEF LInit, ListenersInv, NoOrphanConnection, Listener
<1>2. ListenersInv => ListenersAreSound
  BY DEF ListenersInv, ListenersAreSound, GoodMeansListening
<1> QED
  BY <1>1, <1>2, ListenersInvStep, PTL DEF LSpec

-----------------------------------------------------------------------------
(***************************************************************************)
(* Framing.                                                                *)
(***************************************************************************)
\* Quotient and remainder of a size by the radix of its header.
LEMMA DivMod ==
  ASSUME NEW n \in Nat
  PROVE  /\ n = Radix * (n \div Radix) + (n % Radix)
         /\ n \div Radix \in Nat /\ (n % Radix) \in 0 .. Radix - 1
<1>1. Radix \in Nat /\ Radix > 1
  BY FramingAssumption
<1>2. n = Radix * (n \div Radix) + (n % Radix)
  BY <1>1
<1>3. n \div Radix \in Int /\ (n % Radix) \in 0 .. Radix - 1
  BY <1>1
<1>4. ASSUME NEW q \in Int, q < 0 PROVE Radix * q <= 0 - Radix
  BY <1>1, <1>4
<1>5. Radix * (n \div Radix) \in Int
  BY <1>1, <1>3
<1> QED
  BY <1>1, <1>2, <1>3, <1>4, <1>5

\* A number below the radix is its own remainder.
LEMMA SmallMod ==
  ASSUME NEW R \in Nat, NEW n \in Nat, n < R
  PROVE  n % R = n
OBVIOUS

\* A size of one digit more has a quotient within the digits that are left.
LEMMA DivBound ==
  ASSUME NEW n \in Nat, NEW m \in Nat, n < Radix * m
  PROVE  n \div Radix < m
<1>1. n = Radix * (n \div Radix) + (n % Radix) /\ n \div Radix \in Nat /\ (n % Radix) >= 0
  BY DivMod
<1>2. ASSUME NEW q \in Nat, m <= q PROVE Radix * m <= Radix * q
  BY <1>2, FramingAssumption
<1>3. Radix * (n \div Radix) \in Nat /\ Radix * m \in Nat /\ (n % Radix) \in Nat
  BY DivMod, FramingAssumption
<1> QED
  BY <1>1, <1>2, <1>3

\* A size that fits the header is read from it as it was written.
LEMMA HeaderRoundTrip ==
  ASSUME NEW n \in MessageSizes
  PROVE  /\ Header(n) \in Bytes /\ Len(Header(n)) = kHeaderSize
         /\ GetMessagePayloadSize(Header(n)) = n
<1> DEFINE q1 == n \div Radix
           q2 == q1 \div Radix
           q3 == q2 \div Radix
<1>1. n \in Nat /\ n < Radix * (Radix * (Radix * Radix))
  BY FramingAssumption DEF MessageSizes
<1>2. /\ Radix \in Nat /\ Radix * Radix \in Nat /\ Radix * (Radix * Radix) \in Nat
  BY FramingAssumption
<1>3. n = Radix * q1 + (n % Radix) /\ q1 \in Nat /\ (n % Radix) \in 0 .. Radix - 1
  BY <1>1, DivMod
<1>4. q1 = Radix * q2 + (q1 % Radix) /\ q2 \in Nat /\ (q1 % Radix) \in 0 .. Radix - 1
  BY <1>3, DivMod
<1>5. q2 = Radix * q3 + (q2 % Radix) /\ q3 \in Nat /\ (q2 % Radix) \in 0 .. Radix - 1
  BY <1>4, DivMod
<1>6. q1 < Radix * (Radix * Radix)
  BY <1>1, <1>2, DivBound
<1>7. q2 < Radix * Radix
  BY <1>2, <1>3, <1>6, DivBound
<1>8. q3 < Radix
  BY <1>2, <1>4, <1>7, DivBound
<1> HIDE DEF q1, q2, q3
<1>9. q3 % Radix = q3
  BY ONLY <1>2, <1>5, <1>8, SmallMod, Zenon
<1>10. Header(n) = <<(n % Radix), (q1 % Radix), (q2 % Radix), q3>>
  <2>1. Header(n) = <<(n % Radix), (q1 % Radix), (q2 % Radix), (q3 % Radix)>>
    BY ONLY DEF Header, q1, q2, q3
  <2> QED
    BY <1>9, <2>1
<1>11. GetMessagePayloadSize(Header(n))
         = (n % Radix) + Radix * ((q1 % Radix) + Radix * ((q2 % Radix) + Radix * q3))
  BY <1>10 DEF GetMessagePayloadSize
<1>12. (q2 % Radix) + Radix * q3 = q2
  BY <1>2, <1>5
<1>13. (q1 % Radix) + Radix * q2 = q1
  BY <1>2, <1>3, <1>4
<1>14. (n % Radix) + Radix * q1 = n
  BY <1>1, <1>2, <1>3
<1>15. q3 \in 0 .. Radix - 1
  BY <1>2, <1>5, <1>8
<1>16. Header(n) \in Bytes /\ Len(Header(n)) = kHeaderSize
  BY <1>3, <1>4, <1>5, <1>10, <1>15 DEF Bytes, kHeaderSize
<1> QED
  BY <1>11, <1>12, <1>13, <1>14, <1>16

\* A payload that can be sent.
Messages == {m \in Bytes : m # <<>> /\ Len(m) \in MessageSizes}

(***************************************************************************)
(* `bytes` is the messages from number n + 1 on, each with its header;     *)
(* message i starts after off[i] bytes.  The messages before n + 1 have    *)
(* been read.                                                              *)
(***************************************************************************)
FramedAt(off, msgs, n, bytes) ==
  /\ off[n + 1] = 0 /\ off[Len(msgs) + 1] = Len(bytes)
  /\ \A i, j \in n + 1 .. Len(msgs) + 1 : i <= j => off[i] <= off[j]
  /\ \A i \in n + 1 .. Len(msgs) :
       /\ off[i + 1] = off[i] + kHeaderSize + Len(msgs[i])
       /\ \A k \in 1 .. kHeaderSize : bytes[off[i] + k] = Header(Len(msgs[i]))[k]
       /\ \A k \in 1 .. Len(msgs[i]) : bytes[off[i] + kHeaderSize + k] = msgs[i][k]

Framed(msgs, n, bytes) ==
  \E off \in [n + 1 .. Len(msgs) + 1 -> Nat] : FramedAt(off, msgs, n, bytes)

\* Where the bytes of a frame lie that starts after a bytes of n.
LEMMA FrameWithin ==
  ASSUME NEW a \in Nat, NEW h \in Nat, NEW l \in Nat, NEW n \in Nat, a + h + l <= n
  PROVE  /\ \A k \in 1 .. h : a + k \in 1 .. n
         /\ \A k \in 1 .. l : a + h + k \in 1 .. n
         /\ \A k \in 1 .. h + l : a + k \in 1 .. n
OBVIOUS

\* Shifting such a frame by c bytes.
LEMMA FrameShift ==
  ASSUME NEW a \in Nat, NEW b \in Nat, NEW c \in Nat, NEW h \in Nat, NEW l \in Nat,
         NEW n \in Nat, c <= n, b = a - c
  PROVE  /\ a + h + l <= n => b + h + l <= n - c
         /\ (a + h + l) - c = b + h + l
         /\ c + b = a /\ n - c \in Nat
         /\ \A k \in 1 .. h : k \in 1 .. h + l
         /\ \A k \in 1 .. l : /\ h + k \in 1 .. h + l
                              /\ b + (h + k) = b + h + k
                              /\ a + (h + k) = a + h + k
OBVIOUS

\* The elements of any sequence.
LEMMA ElementsOfSeq ==
  ASSUME NEW S, NEW s \in Seq(S)
  PROVE  Len(s) \in Nat /\ \A i \in 1 .. Len(s) : s[i] \in S
OBVIOUS

\* The elements of a part of a byte sequence.
LEMMA SubSeqElements ==
  ASSUME NEW s \in Bytes, NEW a \in Nat, NEW b \in Nat, a <= b, b <= Len(s)
  PROVE  /\ SubSeq(s, a + 1, b) \in Bytes
         /\ Len(SubSeq(s, a + 1, b)) = b - a
         /\ \A k \in 1 .. b - a : SubSeq(s, a + 1, b)[k] = s[a + k]
<1> DEFINE t == SubSeq(s, a + 1, b)
<1>1. Len(s) \in Nat /\ \A i \in 1 .. Len(s) : s[i] \in 0 .. Radix - 1
  <2>1. s \in Seq(0 .. Radix - 1)
    BY DEF Bytes
  <2> HIDE DEF t
  <2> QED
    BY ONLY <2>1, ElementsOfSeq, Zenon
<1>2. \A i \in a + 1 .. b : s[i] \in 0 .. Radix - 1
  BY <1>1
<1>3. /\ t \in Seq(0 .. Radix - 1)
      /\ Len(t) = IF a + 1 <= b THEN b - (a + 1) + 1 ELSE 0
      /\ \A i \in 1 .. b - (a + 1) + 1 : t[i] = s[(a + 1) + i - 1]
  BY <1>2
<1> HIDE DEF t
<1>4. \A k \in 1 .. b - a : t[k] = s[a + k]
  <2> TAKE k \in 1 .. b - a
  <2>1. k \in 1 .. b - (a + 1) + 1 /\ (a + 1) + k - 1 = a + k
    OBVIOUS
  <2> QED
    BY <1>3, <2>1
<1>5. Len(t) = b - a
  BY <1>3
<1> QED
  BY <1>3, <1>4, <1>5, Zenon DEF t, Bytes

\* The elements of two byte sequences put together.
LEMMA ConcatElements ==
  ASSUME NEW s \in Bytes, NEW t \in Bytes
  PROVE  /\ s \o t \in Bytes /\ Len(s \o t) = Len(s) + Len(t)
         /\ Len(s) \in Nat /\ Len(t) \in Nat
         /\ \A k \in 1 .. Len(s) : (s \o t)[k] = s[k]
         /\ \A k \in 1 .. Len(t) : (s \o t)[Len(s) + k] = t[k]
BY DEF Bytes

\* Two byte sequences with the same elements.
LEMMA SameBytes ==
  ASSUME NEW s \in Bytes, NEW t \in Bytes, Len(s) = Len(t),
         \A k \in 1 .. Len(s) : s[k] = t[k]
  PROVE  s = t
BY DEF Bytes

\* Three byte sequences put together.
LEMMA BytesInTurn ==
  ASSUME NEW s \in Bytes, NEW t \in Bytes, NEW u \in Bytes
  PROVE  (s \o t) \o u = s \o (t \o u)
<1>1. PICK a \in Bytes, b \in Bytes : a = s \o t /\ b = t \o u
  BY ConcatElements, Zenon
<1>2. PICK l \in Bytes, r \in Bytes : l = a \o u /\ r = s \o b
  BY ConcatElements, Zenon
<1>3. /\ Len(s) \in Nat /\ Len(t) \in Nat /\ Len(u) \in Nat
      /\ Len(a) = Len(s) + Len(t) /\ Len(b) = Len(t) + Len(u)
      /\ Len(l) = Len(a) + Len(u) /\ Len(r) = Len(s) + Len(b)
  BY <1>1, <1>2 DEF Bytes
<1>4. ASSUME NEW k \in 1 .. Len(l) PROVE l[k] = r[k]
  <2>1. CASE k \in 1 .. Len(s)
    <3>1. k \in 1 .. Len(a) /\ a[k] = s[k]
      BY <1>1, <1>3, <2>1, ConcatElements
    <3> QED
      BY <1>2, <2>1, <3>1, ConcatElements
  <2>2. CASE k - Len(s) \in 1 .. Len(t)
    <3> DEFINE i == k - Len(s)
    <3>1. k = Len(s) + i /\ k \in 1 .. Len(a) /\ i \in 1 .. Len(b)
      BY <1>3, <2>2
    <3>2. a[k] = t[i] /\ b[i] = t[i]
      BY <1>1, <2>2, <3>1, ConcatElements
    <3>3. l[k] = a[k]
      BY <1>2, <3>1, ConcatElements
    <3>4. r[k] = b[i]
      BY <1>2, <3>1, ConcatElements
    <3> QED
      BY <3>2, <3>3, <3>4
  <2>3. CASE k - Len(s) - Len(t) \in 1 .. Len(u)
    <3> DEFINE i == k - Len(s) - Len(t)
    <3>1. /\ k = Len(a) + i /\ k = Len(s) + (Len(t) + i) /\ Len(t) + i \in 1 .. Len(b)
          /\ i \in 1 .. Len(u)
      BY <1>3, <2>3
    <3> HIDE DEF i
    <3>2. l[Len(a) + i] = u[i]
      BY <1>2, <3>1, ConcatElements
    <3>3. r[Len(s) + (Len(t) + i)] = b[Len(t) + i]
      BY <1>2, <3>1, ConcatElements
    <3>4. b[Len(t) + i] = u[i]
      BY <1>1, <3>1, ConcatElements
    <3> QED
      BY <3>1, <3>2, <3>3, <3>4
  <2> QED
    BY <1>3, <2>1, <2>2, <2>3
<1>5. Len(l) = Len(r)
  BY <1>3
<1>6. l = r
  BY <1>4, <1>5, SameBytes, Zenon
<1> QED
  BY <1>1, <1>2, <1>6, Zenon

\* The elements of a frame behind other bytes.
LEMMA FrameElements ==
  ASSUME NEW bytes \in Bytes, NEW h \in Bytes, NEW m \in Bytes
  PROVE  /\ bytes \o h \o m \in Bytes
         /\ Len(bytes \o h \o m) = Len(bytes) + Len(h) + Len(m)
         /\ \A k \in 1 .. Len(bytes) : (bytes \o h \o m)[k] = bytes[k]
         /\ \A k \in 1 .. Len(h) : (bytes \o h \o m)[Len(bytes) + k] = h[k]
         /\ \A k \in 1 .. Len(m) : (bytes \o h \o m)[Len(bytes) + Len(h) + k] = m[k]
<1> DEFINE front == bytes \o h
           all == front \o m
<1>1. /\ front \in Bytes /\ Len(front) = Len(bytes) + Len(h)
      /\ Len(bytes) \in Nat /\ Len(h) \in Nat
      /\ \A k \in 1 .. Len(bytes) : front[k] = bytes[k]
      /\ \A k \in 1 .. Len(h) : front[Len(bytes) + k] = h[k]
  BY ConcatElements
<1> HIDE DEF front
<1>2. /\ all \in Bytes /\ Len(all) = Len(front) + Len(m) /\ Len(m) \in Nat
      /\ \A k \in 1 .. Len(front) : all[k] = front[k]
      /\ \A k \in 1 .. Len(m) : all[Len(front) + k] = m[k]
  BY <1>1, ConcatElements, Zenon
<1> HIDE DEF all
<1>4. /\ \A k \in 1 .. Len(bytes) : all[k] = bytes[k]
      /\ \A k \in 1 .. Len(h) : all[Len(bytes) + k] = h[k]
      /\ \A k \in 1 .. Len(m) : all[Len(bytes) + Len(h) + k] = m[k]
  BY <1>1, <1>2
<1> QED
  BY <1>1, <1>2, <1>4, Zenon DEF all, front

\* A message written last.
LEMMA FramedAppend ==
  ASSUME NEW msgs \in Seq(Messages), NEW m \in Messages, NEW n \in 0 .. Len(msgs),
         NEW bytes \in Bytes, Framed(msgs, n, bytes)
  PROVE  Framed(Append(msgs, m), n, bytes \o Header(Len(m)) \o m)
<1> DEFINE L == Len(msgs)
           all == bytes \o Header(Len(m)) \o m
           msgs2 == Append(msgs, m)
<1>1. PICK off \in [n + 1 .. L + 1 -> Nat] : FramedAt(off, msgs, n, bytes)
  BY DEF Framed
<1>2. /\ m \in Bytes /\ Len(m) \in Nat /\ Len(bytes) \in Nat /\ L \in Nat
      /\ Header(Len(m)) \in Bytes /\ Len(Header(Len(m))) = kHeaderSize
  BY HeaderRoundTrip DEF Messages, Bytes
<1>3. /\ Len(all) = Len(bytes) + kHeaderSize + Len(m)
      /\ \A k \in 1 .. Len(bytes) : all[k] = bytes[k]
      /\ \A k \in 1 .. kHeaderSize : all[Len(bytes) + k] = Header(Len(m))[k]
      /\ \A k \in 1 .. Len(m) : all[Len(bytes) + kHeaderSize + k] = m[k]
  <2>1. PICK h \in Bytes : h = Header(Len(m)) /\ Len(h) = kHeaderSize
    BY <1>2, Zenon
  <2>2. /\ Len(bytes \o h \o m) = Len(bytes) + Len(h) + Len(m)
        /\ \A k \in 1 .. Len(bytes) : (bytes \o h \o m)[k] = bytes[k]
        /\ \A k \in 1 .. Len(h) : (bytes \o h \o m)[Len(bytes) + k] = h[k]
        /\ \A k \in 1 .. Len(m) : (bytes \o h \o m)[Len(bytes) + Len(h) + k] = m[k]
    <3>1. m \in Bytes
      BY <1>2, Zenon
    <3> QED
      BY ONLY <3>1, FrameElements
  <2> QED
    BY <2>1, <2>2, Zenon
<1>4. /\ Len(msgs2) = L + 1 /\ msgs2[L + 1] = m
      /\ \A i \in 1 .. L : msgs2[i] = msgs[i]
  OBVIOUS
<1>5. \A i \in 1 .. L : Len(msgs[i]) \in Nat
  BY DEF Messages, Bytes
<1> DEFINE off2 == [i \in n + 1 .. L + 2 |-> IF i = L + 2 THEN Len(all) ELSE off[i]]
<1> HIDE DEF all, msgs2
<1>6. /\ off2 \in [n + 1 .. Len(msgs2) + 1 -> Nat]
      /\ \A i \in n + 1 .. L + 1 : off2[i] = off[i]
      /\ off2[L + 2] = Len(bytes) + kHeaderSize + Len(m)
  <2>1. Len(all) \in Nat
    BY <1>2, <1>3 DEF kHeaderSize
  <2>2. \A i \in n + 1 .. L + 2 : i # L + 2 => i \in n + 1 .. L + 1
    BY <1>2
  <2>3. \A i \in n + 1 .. L + 2 : (IF i = L + 2 THEN Len(all) ELSE off[i]) \in Nat
    BY <2>1, <2>2
  <2>4. Len(msgs2) + 1 = L + 2 /\ L + 2 \in n + 1 .. L + 2
    BY <1>2, <1>4
  <2>5. off2 \in [n + 1 .. L + 2 -> Nat]
    BY <2>3
  <2>6. \A i \in n + 1 .. L + 1 : i \in n + 1 .. L + 2 /\ i # L + 2
    BY <1>2
  <2>7. \A i \in n + 1 .. L + 1 : off2[i] = off[i]
    BY <2>6
  <2> QED
    BY <1>3, <2>4, <2>5, <2>7, Zenon
<1> HIDE DEF off2
<1>7. off2[n + 1] = 0 /\ off2[Len(msgs2) + 1] = Len(all)
  BY <1>1, <1>2, <1>3, <1>4, <1>6 DEF FramedAt
<1>8. ASSUME NEW i \in n + 1 .. Len(msgs2) + 1, NEW j \in n + 1 .. Len(msgs2) + 1, i <= j
      PROVE  off2[i] <= off2[j]
  <2>1. CASE j \in n + 1 .. L + 1
    <3>1. i \in n + 1 .. L + 1
      BY <1>2, <1>4, <1>8, <2>1
    <3> QED
      BY <1>1, <1>6, <1>8, <2>1, <3>1, Zenon DEF FramedAt
  <2>2. CASE j = L + 2 /\ i \in n + 1 .. L + 1
    <3>1. off[i] <= off[L + 1] /\ off[L + 1] = Len(bytes)
      BY <1>1, <1>2, <2>2, SMTT(30) DEF FramedAt
    <3>2. off2[i] = off[i] /\ off2[j] = Len(bytes) + kHeaderSize + Len(m)
      BY <1>2, <1>6, <2>2
    <3>3. off[i] \in Nat
      BY <1>1, <2>2, Zenon
    <3> QED
      BY ONLY <1>2, <3>1, <3>2, <3>3 DEF kHeaderSize
  <2>3. CASE i = L + 2 /\ j = L + 2
    BY <1>2, <1>6, <2>3 DEF kHeaderSize
  <2> QED
    BY <1>2, <1>4, <1>8, <2>1, <2>2, <2>3
<1>9. ASSUME NEW i \in n + 1 .. Len(msgs2)
      PROVE  /\ off2[i + 1] = off2[i] + kHeaderSize + Len(msgs2[i])
             /\ \A k \in 1 .. kHeaderSize : all[off2[i] + k] = Header(Len(msgs2[i]))[k]
             /\ \A k \in 1 .. Len(msgs2[i]) : all[off2[i] + kHeaderSize + k] = msgs2[i][k]
  <2>1. CASE i = L + 1
    <3>1. off2[i] = Len(bytes) /\ off2[i + 1] = Len(bytes) + kHeaderSize + Len(m)
      <4>1. L + 1 \in n + 1 .. L + 1 /\ i + 1 = L + 2
        BY <1>2, <2>1
      <4>2. off[L + 1] = Len(bytes)
        BY <1>1, Zenon DEF FramedAt
      <4> QED
        BY <1>6, <2>1, <4>1, <4>2, Zenon
    <3> QED
      BY <1>3, <1>4, <2>1, <3>1, Zenon
  <2>2. CASE i \in n + 1 .. L
    <3>0. i \in 1 .. L /\ i \in n + 1 .. L + 1 /\ i + 1 \in n + 1 .. L + 1
      BY <1>2, <2>2
    <3>1. msgs2[i] = msgs[i] /\ off2[i] = off[i] /\ off2[i + 1] = off[i + 1]
      BY <1>4, <1>6, <3>0, Zenon
    <3>2. /\ off[i + 1] = off[i] + kHeaderSize + Len(msgs[i])
          /\ \A k \in 1 .. kHeaderSize : bytes[off[i] + k] = Header(Len(msgs[i]))[k]
          /\ \A k \in 1 .. Len(msgs[i]) : bytes[off[i] + kHeaderSize + k] = msgs[i][k]
      BY <1>1, <2>2, Zenon DEF FramedAt
    <3>3. off[i + 1] <= Len(bytes) /\ off[i] \in Nat /\ Len(msgs[i]) \in Nat
      <4>1. L + 1 \in n + 1 .. L + 1 /\ i + 1 <= L + 1
        BY <1>2, <2>2
      <4>2. off[i + 1] <= off[L + 1] /\ off[L + 1] = Len(bytes)
        BY <1>1, <3>0, <4>1, Zenon DEF FramedAt
      <4> QED
        BY <1>5, <3>0, <4>2, Zenon
    <3>4. /\ \A k \in 1 .. kHeaderSize : off[i] + k \in 1 .. Len(bytes)
          /\ \A k \in 1 .. Len(msgs[i]) : off[i] + kHeaderSize + k \in 1 .. Len(bytes)
      <4>1. kHeaderSize \in Nat
        BY DEF kHeaderSize
      <4>2. off[i] + kHeaderSize + Len(msgs[i]) <= Len(bytes)
        BY <3>2, <3>3
      <4> QED
        BY ONLY <1>2, <3>3, <4>1, <4>2, FrameWithin, Zenon
    <3>5. /\ \A k \in 1 .. kHeaderSize : all[off[i] + k] = bytes[off[i] + k]
          /\ \A k \in 1 .. Len(msgs[i]) :
               all[off[i] + kHeaderSize + k] = bytes[off[i] + kHeaderSize + k]
      BY <1>3, <3>4, Zenon
    <3>6. \A k \in 1 .. kHeaderSize : all[off[i] + k] = Header(Len(msgs[i]))[k]
      BY <3>2, <3>5, Zenon
    <3>7. \A k \in 1 .. Len(msgs[i]) : all[off[i] + kHeaderSize + k] = msgs[i][k]
      BY <3>2, <3>5, Zenon
    <3> QED
      BY <3>1, <3>2, <3>6, <3>7, Zenon
  <2> QED
    BY <1>2, <1>4, <2>1, <2>2, SMTT(30)
<1>10. FramedAt(off2, msgs2, n, all)
  BY <1>7, <1>8, <1>9, Zenon DEF FramedAt
<1> QED
  BY <1>6, <1>10, Zenon DEF Framed, msgs2, all

\* With every message read there are no bytes left.
LEMMA FramedEnd ==
  ASSUME NEW msgs \in Seq(Messages), NEW bytes \in Bytes, Framed(msgs, Len(msgs), bytes)
  PROVE  Len(bytes) = 0
BY DEF Framed, FramedAt

\* The first message not read yet, and the bytes behind it.
LEMMA FramedNext ==
  ASSUME NEW msgs \in Seq(Messages), NEW n \in Nat, n < Len(msgs),
         NEW bytes \in Bytes, Framed(msgs, n, bytes)
  PROVE  LET m == msgs[n + 1]
             rest == SubSeq(bytes, kHeaderSize + Len(m) + 1, Len(bytes))
         IN /\ kHeaderSize + Len(m) <= Len(bytes)
            /\ \A k \in 1 .. kHeaderSize : bytes[k] = Header(Len(m))[k]
            /\ \A k \in 1 .. Len(m) : bytes[kHeaderSize + k] = m[k]
            /\ rest \in Bytes /\ Framed(msgs, n + 1, rest)
            /\ Len(rest) = Len(bytes) - (kHeaderSize + Len(m))
            /\ \A k \in 1 .. Len(rest) : rest[k] = bytes[kHeaderSize + Len(m) + k]
<1> DEFINE L == Len(msgs)
           m == msgs[n + 1]
           c == kHeaderSize + Len(m)
           rest == SubSeq(bytes, c + 1, Len(bytes))
<1>1. PICK off \in [n + 1 .. L + 1 -> Nat] : FramedAt(off, msgs, n, bytes)
  BY DEF Framed
<1>2. /\ L \in Nat /\ n + 1 \in 1 .. L /\ m \in Messages /\ Len(m) \in Nat
      /\ Len(bytes) \in Nat /\ c \in Nat
  BY DEF Messages, Bytes, kHeaderSize
<1>3. /\ off[n + 2] = c
      /\ \A k \in 1 .. kHeaderSize : bytes[k] = Header(Len(m))[k]
      /\ \A k \in 1 .. Len(m) : bytes[kHeaderSize + k] = m[k]
  <2>1. off[n + 1] = 0 /\ (n + 1) + 1 = n + 2 /\ n + 1 \in n + 1 .. L
    BY <1>1, <1>2 DEF FramedAt
  <2>2. /\ off[n + 2] = 0 + kHeaderSize + Len(m)
        /\ \A k \in 1 .. kHeaderSize : bytes[0 + k] = Header(Len(m))[k]
        /\ \A k \in 1 .. Len(m) : bytes[0 + kHeaderSize + k] = m[k]
    BY <1>1, <2>1 DEF FramedAt
  <2> QED
    BY <1>2, <2>2 DEF kHeaderSize
<1>4. c <= Len(bytes)
  <2>1. n + 2 \in n + 1 .. L + 1 /\ L + 1 \in n + 1 .. L + 1 /\ n + 2 <= L + 1
    BY <1>2
  <2> QED
    BY <1>1, <1>3, <2>1 DEF FramedAt
<1> HIDE DEF c
<1>5. /\ rest \in Bytes /\ Len(rest) = Len(bytes) - c
      /\ \A k \in 1 .. Len(rest) : rest[k] = bytes[c + k]
  <2>1. /\ rest \in Bytes /\ Len(rest) = Len(bytes) - c
        /\ \A k \in 1 .. Len(bytes) - c : rest[k] = bytes[c + k]
    <3>1. Len(bytes) <= Len(bytes)
      BY <1>2
    <3> QED
      BY ONLY <1>2, <1>4, <3>1, bytes \in Bytes, SubSeqElements, Zenon
  <2> QED
    BY ONLY <2>1, Zenon
<1> DEFINE off2 == [i \in n + 2 .. L + 1 |-> off[i] - c]
<1> HIDE DEF rest, m
<1>6. \A i \in n + 2 .. L + 1 : off[i] - c \in Nat /\ i \in n + 1 .. L + 1
  <2> SUFFICES ASSUME NEW i \in n + 2 .. L + 1
               PROVE  off[i] - c \in Nat /\ i \in n + 1 .. L + 1
    OBVIOUS
  <2>1. i \in n + 1 .. L + 1 /\ n + 2 \in n + 1 .. L + 1 /\ n + 2 <= i
    BY <1>2
  <2>2. off[n + 2] <= off[i]
    BY <1>1, <2>1 DEF FramedAt
  <2> QED
    BY <1>1, <1>2, <1>3, <2>1, <2>2
<1>7. /\ off2 \in [(n + 1) + 1 .. L + 1 -> Nat]
      /\ \A i \in n + 2 .. L + 1 : off2[i] = off[i] - c
  BY <1>2, <1>6
<1> HIDE DEF off2
<1>8. off2[(n + 1) + 1] = 0 /\ off2[L + 1] = Len(rest)
  <2>1. off[L + 1] = Len(bytes) /\ n + 2 \in n + 2 .. L + 1 /\ L + 1 \in n + 2 .. L + 1
    BY <1>1, <1>2 DEF FramedAt
  <2> QED
    BY <1>2, <1>3, <1>5, <1>7, <2>1
<1>9. \A i, j \in (n + 1) + 1 .. L + 1 : i <= j => off2[i] <= off2[j]
  <2> SUFFICES ASSUME NEW i \in n + 2 .. L + 1, NEW j \in n + 2 .. L + 1, i <= j
               PROVE  off2[i] <= off2[j]
    BY <1>2
  <2>0. i \in n + 1 .. L + 1 /\ j \in n + 1 .. L + 1
    BY <1>2
  <2>1. off[i] <= off[j] /\ off[i] \in Nat /\ off[j] \in Nat
    BY <1>1, <2>0, Zenon DEF FramedAt
  <2> QED
    BY <1>2, <1>7, <2>1
<1>10. ASSUME NEW i \in (n + 1) + 1 .. L
       PROVE  /\ off2[i + 1] = off2[i] + kHeaderSize + Len(msgs[i])
              /\ \A k \in 1 .. kHeaderSize : rest[off2[i] + k] = Header(Len(msgs[i]))[k]
              /\ \A k \in 1 .. Len(msgs[i]) : rest[off2[i] + kHeaderSize + k] = msgs[i][k]
  <2>1. i \in n + 1 .. L /\ i \in n + 2 .. L + 1 /\ i + 1 \in n + 2 .. L + 1
    BY <1>2
  <2>2. /\ off[i + 1] = off[i] + kHeaderSize + Len(msgs[i])
        /\ \A k \in 1 .. kHeaderSize : bytes[off[i] + k] = Header(Len(msgs[i]))[k]
        /\ \A k \in 1 .. Len(msgs[i]) : bytes[off[i] + kHeaderSize + k] = msgs[i][k]
    BY <1>1, <2>1, Zenon DEF FramedAt
  <2>3. /\ off2[i] = off[i] - c /\ off2[i + 1] = off[i + 1] - c
        /\ off2[i] \in Nat /\ off2[i + 1] \in Nat /\ off[i] \in Nat /\ off[i + 1] \in Nat
    BY <1>1, <1>6, <1>7, <2>1, Zenon
  <2>4. off[i + 1] <= Len(bytes)
    <3>1. i + 1 \in n + 1 .. L + 1 /\ L + 1 \in n + 1 .. L + 1 /\ i + 1 <= L + 1
      BY <1>2, <2>1
    <3>2. off[i + 1] <= off[L + 1] /\ off[L + 1] = Len(bytes)
      BY <1>1, <3>1, Zenon DEF FramedAt
    <3> QED
      BY <3>2
  <2>5. Len(msgs[i]) \in Nat
    BY <1>2, <2>1 DEF Messages, Bytes
  <2>6. kHeaderSize \in Nat /\ off[i] + kHeaderSize + Len(msgs[i]) <= Len(bytes)
    BY <2>2, <2>4 DEF kHeaderSize
  <2> DEFINE a == off[i]  b == off2[i]  h == kHeaderSize  l == Len(msgs[i])  N == Len(bytes)
  <2>7. /\ b + h + l <= N - c /\ (a + h + l) - c = b + h + l
        /\ c + b = a /\ N - c \in Nat
        /\ \A k \in 1 .. h : k \in 1 .. h + l
        /\ \A k \in 1 .. l : /\ h + k \in 1 .. h + l
                             /\ b + (h + k) = b + h + k
                             /\ a + (h + k) = a + h + k
    <3>1. /\ a \in Nat /\ b \in Nat /\ c \in Nat /\ h \in Nat /\ l \in Nat /\ N \in Nat
          /\ c <= N /\ b = a - c /\ a + h + l <= N
      BY ONLY <1>2, <1>4, <2>3, <2>5, <2>6
    <3> HIDE DEF a, b, h, l, N
    <3> QED
      BY ONLY <3>1, FrameShift
  <2>12. /\ off2[i] + kHeaderSize + Len(msgs[i]) <= Len(rest) /\ Len(rest) \in Nat
         /\ off2[i + 1] = off2[i] + kHeaderSize + Len(msgs[i])
         /\ c + off2[i] = off[i]
    BY ONLY <1>5, <2>2, <2>3, <2>7, Zenon
  <2>8. ASSUME NEW d \in 1 .. kHeaderSize + Len(msgs[i])
        PROVE  rest[off2[i] + d] = bytes[off[i] + d]
    <3>1. off2[i] + d \in 1 .. Len(rest)
      BY ONLY <2>3, <2>5, <2>6, <2>12, FrameWithin, Zenon
    <3>2. d \in Nat
      BY ONLY <2>5, <2>6
    <3>3. c + (off2[i] + d) = off[i] + d
      <4>1. c \in Nat /\ off[i] \in Nat /\ off2[i] = off[i] - c
        BY <1>2, <2>3, <2>12, Zenon
      <4> QED
        BY ONLY <3>2, <4>1
    <3> QED
      BY <1>5, <3>1, <3>3, Zenon
  <2>10. \A k \in 1 .. kHeaderSize : rest[off2[i] + k] = Header(Len(msgs[i]))[k]
    BY <2>2, <2>7, <2>8, Zenon
  <2>11. \A k \in 1 .. Len(msgs[i]) : rest[off2[i] + kHeaderSize + k] = msgs[i][k]
    BY <2>2, <2>7, <2>8, ZenonT(60)
  <2> QED
    BY <2>12, <2>10, <2>11
<1>11. FramedAt(off2, msgs, n + 1, rest)
  BY <1>8, <1>9, <1>10 DEF FramedAt
<1>12. Framed(msgs, n + 1, rest)
  BY <1>7, <1>11 DEF Framed
<1> QED
  BY <1>3, <1>4, <1>5, <1>12, Zenon DEF m, rest, c

\* The bytes w are those of `bytes` behind the first c.
Window(bytes, c, w) ==
  /\ c + Len(w) <= Len(bytes)
  /\ \A k \in 1 .. Len(w) : w[k] = bytes[c + k]

\* Bytes behind it change nothing in a window.
LEMMA WindowStays ==
  ASSUME NEW bytes \in Bytes, NEW more \in Bytes, NEW c \in Nat, NEW w \in Bytes,
         Window(bytes, c, w)
  PROVE  Window(bytes \o more, c, w)
<1> DEFINE all == bytes \o more
<1>1. /\ Len(all) = Len(bytes) + Len(more)
      /\ Len(bytes) \in Nat /\ Len(more) \in Nat /\ Len(w) \in Nat
      /\ \A k \in 1 .. Len(bytes) : all[k] = bytes[k]
  BY ConcatElements
<1> HIDE DEF all
<1>2. \A k \in 1 .. Len(w) : c + k \in 1 .. Len(bytes)
  BY <1>1 DEF Window
<1>3. c + Len(w) <= Len(all)
  BY <1>1 DEF Window
<1>4. Window(all, c, w)
  BY <1>1, <1>2, <1>3 DEF Window
<1> QED
  BY <1>4 DEF all

\* The same bytes put behind a sequence and behind the window at its end.
LEMMA WindowGrows ==
  ASSUME NEW bytes \in Bytes, NEW more \in Bytes, NEW c \in Nat, NEW w \in Bytes,
         Window(bytes, c, w), c + Len(w) = Len(bytes)
  PROVE  /\ Window(bytes \o more, c, w \o more)
         /\ c + Len(w \o more) = Len(bytes \o more)
<1> DEFINE all == bytes \o more
           v == w \o more
           a == Len(w)
           b == Len(bytes)
           l == Len(more)
<1>1. /\ Len(all) = b + l /\ b \in Nat /\ l \in Nat
      /\ \A k \in 1 .. b : all[k] = bytes[k]
      /\ \A k \in 1 .. l : all[b + k] = more[k]
  BY ConcatElements
<1>2. /\ Len(v) = a + l /\ a \in Nat
      /\ \A k \in 1 .. a : v[k] = w[k]
      /\ \A k \in 1 .. l : v[a + k] = more[k]
  BY ConcatElements
<1>3. c + a = b /\ \A k \in 1 .. a : w[k] = bytes[c + k]
  BY DEF Window
<1> HIDE DEF all, v, a, b, l
<1>4. ASSUME NEW k \in 1 .. Len(v) PROVE v[k] = all[c + k]
  <2>1. CASE k \in 1 .. a
    <3>1. c + k \in 1 .. b
      BY <1>1, <1>2, <1>3, <2>1
    <3> QED
      BY <1>1, <1>2, <1>3, <2>1, <3>1, Zenon
  <2>2. CASE k \in a + 1 .. a + l
    <3>1. k - a \in 1 .. l /\ k = a + (k - a) /\ c + k = b + (k - a)
      BY <1>1, <1>2, <1>3, <2>2
    <3> QED
      BY <1>1, <1>2, <3>1, Zenon
  <2> QED
    BY <1>1, <1>2, <2>1, <2>2
<1>5. c + Len(v) = Len(all)
  BY <1>1, <1>2, <1>3
<1>6. Len(all) \in Nat
  BY <1>1
<1> QED
  BY <1>4, <1>5, <1>6 DEF Window, v, all

\* A window cut in two after n bytes, and its first part put behind the window
\* before it.
LEMMA WindowSplits ==
  ASSUME NEW bytes \in Bytes, NEW o \in Nat, NEW d \in Bytes, NEW w \in Bytes,
         Window(bytes, o, d), Window(bytes, o + Len(d), w), NEW n \in 0 .. Len(w)
  PROVE  LET first == SubSeq(w, 1, n)
             rest == SubSeq(w, n + 1, Len(w))
         IN /\ first \in Bytes /\ rest \in Bytes /\ d \o first \in Bytes
            /\ Len(first) = n /\ Len(rest) = Len(w) - n /\ Len(d \o first) = Len(d) + n
            /\ Window(bytes, o + Len(d), first)
            /\ Window(bytes, o, d \o first)
            /\ Window(bytes, o + Len(d \o first), rest)
<1> DEFINE first == SubSeq(w, 1, n)
           rest == SubSeq(w, n + 1, Len(w))
           more == d \o first
<1>0. Len(w) \in Nat /\ Len(d) \in Nat /\ Len(bytes) \in Nat
  BY DEF Bytes
<1>1. /\ first \in Bytes /\ Len(first) = n
      /\ \A k \in 1 .. n : first[k] = w[k]
  <2>1. /\ SubSeq(w, 0 + 1, n) \in Bytes /\ Len(SubSeq(w, 0 + 1, n)) = n - 0
        /\ \A k \in 1 .. n - 0 : SubSeq(w, 0 + 1, n)[k] = w[0 + k]
    <3>1. 0 \in Nat /\ n \in Nat /\ 0 <= n /\ n <= Len(w)
      BY <1>0
    <3> QED
      BY <3>1, SubSeqElements, Zenon
  <2> QED
    BY <2>1
<1>2. /\ rest \in Bytes /\ Len(rest) = Len(w) - n
      /\ \A k \in 1 .. Len(w) - n : rest[k] = w[n + k]
  <2>1. n \in Nat /\ n <= Len(w) /\ Len(w) <= Len(w)
    BY <1>0
  <2> QED
    BY <1>0, <2>1, SubSeqElements, Zenon
<1> HIDE DEF first, rest
<1>3. /\ more \in Bytes /\ Len(more) = Len(d) + n
      /\ \A k \in 1 .. Len(d) : more[k] = d[k]
      /\ \A k \in 1 .. n : more[Len(d) + k] = first[k]
  BY <1>1, ConcatElements, Zenon
<1> HIDE DEF more
<1>4. /\ o + Len(d) + Len(w) <= Len(bytes)
      /\ \A k \in 1 .. Len(w) : w[k] = bytes[o + Len(d) + k]
      /\ \A k \in 1 .. Len(d) : d[k] = bytes[o + k]
  BY DEF Window
<1>5. Window(bytes, o + Len(d), first)
  <2>1. \A k \in 1 .. n : k \in 1 .. Len(w)
    BY <1>0
  <2> QED
    BY <1>0, <1>1, <1>4, <2>1 DEF Window
<1>6. Window(bytes, o, more)
  <2>1. o + Len(more) <= Len(bytes)
    BY <1>0, <1>3, <1>4
  <2>2. ASSUME NEW k \in 1 .. Len(more) PROVE more[k] = bytes[o + k]
    <3>1. CASE k \in 1 .. Len(d)
      BY <1>3, <1>4, <3>1, Zenon
    <3>2. CASE k \in Len(d) + 1 .. Len(d) + n
      <4>1. PICK j \in 1 .. n : j = k - Len(d)
        BY <1>0, <3>2
      <4>2. k = Len(d) + j /\ o + Len(d) + j = o + k /\ j \in 1 .. Len(w)
        BY <1>0, <3>2, <4>1
      <4>3. more[k] = w[j]
        BY <1>1, <1>3, <4>2, Zenon
      <4> QED
        BY <1>4, <4>2, <4>3, Zenon
    <3> QED
      BY <1>0, <1>3, <3>1, <3>2
  <2> QED
    BY <2>1, <2>2 DEF Window
<1>7. Window(bytes, o + Len(more), rest)
  <2>1. (o + Len(more)) + Len(rest) <= Len(bytes)
    BY <1>0, <1>2, <1>3, <1>4
  <2>2. ASSUME NEW k \in 1 .. Len(rest) PROVE rest[k] = bytes[(o + Len(more)) + k]
    <3>1. /\ k \in 1 .. Len(w) - n /\ n + k \in 1 .. Len(w)
          /\ o + Len(d) + (n + k) = (o + Len(more)) + k
      BY <1>0, <1>2, <1>3
    <3> QED
      BY <1>2, <1>4, <3>1, Zenon
  <2> QED
    BY <2>1, <2>2 DEF Window
<1> QED
  BY <1>1, <1>2, <1>3, <1>5, <1>6, <1>7 DEF first, rest, more

(***************************************************************************)
(* The invariant of the stream.  Either the loop is over; or the reader is *)
(* in step with the writer, with some bytes of the first message not read  *)
(* yet taken from the stream, and the rest of them still on the wire as    *)
(* long as it is open; or it is at the end of an ended stream, where a     *)
(* read returns nothing any more.                                          *)
(***************************************************************************)
Offset == IF reader.phase = "payload" THEN kHeaderSize ELSE 0

InStep(bytes) ==
  /\ Framed(sent, Len(delivered), bytes)
  /\ Window(bytes, Offset, reader.data)
  /\ Window(bytes, Offset + Len(reader.data), wire)
  /\ stream = "open" => (Offset + Len(reader.data)) + Len(wire) = Len(bytes)
  /\ reader.phase = "idle" => Len(reader.data) = 0
  /\ reader.phase = "header" => want = kHeaderSize /\ Len(reader.data) < kHeaderSize
  /\ reader.phase = "payload" => /\ Len(delivered) < Len(sent)
                                 /\ want = Len(sent[Len(delivered) + 1])
                                 /\ Len(reader.data) < want

DeliveredWhole ==
  /\ Len(delivered) <= Len(sent)
  /\ \A i \in 1 .. Len(delivered) : delivered[i] = sent[i]

AtTheEnd == stream = "ended" /\ wire = <<>> /\ reader.data = <<>>

FramingType ==
  /\ outbox \in Seq(Messages) /\ sent \in Seq(Messages) /\ delivered \in Seq(Bytes)
  /\ wire \in Bytes /\ want \in Nat
  /\ reader \in [phase : {"idle", "header", "payload", "done"}, data : Bytes]

FramingInv ==
  /\ FramingType
  /\ DeliveredInOrder
  /\ \/ reader.phase = "done"
     \/ DeliveredWhole /\ \E bytes \in Bytes : InStep(bytes)
     \/ AtTheEnd

\* What was delivered whole was delivered in order.
LEMMA WholeIsInOrder ==
  ASSUME FramingType, DeliveredWhole
  PROVE  DeliveredInOrder
BY DEF FramingType, DeliveredWhole, DeliveredInOrder

\* The initial states.
LEMMA FramingInvInit == FInit => FramingInv
<1> SUFFICES ASSUME FInit PROVE FramingInv
  OBVIOUS
<1>1. \A box \in Outboxes : box \in Seq(Messages)
  <2> TAKE box \in Outboxes
  <2>1. /\ box \in Seq(Bytes)
        /\ \A i \in DOMAIN box : box[i] # <<>> /\ Len(box[i]) \in MessageSizes
    BY FramingAssumption
  <2>2. \A i \in 1 .. Len(box) : box[i] \in Messages
    BY <2>1 DEF Messages
  <2> QED
    BY <2>1, <2>2
<1>2. <<>> \in Bytes /\ Len(<<>>) = 0
  BY DEF Bytes
<1>3. FramingType
  BY <1>1, <1>2 DEF FInit, FramingType
<1>4. DeliveredWhole
  BY DEF FInit, DeliveredWhole
<1>5. Framed(sent, Len(delivered), <<>>)
  <2> DEFINE off == [i \in 0 + 1 .. 0 + 1 |-> 0]
  <2>1. off \in [0 + 1 .. 0 + 1 -> Nat] /\ sent = <<>> /\ Len(delivered) = 0
    BY DEF FInit
  <2>2. FramedAt(off, <<>>, 0, <<>>)
    BY DEF FramedAt
  <2> QED
    BY <2>1, <2>2 DEF Framed
<1>6. InStep(<<>>)
  BY <1>2, <1>5 DEF FInit, InStep, Offset, Window
<1> QED
  BY <1>2, <1>3, <1>4, <1>6, WholeIsInOrder DEF FramingInv

\* The peer writes a message.
LEMMA WriteKeepsFraming ==
  ASSUME FramingInv, Write
  PROVE  FramingInv'
<1>1. PICK m \in Messages : m = Head(outbox) /\ Tail(outbox) \in Seq(Messages)
  <2>1. outbox \in Seq(Messages) /\ outbox # <<>>
    BY DEF FramingInv, FramingType, Write
  <2> QED
    BY <2>1
<1>2. PICK f \in Bytes : f = Header(Len(m)) \o m
  BY HeaderRoundTrip, ConcatElements, Zenon DEF Messages
<1>3. /\ sent \in Seq(Messages) /\ sent' = Append(sent, m) /\ sent' \in Seq(Messages)
      /\ Len(sent') = Len(sent) + 1 /\ \A i \in 1 .. Len(sent) : sent'[i] = sent[i]
  BY <1>1 DEF FramingInv, FramingType, Write
<1>4. \A bytes \in Bytes : bytes \o Header(Len(m)) \o m = bytes \o f
  BY <1>2, HeaderRoundTrip, BytesInTurn, Zenon DEF Messages, Bytes
<1>5. wire \in Bytes /\ wire' = wire \o f /\ wire' \in Bytes
  <2>1. wire \in Bytes /\ wire' = wire \o Header(Len(m)) \o m
    BY <1>1 DEF FramingInv, FramingType, Write
  <2> QED
    BY <1>4, <2>1, ConcatElements, Zenon
<1>6. /\ UNCHANGED <<stream, reader, want, delivered>> /\ outbox' = Tail(outbox)
      /\ stream = "open"
  BY DEF Write
<1>7. FramingType'
  BY <1>1, <1>3, <1>5, <1>6 DEF FramingInv, FramingType
<1>8. DeliveredInOrder'
  <2> SUFFICES ASSUME NEW i \in DOMAIN delivered
               PROVE  /\ i \in DOMAIN sent'
                      /\ \/ delivered[i] = sent'[i]
                         \/ /\ i = Len(delivered) /\ stream = "ended"
                            /\ IsStartOf(delivered[i], sent'[i])
    BY <1>6 DEF DeliveredInOrder
  <2>1. /\ i \in DOMAIN sent
        /\ \/ delivered[i] = sent[i]
           \/ /\ i = Len(delivered) /\ stream = "ended"
              /\ IsStartOf(delivered[i], sent[i])
    BY DEF FramingInv, DeliveredInOrder
  <2>2. i \in 1 .. Len(sent) /\ i \in DOMAIN sent'
    BY <1>3, <2>1
  <2> QED
    BY <1>3, <2>1, <2>2, Zenon
<1>9. CASE reader.phase = "done"
  BY <1>6, <1>7, <1>8, <1>9 DEF FramingInv
<1>10. CASE DeliveredWhole /\ \E bytes \in Bytes : InStep(bytes)
  <2>1. PICK bytes \in Bytes : InStep(bytes)
    BY <1>10
  <2>2. DeliveredWhole'
    BY <1>3, <1>6, <1>10 DEF FramingInv, FramingType, DeliveredWhole
  <2>3. PICK all \in Bytes : all = bytes \o f
    BY ConcatElements, Zenon
  <2>4. Framed(sent', Len(delivered'), all)
    <3>1. Len(delivered) \in 0 .. Len(sent)
      BY <1>10 DEF FramingInv, FramingType, DeliveredWhole
    <3>2. Framed(sent, Len(delivered), bytes)
      BY <2>1 DEF InStep
    <3>3. Framed(Append(sent, m), Len(delivered), bytes \o Header(Len(m)) \o m)
      BY <1>3, <3>1, <3>2, FramedAppend
    <3> QED
      BY <1>3, <1>4, <1>6, <2>3, <3>3, Zenon
  <2>5. Offset' = Offset /\ Offset \in Nat /\ reader.data \in Bytes /\ Len(reader.data) \in Nat
    BY <1>6 DEF FramingInv, FramingType, Offset, Bytes, kHeaderSize
  <2>6. Window(all, Offset, reader.data)
    BY <2>1, <2>3, <2>5, WindowStays DEF InStep
  <2>7. /\ Window(all, Offset + Len(reader.data), wire')
        /\ (Offset + Len(reader.data)) + Len(wire') = Len(all)
    <3>1. Offset + Len(reader.data) \in Nat
      BY <2>5
    <3>2. /\ Window(bytes, Offset + Len(reader.data), wire)
          /\ (Offset + Len(reader.data)) + Len(wire) = Len(bytes)
      BY <1>6, <2>1 DEF InStep
    <3>3. /\ Window(bytes \o f, Offset + Len(reader.data), wire \o f)
          /\ (Offset + Len(reader.data)) + Len(wire \o f) = Len(bytes \o f)
      <4>1. PICK c \in Nat, w \in Bytes : c = Offset + Len(reader.data) /\ w = wire
        BY <1>5, <3>1
      <4>2. Window(bytes, c, w) /\ c + Len(w) = Len(bytes)
        BY <3>2, <4>1
      <4>3. Window(bytes \o f, c, w \o f) /\ c + Len(w \o f) = Len(bytes \o f)
        BY <4>2, WindowGrows, Zenon
      <4> QED
        BY <4>1, <4>3
    <3> QED
      BY <1>5, <2>3, <3>3
  <2>8. reader.phase = "payload" => /\ Len(delivered) < Len(sent')
                                    /\ want = Len(sent'[Len(delivered) + 1])
                                    /\ Len(reader.data) < want
    BY <1>3, <2>1 DEF InStep, FramingInv, FramingType
  <2>9. InStep(all)'
    BY <1>6, <2>1, <2>4, <2>5, <2>6, <2>7, <2>8 DEF InStep
  <2> QED
    BY <1>7, <1>8, <2>2, <2>9 DEF FramingInv
<1>11. CASE AtTheEnd
  BY <1>6, <1>11 DEF AtTheEnd
<1> QED
  BY <1>9, <1>10, <1>11 DEF FramingInv

\* The stream ends or fails.
LEMMA CutKeepsFraming ==
  ASSUME FramingInv, Cut
  PROVE  FramingInv'
<1>1. PICK n \in 0 .. Len(wire) : wire' = SubSeq(wire, 1, n)
  BY DEF Cut
<1>2. wire \in Bytes /\ Len(wire) \in Nat /\ reader.data \in Bytes
  BY DEF FramingInv, FramingType, Bytes
<1>3. wire' \in Bytes
  <2>1. n \in Nat /\ 0 <= n /\ n <= Len(wire)
    BY <1>2
  <2>2. SubSeq(wire, 0 + 1, n) \in Bytes
    BY <1>2, <2>1, SubSeqElements, Zenon
  <2> QED
    BY <1>1, <2>2
<1>4. FramingType'
  BY <1>3 DEF FramingInv, FramingType, Cut
<1>5. DeliveredInOrder'
  BY Zenon DEF FramingInv, DeliveredInOrder, Cut
<1>6. CASE reader.phase = "done"
  BY <1>4, <1>5, <1>6 DEF FramingInv, Cut
<1>7. CASE DeliveredWhole /\ \E bytes \in Bytes : InStep(bytes)
  <2>1. PICK bytes \in Bytes : InStep(bytes)
    BY <1>7
  <2>2. DeliveredWhole'
    BY <1>7 DEF DeliveredWhole, Cut
  <2>3. Offset' = Offset /\ Offset \in Nat
    BY DEF Offset, Cut, kHeaderSize
  <2>4. Window(bytes, Offset + Len(reader.data), wire')
    BY <1>1, <1>2, <2>1, <2>3, WindowSplits, Zenon DEF InStep
  <2>5. InStep(bytes)'
    BY <2>1, <2>3, <2>4, Zenon DEF InStep, Cut
  <2> QED
    BY <1>4, <1>5, <2>2, <2>5 DEF FramingInv
<1>8. CASE AtTheEnd
  BY <1>8 DEF AtTheEnd, Cut
<1> QED
  BY <1>6, <1>7, <1>8 DEF FramingInv

\* The four bytes at the front are the header of the next message.
LEMMA HeaderIsTheSize ==
  ASSUME NEW msgs \in Seq(Messages), NEW n \in 0 .. Len(msgs),
         NEW bytes \in Bytes, Framed(msgs, n, bytes),
         NEW data \in Bytes, Len(data) = kHeaderSize, Window(bytes, 0, data)
  PROVE  n < Len(msgs) /\ GetMessagePayloadSize(data) = Len(msgs[n + 1])
<1>1. kHeaderSize \in Nat /\ kHeaderSize > 0 /\ Len(msgs) \in Nat /\ Len(bytes) \in Nat
  BY DEF kHeaderSize, Bytes
<1>2. kHeaderSize <= Len(bytes) /\ \A k \in 1 .. kHeaderSize : data[k] = bytes[0 + k]
  BY <1>1 DEF Window
<1>3. n < Len(msgs)
  <2>1. n # Len(msgs)
    BY <1>1, <1>2, FramedEnd
  <2> QED
    BY <1>1, <2>1
<1>4. msgs[n + 1] \in Messages
  BY <1>1, <1>3
<1>5. \A k \in 1 .. kHeaderSize : bytes[k] = Header(Len(msgs[n + 1]))[k]
  BY <1>3, FramedNext
<1>6. /\ Header(Len(msgs[n + 1])) \in Bytes /\ Len(Header(Len(msgs[n + 1]))) = kHeaderSize
      /\ GetMessagePayloadSize(Header(Len(msgs[n + 1]))) = Len(msgs[n + 1])
  BY <1>4, HeaderRoundTrip DEF Messages
<1>7. data = Header(Len(msgs[n + 1]))
  <2>1. \A k \in 1 .. kHeaderSize : data[k] = Header(Len(msgs[n + 1]))[k]
    BY <1>1, <1>2, <1>5
  <2> QED
    BY <1>6, <2>1, SameBytes, Zenon
<1> QED
  BY <1>3, <1>6, <1>7, Zenon

\* The bytes behind a header are the message, and the next header follows them.
LEMMA PayloadIsTheMessage ==
  ASSUME NEW msgs \in Seq(Messages), NEW n \in Nat, n < Len(msgs),
         NEW bytes \in Bytes, Framed(msgs, n, bytes),
         NEW data \in Bytes, Len(data) <= Len(msgs[n + 1]), Window(bytes, kHeaderSize, data)
  PROVE  /\ \A k \in 1 .. Len(data) : data[k] = msgs[n + 1][k]
         /\ Len(data) = Len(msgs[n + 1]) =>
              /\ data = msgs[n + 1]
              /\ \A w \in Bytes : Window(bytes, kHeaderSize + Len(data), w) =>
                   \E rest \in Bytes :
                     /\ Framed(msgs, n + 1, rest) /\ Window(rest, 0, w)
                     /\ Len(rest) = Len(bytes) - (kHeaderSize + Len(data))
<1> DEFINE m == msgs[n + 1]
           h == kHeaderSize
<1>1. /\ h \in Nat /\ Len(bytes) \in Nat /\ Len(data) \in Nat
      /\ m \in Bytes /\ Len(m) \in Nat
  BY DEF kHeaderSize, Bytes, Messages
<1>2. PICK rest \in Bytes :
        /\ h + Len(m) <= Len(bytes) /\ \A k \in 1 .. Len(m) : bytes[h + k] = m[k]
        /\ Framed(msgs, n + 1, rest) /\ Len(rest) = Len(bytes) - (h + Len(m))
        /\ \A k \in 1 .. Len(rest) : rest[k] = bytes[h + Len(m) + k]
  BY FramedNext, Zenon
<1> HIDE DEF m, h
<1>3. \A k \in 1 .. Len(data) : data[k] = m[k]
  <2>1. \A k \in 1 .. Len(data) : data[k] = bytes[h + k]
    BY DEF Window, h
  <2>2. \A k \in 1 .. Len(data) : k \in 1 .. Len(m)
    BY <1>1 DEF m
  <2> QED
    BY <1>2, <2>1, <2>2
<1>4. ASSUME Len(data) = Len(m) PROVE data = m
  BY <1>1, <1>3, <1>4, SameBytes
<1>5. ASSUME Len(data) = Len(m), NEW w \in Bytes, Window(bytes, h + Len(data), w)
      PROVE  Window(rest, 0, w)
  <2>1. /\ Len(w) \in Nat /\ (h + Len(m)) + Len(w) <= Len(bytes)
        /\ \A k \in 1 .. Len(w) : w[k] = bytes[(h + Len(m)) + k]
    BY <1>5 DEF Window, Bytes
  <2>2. Len(rest) \in Nat /\ Len(w) <= Len(rest)
    BY <1>1, <1>2, <2>1
  <2>3. \A k \in 1 .. Len(w) : k \in 1 .. Len(rest) /\ 0 + k = k
    BY <2>1, <2>2
  <2>4. \A k \in 1 .. Len(w) : w[k] = rest[0 + k]
    BY <1>2, <2>1, <2>3, Zenon
  <2>5. 0 + Len(w) <= Len(rest)
    BY <2>1, <2>2
  <2> QED
    BY <2>4, <2>5 DEF Window
<1> QED
  BY <1>2, <1>3, <1>4, <1>5 DEF m, h

\* A read that gives up leaves the invariant.
LEMMA DoneKeepsFraming ==
  ASSUME FramingInv, reader' = [phase |-> "done", data |-> <<>>], wire' \in Bytes,
         UNCHANGED <<outbox, sent, stream, want, delivered>>
  PROVE  FramingInv'
<1>1. <<>> \in Bytes
  BY DEF Bytes
<1> QED
  BY <1>1 DEF FramingInv, FramingType, DeliveredInOrder

\* A new read begins.
LEMMA StartReadKeepsFraming ==
  ASSUME FramingInv, StartRead
  PROVE  FramingInv'
<1>1. CASE reading_ /\ LoopEnds
  BY <1>1, DoneKeepsFraming DEF StartRead, LoopEnds, peerVars, FramingInv, FramingType
<1>2. CASE reader' = [phase |-> "header", data |-> <<>>] /\ want' = kHeaderSize
  <2>1. UNCHANGED <<outbox, sent, stream, wire, delivered>> /\ reader.phase = "idle"
    BY DEF StartRead, peerVars
  <2>2. <<>> \in Bytes /\ Len(<<>>) = 0 /\ kHeaderSize \in Nat /\ 0 < kHeaderSize
    BY DEF Bytes, kHeaderSize
  <2>3. FramingType' /\ DeliveredInOrder'
    BY <1>2, <2>1, <2>2 DEF FramingInv, FramingType, DeliveredInOrder
  <2>4. CASE DeliveredWhole /\ \E bytes \in Bytes : InStep(bytes)
    <3>1. PICK bytes \in Bytes : InStep(bytes)
      BY <2>4
    <3>2. Offset = 0 /\ Offset' = 0 /\ Len(reader.data) = 0 /\ Len(reader'.data) = 0
      BY <1>2, <2>1, <2>2, <3>1, Zenon DEF Offset, InStep
    <3>3. Window(bytes, 0, reader'.data)
      BY <1>2, <2>2 DEF Window, Bytes
    <3>4. InStep(bytes)'
      BY <1>2, <2>1, <2>2, <3>1, <3>2, <3>3, Zenon DEF InStep
    <3> QED
      BY <2>1, <2>3, <2>4, <3>4 DEF FramingInv, DeliveredWhole
  <2>5. CASE AtTheEnd
    BY <1>2, <2>1, <2>3, <2>5 DEF FramingInv, AtTheEnd
  <2> QED
    BY <2>1, <2>4, <2>5 DEF FramingInv
<1> QED
  BY <1>1, <1>2 DEF StartRead

\* A read fails.
LEMMA ReadErrorKeepsFraming ==
  ASSUME FramingInv, ReadError
  PROVE  FramingInv'
BY DoneKeepsFraming
   DEF ReadError, ReadReturnsNothing, LoopEnds, peerVars, FramingInv, FramingType

\* A read of the stream returns some bytes.
LEMMA ReadExactKeepsFraming ==
  ASSUME FramingInv, ReadExact
  PROVE  FramingInv'
<1>1. PICK n \in 1 .. Len(wire) :
        /\ n <= Subspan
        /\ wire' = SubSeq(wire, n + 1, Len(wire))
        /\ LET data == reader.data \o SubSeq(wire, 1, n)
           IN \/ ReadExpired /\ LoopEnds /\ UNCHANGED <<reading_, delivered>>
              \/ ~ReadExpired /\ Len(data) >= want /\ Returns(data)
              \/ /\ ~ReadExpired /\ Len(data) < want
                 /\ reader' = [reader EXCEPT !.data = data]
                 /\ UNCHANGED <<want, reading_, delivered>>
  BY Zenon DEF ReadExact
<1>2. /\ wire \in Bytes /\ Len(wire) \in Nat /\ reader.data \in Bytes
      /\ Len(reader.data) \in Nat /\ want \in Nat /\ sent \in Seq(Messages)
      /\ delivered \in Seq(Bytes) /\ n \in 0 .. Len(wire)
      /\ reader \in [phase : {"idle", "header", "payload", "done"}, data : Bytes]
  BY DEF FramingInv, FramingType, Bytes
<1>3. /\ UNCHANGED <<outbox, sent, stream>> /\ reader.phase \in {"header", "payload"}
      /\ wire # <<>>
  BY DEF ReadExact, peerVars, Suspended
<1>4. ~AtTheEnd /\ DeliveredWhole /\ \E bytes \in Bytes : InStep(bytes)
  BY <1>3 DEF FramingInv, AtTheEnd
<1>5. PICK bytes \in Bytes : InStep(bytes)
  BY <1>4
<1>6. PICK o \in Nat : o = Offset
  BY DEF Offset, kHeaderSize
<1>7. PICK data \in Bytes :
        /\ data = reader.data \o SubSeq(wire, 1, n)
        /\ Len(data) = Len(reader.data) + n
        /\ wire' \in Bytes /\ Len(wire') = Len(wire) - n
        /\ Window(bytes, o, data) /\ Window(bytes, o + Len(data), wire')
  <2>1. Window(bytes, o, reader.data) /\ Window(bytes, o + Len(reader.data), wire)
    BY <1>5, <1>6 DEF InStep
  <2> DEFINE d == reader.data
             w == wire
             first == SubSeq(w, 1, n)
             rest == SubSeq(w, n + 1, Len(w))
  <2>2. d \in Bytes /\ w \in Bytes /\ n \in 0 .. Len(w)
    BY <1>2
  <2>3. /\ first \in Bytes /\ rest \in Bytes /\ d \o first \in Bytes
        /\ Len(rest) = Len(w) - n /\ Len(d \o first) = Len(d) + n
        /\ Window(bytes, o, d \o first)
        /\ Window(bytes, o + Len(d \o first), rest)
    <3> HIDE DEF d, w
    <3>1. Window(bytes, o, d) /\ Window(bytes, o + Len(d), w)
      BY <2>1 DEF d, w
    <3> QED
      BY <2>2, <3>1, WindowSplits
  <2>4. wire' = rest
    BY <1>1
  <2> QED
    BY <2>3, <2>4, Zenon
<1>8. Len(data) <= want /\ Len(data) \in Nat /\ Len(wire') \in Nat /\ Len(bytes) \in Nat
  <2>1. n <= want - Len(reader.data) /\ n \in Nat
    BY <1>1, <1>2 DEF Subspan
  <2>2. Len(data) \in Nat /\ Len(wire') \in Nat /\ Len(bytes) \in Nat
    BY <1>7 DEF Bytes
  <2>3. Len(data) <= want
    BY ONLY <1>2, <1>7, <2>1
  <2> QED
    BY <2>2, <2>3
<1>9. stream = "open" => (o + Len(data)) + Len(wire') = Len(bytes)
  <2>1. stream = "open" => (o + Len(reader.data)) + Len(wire) = Len(bytes)
    BY <1>5, <1>6 DEF InStep
  <2>2. Len(data) = Len(reader.data) + n /\ Len(wire') = Len(wire) - n
    BY <1>7
  <2>3. (o + Len(data)) + Len(wire') = (o + Len(reader.data)) + Len(wire)
    BY ONLY <1>2, <2>2, o \in Nat
  <2> QED
    BY <2>1, <2>3
<1>10. Framed(sent, Len(delivered), bytes) /\ Len(delivered) \in 0 .. Len(sent)
  BY <1>2, <1>4, <1>5 DEF InStep, DeliveredWhole
<1>11. <<>> \in Bytes /\ Len(<<>>) = 0 /\ kHeaderSize \in Nat
  BY DEF Bytes, kHeaderSize
<1>12. CASE LoopEnds /\ UNCHANGED delivered
  BY <1>3, <1>7, <1>12, DoneKeepsFraming DEF LoopEnds
<1>13. CASE /\ Len(data) < want /\ reader' = [reader EXCEPT !.data = data]
            /\ UNCHANGED <<want, delivered>>
  <2>1. /\ reader'.phase = reader.phase /\ reader'.data = data
        /\ reader' \in [phase : {"idle", "header", "payload", "done"}, data : Bytes]
    BY <1>2, <1>13, Zenon
  <2>2. FramingType' /\ DeliveredInOrder' /\ DeliveredWhole'
    BY <1>2, <1>3, <1>4, <1>7, <1>13, <2>1, Zenon
       DEF FramingInv, FramingType, DeliveredInOrder, DeliveredWhole
  <2>3. Offset' = o
    BY <1>6, <2>1 DEF Offset
  <2>4. InStep(bytes)'
    BY <1>3, <1>5, <1>7, <1>9, <1>10, <1>13, <2>1, <2>3, Zenon DEF InStep
  <2> QED
    BY <2>2, <2>4 DEF FramingInv
<1>14. CASE Len(data) >= want /\ reader.phase = "header" /\ HeaderRead(data)
  <2>1. Len(data) = kHeaderSize /\ o = 0
    BY <1>5, <1>6, <1>8, <1>11, <1>14 DEF InStep, Offset
  <2>2. /\ Len(delivered) < Len(sent)
        /\ GetMessagePayloadSize(data) = Len(sent[Len(delivered) + 1])
    <3>1. Window(bytes, 0, data)
      BY <1>7, <2>1, Zenon
    <3>2. sent \in Seq(Messages) /\ Len(data) = kHeaderSize
      BY <1>2, <2>1, Zenon
    <3> QED
      BY <1>10, <3>1, <3>2, HeaderIsTheSize, Zenon
  <2>3. data \o Zeros(kHeaderSize - Len(data)) = data
    <3>1. Zeros(kHeaderSize - Len(data)) = <<>>
      BY <1>11, <2>1 DEF Zeros
    <3> QED
      BY <3>1 DEF Bytes
  <2> DEFINE size == Len(sent[Len(delivered) + 1])
  <2>4. size \in Nat
    BY <1>2, <2>2 DEF Messages, Bytes
  <2>5. GetIncomingMessageSize(data \o Zeros(kHeaderSize - Len(data))) - kHeaderSize = size
    <3>1. GetIncomingMessageSize(data) = kHeaderSize + size
      BY <2>2 DEF GetIncomingMessageSize
    <3> HIDE DEF size
    <3>2. (kHeaderSize + size) - kHeaderSize = size
      BY <1>11, <2>4
    <3> QED
      BY <2>3, <3>1, <3>2, Zenon
  <2> HIDE DEF size
  <2>6. CASE ReadReturnsNothing
    BY <1>3, <1>7, <2>6, DoneKeepsFraming DEF ReadReturnsNothing, LoopEnds
  <2>7. CASE /\ size \in 1 .. kMaxMessageSize
             /\ reader' = [phase |-> "payload", data |-> <<>>] /\ want' = size
             /\ UNCHANGED delivered
    <3>1. FramingType' /\ DeliveredInOrder' /\ DeliveredWhole'
      BY <1>2, <1>3, <1>4, <1>7, <1>11, <2>4, <2>7, Zenon
         DEF FramingInv, FramingType, DeliveredInOrder, DeliveredWhole
    <3>2. Offset' = kHeaderSize /\ Len(reader'.data) = 0
      BY <1>11, <2>7 DEF Offset
    <3>3. kHeaderSize + 0 = 0 + Len(data) /\ kHeaderSize + 0 <= Len(bytes)
      <4>1. 0 + Len(data) <= Len(bytes)
        BY <1>7, <2>1 DEF Window
      <4> QED
        BY <1>8, <1>11, <2>1, <4>1
    <3>4. Window(bytes, kHeaderSize, reader'.data)
      BY <1>11, <2>7, <3>3 DEF Window
    <3>5. 0 < want' /\ want' = Len(sent'[Len(delivered') + 1])
      BY <1>3, <2>7 DEF size
    <3>6. InStep(bytes)'
      BY <1>3, <1>7, <1>9, <1>10, <2>1, <2>2, <2>7, <3>2, <3>3, <3>4, <3>5, Zenon DEF InStep
    <3> QED
      BY <3>1, <3>6 DEF FramingInv
  <2> QED
    BY <1>14, <2>5, <2>6, <2>7 DEF HeaderRead
<1>15. CASE Len(data) >= want /\ reader.phase = "payload" /\ PayloadRead(data)
  <2>1. /\ Len(delivered) < Len(sent) /\ Len(data) = Len(sent[Len(delivered) + 1])
        /\ o = kHeaderSize
    BY <1>2, <1>5, <1>6, <1>8, <1>15 DEF InStep, Offset
  <2>2. /\ Len(delivered) \in Nat
        /\ Window(bytes, kHeaderSize, data)
        /\ Window(bytes, kHeaderSize + Len(data), wire')
    BY <1>2, <1>7, <2>1
  <2>3. /\ data = sent[Len(delivered) + 1]
        /\ \E rest \in Bytes :
             /\ Framed(sent, Len(delivered) + 1, rest) /\ Window(rest, 0, wire')
             /\ Len(rest) = Len(bytes) - (kHeaderSize + Len(data))
    <3>1. Len(data) <= Len(sent[Len(delivered) + 1])
      BY <1>8, <2>1
    <3>2. /\ data = sent[Len(delivered) + 1]
          /\ \A w \in Bytes : Window(bytes, kHeaderSize + Len(data), w) =>
               \E rest \in Bytes :
                 /\ Framed(sent, Len(delivered) + 1, rest) /\ Window(rest, 0, w)
                 /\ Len(rest) = Len(bytes) - (kHeaderSize + Len(data))
      <4>1. /\ sent \in Seq(Messages) /\ Len(delivered) \in Nat
            /\ Len(delivered) < Len(sent) /\ Framed(sent, Len(delivered), bytes)
            /\ Len(data) = Len(sent[Len(delivered) + 1])
            /\ Window(bytes, kHeaderSize, data)
        BY <1>2, <1>10, <2>1, <2>2
      <4> QED
        BY <3>1, <4>1, PayloadIsTheMessage
    <3> QED
      BY <1>7, <2>2, <3>2, Zenon
  <2>4. PICK rest \in Bytes :
          /\ Framed(sent, Len(delivered) + 1, rest) /\ Window(rest, 0, wire')
          /\ Len(rest) = Len(bytes) - (kHeaderSize + Len(data))
    BY <2>3
  <2>5. CASE ReadReturnsNothing
    BY <1>3, <1>7, <2>5, DoneKeepsFraming, Zenon DEF ReadReturnsNothing, LoopEnds
  <2>6. CASE /\ reader' = [phase |-> "idle", data |-> <<>>] /\ UNCHANGED want
             /\ delivered' = Append(delivered, data)
    <3>1. /\ Len(delivered') = Len(delivered) + 1 /\ delivered' \in Seq(Bytes)
          /\ delivered'[Len(delivered) + 1] = data
          /\ \A i \in 1 .. Len(delivered) : delivered'[i] = delivered[i]
      BY <1>2, <2>6
    <3>2. FramingType'
      BY <1>2, <1>3, <1>7, <1>11, <2>6, <3>1, Zenon DEF FramingInv, FramingType
    <3>3. DeliveredWhole'
      <4>1. Len(delivered) \in Nat /\ Len(sent) \in Nat
        BY <1>2
      <4>2. Len(delivered') <= Len(sent')
        BY <1>3, <2>1, <3>1, <4>1
      <4>3. ASSUME NEW i \in 1 .. Len(delivered') PROVE delivered'[i] = sent'[i]
        <5>1. i \in 1 .. Len(delivered) \/ i = Len(delivered) + 1
          BY <3>1, <4>1
        <5> QED
          BY <1>3, <1>4, <2>3, <3>1, <5>1, Zenon DEF DeliveredWhole
      <4> QED
        BY <4>2, <4>3 DEF DeliveredWhole
    <3>4. DeliveredInOrder'
      BY <3>1, <3>2, <3>3 DEF FramingType, DeliveredWhole, DeliveredInOrder
    <3>5. Offset' = 0 /\ Len(reader'.data) = 0
      BY <1>11, <2>6 DEF Offset
    <3>6. Window(rest, 0, reader'.data) /\ 0 + 0 = 0
      <4>1. Len(rest) \in Nat
        BY DEF Bytes
      <4> QED
        BY <1>11, <2>6, <4>1 DEF Window
    <3>7. stream' = "open" => (0 + 0) + Len(wire') = Len(rest)
      BY <1>3, <1>8, <1>9, <1>11, <2>1, <2>4
    <3>8. InStep(rest)'
      BY <1>3, <2>4, <2>6, <3>1, <3>5, <3>6, <3>7, Zenon DEF InStep
    <3> QED
      BY <3>2, <3>3, <3>4, <3>8 DEF FramingInv
  <2> QED
    BY <1>15, <2>5, <2>6 DEF PayloadRead
<1> QED
  BY <1>1, <1>7, <1>12, <1>13, <1>14, <1>15, Zenon DEF Returns

\* A read returns no bytes at the end of the stream: what there was of a header
\* becomes a size, what there was of a payload is handed on, and after either
\* there is nothing left to read.
LEMMA ReadEndKeepsFraming ==
  ASSUME FramingInv, ReadEnd
  PROVE  FramingInv'
<1>1. /\ UNCHANGED <<outbox, sent, stream, wire>> /\ wire = <<>> /\ stream = "ended"
      /\ reader.phase \in {"header", "payload"} /\ wire' \in Bytes
      /\ <<>> \in Bytes /\ Len(<<>>) = 0
  BY DEF ReadEnd, peerVars, Suspended, FramingInv, FramingType, Bytes
<1>2. /\ reader.data \in Bytes /\ sent \in Seq(Messages) /\ delivered \in Seq(Bytes)
      /\ Len(reader.data) \in Nat
  BY DEF FramingInv, FramingType, Bytes
<1>3. CASE LoopEnds /\ UNCHANGED delivered
  BY <1>1, <1>3, DoneKeepsFraming DEF LoopEnds
<1>4. CASE reader.phase = "header" /\ HeaderRead(reader.data)
  <2>1. CASE ReadReturnsNothing
    BY <1>1, <2>1, DoneKeepsFraming DEF ReadReturnsNothing, LoopEnds
  <2>2. CASE /\ reader' = [phase |-> "payload", data |-> <<>>]
             /\ want' \in 1 .. kMaxMessageSize /\ UNCHANGED delivered
    <3>1. want' \in Nat
      BY <2>2, FramingAssumption
    <3> QED
      BY <1>1, <2>2, <3>1
         DEF FramingInv, FramingType, DeliveredInOrder, AtTheEnd
  <2> QED
    BY <1>4, <2>1, <2>2 DEF HeaderRead
<1>5. CASE reader.phase = "payload" /\ PayloadRead(reader.data)
  <2>1. CASE ReadReturnsNothing
    BY <1>1, <2>1, DoneKeepsFraming DEF ReadReturnsNothing, LoopEnds
  <2>2. CASE /\ reader.data # <<>>
             /\ reader' = [phase |-> "idle", data |-> <<>>] /\ UNCHANGED want
             /\ delivered' = Append(delivered, reader.data)
    <3>1. DeliveredWhole /\ \E bytes \in Bytes : InStep(bytes)
      BY <1>5, <2>2 DEF FramingInv, AtTheEnd
    <3>2. PICK bytes \in Bytes : InStep(bytes)
      BY <3>1
    <3> DEFINE m == sent[Len(delivered) + 1]
    <3>3. /\ Len(delivered) \in Nat /\ Len(sent) \in Nat /\ Len(delivered) < Len(sent)
          /\ m \in Bytes /\ Len(m) \in Nat /\ Len(reader.data) < Len(m)
          /\ Framed(sent, Len(delivered), bytes)
          /\ Window(bytes, kHeaderSize, reader.data)
      BY <1>2, <1>5, <3>2 DEF InStep, Offset, Messages, Bytes
    <3>4. \A k \in 1 .. Len(reader.data) : reader.data[k] = m[k]
      <4>1. Len(reader.data) <= Len(m)
        BY <1>2, <3>3
      <4> QED
        BY <1>2, <3>3, <4>1, PayloadIsTheMessage
    <3> HIDE DEF m
    <3>5. IsStartOf(reader.data, m)
      <4>1. DOMAIN reader.data = 1 .. Len(reader.data) /\ Len(reader.data) \in Nat
        BY <1>2 DEF Bytes
      <4>2. Len(reader.data) <= Len(m)
        BY <3>3, <4>1
      <4> QED
        BY <3>4, <4>1, <4>2, Zenon DEF IsStartOf
    <3>6. /\ Len(delivered') = Len(delivered) + 1 /\ delivered' \in Seq(Bytes)
          /\ delivered'[Len(delivered) + 1] = reader.data
          /\ \A i \in 1 .. Len(delivered) : delivered'[i] = delivered[i]
      BY <1>2, <2>2
    <3>7. FramingType'
      BY <1>1, <2>2, <3>6 DEF FramingInv, FramingType
    <3>8. DeliveredInOrder'
      <4> SUFFICES ASSUME NEW i \in 1 .. Len(delivered')
                   PROVE  /\ i \in 1 .. Len(sent)
                          /\ \/ delivered'[i] = sent[i]
                             \/ /\ i = Len(delivered') /\ stream = "ended"
                                /\ IsStartOf(delivered'[i], sent[i])
        BY <1>1, <1>2, <3>6 DEF DeliveredInOrder
      <4>1. CASE i \in 1 .. Len(delivered)
        BY <3>1, <3>3, <3>6, <4>1 DEF DeliveredWhole
      <4>2. CASE i = Len(delivered) + 1
        BY <1>1, <3>3, <3>5, <3>6, <4>2 DEF m
      <4> QED
        BY <3>3, <3>6, <4>1, <4>2
    <3>9. AtTheEnd'
      BY <1>1, <2>2 DEF AtTheEnd
    <3> QED
      BY <3>7, <3>8, <3>9 DEF FramingInv
  <2> QED
    BY <1>5, <2>1, <2>2 DEF PayloadRead
<1> QED
  BY <1>3, <1>4, <1>5, Zenon DEF ReadEnd, Returns

\* The messages a session is handed are those its peer wrote, in their order
\* and unchanged, however the stream splits them, wherever it ends and whenever
\* the session is torn down; only the last may be a part of a message, of a
\* stream that ended inside it.
THEOREM MessagesArriveInOrder == FSpec => []DeliveredInOrder
<1>1. FInit => FramingInv
  BY FramingInvInit
<1>2. FramingInv /\ [FNext]_fvars => FramingInv'
  <2> SUFFICES ASSUME FramingInv, [FNext]_fvars PROVE FramingInv'
    OBVIOUS
  <2>1. CASE TearDown
    BY <2>1, Zenon DEF TearDown, peerVars, FramingInv, FramingType, DeliveredInOrder,
                DeliveredWhole, InStep, Offset, AtTheEnd
  <2>2. CASE UNCHANGED fvars
    BY <2>2, Zenon DEF fvars, FramingInv, FramingType, DeliveredInOrder,
                DeliveredWhole, InStep, Offset, AtTheEnd
  <2> QED
    BY <2>1, <2>2, WriteKeepsFraming, CutKeepsFraming, StartReadKeepsFraming,
       ReadExactKeepsFraming, ReadEndKeepsFraming, ReadErrorKeepsFraming DEF FNext
<1>3. FramingInv => DeliveredInOrder
  BY DEF FramingInv
<1> QED
  BY <1>1, <1>2, <1>3, PTL DEF FSpec

\* A read that resumes after its transport was destroyed changes no member of
\* it and hands nothing on: every way out of ReadExact asks the cancelation
\* token first, and a new read is not begun.
THEOREM AbortedReadsAreSilent == FSpec => AbortedReadIsSilent
<1>1. [FNext]_fvars => [~owned => UNCHANGED <<reading_, delivered>>]_fvars
  BY Zenon DEF FNext, Write, Cut, StartRead, ReadExact, ReadEnd, ReadError, TearDown,
         ReadExpired, LoopEnds, fvars
<1> QED
  BY <1>1, PTL DEF FSpec, AbortedReadIsSilent

-----------------------------------------------------------------------------
(***************************************************************************)
(* The legacy adapter, for any set of items.                               *)
(***************************************************************************)

Flags == [add_requested : BOOLEAN, closed : BOOLEAN, known : BOOLEAN]

Types ==
  /\ owner \in [Items -> {"none", "holds", "destroyed"}]
  /\ itemState \in [Items -> Flags]
  /\ add \in [Items -> {"off", "spawned", "waiting", "added", "refused", "done"}]
  /\ served \subseteq Items

\* Only a live pump of an open adapter serves anything.
PumpInv == (closed => pump # "live") /\ (served # {} => pump = "live")

\* An item is served once it was added; after its add coroutine it is open with
\* known ids, or about to be removed; from the start of the add its handle is
\* mapped until the item is closed.
ItemInv(i) ==
  /\ ~itemState[i].add_requested => add[i] = "off"
  /\ owner[i] = "destroyed" => itemState[i].closed
  /\ i \in served => add[i] \in {"added", "done"}
  /\ i \in served /\ add[i] = "done" =>
       i \in removing \/ (itemState[i].known /\ ~itemState[i].closed)
  /\ add[i] \in {"waiting", "added"} \/ i \in served =>
       i \in mapped \/ itemState[i].closed \/ closed

\* The strengthening of DestroyedIsRemoved and ServedIsMapped.
Inv == Types /\ PumpInv /\ \A i \in Items : ItemInv(i)

\* The adapter starts in a state of the invariant.
LEMMA InitInv == Init => Inv
BY DEF Init, Inv, Types, PumpInv, ItemInv, Flags

\* Closing an item touches nothing else of it, and no other item.
LEMMA CloseItemEffect ==
  ASSUME NEW i \in Items, itemState \in [Items -> Flags], CloseItem(i)
  PROVE  /\ itemState' \in [Items -> Flags]
         /\ itemState'[i].closed
         /\ itemState'[i].add_requested = itemState[i].add_requested
         /\ \A j \in Items \ {i} : itemState'[j] = itemState[j]
BY Zenon DEF CloseItem, Flags

\* Requesting an item does not either.
LEMMA RequestEffect ==
  ASSUME NEW i \in Items, itemState \in [Items -> Flags],
         itemState' = [itemState EXCEPT ![i].add_requested = TRUE]
  PROVE  /\ itemState' \in [Items -> Flags]
         /\ itemState'[i].add_requested
         /\ itemState'[i].closed = itemState[i].closed
         /\ itemState'[i].known = itemState[i].known
         /\ \A j \in Items \ {i} : itemState'[j] = itemState[j]
BY Zenon DEF Flags

\* Nor does learning its ids.
LEMMA KnownEffect ==
  ASSUME NEW i \in Items, itemState \in [Items -> Flags],
         itemState' = [itemState EXCEPT ![i].known = TRUE]
  PROVE  /\ itemState' \in [Items -> Flags]
         /\ itemState'[i].known
         /\ itemState'[i].closed = itemState[i].closed
         /\ itemState'[i].add_requested = itemState[i].add_requested
         /\ \A j \in Items \ {i} : itemState'[j] = itemState[j]
BY Zenon DEF Flags

\* An item that a step leaves alone keeps its invariant, though others may be
\* mapped or about to be removed, or the adapter closed.
LEMMA OtherItem ==
  ASSUME NEW j \in Items, ItemInv(j),
         owner'[j] = owner[j], itemState'[j] = itemState[j], add'[j] = add[j],
         j \in served' => j \in served, j \in removing => j \in removing',
         j \in mapped => j \in mapped', closed => closed'
  PROVE  ItemInv(j)'
BY DEF ItemInv

\* Every step of the adapter keeps the invariant.
LEMMA StepKeepsInv == Inv /\ [Next]_vars => Inv'
<1> SUFFICES ASSUME Inv, [Next]_vars PROVE Inv'
  OBVIOUS
<1>0. Types /\ PumpInv /\ \A j \in Items : ItemInv(j)
  BY DEF Inv
<1>1. ASSUME NEW i \in Items, CreateMonitoredItem(i) PROVE Inv'
  <2>1. Types' /\ PumpInv'
    BY <1>0, <1>1 DEF CreateMonitoredItem, Types, PumpInv
  <2>2. ItemInv(i)'
    BY <1>0, <1>1 DEF CreateMonitoredItem, Types, ItemInv
  <2>3. ASSUME NEW j \in Items \ {i} PROVE ItemInv(j)'
    BY <1>0, <1>1, OtherItem DEF CreateMonitoredItem, Types
  <2> QED
    BY <2>1, <2>2, <2>3 DEF Inv
<1>2. ASSUME NEW i \in Items, Subscribe(i) PROVE Inv'
  <2>1. /\ itemState' = [itemState EXCEPT ![i].add_requested = TRUE]
        /\ add[i] = "off"
    BY <1>0, <1>2 DEF Subscribe, ItemInv
  <2>2. Types' /\ PumpInv'
    BY <1>0, <1>2, <2>1, RequestEffect, Zenon DEF Subscribe, Types, PumpInv
  <2>3. ItemInv(i)'
    BY <1>0, <1>2, <2>1, RequestEffect DEF Subscribe, Types, ItemInv
  <2>4. ASSUME NEW j \in Items \ {i} PROVE ItemInv(j)'
    BY <1>0, <1>2, <2>1, RequestEffect, OtherItem DEF Subscribe, Types
  <2> QED
    BY <2>2, <2>3, <2>4 DEF Inv
<1>3. ASSUME NEW i \in Items, AddStart(i) PROVE Inv'
  <2>1. /\ add[i] = "spawned" /\ i \notin served
        /\ UNCHANGED <<owner, removing, served>>
    BY <1>0, <1>3 DEF AddStart, ItemInv
  <2>2. CASE /\ CloseItem(i) /\ add' = [add EXCEPT ![i] = "done"] /\ mapped' = mapped
             /\ \/ closed /\ closed' /\ pump' = pump
                \/ ~closed /\ closed' /\ pump = "none" /\ pump' = "refused"
    <3>1. Types' /\ PumpInv'
      BY <1>0, <2>1, <2>2, CloseItemEffect DEF Types, PumpInv
    <3>2. ItemInv(i)'
      BY <1>0, <2>1, <2>2, CloseItemEffect DEF Types, ItemInv
    <3>3. ASSUME NEW j \in Items \ {i} PROVE ItemInv(j)'
      BY <1>0, <2>1, <2>2, CloseItemEffect, OtherItem DEF Types
    <3> QED
      BY <3>1, <3>2, <3>3 DEF Inv
  <2>3. CASE ~closed /\ ~closed' /\ pump' = "live" /\ UNCHANGED <<itemState, add, mapped>>
    BY <1>0, <2>1, <2>3, OtherItem DEF Inv, Types, PumpInv
  <2>4. CASE ~closed /\ ~closed' /\ pump' = "live" /\ mapped' = mapped \cup {i}
             /\ add' = [add EXCEPT ![i] = "waiting"] /\ itemState' = itemState
    <3>1. Types' /\ PumpInv'
      BY <1>0, <2>1, <2>4 DEF Types, PumpInv
    <3>2. ItemInv(i)'
      BY <1>0, <2>1, <2>4 DEF Types, ItemInv
    <3>3. ASSUME NEW j \in Items \ {i} PROVE ItemInv(j)'
      BY <1>0, <2>1, <2>4, OtherItem DEF Types
    <3> QED
      BY <3>1, <3>2, <3>3 DEF Inv
  <2> QED
    BY <1>3, <2>2, <2>3, <2>4 DEF AddStart
<1>4. ASSUME NEW i \in Items, Answer(i) PROVE Inv'
  <2>1. Types' /\ PumpInv'
    BY <1>0, <1>4 DEF Answer, Types, PumpInv
  <2>2. ItemInv(i)'
    BY <1>0, <1>4 DEF Answer, Types, ItemInv
  <2>3. ASSUME NEW j \in Items \ {i} PROVE ItemInv(j)'
    BY <1>0, <1>4, OtherItem DEF Answer, Types
  <2> QED
    BY <2>1, <2>2, <2>3 DEF Inv
<1>5. ASSUME NEW i \in Items, AddDone(i) PROVE Inv'
  <2>1. /\ add[i] \in {"added", "refused"} /\ add' = [add EXCEPT ![i] = "done"]
        /\ UNCHANGED <<owner, pump, closed, served>>
    BY <1>5 DEF AddDone
  <2>2. CASE add[i] = "refused" /\ mapped' = mapped \ {i} /\ CloseItem(i)
             /\ removing' = removing
    <3>1. Types' /\ PumpInv'
      BY <1>0, <2>1, <2>2, CloseItemEffect DEF Types, PumpInv
    <3>2. ItemInv(i)'
      BY <1>0, <2>1, <2>2, CloseItemEffect DEF Types, ItemInv
    <3>3. ASSUME NEW j \in Items \ {i} PROVE ItemInv(j)'
      BY <1>0, <2>1, <2>2, CloseItemEffect, OtherItem DEF Types
    <3> QED
      BY <3>1, <3>2, <3>3 DEF Inv
  <2>3. CASE add[i] = "added" /\ itemState[i].closed /\ RemoveItem(i)
             /\ itemState' = itemState
    <3>1. Types' /\ PumpInv'
      BY <1>0, <2>1, <2>3 DEF Types, PumpInv
    <3>2. ItemInv(i)'
      BY <1>0, <2>1, <2>3 DEF Types, PumpInv, ItemInv, RemoveItem
    <3>3. ASSUME NEW j \in Items \ {i} PROVE ItemInv(j)'
      BY <1>0, <2>1, <2>3, OtherItem DEF Types, RemoveItem
    <3> QED
      BY <3>1, <3>2, <3>3 DEF Inv
  <2>4. CASE add[i] = "added" /\ ~itemState[i].closed
             /\ itemState' = [itemState EXCEPT ![i].known = TRUE]
             /\ UNCHANGED <<mapped, removing>>
    <3>1. Types' /\ PumpInv'
      BY <1>0, <2>1, <2>4, KnownEffect, Zenon DEF Types, PumpInv
    <3>2. ItemInv(i)'
      BY <1>0, <2>1, <2>4, KnownEffect DEF Types, ItemInv
    <3>3. ASSUME NEW j \in Items \ {i} PROVE ItemInv(j)'
      BY <1>0, <2>1, <2>4, KnownEffect, OtherItem DEF Types
    <3> QED
      BY <3>1, <3>2, <3>3 DEF Inv
  <2> QED
    BY <1>5, <2>2, <2>3, <2>4 DEF AddDone
<1>6. ASSUME NEW i \in Items, DestroyItem(i) PROVE Inv'
  <2>1. Types' /\ PumpInv'
    BY <1>0, <1>6, CloseItemEffect DEF DestroyItem, Types, PumpInv
  <2>2. i \in served /\ add[i] = "done" => i \in removing'
    BY <1>0, <1>6 DEF DestroyItem, RemoveItem, ItemInv, PumpInv
  <2>3. ItemInv(i)'
    BY <1>0, <1>6, <2>2, CloseItemEffect, Zenon DEF DestroyItem, Types, ItemInv
  <2>4. ASSUME NEW j \in Items \ {i} PROVE ItemInv(j)'
    <3>1. (j \in removing => j \in removing') /\ (j \in mapped => j \in mapped')
      BY <1>6, <2>4 DEF DestroyItem, RemoveItem
    <3> QED
      BY <1>0, <1>6, <3>1, CloseItemEffect, OtherItem DEF DestroyItem, Types
  <2> QED
    BY <2>1, <2>3, <2>4 DEF Inv
<1>7. ASSUME NEW i \in Items, RemoveStart(i) PROVE Inv'
  <2>1. Types' /\ PumpInv'
    BY <1>0, <1>7 DEF RemoveStart, Types, PumpInv
  <2>2. i \notin served'
    BY <1>0, <1>7 DEF RemoveStart, PumpInv
  <2>3. ItemInv(i)'
    BY <1>0, <1>7, <2>2 DEF RemoveStart, Types, ItemInv
  <2>4. ASSUME NEW j \in Items \ {i} PROVE ItemInv(j)'
    BY <1>0, <1>7, OtherItem DEF RemoveStart, Types
  <2> QED
    BY <2>1, <2>3, <2>4 DEF Inv
<1>8. ASSUME ReadFails \/ Close PROVE Inv'
  <2>1. itemState' = [i \in Items |-> IF i \in mapped
                                      THEN [itemState[i] EXCEPT !.closed = TRUE]
                                      ELSE itemState[i]]
    BY <1>8 DEF ReadFails, Close, CloseAll
  <2>2. ASSUME NEW i \in Items
        PROVE  /\ itemState'[i] \in Flags
               /\ itemState[i].closed => itemState'[i].closed
               /\ itemState'[i].add_requested = itemState[i].add_requested
    BY <1>0, <2>1, Zenon DEF Types, Flags
  <2>3. closed' /\ served' = {} /\ pump' # "live" /\ owner' = owner /\ add' = add
    BY <1>8 DEF ReadFails, Close, CloseAll
  <2>4. Types' /\ PumpInv'
    BY <1>0, <2>1, <2>2, <2>3 DEF Types, PumpInv
  <2>5. ASSUME NEW i \in Items PROVE ItemInv(i)'
    BY <1>0, <2>2, <2>3, Zenon DEF ItemInv
  <2> QED
    BY <2>4, <2>5 DEF Inv
<1>9. ASSUME UNCHANGED vars PROVE Inv'
  BY <1>0, <1>9, Zenon DEF vars, Inv, Types, PumpInv, ItemInv
<1> QED
  BY <1>1, <1>2, <1>3, <1>4, <1>5, <1>6, <1>7, <1>8, <1>9 DEF Next, Step

\* The subscription serves no destroyed item for good: if it does serve one, a
\* coroutine that takes it back is under way (SubscriptionBackedMonitoredItem::
\* Close, AddItem, RemoveItem).
THEOREM DestroyedItemsAreRemoved == Spec => []DestroyedIsRemoved
<1>1. Inv => DestroyedIsRemoved
  BY DEF Inv, Types, ItemInv, DestroyedIsRemoved
<1> QED
  BY <1>1, InitInv, StepKeepsInv, PTL DEF Spec

\* Every notification of the subscription finds its item (AddItem maps the
\* handle before it asks the subscription).
THEOREM NotificationsFindTheirItem == Spec => []ServedIsMapped
<1>1. Inv => ServedIsMapped
  BY DEF Inv, Types, ItemInv, ServedIsMapped
<1> QED
  BY <1>1, InitInv, StepKeepsInv, PTL DEF Spec

\* Both together: the subscription serves items somebody wants and can be told of.
THEOREM ItemsStayServed == Spec => []ItemsAreServed
BY DestroyedItemsAreRemoved, NotificationsFindTheirItem, PTL DEF ItemsAreServed

=============================================================================
