-------------------------- MODULE HttpRelayProofs --------------------------
(***************************************************************************)
(* Theorems about HttpRelay, for any number of bytes and any width of the  *)
(* sequence numbers that counts them: each direction is a byte stream,     *)
(* whatever fails and whoever closes; until a thread closes the            *)
(* connection, every byte is in one place of its way.                      *)
(***************************************************************************)
EXTENDS HttpRelay, SequenceTheorems, TLAPS

Label == {"idle", "entered", "flush", "notify", "finish", "done"}

(* A closer that flushes stays there until its chunk is sent.              *)
CloserOK ==
  /\ closer \in [Closer -> Label] /\ flusher \in Closer \cup {"stream"}
  /\ flusher \in Closer => closer[flusher] = "flush" /\ sending # <<>>

(* What holds while no thread closes the connection.                       *)
ClientOK ==
  Untouched => ~closed /\ receiver \in {"waiting", "replied"} /\ inSeq = peerSeq

Prefix(part, whole) == \E rest \in Seq(Nat) : whole = part \o rest

(* Client to device.  The sequence numbers differ for ever once a chunk    *)
(* was lost, also when only a part of it arrived: no later chunk is        *)
(* accepted.  They do not come round, because a chunk has a byte at least. *)
OutwardType ==
  /\ written \in Seq(Nat) /\ buffer \in Seq(Nat) /\ sending \in Seq(Nat)
  /\ toDevice \in Seq(Nat)
  /\ inSeq \in Nat /\ peerSeq \in Nat

ChunksOK ==
  /\ inSeq <= peerSeq
  /\ peerSeq + Len(sending) + Len(buffer) <= Len(written)
  /\ Len(written) <= MaxBytes

SentOK ==
  /\ Prefix(toDevice, written)
  /\ inSeq = peerSeq =>
       \E rest \in Seq(Nat) : /\ written = (toDevice \o sending) \o rest
                              /\ ~ExecutorsShutDown => rest = buffer

OutwardOK == OutwardType /\ ChunksOK /\ SentOK

(* Device to client.  The receiver stops when a response is lost or not    *)
(* the next one: nothing is received after the gap.                        *)
InwardOK ==
  /\ fromDevice \in Seq(Nat) /\ read \in Seq(Nat) /\ incoming \in Seq(Nat)
  /\ temp \in Seq(Nat) /\ InResponse \in Seq(Nat)
  /\ Prefix(read \o incoming, fromDevice)
  /\ receiver # "stopped" => fromDevice = (read \o incoming \o InResponse) \o temp

IInv == CloserOK /\ ClientOK /\ OutwardOK /\ InwardOK

(***************************************************************************)
(* Lemmas about sequences.                                                 *)
(***************************************************************************)
Associative(S) == \A a, b, c \in Seq(S) : (a \o b) \o c = a \o (b \o c)

LEMMA ConcatIsAssociative == \A S : Associative(S)
BY ConcatAssociative, Zenon DEF Associative

LEMMA Joined ==
  /\ \A a, b \in Seq(Nat) : a \o b \in Seq(Nat) /\ Len(a \o b) = Len(a) + Len(b)
  /\ \A a, b, c \in Seq(Nat) : (a \o b) \o c = a \o (b \o c)
  /\ \A a \in Seq(Nat) : a \o <<>> = a /\ <<>> \o a = a
  /\ \A a \in Seq(Nat) : Len(a) \in Nat /\ (a # <<>> => Len(a) >= 1)
  /\ <<>> \in Seq(Nat) /\ Len(<<>>) = 0
<1>1. \A a, b \in Seq(Nat) : a \o b \in Seq(Nat) /\ Len(a \o b) = Len(a) + Len(b)
  BY ConcatProperties
<1>2. \A a, b, c \in Seq(Nat) : (a \o b) \o c = a \o (b \o c)
  <2>1. Associative(Nat)
    BY ConcatIsAssociative, Zenon
  <2> QED  BY <2>1, Zenon DEF Associative
<1>3. \A a \in Seq(Nat) : a \o <<>> = a /\ <<>> \o a = a
  BY ConcatEmptySeq
<1>4. <<>> \in Seq(Nat) /\ Len(<<>>) = 0
  BY EmptySeq
<1>5. \A a \in Seq(Nat) : Len(a) \in Nat /\ (a # <<>> => Len(a) >= 1)
  BY EmptySeq, LenProperties
<1> QED  BY <1>1, <1>2, <1>3, <1>4, <1>5

LEMMA Appended ==
  \A a \in Seq(Nat), n \in Nat :
    Append(a, n) = a \o <<n>> /\ <<n>> \in Seq(Nat) /\ Append(a, n) \in Seq(Nat)
<1> TAKE a \in Seq(Nat), n \in Nat
<1>1. Append(a, n) = a \o <<n>>
  BY AppendIsConcat, Zenon
<1>2. <<n>> \in Seq(Nat)
  OBVIOUS
<1>3. Append(a, n) \in Seq(Nat)
  OBVIOUS
<1> QED  BY <1>1, <1>2, <1>3

LEMMA Split ==
  ASSUME NEW s \in Seq(Nat), NEW n \in 0..Len(s)
  PROVE  \E t \in Seq(Nat) : SubSeq(s, 1, n) \in Seq(Nat) /\ s = SubSeq(s, 1, n) \o t
<1> DEFINE t == SubSeq(s, n + 1, Len(s))
<1>1. SubSeq(s, 1, n) \o t = SubSeq(s, 1, Len(s))
  <2>1. Len(s) \in Nat
    BY LenProperties
  <2>2. 1 \in 1..(Len(s) + 1) /\ n \in (1 - 1)..Len(s) /\ Len(s) \in n..Len(s)
    BY <2>1
  <2> QED  BY <2>2, ConcatAdjacentSubSeq
<1>2. SubSeq(s, 1, Len(s)) = s
  BY SubSeqFull
<1>3. Len(s) \in Nat /\ \A i \in 1..Len(s) : s[i] \in Nat
  BY ElementOfSeq, LenProperties
<1>4. SubSeq(s, 1, n) \in Seq(Nat)
  <2>1. \A i \in 1..n : s[i] \in Nat
    BY <1>3
  <2> QED  BY <2>1, SubSeqProperties
<1>5. t \in Seq(Nat)
  <2>1. \A i \in (n + 1)..Len(s) : s[i] \in Nat
    BY <1>3
  <2> QED  BY <1>3, <2>1, SubSeqProperties
<1> HIDE DEF t
<1> QED  BY <1>1, <1>2, <1>4, <1>5, Zenon

Regroups(d, p, t, rest) ==
  /\ d \o p \in Seq(Nat) /\ t \o rest \in Seq(Nat)
  /\ d \o (p \o t) = (d \o p) \o t
  /\ ((d \o p) \o t) \o rest = (d \o p) \o (t \o rest)

LEMMA Regrouped == \A d, p, t, rest \in Seq(Nat) : Regroups(d, p, t, rest)
<1> TAKE d \in Seq(Nat), p \in Seq(Nat), t \in Seq(Nat), rest \in Seq(Nat)
<1>1. \A a, b, c \in Seq(Nat) : (a \o b) \o c = a \o (b \o c)
  BY Joined
<1>2. d \o p \in Seq(Nat) /\ t \o rest \in Seq(Nat)
  BY Joined
<1>3. (d \o p) \o t = d \o (p \o t)
  <2>1. \A b, c \in Seq(Nat) : (d \o b) \o c = d \o (b \o c)
    BY <1>1, Zenon
  <2> QED  BY <2>1, Zenon
<1>4. \A b, c \in Seq(Nat) : ((d \o p) \o b) \o c = (d \o p) \o (b \o c)
  BY <1>1, <1>2, Zenon
<1>5. ((d \o p) \o t) \o rest = (d \o p) \o (t \o rest)
  BY <1>4, Zenon
<1> QED  BY <1>2, <1>3, <1>5 DEF Regroups

LEMMA PrefixExtends ==
  ASSUME NEW p \in Seq(Nat), NEW w \in Seq(Nat), NEW x \in Seq(Nat), Prefix(p, w)
  PROVE  Prefix(p, w \o x)
<1>1. PICK r \in Seq(Nat) : w = p \o r
  BY DEF Prefix
<1>2. (p \o r) \o x = p \o (r \o x)
  <2>1. \A a, b, c \in Seq(Nat) : (a \o b) \o c = a \o (b \o c)
    BY Joined
  <2>2. \A b, c \in Seq(Nat) : (p \o b) \o c = p \o (b \o c)
    BY <2>1, Zenon
  <2>3. \A c \in Seq(Nat) : (p \o r) \o c = p \o (r \o c)
    BY <2>2, Zenon
  <2> QED  BY <2>3, Zenon
<1>3. r \o x \in Seq(Nat)
  BY ConcatProperties
<1> QED  BY <1>1, <1>2, <1>3 DEF Prefix

(* What ByteStream calls Deliver: the part that has arrived grows.         *)
LEMMA PrefixDelivered ==
  ASSUME NEW d \in Seq(Nat), NEW x \in Seq(Nat), NEW w \in Seq(Nat), Prefix(d \o x, w)
  PROVE  d \o x = d \/ \E n \in (Len(d) + 1)..Len(w) : d \o x = SubSeq(w, 1, n)
<1>1. CASE x = <<>>
  BY <1>1, Joined
<1>2. CASE x # <<>>
  <2> DEFINE p == d \o x
  <2>1. p \in Seq(Nat) /\ Len(p) >= Len(d) + 1 /\ Len(p) \in Nat /\ Len(d) \in Nat
    BY <1>2, Joined
  <2> HIDE DEF p
  <2>2. PICK r \in Seq(Nat) : w = p \o r
    BY DEF Prefix, p
  <2>3. Len(p) \in 1..Len(p) /\ 1 \in 1..Len(p)
    BY <2>1
  <2>4. SubSeq(w, 1, Len(p)) = SubSeq(p, 1, Len(p))
    BY <2>1, <2>2, <2>3, SubSeqOfConcat1
  <2>5. SubSeq(p, 1, Len(p)) = p
    BY <2>1, SubSeqFull
  <2>6. Len(w) = Len(p) + Len(r) /\ Len(r) \in Nat
    BY <2>1, <2>2, Joined
  <2>7. Len(p) \in (Len(d) + 1)..Len(w)
    BY <2>1, <2>6
  <2> QED  BY <2>4, <2>5, <2>7 DEF p
<1> QED  BY <1>1, <1>2

(***************************************************************************)
(* The invariant.                                                          *)
(***************************************************************************)
LEMMA InitIInv == Init => IInv
<1> SUFFICES ASSUME Init PROVE IInv
  OBVIOUS
<1>1. CloserOK
  BY DEF Init, CloserOK, Label, Closer
<1>2. ClientOK
  BY DEF Init, ClientOK
<1>3. <<>> \o <<>> = <<>> /\ <<>> \in Seq(Nat) /\ Len(<<>>) = 0
  BY Joined
<1>4. OutwardOK
  <2>1. OutwardType /\ ChunksOK
    BY <1>3, HttpRelayAssumption DEF Init, OutwardType, ChunksOK
  <2>2. SentOK
    <3>1. <<>> = (<<>> \o <<>>) \o <<>>
      BY <1>3
    <3> QED  BY <1>3, <3>1, Zenon DEF Init, SentOK, Prefix
  <2> QED  BY <2>1, <2>2 DEF OutwardOK
<1>5. InwardOK
  BY <1>3 DEF Init, InwardOK, InResponse, Prefix
<1> QED  BY <1>1, <1>2, <1>4, <1>5 DEF IInv

(* A thread in close() never becomes idle again, and does not leave the    *)
(* place where the executors are shut down.                                *)
LEMMA CloserStep ==
  ASSUME CloserOK, [Next]_vars
  PROVE  /\ CloserOK'
         /\ ExecutorsShutDown => ExecutorsShutDown'
         /\ Untouched' => Untouched /\ closer' = closer
<1>c. "stream" \notin Closer /\ "outgoing" \in Closer /\ "incoming" \in Closer /\ "user" \in Closer
  BY DEF Closer
<1>e. ASSUME NEW t \in Closer, EnterClose(t), UNCHANGED <<sending, flusher>> \/ flusher' = "stream"
      PROVE  /\ CloserOK' /\ (ExecutorsShutDown => ExecutorsShutDown')
             /\ (Untouched' => Untouched /\ closer' = closer)
  BY <1>c, <1>e DEF EnterClose, CloserOK, Label, ExecutorsShutDown, Untouched
<1>g. ASSUME NEW t \in Closer, NEW l \in Label \ {"idle"}, Goto(t, l),
             closer[t] \notin {"idle", "done"},
             \/ UNCHANGED <<sending, flusher>> /\ flusher # t
             \/ flusher' = "stream"
             \/ flusher' = t /\ l = "flush" /\ sending' # <<>>
      PROVE  /\ CloserOK' /\ (ExecutorsShutDown => ExecutorsShutDown')
             /\ (Untouched' => Untouched /\ closer' = closer)
  BY <1>c, <1>g DEF Goto, CloserOK, Label, ExecutorsShutDown, Untouched
<1>u. ASSUME closer' = closer, \/ UNCHANGED <<sending, flusher>> \/ flusher' = "stream"
                               \/ \E t \in Closer : /\ flusher' = t /\ closer[t] = "flush"
                                                    /\ sending' # <<>>
      PROVE  /\ CloserOK' /\ (ExecutorsShutDown => ExecutorsShutDown')
             /\ (Untouched' => Untouched /\ closer' = closer)
  BY <1>c, <1>u DEF CloserOK, Label, ExecutorsShutDown, Untouched
<1>1. CASE \/ CloseByUser \/ PollFails
           \/ HandleReply /\ EnterClose("incoming")
  <2>1. \E t \in Closer : EnterClose(t)
    BY <1>c, <1>1 DEF CloseByUser, PollFails
  <2>2. UNCHANGED <<sending, flusher>>
    BY <1>1 DEF CloseByUser, PollFails, HandleReply, outVars
  <2> QED  BY <1>e, <2>1, <2>2
<1>2. CASE \E t \in Closer : Close(t)
  <2>1. PICK t \in Closer : Close(t)
    BY <1>2
  <2>2. CASE SetClosed(t) \/ NothingToFlush(t) \/ (\E d \in BOOLEAN : NotifyServer(t, d))
             \/ FinishClose(t)
    <3>1. /\ \E l \in Label \ {"idle"} : Goto(t, l)
          /\ closer[t] \notin {"idle", "done"} /\ UNCHANGED <<sending, flusher>>
      BY <2>2 DEF SetClosed, NothingToFlush, NotifyServer, FinishClose, Label, outVars
    <3>2. flusher # t
      BY <2>2 DEF SetClosed, NothingToFlush, NotifyServer, FinishClose, CloserOK
    <3> QED  BY <1>g, <3>1, <3>2
  <2>3. CASE Flush(t)
    <3>1. closer[t] = "flush" /\ sending = <<>> /\ buffer # <<>>
      BY <2>3 DEF Flush, CanFlush
    <3>2. CASE ExecutorsShutDown
      <4>1. Goto(t, "finish") /\ UNCHANGED <<sending, flusher>> /\ flusher # t
        BY <1>c, <2>3, <3>1, <3>2 DEF Flush, CloserOK
      <4> QED  BY <1>g, <3>1, <4>1 DEF Label
    <3>3. CASE ~ExecutorsShutDown
      <4>1. closer' = closer /\ flusher' = t /\ sending' # <<>>
        BY <2>3, <3>1, <3>3 DEF Flush
      <4> QED  BY <1>u, <3>1, <4>1
    <3> QED  BY <3>2, <3>3
  <2> QED  BY <2>1, <2>2, <2>3 DEF Close
<1>3. CASE Exchange
  <2>1. \E a \in BOOLEAN : EndFlush(a)
    BY <1>3 DEF Exchange, ChunkAccepted, ChunkRefused, ChunkUnanswered
  <2>2. flusher' = "stream"
    BY <2>1 DEF EndFlush
  <2>3. CASE flusher # "stream"
    <3>1. flusher \in Closer /\ closer[flusher] = "flush"
      BY <2>3 DEF CloserOK
    <3>2. \E l \in {"notify", "finish"} : Goto(flusher, l)
      BY <2>1, <2>3 DEF EndFlush
    <3> QED  BY <1>g, <2>2, <3>1, <3>2 DEF Label
  <2>4. CASE flusher = "stream"
    <3>1. closer' = closer \/ EnterClose("outgoing")
      BY <2>1, <2>4 DEF EndFlush
    <3> QED  BY <1>c, <1>e, <1>u, <2>2, <3>1
  <2> QED  BY <2>3, <2>4
<1>4. CASE Flush("stream")
  <2>1. closer' = closer /\ (UNCHANGED <<sending, flusher>> \/ flusher' = "stream")
    BY <1>c, <1>4 DEF Flush
  <2> QED  BY <1>u, <2>1
<1>5. CASE \/ Write \/ ReadFromDevice \/ AnswerPoll \/ RefusePoll \/ Read \/ ReturnByte
           \/ ReturnEnd \/ DeviceGone \/ RemoveSession \/ UNCHANGED vars
           \/ HandleReply /\ closer' = closer
  <2>1. closer' = closer /\ UNCHANGED <<sending, flusher>>
    BY <1>5 DEF Write, ReadFromDevice, AnswerPoll, RefusePoll, Read, ReturnByte, ReturnEnd,
         DeviceGone, RemoveSession, HandleReply, vars, outVars, closeVars
  <2> QED  BY <1>u, <2>1
<1>6. HandleReply => EnterClose("incoming") \/ closer' = closer
  BY DEF HandleReply
<1> QED  BY <1>1, <1>2, <1>3, <1>4, <1>5, <1>6 DEF Next

LEMMA NextSeqIs == \A s \in Nat : s < MaxBytes => NextSeq(s) = s + 1
BY HttpRelayAssumption DEF NextSeq

(* A chunk that was lost, or did not arrive as a whole, is never followed. *)
LEMMA ChunkStep ==
  ASSUME IInv, Exchange, CloserOK', ExecutorsShutDown => ExecutorsShutDown'
  PROVE  /\ OutwardOK' /\ written' = written
         /\ \E x \in Seq(Nat) : toDevice' = toDevice \o x
<1>t. OutwardType /\ ChunksOK /\ SentOK
  BY DEF IInv, OutwardOK
<1>1. /\ sending # <<>> /\ sending' = <<>> /\ peerSeq' = NextSeq(peerSeq)
      /\ UNCHANGED <<written, buffer>>
  BY DEF Exchange, ChunkAccepted, ChunkRefused, ChunkUnanswered, EndFlush
<1>2. /\ Len(sending) \in Nat /\ Len(sending) >= 1 /\ Len(buffer) \in Nat
      /\ Len(written) \in Nat /\ peerSeq \in Nat /\ inSeq \in Nat
  <2>1. \A a \in Seq(Nat) : Len(a) \in Nat /\ (a # <<>> => Len(a) >= 1)
    BY Joined
  <2> QED  BY <1>t, <1>1, <2>1 DEF OutwardType
<1>3. peerSeq < MaxBytes /\ inSeq < MaxBytes
  BY <1>t, <1>2, HttpRelayAssumption DEF ChunksOK
<1>4. peerSeq' = peerSeq + 1 /\ NextSeq(peerSeq) = peerSeq + 1 /\ NextSeq(inSeq) = inSeq + 1
  BY <1>1, <1>2, <1>3, NextSeqIs
<1>5. /\ peerSeq' \in Nat /\ sending' \in Seq(Nat) /\ Len(sending') = 0
      /\ peerSeq' + Len(sending') + Len(buffer') <= Len(written')
  BY <1>t, <1>1, <1>2, <1>4, Joined DEF ChunksOK
<1>6. \/ toDevice' = toDevice /\ inSeq' = inSeq
      \/ inSeq = peerSeq /\ toDevice' = toDevice \o sending /\ inSeq' = peerSeq'
      \/ /\ inSeq = peerSeq /\ inSeq' = inSeq
         /\ \E n \in 0..Len(sending) : toDevice' = toDevice \o SubSeq(sending, 1, n)
  <2>1. CASE SendData(sending, NextSeq(peerSeq))
    BY <1>1, <1>2, <1>4, <2>1 DEF SendData
  <2>2. CASE RejectData(NextSeq(peerSeq)) \/ UNCHANGED <<session, toDevice, inSeq>>
    BY <2>2 DEF RejectData
  <2>3. CASE \E n \in 0..Len(sending) : SendDataFails(sending, NextSeq(peerSeq), n)
    <3>1. PICK n \in 0..Len(sending) : SendDataFails(sending, NextSeq(peerSeq), n)
      BY <2>3
    <3>2. /\ NextSeq(peerSeq) = NextSeq(inSeq) /\ inSeq' = inSeq
          /\ toDevice' = toDevice \o SubSeq(sending, 1, n)
      BY <3>1 DEF SendDataFails
    <3>3. inSeq = peerSeq
      BY <1>2, <1>4, <3>2
    <3> QED  BY <3>2, <3>3
  <2> QED  BY <2>1, <2>2, <2>3 DEF Exchange, ChunkAccepted, ChunkRefused, ChunkUnanswered
<1>7. CASE toDevice' = toDevice /\ inSeq' = inSeq
  <2>1. inSeq' <= peerSeq' /\ inSeq' # peerSeq'
    BY <1>t, <1>2, <1>4, <1>7 DEF ChunksOK
  <2>2. OutwardOK'
    BY <1>t, <1>1, <1>5, <1>7, <2>1 DEF OutwardOK, OutwardType, ChunksOK, SentOK
  <2>3. <<>> \in Seq(Nat) /\ toDevice \o <<>> = toDevice
    BY <1>t, Joined DEF OutwardType
  <2> QED  BY <1>1, <1>7, <2>2, <2>3
<1>8. CASE inSeq = peerSeq /\ toDevice' = toDevice \o sending /\ inSeq' = peerSeq'
  <2>1. PICK rest \in Seq(Nat) : /\ written = (toDevice \o sending) \o rest
                                 /\ ~ExecutorsShutDown => rest = buffer
    BY <1>t, <1>8 DEF SentOK
  <2>2. toDevice' \in Seq(Nat) /\ toDevice' \o sending' = toDevice'
    BY <1>t, <1>1, <1>8, Joined DEF OutwardType
  <2>3. written' = toDevice' \o rest /\ (~ExecutorsShutDown' => rest = buffer')
    BY <1>1, <1>8, <2>1
  <2>4. SentOK'
    BY <2>2, <2>3 DEF SentOK, Prefix
  <2>5. OutwardType' /\ ChunksOK'
    BY <1>t, <1>1, <1>5, <1>8, <2>2 DEF OutwardType, ChunksOK
  <2> QED  BY <1>t, <1>1, <1>8, <2>4, <2>5 DEF OutwardOK, OutwardType
<1>9. ASSUME inSeq = peerSeq, inSeq' = inSeq,
             NEW n \in 0..Len(sending), toDevice' = toDevice \o SubSeq(sending, 1, n)
      PROVE  /\ OutwardOK' /\ written' = written
             /\ \E x \in Seq(Nat) : toDevice' = toDevice \o x
  <2>1. PICK rest \in Seq(Nat) : written = (toDevice \o sending) \o rest
    BY <1>t, <1>9 DEF SentOK
  <2> DEFINE p == SubSeq(sending, 1, n)
  <2>2. PICK t \in Seq(Nat) : p \in Seq(Nat) /\ sending = p \o t
    BY <1>t, <1>9, Split DEF OutwardType
  <2>3. toDevice' = toDevice \o p
    BY <1>9
  <2> HIDE DEF p
  <2>4. toDevice \in Seq(Nat) /\ p \in Seq(Nat) /\ t \in Seq(Nat) /\ rest \in Seq(Nat)
    BY <1>t, <2>1, <2>2 DEF OutwardType
  <2>5. toDevice' \in Seq(Nat) /\ toDevice \o (p \o t) = toDevice' \o t
        /\ (toDevice' \o t) \o rest = toDevice' \o (t \o rest) /\ t \o rest \in Seq(Nat)
    <3>1. Regroups(toDevice, p, t, rest)
      BY <2>4, Regrouped, Zenon
    <3> QED  BY <2>3, <3>1, Zenon DEF Regroups
  <2>6. Prefix(toDevice', written)
    BY <2>1, <2>2, <2>5 DEF Prefix
  <2>7. inSeq' <= peerSeq' /\ inSeq' # peerSeq'
    BY <1>2, <1>4, <1>9
  <2>8. OutwardOK'
    BY <1>t, <1>1, <1>2, <1>5, <1>9, <2>5, <2>6, <2>7 DEF OutwardOK, OutwardType, ChunksOK, SentOK
  <2> QED  BY <1>1, <2>3, <2>4, <2>8
<1> QED  BY <1>6, <1>7, <1>8, <1>9

LEMMA WriteStep ==
  ASSUME IInv, Write, ExecutorsShutDown => ExecutorsShutDown'
  PROVE  /\ OutwardOK' /\ toDevice' = toDevice
         /\ \E b \in Byte : written' = Append(written, b)
<1> DEFINE n == Len(written) + 1
<1>t. OutwardType /\ ChunksOK /\ SentOK /\ fromDevice \in Seq(Nat)
  BY DEF IInv, OutwardOK, InwardOK
<1>1. /\ UNCHANGED <<sending, peerSeq, inSeq, toDevice>> /\ sending = <<>>
      /\ written' = Append(written, n) /\ buffer' = Append(buffer, n)
      /\ Len(written) + Len(fromDevice) < MaxBytes
  BY DEF Write, sessionVars
<1>2. Len(written) \in Nat /\ Len(fromDevice) \in Nat /\ Len(buffer) \in Nat
      /\ Len(sending) \in Nat
  BY <1>t, Joined DEF OutwardType
<1>3. n \in Byte /\ n \in Nat
  BY <1>1, <1>2, HttpRelayAssumption DEF Byte
<1> HIDE DEF n
<1> DEFINE new == <<n>>
<1>4. /\ written' = written \o new /\ buffer' = buffer \o new /\ new \in Seq(Nat)
      /\ written' \in Seq(Nat) /\ buffer' \in Seq(Nat)
  BY <1>t, <1>1, <1>3, Appended DEF OutwardType
<1>5. Len(new) = 1
  OBVIOUS
<1> HIDE DEF new
<1>6. Len(written') = Len(written) + 1 /\ Len(buffer') = Len(buffer) + 1
  <2>1. \A a, b \in Seq(Nat) : Len(a \o b) = Len(a) + Len(b)
    BY Joined
  <2>2. written \in Seq(Nat) /\ buffer \in Seq(Nat) /\ new \in Seq(Nat)
    BY <1>t, <1>4 DEF OutwardType
  <2>3. Len(written \o new) = Len(written) + Len(new)
        /\ Len(buffer \o new) = Len(buffer) + Len(new)
    BY <2>1, <2>2
  <2> QED  BY <1>4, <1>5, <2>3
<1>7. OutwardType' /\ ChunksOK'
  BY <1>t, <1>1, <1>2, <1>4, <1>6, HttpRelayAssumption DEF OutwardType, ChunksOK
<1>8. Prefix(toDevice, written \o new)
  BY <1>t, <1>4, PrefixExtends DEF OutwardType, SentOK
<1>9. ASSUME inSeq = peerSeq
      PROVE  \E rest \in Seq(Nat) : /\ written' = (toDevice \o sending) \o rest
                                    /\ ~ExecutorsShutDown => rest = buffer'
  <2>1. PICK rest \in Seq(Nat) : /\ written = (toDevice \o sending) \o rest
                                 /\ ~ExecutorsShutDown => rest = buffer
    BY <1>t, <1>9 DEF SentOK
  <2> DEFINE way == toDevice \o sending
  <2>2. way \in Seq(Nat) /\ rest \in Seq(Nat) /\ new \in Seq(Nat)
    BY <1>t, <1>4, <2>1, Joined DEF OutwardType
  <2>3. written = way \o rest
    BY <2>1
  <2> HIDE DEF way
  <2>4. rest \o new \in Seq(Nat)
    BY <2>2, Joined
  <2>5. (way \o rest) \o new = way \o (rest \o new)
    <3>1. \A a, b, c \in Seq(Nat) : (a \o b) \o c = a \o (b \o c)
      BY Joined
    <3> QED  BY <2>2, <3>1
  <2>6. written' = way \o (rest \o new) /\ (~ExecutorsShutDown => rest \o new = buffer')
    BY <1>4, <2>1, <2>3, <2>5
  <2> QED  BY <2>4, <2>6 DEF way
<1>10. SentOK'
  BY <1>1, <1>4, <1>8, <1>9 DEF SentOK
<1> QED  BY <1>1, <1>3, <1>7, <1>10 DEF OutwardOK

LEMMA FlushStep ==
  ASSUME IInv, \E by \in Closer \cup {"stream"} : Flush(by),
         ExecutorsShutDown => ExecutorsShutDown'
  PROVE  OutwardOK' /\ UNCHANGED <<written, toDevice>>
<1>t. OutwardType /\ ChunksOK /\ SentOK
  BY DEF IInv, OutwardOK
<1>1. /\ UNCHANGED <<written, toDevice, inSeq, peerSeq>> /\ sending = <<>> /\ buffer' = <<>>
      /\ IF ExecutorsShutDown THEN sending' = sending ELSE sending' = buffer
  BY DEF Flush, CanFlush, TakeBuffer, sessionVars
<1>2. <<>> \in Seq(Nat) /\ Len(<<>>) = 0 /\ Len(buffer) \in Nat
      /\ toDevice \o <<>> = toDevice /\ toDevice \o buffer \in Seq(Nat)
      /\ (toDevice \o buffer) \o <<>> = toDevice \o buffer
  BY <1>t, Joined DEF OutwardType
<1>3. OutwardType'
  BY <1>t, <1>1, <1>2 DEF OutwardType
<1>4. ChunksOK'
  <2>1. Len(sending') + Len(buffer') <= Len(sending) + Len(buffer)
        /\ Len(sending') \in Nat /\ Len(buffer') \in Nat /\ Len(sending) \in Nat
    BY <1>1, <1>2
  <2> QED  BY <1>t, <1>1, <1>2, <2>1, Joined DEF ChunksOK, OutwardType
<1>5. ASSUME inSeq = peerSeq
      PROVE  \E rest \in Seq(Nat) : /\ written = (toDevice \o sending') \o rest
                                    /\ ~ExecutorsShutDown' => rest = buffer'
  <2>1. PICK rest \in Seq(Nat) : /\ written = (toDevice \o sending) \o rest
                                 /\ ~ExecutorsShutDown => rest = buffer
    BY <1>t, <1>5 DEF SentOK
  <2>2. CASE ExecutorsShutDown
    BY <1>1, <2>1, <2>2
  <2>3. CASE ~ExecutorsShutDown
    <3>1. written = toDevice \o buffer /\ sending' = buffer
      BY <1>1, <1>2, <2>1, <2>3
    <3> QED  BY <1>1, <1>2, <3>1
  <2> QED  BY <2>2, <2>3
<1>6. SentOK'
  BY <1>t, <1>1, <1>5 DEF SentOK
<1> QED  BY <1>1, <1>3, <1>4, <1>6 DEF OutwardOK

(* What the two directions do in a step: one send, one delivery, or none.  *)
OutwardStep ==
  \/ toDevice' = toDevice /\ \E b \in Byte : written' = Append(written, b)
  \/ written' = written /\ \E x \in Seq(Nat) : toDevice' = toDevice \o x

LEMMA OutwardInv ==
  ASSUME IInv, [Next]_vars, CloserOK', ExecutorsShutDown => ExecutorsShutDown'
  PROVE  OutwardOK' /\ OutwardStep
<1>t. OutwardType /\ ChunksOK /\ SentOK
  BY DEF IInv, OutwardOK
<1>0. <<>> \in Seq(Nat) /\ toDevice \o <<>> = toDevice
  BY <1>t, Joined DEF OutwardType
<1>1. CASE UNCHANGED <<written, buffer, sending, peerSeq, inSeq, toDevice>>
  <2>1. OutwardType' /\ ChunksOK' /\ SentOK'
    BY <1>t, <1>1 DEF OutwardType, ChunksOK, SentOK, Prefix
  <2> QED  BY <1>0, <1>1, <2>1 DEF OutwardOK, OutwardStep
<1>2. CASE Exchange
  BY <1>2, ChunkStep DEF OutwardStep
<1>3. CASE Write
  BY <1>3, WriteStep DEF OutwardStep
<1>4. CASE \E by \in Closer \cup {"stream"} : Flush(by)
  BY <1>0, <1>4, FlushStep DEF OutwardStep
<1>5. CASE \E t \in Closer : Close(t)
  BY <1>1, <1>4, <1>5 DEF Close, SetClosed, NothingToFlush, NotifyServer, FinishClose, outVars,
       sessionVars
<1>6. CASE \/ CloseByUser \/ ReadFromDevice \/ AnswerPoll \/ RefusePoll \/ PollFails \/ HandleReply
           \/ Read \/ ReturnByte \/ ReturnEnd \/ DeviceGone \/ RemoveSession \/ UNCHANGED vars
  BY <1>1, <1>6 DEF CloseByUser, ReadFromDevice, AnswerPoll, RefusePoll, PollFails, HandleReply,
       Read, ReturnByte, ReturnEnd, DeviceGone, RemoveSession, vars, outVars, sessionVars
<1> QED  BY <1>2, <1>3, <1>4, <1>5, <1>6 DEF Next

InwardStep ==
  \/ read' = read /\ fromDevice' = fromDevice
  \/ read' = read /\ \E b \in Byte : fromDevice' = Append(fromDevice, b)
  \/ fromDevice' = fromDevice /\ \E b \in Nat : read' = read \o <<b>>

LEMMA ReadFromDeviceStep ==
  ASSUME IInv, ReadFromDevice
  PROVE  InwardOK' /\ InwardStep
<1> DEFINE n == Len(fromDevice) + 1
<1>t. InwardOK /\ Len(written) \in Nat
  BY Joined DEF IInv, OutwardOK, OutwardType
<1>1. /\ fromDevice' = fromDevice \o <<n>> /\ temp' = temp \o <<n>>
      /\ UNCHANGED <<read, incoming, receiver, reply>>
      /\ Len(written) + Len(fromDevice) < MaxBytes
  BY DEF ReadFromDevice, AppendTempFile, inVars
<1>2. Len(fromDevice) \in Nat
  BY <1>t, Joined DEF InwardOK
<1>3. n \in Byte /\ n \in Nat
  BY <1>t, <1>1, <1>2, HttpRelayAssumption DEF Byte
<1> HIDE DEF n
<1> DEFINE new == <<n>>
<1>4. new \in Seq(Nat) /\ Append(fromDevice, n) = fromDevice \o new
  BY <1>t, <1>3, Appended DEF InwardOK
<1>5. fromDevice' = fromDevice \o new /\ temp' = temp \o new
  BY <1>1
<1> HIDE DEF new
<1> DEFINE got == read \o incoming  way == got \o InResponse
<1>6. /\ fromDevice \in Seq(Nat) /\ temp \in Seq(Nat)
      /\ read \in Seq(Nat) /\ incoming \in Seq(Nat) /\ InResponse \in Seq(Nat)
  BY <1>t DEF InwardOK
<1>7. got \in Seq(Nat) /\ way \in Seq(Nat) /\ temp' \in Seq(Nat) /\ fromDevice' \in Seq(Nat)
  <2>1. \A a, b \in Seq(Nat) : a \o b \in Seq(Nat)
    BY Joined
  <2> QED  BY <1>4, <1>5, <1>6, <2>1
<1>8. Prefix(got, fromDevice \o new)
  BY <1>t, <1>4, <1>6, <1>7, PrefixExtends DEF InwardOK
<1>9. ASSUME receiver # "stopped" PROVE fromDevice' = way \o temp'
  <2>1. fromDevice = way \o temp
    BY <1>t, <1>9 DEF InwardOK
  <2> HIDE DEF got, way
  <2>2. (way \o temp) \o new = way \o (temp \o new)
    <3>1. \A a, b, c \in Seq(Nat) : (a \o b) \o c = a \o (b \o c)
      BY Joined
    <3>2. way \in Seq(Nat) /\ temp \in Seq(Nat) /\ new \in Seq(Nat)
      BY <1>4, <1>6, <1>7
    <3> QED  BY <3>1, <3>2
  <2> QED  BY <1>5, <2>1, <2>2
<1>10. InwardOK'
  BY <1>1, <1>5, <1>6, <1>7, <1>8, <1>9 DEF InwardOK, InResponse
<1> QED  BY <1>1, <1>3, <1>4, <1>5, <1>10 DEF InwardStep

LEMMA PollStep ==
  ASSUME IInv, AnswerPoll \/ RefusePoll
  PROVE  InwardOK' /\ InwardStep
<1> DEFINE got == read \o incoming
<1>1. /\ receiver = "waiting" /\ receiver' = "replied"
      /\ UNCHANGED <<read, incoming, fromDevice>>
      /\ \/ reply'.data = temp /\ temp' = <<>>
         \/ reply'.data = <<>> /\ temp' = temp
  BY DEF AnswerPoll, RefusePoll, ServerClosing, sessionVars
<1>2. InwardOK /\ InResponse = <<>> /\ InResponse' = reply'.data
  BY <1>1 DEF IInv, InResponse
<1>3. /\ fromDevice \in Seq(Nat) /\ temp \in Seq(Nat) /\ got \in Seq(Nat)
      /\ fromDevice = (got \o <<>>) \o temp /\ Prefix(got, fromDevice)
  BY <1>1, <1>2, Joined DEF InwardOK
<1> HIDE DEF got
<1>4. fromDevice = got \o temp /\ got \o <<>> = got /\ <<>> \in Seq(Nat)
      /\ (got \o temp) \o <<>> = got \o temp
  <2>1. \A a \in Seq(Nat) : a \o <<>> = a
    BY Joined
  <2>2. got \o temp \in Seq(Nat) /\ <<>> \in Seq(Nat)
    BY <1>3, Joined
  <2> QED  BY <1>3, <2>1, <2>2
<1>5. InResponse' \in Seq(Nat) /\ temp' \in Seq(Nat) /\ fromDevice = (got \o InResponse') \o temp'
  <2>1. CASE reply'.data = temp /\ temp' = <<>>
    BY <1>2, <1>3, <1>4, <2>1
  <2>2. CASE reply'.data = <<>> /\ temp' = temp
    BY <1>2, <1>3, <1>4, <2>2
  <2> QED  BY <1>1, <2>1, <2>2
<1>6. got' = got
  BY <1>1 DEF got
<1>7. InwardOK'
  BY <1>1, <1>2, <1>3, <1>5 DEF InwardOK, got
<1> QED  BY <1>1, <1>7 DEF InwardStep

LEMMA ReplyStep ==
  ASSUME IInv, HandleReply, receiver' # "stopped"
  PROVE  InwardOK' /\ InwardStep
<1>1. /\ receiver = "replied" /\ receiver' = "waiting" /\ incoming' = incoming \o reply.data
      /\ UNCHANGED <<read, temp, fromDevice>>
  BY DEF HandleReply, sessionVars
<1>2. InwardOK /\ InResponse = reply.data /\ InResponse' = <<>>
  BY <1>1 DEF IInv, InResponse
<1> DEFINE got == read \o incoming  new == InResponse
<1>3. /\ read \in Seq(Nat) /\ incoming \in Seq(Nat) /\ new \in Seq(Nat) /\ temp \in Seq(Nat)
      /\ fromDevice \in Seq(Nat) /\ fromDevice = (got \o new) \o temp
  BY <1>1, <1>2 DEF InwardOK
<1>4. incoming' = incoming \o new
  BY <1>1, <1>2
<1> HIDE DEF new
<1>5. incoming' \in Seq(Nat) /\ read \o incoming' = got \o new
  <2>1. incoming \o new \in Seq(Nat)
    BY <1>3, ConcatProperties
  <2>2. (read \o incoming) \o new = read \o (incoming \o new)
    <3>1. \A a, b, c \in Seq(Nat) : (a \o b) \o c = a \o (b \o c)
      BY Joined
    <3>2. read \in Seq(Nat) /\ incoming \in Seq(Nat) /\ new \in Seq(Nat)
      BY <1>3
    <3> QED  BY <3>1, <3>2
  <2> QED  BY <1>4, <2>1, <2>2
<1> DEFINE way == read \o incoming'
<1>6. way \in Seq(Nat) /\ way = got \o new
  BY <1>3, <1>5, ConcatProperties
<1> HIDE DEF way, got
<1>7. way \o <<>> = way /\ <<>> \in Seq(Nat)
  BY <1>6, Joined
<1>8. fromDevice = (way \o <<>>) \o temp /\ Prefix(way, fromDevice)
  BY <1>3, <1>6, <1>7 DEF Prefix
<1>9. way = read' \o incoming'
  BY <1>1 DEF way
<1> HIDE DEF Prefix
<1>10. InwardOK'
  BY <1>1, <1>2, <1>3, <1>5, <1>7, <1>8, <1>9 DEF InwardOK
<1> QED  BY <1>1, <1>10 DEF InwardStep

LEMMA ReturnByteStep ==
  ASSUME IInv, ReturnByte
  PROVE  InwardOK' /\ InwardStep
<1> DEFINE b == Head(incoming)
<1>1. /\ incoming # <<>> /\ incoming' = Tail(incoming) /\ read' = Append(read, b)
      /\ UNCHANGED <<receiver, reply, temp, fromDevice>>
  BY DEF ReturnByte, sessionVars
<1>2. InwardOK /\ InResponse' = InResponse
  BY <1>1 DEF IInv, InResponse
<1>3. read \in Seq(Nat) /\ incoming \in Seq(Nat)
  BY <1>2 DEF InwardOK
<1>4. b \in Nat /\ incoming' \in Seq(Nat) /\ incoming = <<b>> \o incoming'
  BY <1>1, <1>3, HeadTailProperties
<1> HIDE DEF b
<1>5. read' = read \o <<b>> /\ <<b>> \in Seq(Nat) /\ read' \in Seq(Nat)
  BY <1>1, <1>3, <1>4, Appended
<1>6. (read \o <<b>>) \o incoming' = read \o (<<b>> \o incoming')
  BY <1>3, <1>4, <1>5
<1>7. read' \o incoming' = read \o incoming
  BY <1>4, <1>5, <1>6
<1>8. InwardOK'
  BY <1>1, <1>2, <1>4, <1>5, <1>7 DEF InwardOK
<1> QED  BY <1>1, <1>4, <1>5, <1>8 DEF InwardStep

LEMMA InwardInv ==
  ASSUME IInv, [Next]_vars
  PROVE  InwardOK' /\ InwardStep
<1>1. CASE UNCHANGED <<read, incoming, fromDevice>> /\ receiver' = "stopped"
           /\ UNCHANGED <<temp, reply>>
  <2>1. <<>> \in Seq(Nat)
    BY Joined
  <2> QED  BY <1>1, <2>1 DEF IInv, InwardOK, InResponse, InwardStep
<1>2. CASE UNCHANGED <<read, incoming, fromDevice, receiver, temp, reply>>
  BY <1>2 DEF IInv, InwardOK, InResponse, InwardStep
<1>3. CASE HandleReply
  <2>1. CASE receiver' = "stopped"
    BY <1>1, <1>3, <2>1 DEF HandleReply, sessionVars
  <2> QED  BY <1>3, <2>1, ReplyStep
<1>4. CASE PollFails
  BY <1>1, <1>4 DEF PollFails, sessionVars
<1>5. CASE Exchange
  BY <1>2, <1>5 DEF Exchange, ChunkAccepted, ChunkRefused, ChunkUnanswered, EndFlush, inVars
<1>6. CASE \E t \in Closer : Close(t)
  BY <1>2, <1>6 DEF Close, SetClosed, NothingToFlush, Flush, NotifyServer, FinishClose, inVars,
       sessionVars
<1>7. CASE \/ CloseByUser \/ Write \/ Flush("stream") \/ Read \/ ReturnEnd \/ DeviceGone
           \/ RemoveSession \/ UNCHANGED vars
  BY <1>2, <1>7 DEF CloseByUser, Write, Flush, Read, ReturnEnd, DeviceGone, RemoveSession, vars,
       inVars, sessionVars
<1> QED  BY <1>3, <1>4, <1>5, <1>6, <1>7, ReadFromDeviceStep, PollStep, ReturnByteStep DEF Next

LEMMA ClientInv ==
  ASSUME IInv, [Next]_vars, CloserOK', Untouched' => Untouched /\ closer' = closer
  PROVE  ClientOK'
<1> SUFFICES ASSUME Untouched'
             PROVE  ~closed' /\ receiver' \in {"waiting", "replied"} /\ inSeq' = peerSeq'
  BY DEF ClientOK
<1>1. /\ Untouched /\ closer' = closer /\ CloserOK
      /\ ~closed /\ receiver \in {"waiting", "replied"} /\ inSeq = peerSeq
  BY DEF IInv, ClientOK
<1>2. flusher = "stream" /\ \A t \in Closer : closer[t] = "idle" /\ closer'[t] = "idle"
  BY <1>1 DEF CloserOK, Untouched
<1>3. \A t \in Closer : ~EnterClose(t)
  BY <1>1, <1>2 DEF EnterClose, CloserOK
<1>4. "user" \in Closer /\ "outgoing" \in Closer /\ "incoming" \in Closer /\ "stream" \notin Closer
  BY DEF Closer
<1>5. ~CloseByUser /\ ~PollFails /\ \A t \in Closer : ~Close(t)
  BY <1>2, <1>3, <1>4 DEF CloseByUser, PollFails, Close, SetClosed, NothingToFlush, Flush, CanFlush,
       NotifyServer, FinishClose
<1>6. CASE Exchange
  <2>1. ChunkAccepted
    BY <1>2, <1>3, <1>4, <1>6 DEF Exchange, ChunkRefused, ChunkUnanswered, EndFlush
  <2> QED  BY <1>1, <2>1 DEF ChunkAccepted, SendData, EndFlush, inVars
<1>7. CASE HandleReply
  BY <1>1, <1>3, <1>4, <1>7 DEF HandleReply, outVars, sessionVars
<1>8. CASE \/ Write \/ Flush("stream") \/ ReadFromDevice \/ AnswerPoll \/ RefusePoll \/ Read
           \/ ReturnByte \/ ReturnEnd \/ DeviceGone \/ RemoveSession \/ UNCHANGED vars
  BY <1>1, <1>8 DEF Write, Flush, ReadFromDevice, AnswerPoll, RefusePoll, Read, ReturnByte,
       ReturnEnd, DeviceGone, RemoveSession, vars, inVars, outVars, closeVars, sessionVars
<1> QED  BY <1>5, <1>6, <1>7, <1>8 DEF Next

LEMMA NextIInv == ASSUME IInv, [Next]_vars PROVE IInv' /\ OutwardStep /\ InwardStep
<1>1. /\ CloserOK' /\ (ExecutorsShutDown => ExecutorsShutDown')
      /\ (Untouched' => Untouched /\ closer' = closer)
  BY CloserStep DEF IInv
<1> QED  BY <1>1, ClientInv, OutwardInv, InwardInv DEF IInv

LEMMA AlwaysIInv == Spec => []IInv
BY InitIInv, NextIInv, PTL DEF Spec

(* What the user wrote is at the device, in the chunk that is being sent,  *)
(* or in the buffer, in order: until a thread closes the connection.       *)
THEOREM OutwardComplete == Spec => []NothingLostOutward
<1>1. ASSUME IInv, Untouched PROVE written = toDevice \o sending \o buffer
  <2>1. inSeq = peerSeq /\ ~ExecutorsShutDown
    BY <1>1 DEF IInv, ClientOK, ExecutorsShutDown, Untouched
  <2> QED  BY <1>1, <2>1 DEF IInv, OutwardOK, SentOK
<1>2. IInv => NothingLostOutward
  BY <1>1 DEF NothingLostOutward
<1> QED  BY AlwaysIInv, <1>2, PTL

(* What the session read from the device was read by the user, or is in    *)
(* the client, the response to a poll, or the temporary file, in order.    *)
THEOREM InwardComplete == Spec => []NothingLostInward
<1>1. IInv => NothingLostInward
  BY DEF IInv, ClientOK, InwardOK, NothingLostInward
<1> QED  BY AlwaysIInv, <1>1, PTL

(* The device receives a prefix of what the user wrote, whatever fails and *)
(* whoever closes: HttpRelay implements ByteStream, step by step.          *)
THEOREM OutwardIsStream == Spec => ToDeviceIsStream
<1>1. Init => ToDevice!Init
  BY DEF Init, ToDevice!Init
<1>2. ASSUME IInv, [Next]_vars
      PROVE  [ToDevice!Send \/ ToDevice!Deliver]_<<written, toDevice>>
  <2>1. IInv' /\ OutwardStep
    BY <1>2, NextIInv
  <2>2. CASE toDevice' = toDevice /\ \E b \in Byte : written' = Append(written, b)
    BY <2>2 DEF ToDevice!Send
  <2>3. ASSUME NEW x \in Seq(Nat), written' = written, toDevice' = toDevice \o x
        PROVE  [ToDevice!Send \/ ToDevice!Deliver]_<<written, toDevice>>
    <3>1. toDevice \in Seq(Nat) /\ written \in Seq(Nat)
      BY <1>2 DEF IInv, OutwardOK, OutwardType
    <3>2. Prefix(toDevice \o x, written)
      BY <2>1, <2>3 DEF IInv, OutwardOK, SentOK, Prefix
    <3>3. \/ toDevice' = toDevice
          \/ \E n \in (Len(toDevice) + 1)..Len(written) : toDevice' = SubSeq(written, 1, n)
      BY <2>3, <3>1, <3>2, PrefixDelivered
    <3> QED  BY <2>3, <3>3 DEF ToDevice!Deliver
  <2> QED  BY <2>1, <2>2, <2>3 DEF OutwardStep
<1> QED  BY AlwaysIInv, <1>1, <1>2, PTL DEF Spec, ToDeviceIsStream, ToDevice!Spec

(* The user reads a prefix of what the session read from the device: a     *)
(* byte is never skipped, repeated or out of its order.                    *)
THEOREM InwardIsStream == Spec => FromDeviceIsStream
<1>1. Init => FromDevice!Init
  BY DEF Init, FromDevice!Init
<1>2. ASSUME IInv, [Next]_vars
      PROVE  [FromDevice!Send \/ FromDevice!Deliver]_<<fromDevice, read>>
  <2>1. IInv' /\ InwardStep
    BY <1>2, NextIInv
  <2>2. CASE read' = read /\ \E b \in Byte : fromDevice' = Append(fromDevice, b)
    BY <2>2 DEF FromDevice!Send
  <2>3. ASSUME NEW b \in Nat, fromDevice' = fromDevice, read' = read \o <<b>>
        PROVE  [FromDevice!Send \/ FromDevice!Deliver]_<<fromDevice, read>>
    <3>1. /\ read \in Seq(Nat) /\ fromDevice \in Seq(Nat) /\ read' \in Seq(Nat)
          /\ incoming' \in Seq(Nat)
      BY <1>2, <2>1 DEF IInv, InwardOK
    <3>2. PICK r \in Seq(Nat) : fromDevice = (read' \o incoming') \o r
      BY <2>1, <2>3 DEF IInv, InwardOK, Prefix
    <3>3. Prefix(read', fromDevice)
      <4>1. \A p, q, s \in Seq(Nat) : (p \o q) \o s = p \o (q \o s)
        BY Joined
      <4>2. read' \in Seq(Nat) /\ incoming' \in Seq(Nat) /\ r \in Seq(Nat)
        BY <3>1, <3>2
      <4>3. incoming' \o r \in Seq(Nat)
        BY <4>2, Joined
      <4>4. (read' \o incoming') \o r = read' \o (incoming' \o r)
        BY <4>1, <4>2
      <4> QED  BY <3>2, <4>3, <4>4 DEF Prefix
    <3> DEFINE new == <<b>>
    <3>4. new \in Seq(Nat) /\ read' = read \o new
      BY <2>3, Appended
    <3> HIDE DEF new
    <3>5. Prefix(read \o new, fromDevice)
      BY <3>3, <3>4
    <3>6. \/ read \o new = read
          \/ \E n \in (Len(read) + 1)..Len(fromDevice) : read \o new = SubSeq(fromDevice, 1, n)
      <4>1. read \in Seq(Nat) /\ fromDevice \in Seq(Nat) /\ new \in Seq(Nat)
        BY <3>1, <3>4
      <4> QED  BY <3>5, <4>1, PrefixDelivered
    <3> QED  BY <2>3, <3>4, <3>6 DEF FromDevice!Deliver
  <2> QED  BY <2>1, <2>2, <2>3 DEF InwardStep
<1> QED  BY AlwaysIInv, <1>1, <1>2, PTL DEF Spec, FromDeviceIsStream, FromDevice!Spec

(***************************************************************************)
(* Types.  A byte is the number of its place, so that they keep within     *)
(* Byte depends on the bound of what is written and read.                  *)
(***************************************************************************)
BytesOK ==
  /\ written \in Seq(Byte) /\ buffer \in Seq(Byte) /\ sending \in Seq(Byte)
  /\ toDevice \in Seq(Byte)
  /\ fromDevice \in Seq(Byte) /\ temp \in Seq(Byte) /\ incoming \in Seq(Byte)
  /\ read \in Seq(Byte)
  /\ reply \in Response

FlagsOK ==
  /\ {peerSeq, relaySeq, inSeq, outSeq} \subseteq 0..(SeqWidth - 1)
  /\ receiver \in {"waiting", "replied", "stopped"} /\ reader \in {"idle", "reading", "end"}
  /\ {ended, closed, httpFailed} \subseteq BOOLEAN
  /\ session \in {"open", "closing", "closed"}

LEMMA BytesJoined ==
  /\ <<>> \in Seq(Byte)
  /\ \A a, b \in Seq(Byte) : a \o b \in Seq(Byte)
  /\ \A a \in Seq(Byte), b \in Byte : Append(a, b) \in Seq(Byte) /\ <<b>> \in Seq(Byte)
  /\ \A a \in Seq(Byte), n \in Nat : n <= Len(a) => SubSeq(a, 1, n) \in Seq(Byte)
  /\ \A a \in Seq(Byte) : a # <<>> => Head(a) \in Byte /\ Tail(a) \in Seq(Byte)
<1>1. <<>> \in Seq(Byte)
  BY EmptySeq
<1>2. \A a, b \in Seq(Byte) : a \o b \in Seq(Byte)
  BY ConcatProperties
<1>3. \A a \in Seq(Byte), b \in Byte : Append(a, b) \in Seq(Byte) /\ <<b>> \in Seq(Byte)
  BY AppendProperties
<1>4. ASSUME NEW a \in Seq(Byte), NEW n \in Nat, n <= Len(a)
      PROVE  SubSeq(a, 1, n) \in Seq(Byte)
  <2>1. \A i \in 1..n : i \in 1..Len(a)
    BY <1>4, LenProperties
  <2>2. \A i \in 1..n : a[i] \in Byte
    BY <2>1, ElementOfSeq
  <2> QED  BY <2>2, SubSeqProperties
<1>5. \A a \in Seq(Byte) : a # <<>> => Head(a) \in Byte /\ Tail(a) \in Seq(Byte)
  BY HeadTailProperties
<1> QED  BY <1>1, <1>2, <1>3, <1>4, <1>5

(* The next byte of a direction is a byte.                                 *)
LEMMA NextByte ==
  ASSUME BytesOK, Len(written) + Len(fromDevice) < MaxBytes
  PROVE  Len(written) + 1 \in Byte /\ Len(fromDevice) + 1 \in Byte
<1>1. Len(written) \in Nat /\ Len(fromDevice) \in Nat
  BY LenProperties DEF BytesOK
<1> QED  BY <1>1, HttpRelayAssumption DEF Byte

LEMMA OutwardBytes ==
  ASSUME BytesOK, Write \/ Exchange \/ \E by \in Closer \cup {"stream"} : Flush(by)
  PROVE  BytesOK'
<1>1. CASE Write
  <2>1. written' \in Seq(Byte) /\ buffer' \in Seq(Byte)
    BY <1>1, NextByte, BytesJoined DEF Write, BytesOK
  <2> QED  BY <1>1, <2>1 DEF Write, BytesOK, inVars, sessionVars
<1>2. CASE Exchange
  <2>1. \/ toDevice' \in {toDevice, toDevice \o sending}
        \/ \E n \in 0..Len(sending) : toDevice' = toDevice \o SubSeq(sending, 1, n)
    BY <1>2 DEF Exchange, ChunkAccepted, ChunkRefused, ChunkUnanswered, SendData, RejectData,
       SendDataFails
  <2>2. \A n \in 0..Len(sending) : SubSeq(sending, 1, n) \in Seq(Byte)
    <3>1. sending \in Seq(Byte) /\ Len(sending) \in Nat
      BY LenProperties DEF BytesOK
    <3>2. \A n \in 0..Len(sending) : n \in Nat /\ n <= Len(sending)
      BY <3>1
    <3> QED  BY <3>1, <3>2, BytesJoined
  <2>3. toDevice' \in Seq(Byte)
    <3>1. toDevice \in Seq(Byte) /\ sending \in Seq(Byte)
      BY DEF BytesOK
    <3>2. \A a, b \in Seq(Byte) : a \o b \in Seq(Byte)
      BY BytesJoined
    <3>3. toDevice' = toDevice \/ \E x \in Seq(Byte) : toDevice' = toDevice \o x
      BY <2>1, <2>2, <3>1, Zenon
    <3> QED  BY <3>1, <3>2, <3>3, Zenon
  <2>4. sending' = <<>> /\ UNCHANGED <<written, buffer, inVars, temp, fromDevice>>
    BY <1>2 DEF Exchange, ChunkAccepted, ChunkRefused, ChunkUnanswered, EndFlush
  <2> QED  BY <2>3, <2>4, BytesJoined DEF BytesOK, inVars
<1>3. CASE \E by \in Closer \cup {"stream"} : Flush(by)
  <2>1. /\ buffer' = <<>> /\ sending' \in {sending, buffer}
        /\ UNCHANGED <<written, inVars, sessionVars>>
    BY <1>3 DEF Flush, TakeBuffer
  <2> QED  BY <2>1, BytesJoined DEF BytesOK, inVars, sessionVars
<1> QED  BY <1>1, <1>2, <1>3

LEMMA InwardBytes ==
  ASSUME BytesOK, ReadFromDevice \/ AnswerPoll \/ RefusePoll \/ HandleReply \/ ReturnByte,
         outSeq \in Nat, NextSeq(outSeq) \in Nat
  PROVE  BytesOK'
<1>1. CASE ReadFromDevice
  <2>1. fromDevice' \in Seq(Byte) /\ temp' \in Seq(Byte)
    BY <1>1, NextByte, BytesJoined DEF ReadFromDevice, AppendTempFile, BytesOK
  <2> QED  BY <1>1, <2>1 DEF ReadFromDevice, BytesOK, inVars, outVars
<1>2. CASE AnswerPoll
  <2>1. reply' \in Response
    BY <1>2 DEF AnswerPoll, Response, BytesOK
  <2> QED  BY <1>2, <2>1, BytesJoined DEF AnswerPoll, BytesOK, outVars
<1>3. CASE RefusePoll
  <2>1. ServerClosing \in Response
    BY BytesJoined DEF ServerClosing, Response
  <2> QED  BY <1>3, <2>1 DEF RefusePoll, BytesOK, outVars, sessionVars
<1>4. CASE HandleReply
  <2>1. reply.data \in Seq(Byte)
    BY DEF BytesOK, Response
  <2>2. incoming' \in Seq(Byte)
    <3>1. incoming \in Seq(Byte)
      BY DEF BytesOK
    <3>2. \A a, b \in Seq(Byte) : a \o b \in Seq(Byte)
      BY BytesJoined
    <3>3. incoming' = incoming \/ incoming' = incoming \o reply.data
      BY <1>4 DEF HandleReply
    <3> QED  BY <2>1, <3>1, <3>2, <3>3, Zenon
  <2> QED  BY <1>4, <2>2 DEF HandleReply, BytesOK, outVars, sessionVars
<1>5. CASE ReturnByte
  <2>1. read' \in Seq(Byte) /\ incoming' \in Seq(Byte)
    BY <1>5, BytesJoined DEF ReturnByte, BytesOK
  <2> QED  BY <1>5, <2>1 DEF ReturnByte, BytesOK, outVars, sessionVars
<1> QED  BY <1>1, <1>2, <1>3, <1>4, <1>5

LEMMA FlagsStep ==
  ASSUME FlagsOK, BytesOK, [Next]_vars
  PROVE  FlagsOK'
<1>1. \A s \in 0..(SeqWidth - 1) : NextSeq(s) \in 0..(SeqWidth - 1)
  BY HttpRelayAssumption DEF NextSeq
<1> HIDE DEF NextSeq
<1>2. CASE Exchange
  <2>1. /\ peerSeq' = NextSeq(peerSeq) /\ inSeq' \in {inSeq, NextSeq(peerSeq)}
        /\ session' \in {session, "closing"} /\ httpFailed' \in {httpFailed, TRUE}
        /\ UNCHANGED <<inVars, closed, outSeq>>
    BY <1>2 DEF Exchange, ChunkAccepted, ChunkRefused, ChunkUnanswered, EndFlush, SendData,
       RejectData, SendDataFails, EndSession
  <2> QED  BY <1>1, <2>1 DEF FlagsOK, inVars
<1>3. CASE \E by \in Closer \cup {"stream"} : Flush(by)
  BY <1>3 DEF Flush, FlagsOK, inVars, sessionVars
<1>4. CASE Write \/ ReadFromDevice \/ RefusePoll \/ PollFails
  BY <1>4 DEF Write, ReadFromDevice, RefusePoll, PollFails, FlagsOK, inVars, outVars, closeVars,
     sessionVars
<1>5. CASE AnswerPoll
  BY <1>1, <1>5 DEF AnswerPoll, FlagsOK, outVars, closeVars
<1>6. CASE HandleReply
  <2>1. relaySeq' \in {relaySeq, NextSeq(relaySeq)} /\ receiver' \in {"waiting", "stopped"}
    BY <1>6 DEF HandleReply
  <2> QED  BY <1>1, <1>6, <2>1 DEF HandleReply, FlagsOK, outVars, sessionVars
<1>7. CASE Read \/ ReturnByte \/ ReturnEnd \/ DeviceGone \/ RemoveSession \/ CloseByUser
  BY <1>7 DEF Read, ReturnByte, ReturnEnd, DeviceGone, RemoveSession, EndSession, CloseByUser,
     FlagsOK, inVars, outVars, closeVars, sessionVars
<1>8. ASSUME NEW t \in Closer,
             \/ SetClosed(t) \/ NothingToFlush(t) \/ FinishClose(t)
             \/ \E delivered \in BOOLEAN : NotifyServer(t, delivered)
      PROVE  FlagsOK'
  BY <1>8 DEF SetClosed, NothingToFlush, FinishClose, NotifyServer, EndSession, FlagsOK, inVars,
     outVars, sessionVars
<1>9. CASE UNCHANGED vars
  BY <1>9 DEF vars, FlagsOK, inVars, outVars, closeVars, sessionVars
<1> QED  BY <1>2, <1>3, <1>4, <1>5, <1>6, <1>7, <1>8, <1>9 DEF Next, Close

LEMMA BytesStep ==
  ASSUME FlagsOK, BytesOK, [Next]_vars
  PROVE  BytesOK'
<1>1. outSeq \in Nat /\ NextSeq(outSeq) \in Nat
  BY HttpRelayAssumption DEF FlagsOK, NextSeq
<1>2. ASSUME UNCHANGED <<written, buffer, sending, toDevice, fromDevice, temp, incoming, read,
                         reply>>
      PROVE  BytesOK'
  BY <1>2 DEF BytesOK
<1>3. CASE PollFails \/ Read \/ ReturnEnd \/ DeviceGone \/ RemoveSession \/ CloseByUser
           \/ UNCHANGED vars
  BY <1>2, <1>3 DEF PollFails, Read, ReturnEnd, DeviceGone, RemoveSession, CloseByUser, vars,
     inVars, outVars, sessionVars
<1>4. ASSUME NEW t \in Closer,
             \/ SetClosed(t) \/ NothingToFlush(t) \/ FinishClose(t)
             \/ \E delivered \in BOOLEAN : NotifyServer(t, delivered)
      PROVE  BytesOK'
  BY <1>2, <1>4 DEF SetClosed, NothingToFlush, FinishClose, NotifyServer, inVars, outVars,
     sessionVars
<1> QED  BY <1>1, <1>3, <1>4, OutwardBytes, InwardBytes DEF Next, Close

(* The variables of both ends keep their types, whatever fails and whoever *)
(* closes (HttpRelayConnection, RelaySessionConnection).                   *)
THEOREM TypeCorrect == Spec => []TypeOK
<1>1. Init => FlagsOK /\ BytesOK
  <2>1. SUFFICES ASSUME Init PROVE FlagsOK /\ BytesOK
    OBVIOUS
  <2>2. ServerClosing \in Response
    BY BytesJoined DEF ServerClosing, Response
  <2>3. FlagsOK
    <3>1. 0 \in 0..(SeqWidth - 1)
      BY HttpRelayAssumption
    <3> QED  BY <2>1, <3>1 DEF Init, FlagsOK
  <2>4. <<>> \in Seq(Byte)
    BY BytesJoined
  <2>5. BytesOK
    BY <2>1, <2>2, <2>4 DEF Init, BytesOK
  <2> QED  BY <2>3, <2>5
<1>2. FlagsOK /\ BytesOK /\ [Next]_vars => (FlagsOK /\ BytesOK)'
  BY FlagsStep, BytesStep
<1>3. IInv /\ FlagsOK /\ BytesOK => TypeOK
  BY DEF IInv, CloserOK, Label, FlagsOK, BytesOK, TypeOK
<1> QED  BY AlwaysIInv, <1>1, <1>2, <1>3, PTL DEF Spec
=============================================================================
