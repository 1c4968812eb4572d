----------------------------- MODULE HttpRelay -----------------------------
(***************************************************************************)
(* A connection tunnelled through HTTP: HttpRelayConnection, the client,   *)
(* and RelaySessionConnection, its session in the http relay server.  The  *)
(* client posts chunks of what its user writes (PEER_TO_RELAY) and polls   *)
(* for what the device sent (WAIT_FOR_DATA); both kinds of messages carry  *)
(* sequence numbers.  The session writes to and reads from the socket that *)
(* a relay connects to the device; what it has read waits in a temporary   *)
(* file.                                                                   *)
(*                                                                         *)
(* The n-th byte of a direction is the number n.  HTTP is external: an     *)
(* exchange may fail before or after the server handled it, and is never   *)
(* repeated.  Who calls close() is a thread of its own: the user, or the   *)
(* background thread of a failed exchange of either direction.             *)
(***************************************************************************)
EXTENDS Naturals, Sequences

CONSTANTS
  MaxBytes,   \* bound: bytes sent in the two directions together
  SeqWidth    \* sequence numbers are counted modulo SeqWidth: the code's are
              \* longs.  A chunk has a byte, so the numbers of the chunks do not
              \* come round; those of the polls may, one response is on its way

ASSUME HttpRelayAssumption ==
  MaxBytes \in Nat /\ SeqWidth \in Nat \ {0, 1} /\ SeqWidth > MaxBytes

Byte == 1..MaxBytes
Closer == {"user", "outgoing", "incoming"}

VARIABLES
  \* the client: writing
  written,      \* history: what the user wrote
  buffer,       \* OutputStream.buffer
  sending,      \* chunk of the flush that holds the monitor, <<>> if none
  flusher,      \* who called that flush: a Closer, or "stream"
  peerSeq,      \* peerToRelaySequence of the client
  \* the client: reading
  receiver,     \* the loop of incomingExecutorService
  reply,        \* the response on its way to it
  relaySeq,     \* relayToPeerSequence of the client
  incoming,     \* byteArrayInputStream and incomingDataQueue
  ended,        \* STREAM_CLOSED is at the end of incomingDataQueue
  reader,       \* the user's thread in InputStream.read
  read,         \* history: what read returned
  \* the client: closing
  closed,       \* isClosed
  closer,       \* where each thread is in close()
  \* the session
  session,      \* open, closing (isClosed) or closed (streams closed)
  inSeq,        \* peerToRelaySequence of the session
  outSeq,       \* relayToPeerSequence of the session
  temp,         \* content of tempFile
  toDevice,     \* history: what was written to the device's socket
  fromDevice,   \* history: what was read from the device's socket
  \* the network
  httpFailed    \* history: an HTTP exchange failed

outVars     == <<written, buffer, sending, flusher, peerSeq>>
inVars      == <<receiver, reply, relaySeq, incoming, ended, reader, read>>
closeVars   == <<closed, closer>>
sessionVars == <<session, inSeq, outSeq, temp, toDevice, fromDevice>>
vars == <<outVars, inVars, closeVars, sessionVars, httpFailed>>

Response == [type: {"RELAY_TO_PEER", "SERVER_CLOSING"}, seq: Nat, data: Seq(Byte)]
ServerClosing == [type |-> "SERVER_CLOSING", seq |-> 0, data |-> <<>>]

NextSeq(sequence) == (sequence + 1) % SeqWidth

Init ==
  /\ written = <<>> /\ buffer = <<>> /\ sending = <<>> /\ flusher = "stream"
  /\ peerSeq = 0
  /\ receiver = "waiting" /\ reply = ServerClosing /\ relaySeq = 0
  /\ incoming = <<>> /\ ended = FALSE /\ reader = "idle" /\ read = <<>>
  /\ closed = FALSE /\ closer = [t \in Closer |-> "idle"]
  /\ session = "open" /\ inSeq = 0 /\ outSeq = 0
  /\ temp = <<>> /\ toDevice = <<>> /\ fromDevice = <<>>
  /\ httpFailed = FALSE

(***************************************************************************)
(* close(): the test and the assignment of isClosed are two steps, so two  *)
(* threads may both go on; then flush, PEER_CLOSING unless the flush       *)
(* failed, and STREAM_CLOSED for the thread that may be in read.           *)
(***************************************************************************)
EnterClose(t) ==
  closer' = IF ~closed /\ closer[t] = "idle"
            THEN [closer EXCEPT ![t] = "entered"] ELSE closer

Goto(t, label) == closer' = [closer EXCEPT ![t] = label]

CloseByUser ==
  /\ closer["user"] = "idle" /\ ~closed
  /\ EnterClose("user")
  /\ UNCHANGED <<outVars, inVars, closed, sessionVars, httpFailed>>

SetClosed(t) ==
  /\ closer[t] = "entered"
  /\ closed' = TRUE
  /\ Goto(t, "flush")
  /\ UNCHANGED <<outVars, inVars, sessionVars, httpFailed>>

NothingToFlush(t) ==
  /\ closer[t] = "flush" /\ sending = <<>> /\ buffer = <<>>
  /\ Goto(t, "notify")
  /\ UNCHANGED <<outVars, inVars, closed, sessionVars, httpFailed>>

(* RelaySessionConnection.close, first part: isClosed = true.              *)
EndSession == session' = IF session = "open" THEN "closing" ELSE session

(* PEER_CLOSING; its failure is only logged.                               *)
SkipNotification(t, delivered) ==
  /\ closer[t] = "notify"
  /\ Goto(t, "finish")
  /\ UNCHANGED <<outVars, inVars, closed, sessionVars, httpFailed>>
NotifyServer(t, delivered) ==
  /\ closer[t] = "notify"
  /\ Goto(t, "finish")
  /\ IF delivered THEN EndSession ELSE UNCHANGED session
  /\ httpFailed' = (httpFailed \/ ~delivered)
  /\ UNCHANGED <<outVars, inVars, closed, inSeq, outSeq, temp, toDevice,
                 fromDevice>>

(* The executors are shut down and STREAM_CLOSED is queued.                *)
FinishSilently(t) ==
  /\ closer[t] = "finish"
  /\ Goto(t, "done")
  /\ UNCHANGED <<outVars, inVars, closed, sessionVars, httpFailed>>
FinishClose(t) ==
  /\ closer[t] = "finish"
  /\ Goto(t, "done")
  /\ ended' = TRUE
  /\ UNCHANGED <<outVars, receiver, reply, relaySeq, incoming, reader, read,
                 closed, sessionVars, httpFailed>>

ExecutorsShutDown == \E t \in Closer : closer[t] = "done"

(***************************************************************************)
(* Client to device.                                                       *)
(***************************************************************************)

(* OutputStream.write, synchronized: not while a flush is being sent.      *)
Write ==
  /\ ~closed /\ sending = <<>>
  /\ Len(written) + Len(fromDevice) < MaxBytes
  /\ written' = Append(written, Len(written) + 1)
  /\ buffer' = Append(buffer, Len(written) + 1)
  /\ UNCHANGED <<sending, flusher, peerSeq, inVars, closeVars, sessionVars, httpFailed>>

(* OutputStream.flush, called by the user, the flusher thread or close():  *)
(* it holds the monitor until the chunk is sent, and fails at once when    *)
(* the executors were shut down.                                           *)
CanFlushOnClose(by) ==
  sending = <<>> /\ buffer # <<>> /\ by \in Closer /\ closer[by] = "flush"
CanFlush(by) ==
  sending = <<>> /\ buffer # <<>> /\ (by \in Closer => closer[by] = "flush")

KeepBuffer == UNCHANGED buffer
TakeBuffer == buffer' = <<>>

Flush(by) ==
  /\ CanFlush(by)
  /\ TakeBuffer
  /\ IF ExecutorsShutDown
     THEN /\ IF by = "stream" THEN UNCHANGED closer ELSE Goto(by, "finish")
          /\ UNCHANGED <<sending, flusher>>
     ELSE /\ sending' = buffer /\ flusher' = by
          /\ UNCHANGED closer
  /\ UNCHANGED <<written, peerSeq, inVars, closed, sessionVars, httpFailed>>

(* RelaySessionConnection.sendData of a whole chunk, ...                   *)
SendData(data, sequence) ==
  /\ session # "closed" /\ sequence = NextSeq(inSeq)
  /\ toDevice' = toDevice \o data
  /\ inSeq' = sequence
  /\ UNCHANGED session

(* ... or of a part of it, when the socket fails: the session is closed.   *)
SendDataFails(data, sequence, n) ==
  /\ session # "closed" /\ sequence = NextSeq(inSeq)
  /\ toDevice' = toDevice \o SubSeq(data, 1, n)
  /\ EndSession
  /\ UNCHANGED inSeq

RejectData(sequence) ==
  /\ session # "open" \/ sequence # NextSeq(inSeq)
  /\ UNCHANGED <<session, toDevice, inSeq>>

(* The exchange of a flush: its caller goes on, or the connection closes.  *)
EndFlush(accepted) ==
  /\ sending' = <<>> /\ flusher' = "stream"
  /\ peerSeq' = NextSeq(peerSeq)
  /\ IF flusher # "stream" THEN Goto(flusher, IF accepted THEN "notify" ELSE "finish")
     ELSE IF accepted THEN UNCHANGED closer
     ELSE EnterClose("outgoing")
  /\ UNCHANGED <<written, buffer, inVars, closed, outSeq, temp, fromDevice>>

ChunkAccepted ==
  /\ sending # <<>>
  /\ SendData(sending, NextSeq(peerSeq))
  /\ EndFlush(TRUE)
  /\ UNCHANGED httpFailed

ChunkRefused ==
  /\ sending # <<>>
  /\ \/ RejectData(NextSeq(peerSeq))
     \/ \E n \in 0..Len(sending) : SendDataFails(sending, NextSeq(peerSeq), n)
  /\ EndFlush(FALSE)
  /\ UNCHANGED httpFailed

(* The client gets no response: it does not know whether the chunk arrived.*)
ChunkUnanswered ==
  /\ sending # <<>>
  /\ \/ SendData(sending, NextSeq(peerSeq))
     \/ UNCHANGED <<session, toDevice, inSeq>>
  /\ EndFlush(FALSE)
  /\ httpFailed' = TRUE

(***************************************************************************)
(* Device to client.                                                       *)
(***************************************************************************)

(* The reader thread of the session: read from the socket, append to the   *)
(* temporary file.                                                         *)
OverwriteTempFile(data) == temp' = data
AppendTempFile(data) == temp' = temp \o data
ReadFromDevice ==
  /\ session = "open"
  /\ Len(written) + Len(fromDevice) < MaxBytes
  /\ LET data == <<Len(fromDevice) + 1>>
     IN  fromDevice' = fromDevice \o data /\ AppendTempFile(data)
  /\ UNCHANGED <<outVars, inVars, closeVars, session, inSeq, outSeq, toDevice, httpFailed>>

(* WAIT_FOR_DATA, answered when there is data or after the timeout: the    *)
(* data is popped and the sequence incremented, whether or not the         *)
(* response arrives.                                                       *)
AnswerPoll ==
  /\ receiver = "waiting" /\ session # "closed"
  /\ outSeq' = NextSeq(outSeq)
  /\ reply' = [type |-> "RELAY_TO_PEER", seq |-> NextSeq(outSeq), data |-> temp]
  /\ temp' = <<>>
  /\ receiver' = "replied"
  /\ UNCHANGED <<outVars, relaySeq, incoming, ended, reader, read, closeVars,
                 session, inSeq, toDevice, fromDevice, httpFailed>>

(* A closed session: SERVER_CLOSING or an error, also when data is left.   *)
RefusePoll ==
  /\ receiver = "waiting" /\ session # "open"
  /\ reply' = ServerClosing
  /\ receiver' = "replied"
  /\ UNCHANGED <<outVars, relaySeq, incoming, ended, reader, read, closeVars,
                 sessionVars, httpFailed>>

PollFails ==
  /\ receiver \in {"waiting", "replied"}
  /\ receiver' = "stopped" /\ httpFailed' = TRUE
  /\ EnterClose("incoming")
  /\ UNCHANGED <<outVars, reply, relaySeq, incoming, ended, reader, read, closed,
                 sessionVars>>

(* The receiver's loop.                                                    *)
HandleReply ==
  /\ receiver = "replied"
  /\ IF ~closed /\ reply.type = "RELAY_TO_PEER" /\ reply.seq = NextSeq(relaySeq)
     THEN /\ incoming' = incoming \o reply.data
          /\ relaySeq' = reply.seq
          /\ receiver' = "waiting"
          /\ UNCHANGED closer
     ELSE /\ receiver' = "stopped"
          /\ EnterClose("incoming")
          /\ UNCHANGED <<incoming, relaySeq>>
  /\ UNCHANGED <<outVars, reply, ended, reader, read, closed, sessionVars, httpFailed>>

(* InputStream.read: fails on a closed connection, but one that has begun  *)
(* takes what is queued, or waits for it, until STREAM_CLOSED.             *)
Read ==
  /\ reader = "idle" /\ ~closed
  /\ reader' = "reading"
  /\ UNCHANGED <<outVars, receiver, reply, relaySeq, incoming, ended, read,
                 closeVars, sessionVars, httpFailed>>

ReturnByte ==
  /\ reader = "reading" /\ incoming # <<>>
  /\ reader' = "idle"
  /\ read' = Append(read, Head(incoming))
  /\ incoming' = Tail(incoming)
  /\ UNCHANGED <<outVars, receiver, reply, relaySeq, ended, closeVars, sessionVars,
                 httpFailed>>

ReturnEnd ==
  /\ reader = "reading" /\ incoming = <<>> /\ ended
  /\ reader' = "end"
  /\ UNCHANGED <<outVars, receiver, reply, relaySeq, incoming, ended, read,
                 closeVars, sessionVars, httpFailed>>

(***************************************************************************)
(* The end of a session: the device closes the socket, or it fails, at any *)
(* time; then the streams are closed and the session is removed.           *)
(***************************************************************************)
DeviceGone ==
  /\ session = "open"
  /\ EndSession
  /\ UNCHANGED <<outVars, inVars, closeVars, inSeq, outSeq, temp, toDevice,
                 fromDevice, httpFailed>>

RemoveSession ==
  /\ session = "closing"
  /\ session' = "closed"
  /\ UNCHANGED <<outVars, inVars, closeVars, inSeq, outSeq, temp, toDevice,
                 fromDevice, httpFailed>>

Close(t) ==
  \/ SetClosed(t) \/ NothingToFlush(t) \/ Flush(t)
  \/ \E delivered \in BOOLEAN : NotifyServer(t, delivered)
  \/ FinishClose(t)

Exchange == ChunkAccepted \/ ChunkRefused \/ ChunkUnanswered

Next ==
  \/ CloseByUser
  \/ \E t \in Closer : Close(t)
  \/ Write \/ Flush("stream") \/ Exchange
  \/ ReadFromDevice \/ AnswerPoll \/ RefusePoll \/ PollFails \/ HandleReply
  \/ Read \/ ReturnByte \/ ReturnEnd
  \/ DeviceGone \/ RemoveSession

Spec == Init /\ [][Next]_vars

(* Every thread runs: the flusher each second, the executors, the threads  *)
(* that close; an HTTP exchange ends, and a user in read stays there.      *)
Fairness ==
  /\ \A t \in Closer : WF_vars(Close(t))
  /\ WF_vars(Flush("stream")) /\ WF_vars(Exchange)
  /\ WF_vars(AnswerPoll \/ RefusePoll \/ PollFails) /\ WF_vars(HandleReply)
  /\ WF_vars(ReturnByte \/ ReturnEnd)
  /\ WF_vars(RemoveSession)

FairSpec == Spec /\ Fairness

(***************************************************************************)
(* Properties.                                                             *)
(***************************************************************************)

(* The variables keep their types.                                         *)
TypeOK ==
  /\ {written, buffer, sending, incoming, read, temp, toDevice, fromDevice}
       \subseteq Seq(Byte)
  /\ flusher \in Closer \cup {"stream"}
  /\ {peerSeq, relaySeq, inSeq, outSeq} \subseteq 0..(SeqWidth - 1)
  /\ receiver \in {"waiting", "replied", "stopped"}
  /\ reply \in Response
  /\ reader \in {"idle", "reading", "end"}
  /\ {ended, closed, httpFailed} \subseteq BOOLEAN
  /\ closer \in [Closer -> {"idle", "entered", "flush", "notify", "finish", "done"}]
  /\ session \in {"open", "closing", "closed"}

(* Each direction is a byte stream, whatever fails and whoever closes.     *)
ToDevice   == INSTANCE ByteStream WITH sent <- written, delivered <- toDevice
FromDevice == INSTANCE ByteStream WITH sent <- fromDevice, delivered <- read
ToDeviceIsStream   == ToDevice!Spec
FromDeviceIsStream == FromDevice!Spec

(* As long as no thread closes the connection nothing is lost between the  *)
(* two ends: what was written is in the client or at the device, ...       *)
Untouched == \A t \in Closer : closer[t] = "idle"

NothingLostOutward ==
  Untouched => written = toDevice \o sending \o buffer

(* ... and what the session read from the device is in its temporary file, *)
(* in the response to a poll, or in the client.                            *)
InResponse == IF receiver = "replied" THEN reply.data ELSE <<>>

NothingLostInward ==
  Untouched => fromDevice = read \o incoming \o InResponse \o temp

(* What the user wrote reaches the device without an explicit flush,       *)
(* unless the connection or the session ends.                              *)
WrittenArrives ==
  \A n \in 1..MaxBytes :
    Len(written) >= n ~> Len(toDevice) >= n \/ closed \/ session # "open"

(* A thread in read does not stay there after the connection was closed.   *)
ReaderReleased == closed /\ reader = "reading" ~> reader # "reading"

(* The session does not outlive the client, if no exchange failed.         *)
SessionEnds == closed ~> session = "closed" \/ httpFailed
=============================================================================
