-------------------------- MODULE TcpRtuTransport --------------------------
(***************************************************************************)
(* infrastructure/transport/tcp_rtu_transport.py: commands and answers     *)
(* over a TCP stream to a gateway, which has no frames of its own.         *)
(*                                                                         *)
(* The methods are cut at the awaits at which they really wait: the        *)
(* opening of a connection, the silence connect() drains it for, the lock, *)
(* the bytes of an answer, the closing of a socket.  _reader and _writer   *)
(* are set and cleared together: stream is the connection they belong to.  *)
(*                                                                         *)
(* External: asyncio and the network.  A StreamWriter nothing refers to    *)
(* any more closes its connection.  The end of a stream wakes the          *)
(* coroutine that reads it before a new connection can be opened.  A       *)
(* stream has one reader at a time: read() raises for a second one.  A     *)
(* write to a connection the peer has closed succeeds once, and is the     *)
(* reason the next one fails.                                              *)
(***************************************************************************)
EXTENDS ModbusRTUProtocol

LOCAL INSTANCE FiniteSetsExt
LOCAL INSTANCE Functions

CONSTANTS
  Tasks,       \* coroutines that use the transport
  Writers,     \* those that send one command and do not connect
  Conns,       \* bound: the connections, numbered as they are opened
  ScanWindow,  \* max_scan of _extract_one_frame
  Cap, Keep,   \* the receive buffer is cut back to Keep when it exceeds Cap
  Bursts,      \* bound: bytes of noise at a time
  MaxTrouble   \* bound: lost answers, refusals, noise, closed connections, failures

ASSUME TransportAssumption ==
  /\ Writers \subseteq Tasks /\ Conns \subseteq Nat \ {0} /\ None \notin Conns
  /\ ScanWindow \in Nat \ {0} /\ Cap \in Nat /\ Keep \in 0..Cap
  /\ Bursts \subseteq Nat \ {0} /\ MaxTrouble \in Nat

VARIABLES
  stream,     \* _reader and _writer
  connected,  \* _connected
  rxbuf,      \* _rxbuf
  queue,      \* _lock: its holder and those who wait for it, in order
  pc,         \* the await each task is at
  on,         \* the connection it waits for
  cmd,        \* the command it is sending
  sent,       \* history: the kinds of the commands so far, in order
  conn,       \* the connections
  sentOn,     \* history: the connection each command was written to
  answer,     \* history: the command whose answer each command was given
  givenUp,    \* history: commands that failed
  budget      \* troubles left

fields == <<stream, connected, rxbuf>>
caller == <<queue, pc, on, cmd, sent>>
history == <<sentOn, answer, givenUp>>
tcpVars == <<fields, caller, conn, history, budget>>

Waiting == {"reading", "draining"}

\* `status': closed by the peer is fin, and rst after a write; closed by us is
\* closed.  `asked': commands the gateway has received and not answered;
\* `coming': bytes on their way to us; `inbox': bytes nobody has read yet.
Connections == [status: {"unused", "up", "fin", "rst", "lost", "closed"},
                asked: Seq(Numbers), coming: Seq(Bytes), inbox: Seq(Bytes)]

Quiet(status) == [status |-> status, asked |-> <<>>, coming |-> <<>>, inbox |-> <<>>]

TcpTypeOK ==
  /\ stream \in Conns \cup {None} /\ connected \in BOOLEAN
  /\ rxbuf \in Seq(Bytes)
  /\ queue \in Seq(Tasks)
  /\ pc \in [Tasks -> {"idle", "backoff", "opening", "ready", "queued"} \cup Waiting]
  /\ on \in [Tasks -> Conns \cup {None}]
  /\ cmd \in [Tasks -> Numbers \cup {None}]
  /\ sent \in Seq(Commands)
  /\ conn \in [Conns -> Connections]
  /\ sentOn \in [Numbers -> Conns \cup {None}]
  /\ answer \in [Numbers -> Numbers \cup {None}]
  /\ givenUp \subseteq Numbers
  /\ budget \in 0..MaxTrouble
  /\ \A t \in Tasks : pc[t] = "reading" => Len(rxbuf) <= Cap

TcpInit ==
  /\ stream = None /\ connected = FALSE /\ rxbuf = <<>>
  /\ queue = <<>> /\ sent = <<>>
  /\ pc = [t \in Tasks |-> "idle"]
  /\ on = [t \in Tasks |-> None] /\ cmd = [t \in Tasks |-> None]
  /\ conn = [c \in Conns |-> Quiet("unused")]
  /\ sentOn = [k \in Numbers |-> None] /\ answer = [k \in Numbers |-> None]
  /\ givenUp = {}
  /\ budget = MaxTrouble

Trouble == budget > 0 /\ budget' = budget - 1

-----------------------------------------------------------------------------
(* Operators *)

Open(c) == c # None /\ conn[c].status \in {"up", "fin", "rst"}

\* is_connected: writer.is_closing() is true of a connection that is lost or closed.
IsConnected == connected /\ Open(stream)

\* The connection c, if it is one and still open, is closed at our side.
Closed(c) == IF Open(c) THEN [conn EXCEPT ![c] = Quiet("closed")] ELSE conn

\* The end of the stream has come to a task that reads it.
Ended(t) == pc[t] \in Waiting /\ conn[on[t]].status # "up"

Prompt == \A t \in Tasks : ~Ended(t)

Reader(c) == {t \in Tasks : pc[t] \in Waiting /\ on[t] = c}

\* _extract_one_frame(): where it finds one.
Found(b) == {i \in 1..Len(b) : i <= ScanWindow /\ FrameAt(b, i)}

Extracted(b) == b[Min(Found(b))].frame

MutantRest(b) == SubSeq(b, Min(Found(b)), Len(b))

\* The frame is deleted with all that came before it.
Rest(b) == SubSeq(b, Min(Found(b)) + Length(Extracted(b)), Len(b))

MutantTrim(b) == b

Trim(b) == IF Len(b) > Cap THEN SubSeq(b, Len(b) - Keep + 1, Len(b)) ELSE b

-----------------------------------------------------------------------------
(* connect() *)

\* The previous stream, if there is one, is still in place meanwhile.
StartConnect(t) ==
  /\ connected' = FALSE
  /\ pc' = [pc EXCEPT ![t] = "opening"]
  /\ UNCHANGED <<stream, rxbuf, queue, on, cmd, sent, conn, history, budget>>

Opened(t) ==
  /\ pc[t] = "opening" /\ Prompt
  /\ \E c \in Conns :
        /\ conn[c].status = "unused" /\ \A d \in Conns : conn[d].status = "unused" => c <= d
        /\ stream' = c
        /\ conn' = [Closed(stream) EXCEPT ![c] = Quiet("up")]
        /\ on' = [on EXCEPT ![t] = c]
  /\ connected' = TRUE /\ rxbuf' = <<>>
  /\ pc' = [pc EXCEPT ![t] = "draining"]
  /\ UNCHANGED <<queue, cmd, sent, history, budget>>

\* except: the fields are cleared, whosever connection they hold by now.
ConnectFailed(t) ==
  /\ stream' = None /\ connected' = FALSE
  /\ conn' = Closed(stream)
  /\ pc' = [pc EXCEPT ![t] = "idle"] /\ on' = [on EXCEPT ![t] = None]
  /\ UNCHANGED <<rxbuf, queue, cmd, sent, history>>

OpenFails(t) == pc[t] = "opening" /\ Prompt /\ Trouble /\ ConnectFailed(t)

Reset(t) ==
  /\ pc[t] = "draining" /\ conn[on[t]].status = "lost"
  /\ ConnectFailed(t)
  /\ UNCHANGED budget

\* 0.05 s without a byte, or the end of the stream: connect() returns True.
Drained(t) ==
  /\ pc[t] = "draining" /\ conn[on[t]].status # "lost"
  /\ Ended(t) \/ Prompt
  /\ pc' = [pc EXCEPT ![t] = "ready"] /\ on' = [on EXCEPT ![t] = None]
  /\ UNCHANGED <<fields, queue, cmd, sent, conn, history, budget>>

-----------------------------------------------------------------------------
(* send() *)

MutantHolds(t) == queue

\* The end of `async with self._lock'.
Released(t) == IF queue # <<>> /\ Head(queue) = t THEN Tail(queue) ELSE queue

\* Back in the caller: a refresh or a read may go on with another command.
Leave(t) ==
  /\ queue' = Released(t)
  /\ pc' = [pc EXCEPT ![t] = IF t \in Writers THEN "idle" ELSE "ready"]
  /\ on' = [on EXCEPT ![t] = None] /\ cmd' = [cmd EXCEPT ![t] = None]

Fail(t, k) ==
  /\ Leave(t)
  /\ givenUp' = givenUp \cup {k}
  /\ UNCHANGED answer

Return(t, k, f) ==
  /\ Leave(t)
  /\ answer' = [answer EXCEPT ![k] = f.of]
  /\ UNCHANGED givenUp

Wait(t, k, c) ==
  /\ pc' = [pc EXCEPT ![t] = "reading"]
  /\ on' = [on EXCEPT ![t] = c] /\ cmd' = [cmd EXCEPT ![t] = k]
  /\ queue' = IF t \in Range(queue) THEN queue ELSE Append(queue, t)
  /\ UNCHANGED <<answer, givenUp>>

\* The loop, once b is all that has come on c: a frame is found, or the task
\* waits for more, or the stream has ended, or another coroutine reads it.
Search(t, k, c, b) ==
  IF Found(b) # {} THEN rxbuf' = Rest(b) /\ Return(t, k, Extracted(b))
  ELSE /\ rxbuf' = Trim(b)
       /\ IF conn[c].status = "up" /\ Reader(c) \subseteq {t} THEN Wait(t, k, c) ELSE Fail(t, k)

\* disconnected since send() looked: `self._writer.write' on None.
NoWriter(t, k) ==
  /\ stream = None
  /\ Fail(t, k) /\ UNCHANGED <<fields, conn, sentOn>>

\* _invalidate_socket(): the connection is lost, so wait_closed() does not wait.
InvalidateSocket ==
  /\ connected' = FALSE /\ rxbuf' = <<>> /\ stream' = None
  /\ conn' = Closed(stream)

\* drain() raises ConnectionResetError.
Broken(t, k) ==
  /\ stream # None /\ conn[stream].status \in {"rst", "lost", "closed"}
  /\ InvalidateSocket
  /\ Fail(t, k) /\ UNCHANGED sentOn

\* A connection s that command k is written to, and what is left to be read of it.
WrittenTo(s, k, left) ==
  IF s.status = "up" THEN [s EXCEPT !.asked = Append(@, k), !.inbox = left]
  ELSE [s EXCEPT !.status = "rst", !.inbox = left]

\* What was left in the buffer is searched before anything is read.
Written(t, k) ==
  /\ stream # None /\ conn[stream].status \in {"up", "fin"}
  /\ sentOn' = [sentOn EXCEPT ![k] = stream]
  /\ LET found == Found(rxbuf) # {}
         b == IF found THEN rxbuf ELSE Trim(rxbuf) \o conn[stream].inbox
     IN /\ Search(t, k, stream, b)
        /\ conn' = [conn EXCEPT ![stream] =
                      WrittenTo(@, k, IF found THEN conn[stream].inbox ELSE <<>>)]
  /\ UNCHANGED <<stream, connected>>

Transmit(t, k) == NoWriter(t, k) \/ Broken(t, k) \/ Written(t, k)

\* A free lock is taken without waiting.
Send(t, kind) ==
  /\ connected /\ stream # None
  /\ Len(sent) + 1 \in Numbers /\ sent' = Append(sent, kind)
  /\ IF queue = <<>> THEN Transmit(t, Len(sent) + 1)
     ELSE /\ queue' = Append(queue, t)
          /\ pc' = [pc EXCEPT ![t] = "queued"]
          /\ cmd' = [cmd EXCEPT ![t] = Len(sent) + 1]
          /\ UNCHANGED <<on, fields, conn, history>>
  /\ UNCHANGED budget

Locked(t) ==
  /\ pc[t] = "queued" /\ Head(queue) = t
  /\ UNCHANGED <<sent, budget>>
  /\ Transmit(t, cmd[t])

\* The answer does not come in time.  What has come of it stays in the buffer.
TimeOut(t) ==
  /\ pc[t] = "reading" /\ Prompt
  /\ Fail(t, cmd[t])
  /\ UNCHANGED <<fields, conn, sent, sentOn, budget>>

\* read() returns nothing: TimeoutError; or it raises: ConnectionError.
EndOfStream(t) ==
  /\ pc[t] = "reading" /\ Ended(t)
  /\ Fail(t, cmd[t])
  /\ IF conn[on[t]].status = "lost" THEN InvalidateSocket ELSE UNCHANGED <<fields, conn>>
  /\ UNCHANGED <<sent, sentOn, budget>>

-----------------------------------------------------------------------------
(* disconnect() *)

StartDisconnect ==
  /\ conn' = Closed(stream)
  /\ UNCHANGED <<fields, caller, history, budget>>

\* wait_closed() is over.
Disconnected ==
  /\ stream' = None /\ connected' = FALSE /\ rxbuf' = <<>>
  /\ conn' = Closed(stream)
  /\ UNCHANGED <<caller, history, budget>>

-----------------------------------------------------------------------------
(* The gateway and the network *)

Reply(c, refused) ==
  LET k == Head(conn[c].asked) IN
  Encoded([of |-> k, kind |-> sent[k], refused |-> refused])

\* The gateway is done with the first command; `bytes' are sent.
Answered(c, bytes) ==
  /\ conn[c].status = "up" /\ conn[c].asked # <<>>
  /\ conn' = [conn EXCEPT ![c].asked = Tail(@), ![c].coming = @ \o bytes]
  /\ UNCHANGED <<fields, caller, history>>

Answers(c) == conn[c].asked # <<>> /\ Answered(c, Reply(c, FALSE)) /\ UNCHANGED budget

Refuses(c) == conn[c].asked # <<>> /\ Answered(c, Reply(c, TRUE)) /\ Trouble

Ignores(c) == Answered(c, <<>>) /\ Trouble

Disturbed(c, n) ==
  /\ conn[c].status = "up" /\ Trouble
  /\ conn' = [conn EXCEPT ![c].coming = @ \o [i \in 1..n |-> Noise]]
  /\ UNCHANGED <<fields, caller, history>>

\* The first n bytes arrive: for the command that waits for them, for the
\* draining, which drops them, or for whoever reads next.
Deliver(c, n) ==
  LET bytes == conn[c].coming
      chunk == SubSeq(bytes, 1, n)
      left == [conn EXCEPT ![c].coming = SubSeq(bytes, n + 1, Len(bytes))]
  IN /\ conn[c].status = "up" /\ n \in DOMAIN bytes
     /\ UNCHANGED <<stream, connected, sent, sentOn, budget>>
     /\ \/ \E t \in Reader(c) :
              /\ pc[t] = "reading" /\ conn' = left
              /\ Search(t, cmd[t], c, rxbuf \o chunk)
        \/ /\ \E t \in Reader(c) : pc[t] = "draining"
           /\ conn' = left
           /\ UNCHANGED <<rxbuf, queue, pc, on, cmd, answer, givenUp>>
        \/ /\ Reader(c) = {}
           /\ conn' = [left EXCEPT ![c].inbox = @ \o chunk]
           /\ UNCHANGED <<rxbuf, queue, pc, on, cmd, answer, givenUp>>

\* The peer closes the connection: what has arrived can still be read.
FinArrives(c) ==
  /\ conn[c].status = "up" /\ Trouble
  /\ conn' = [conn EXCEPT ![c] = [Quiet("fin") EXCEPT !.inbox = conn[c].inbox]]
  /\ UNCHANGED <<fields, caller, history>>

ResetArrives(c) ==
  /\ conn[c].status = "up" /\ Trouble
  /\ conn' = [conn EXCEPT ![c] = Quiet("lost")]
  /\ UNCHANGED <<fields, caller, history>>
=============================================================================
