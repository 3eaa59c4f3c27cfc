-------------------------- MODULE WireAnswersProofs --------------------------
(***************************************************************************)
(* Proofs about Wire, for any tasks, commands, connections, bytes, windows *)
(* and sizes of the buffer: who has the lock, and whose answer a command   *)
(* is given.                                                               *)
(***************************************************************************)
EXTENDS WireProofs, NaturalLemmas

LOCAL INSTANCE Functions
LOCAL INSTANCE FiniteSetsExt

-----------------------------------------------------------------------------
(* Frames among the bytes *)

LEMMA FrameTyped ==
  ASSUME NEW f \in Frames
  PROVE  /\ Length(f) \in Nat \ {0}
         /\ Encoded(f) \in Seq(Bytes) /\ Len(Encoded(f)) = Length(f)
         /\ \A i \in 1..Length(f) : Encoded(f)[i] = [frame |-> f, at |-> i]
<1>1. Length(f) \in Nat \ {0}
  BY ProtocolAssumption DEF Length, Frames
<1>2. \A i \in 1..Length(f) : [frame |-> f, at |-> i] \in Bytes
  BY <1>1 DEF Bytes
<1> QED
  BY <1>1, <1>2 DEF Encoded

LEMMA NoiseTyped ==
  ASSUME NEW n \in Bursts
  PROVE  /\ [i \in 1..n |-> Noise] \in Seq(Bytes)
         /\ \A i \in DOMAIN [j \in 1..n |-> Noise] : [j \in 1..n |-> Noise][i] \in Stray
<1>1. n \in Nat /\ Noise \in Stray /\ Noise \in Bytes
  BY TransportAssumption DEF Stray, Bytes
<1> QED
  BY <1>1

LEMMA FrameOfByte ==
  ASSUME NEW b \in Seq(Bytes), NEW i \in 1..Len(b), b[i] \notin Stray
  PROVE  b[i].frame \in Frames /\ b[i].at \in Nat \ {0}
<1>1. b[i] \in Bytes
  OBVIOUS
<1> QED
  BY <1>1 DEF Bytes

LEMMA FoundFrame ==
  ASSUME NEW b \in Seq(Bytes), Found(b) # {}
  PROVE  /\ Min(Found(b)) \in 1..Len(b) /\ FrameAt(b, Min(Found(b)))
         /\ Extracted(b) \in Frames
         /\ Min(Found(b)) + Length(Extracted(b)) - 1 <= Len(b)
         /\ Rest(b) \in Seq(Bytes)
<1>1. Found(b) \in SUBSET Nat
  BY DEF Found
<1>2. Min(Found(b)) \in Found(b)
  BY <1>1, MinIsLeast
<1>3. Min(Found(b)) \in 1..Len(b) /\ FrameAt(b, Min(Found(b)))
  BY <1>2 DEF Found
<1>4. Extracted(b) \in Frames
  BY <1>3, FrameOfByte DEF Extracted, FrameAt
<1>5. Min(Found(b)) + Length(Extracted(b)) - 1 <= Len(b)
  BY <1>3 DEF Extracted, FrameAt
<1>6. \A m \in Nat \ {0} : SubSeq(b, m, Len(b)) \in Seq(Bytes)
  OBVIOUS
<1>7. Min(Found(b)) + Length(Extracted(b)) \in Nat \ {0}
  BY <1>3, <1>4, FrameTyped
<1> QED
  BY <1>3, <1>4, <1>5, <1>6, <1>7 DEF Rest

LEMMA Trimmed ==
  ASSUME NEW b \in Seq(Bytes)
  PROVE  Trim(b) \in Seq(Bytes) /\ Len(Trim(b)) <= Cap
<1>1. Cap \in Nat /\ Keep \in 0..Cap /\ Len(b) \in Nat
  BY TransportAssumption
<1>2. CASE Len(b) > Cap
  <2>1. Len(b) - Keep + 1 \in Nat \ {0}
    BY <1>1, <1>2
  <2>2. \A m \in Nat \ {0} : /\ SubSeq(b, m, Len(b)) \in Seq(Bytes)
                             /\ Len(SubSeq(b, m, Len(b))) = IF m <= Len(b) THEN Len(b) - m + 1 ELSE 0
    OBVIOUS
  <2>3. Trim(b) = SubSeq(b, Len(b) - Keep + 1, Len(b))
    BY <1>2 DEF Trim
  <2> QED
    BY <1>1, <2>1, <2>2, <2>3
<1>3. CASE ~(Len(b) > Cap)
  BY <1>1, <1>3 DEF Trim
<1> QED
  BY <1>2, <1>3

-----------------------------------------------------------------------------
(* Decoding *)

\* A frame byte for byte.
LEMMA FrameBytes ==
  ASSUME NEW b \in Seq(Bytes), NEW i \in 1..Len(b), b[i] \notin Stray, b[i].at = 1
  PROVE  FrameAt(b, i) <=>
           /\ i + Length(b[i].frame) - 1 <= Len(b)
           /\ \A j \in 1..Length(b[i].frame) :
                 b[i + j - 1] = [frame |-> b[i].frame, at |-> j]
<1> DEFINE f == b[i].frame
<1>1. f \in Frames
  BY FrameOfByte
<1> HIDE DEF f
<1>2. /\ Length(f) \in Nat \ {0} /\ Encoded(f) \in Seq(Bytes) /\ Len(Encoded(f)) = Length(f)
      /\ \A j \in 1..Length(f) : Encoded(f)[j] = [frame |-> f, at |-> j]
  BY <1>1, FrameTyped
<1>3. ASSUME i + Length(f) - 1 <= Len(b)
      PROVE  SubSeq(b, i, i + Length(f) - 1) = Encoded(f) <=>
               \A j \in 1..Length(f) : b[i + j - 1] = [frame |-> f, at |-> j]
  <2> DEFINE p == SubSeq(b, i, i + Length(f) - 1)
  <2>1. /\ p \in Seq(Bytes) /\ Len(p) = Length(f)
        /\ \A j \in 1..Length(f) : p[j] = b[i + j - 1]
    BY <1>2, <1>3
  <2> HIDE DEF p
  <2>2. p = Encoded(f) <=> \A j \in 1..Length(f) : p[j] = Encoded(f)[j]
    BY <1>2, <2>1
  <2> QED
    BY <1>2, <2>1, <2>2 DEF p
<1>4. i \in DOMAIN b
  OBVIOUS
<1> QED
  BY <1>3, <1>4 DEF FrameAt, f

\* Leading zeros are not the beginning of a frame.
LEMMA Stripped ==
  ASSUME NEW b \in Seq(Bytes)
  PROVE  \E z \in 0..Len(b) :
           /\ \A j \in 1..z : b[j] = Zero
           /\ StripLeadingZeroPadding(b) = SubSeq(b, z + 1, Len(b))
<1> DEFINE zeros == {i \in 0..Len(b) : i <= MaxZeros /\ \A j \in 1..i : b[j] = Zero}
<1>1. zeros \in SUBSET Nat /\ 0 \in zeros /\ Len(b) \in Nat /\ \A y \in zeros : y <= Len(b)
  BY ProtocolAssumption
<1>2. StripLeadingZeroPadding(b) = SubSeq(b, Max(zeros) + 1, Len(b))
  BY DEF StripLeadingZeroPadding
<1> HIDE DEF zeros
<1>3. Max(zeros) \in zeros
  BY <1>1, MaxIsGreatest
<1>4. Max(zeros) \in 0..Len(b) /\ \A j \in 1..Max(zeros) : b[j] = Zero
  BY <1>3 DEF zeros
<1> QED
  BY <1>2, <1>4

\* What is a frame in the rest of b is one in b, and the other way round.
LEMMA FrameInRest ==
  ASSUME NEW b \in Seq(Bytes), NEW z \in 0..Len(b), NEW i \in Nat \ {0}
  PROVE  LET r == SubSeq(b, z + 1, Len(b)) IN
         /\ r \in Seq(Bytes) /\ Len(r) = Len(b) - z
         /\ i <= Len(r) => r[i] = b[z + i]
         /\ FrameAt(r, i) <=> i <= Len(r) /\ FrameAt(b, z + i)
<1> DEFINE r == SubSeq(b, z + 1, Len(b))
<1>1. /\ r \in Seq(Bytes) /\ Len(r) = Len(b) - z
      /\ \A j \in 1..Len(r) : r[j] = b[z + j]
  OBVIOUS
<1> HIDE DEF r
<1>2. CASE i <= Len(r) /\ r[i] \notin Stray /\ r[i].at = 1
  <2>1. /\ z + i \in 1..Len(b) /\ i \in 1..Len(r) /\ b[z + i] = r[i]
    BY <1>1, <1>2
  <2>2. Length(r[i].frame) \in Nat \ {0}
    BY <1>1, <1>2, <2>1, FrameOfByte, FrameTyped
  <2> DEFINE n == Length(r[i].frame)
  <2>3. FrameAt(r, i) <=>
          /\ i + n - 1 <= Len(r)
          /\ \A j \in 1..n : r[i + j - 1] = [frame |-> r[i].frame, at |-> j]
    BY <1>1, <1>2, <2>1, FrameBytes
  <2>4. FrameAt(b, z + i) <=>
          /\ z + i + n - 1 <= Len(b)
          /\ \A j \in 1..n : b[z + i + j - 1] = [frame |-> r[i].frame, at |-> j]
    BY <1>2, <2>1, FrameBytes
  <2> HIDE DEF n
  <2>5. n \in Nat \ {0}
    BY <2>2 DEF n
  <2>6. i + n - 1 <= Len(r) => \A j \in 1..n : r[i + j - 1] = b[z + i + j - 1]
    <3> SUFFICES ASSUME i + n - 1 <= Len(r), NEW j \in 1..n
                 PROVE  r[i + j - 1] = b[z + i + j - 1]
      OBVIOUS
    <3>1. i + j - 1 \in 1..Len(r) /\ z + (i + j - 1) = z + i + j - 1
      BY <1>1, <2>5
    <3>2. r[i + j - 1] = b[z + (i + j - 1)]
      BY <1>1, <3>1
    <3> QED
      BY <3>1, <3>2
  <2>7. i + n - 1 <= Len(r) <=> z + i + n - 1 <= Len(b)
    BY <1>1, <2>5
  <2> QED
    BY <1>1, <1>2, <2>1, <2>3, <2>4, <2>6, <2>7 DEF r
<1>3. CASE ~(i <= Len(r) /\ r[i] \notin Stray /\ r[i].at = 1)
  <2>1. DOMAIN r = 1..Len(r)
    BY <1>1
  <2>2. i <= Len(r) => r[i] = b[z + i]
    BY <1>1
  <2>3. ~FrameAt(r, i)
    BY <1>3, <2>1 DEF FrameAt
  <2>4. ~(i <= Len(r) /\ FrameAt(b, z + i))
    BY <1>3, <2>2 DEF FrameAt
  <2> QED
    BY <1>1, <2>2, <2>3, <2>4 DEF r
<1> QED
  BY <1>2, <1>3

LEMMA ParsedTyped ==
  ASSUME NEW b \in Seq(Bytes), NEW i, FrameAt(b, i)
  PROVE  ParseValidatedFrame(b[i].frame) \in Verdicts
<1>1. i \in 1..Len(b) /\ b[i] \notin Stray
  BY DEF FrameAt
<1>2. b[i].frame \in Frames
  BY <1>1, FrameOfByte
<1> QED
  BY <1>2 DEF ParseValidatedFrame, Verdicts

LEMMA SyncedFirst ==
  ASSUME NEW b \in Seq(Bytes), NEW k, Synced(b, k) # {}
  PROVE  /\ Min(Synced(b, k)) \in Nat \ {0} /\ FrameAt(b, Min(Synced(b, k)))
         /\ Fits(b[Min(Synced(b, k))].frame, k)
<1>1. Synced(b, k) \in SUBSET Nat
  BY DEF Synced
<1>2. Min(Synced(b, k)) \in Synced(b, k)
  BY <1>1, MinIsLeast
<1> QED
  BY <1>2 DEF Synced

\* Whatever the notification is, decode_response() ends with one of its verdicts,
\* and one about values is about a frame that is in it.
LEMMA DecodeTrue ==
  ASSUME NEW b \in Seq(Bytes), NEW k
  PROVE  LET r == DecodeResponse(b, k) IN
         /\ r \in Verdicts
         /\ r.verdict \in {"values", "refused"} =>
              /\ \E i \in 1..Len(b) : FrameAt(b, i) /\ b[i].frame = r.frame
              /\ (r.verdict = "refused") = r.frame.refused
         /\ \A i \in 1..Len(b) :
              /\ i <= SyncWindow /\ FrameAt(b, i) /\ Fits(b[i].frame, k)
              /\ Dash \notin Range(b)
              => r.frame # None /\ Fits(r.frame, k)
<1> DEFINE r == DecodeResponse(b, k)
           body == StripLeadingZeroPadding(b)
<1>1. PICK z \in 0..Len(b) : /\ \A j \in 1..z : b[j] = Zero
                            /\ body = SubSeq(b, z + 1, Len(b))
  BY Stripped
<1>2. /\ body \in Seq(Bytes) /\ Len(body) = Len(b) - z
      /\ \A i \in Nat \ {0} : /\ i <= Len(body) => body[i] = b[z + i]
                              /\ FrameAt(body, i) <=> i <= Len(body) /\ FrameAt(b, z + i)
  BY <1>1, FrameInRest
<1>3. r = IF body = <<>> THEN Nothing("ValueError")
          ELSE IF body[1] = Dash THEN Nothing("unsupported_register")
          ELSE IF Synced(body, k) # {}
               THEN ParseValidatedFrame(body[Min(Synced(body, k))].frame)
          ELSE TrimAndParse(body)
  BY DEF DecodeResponse
<1> HIDE DEF r, body
<1>4. ASSUME NEW i \in Nat \ {0}, FrameAt(body, i), r = ParseValidatedFrame(body[i].frame)
      PROVE  /\ r \in Verdicts
             /\ \E j \in 1..Len(b) : FrameAt(b, j) /\ b[j].frame = r.frame
             /\ (r.verdict = "refused") = r.frame.refused
             /\ r.frame = body[i].frame /\ r.frame # None
  <2>1. r \in Verdicts
    BY <1>2, <1>4, ParsedTyped
  <2>2. i \in 1..Len(body) /\ body[i] \notin Stray
    BY <1>4, <1>2 DEF FrameAt
  <2>3. body[i].frame \in Frames
    BY <1>2, <2>2, FrameOfByte
  <2>4. r.frame = body[i].frame /\ (r.verdict = "refused") = r.frame.refused
    <3>1. body[i].frame.refused \in BOOLEAN
      BY <2>3 DEF Frames
    <3> QED
      BY <1>4, <3>1 DEF ParseValidatedFrame
  <2>5. z + i \in 1..Len(b) /\ FrameAt(b, z + i) /\ b[z + i].frame = r.frame
    BY <1>2, <1>4, <2>2, <2>4
  <2> QED
    BY <2>1, <2>3, <2>4, <2>5, NoneAssumption
<1>5. ASSUME r = Nothing("ValueError") \/ r = Nothing("unsupported_register")
      PROVE  r \in Verdicts /\ r.verdict \notin {"values", "refused"}
  BY <1>5 DEF Nothing, Verdicts
<1>6. Synced(body, k) # {} =>
        /\ Min(Synced(body, k)) \in Nat \ {0} /\ FrameAt(body, Min(Synced(body, k)))
        /\ Fits(body[Min(Synced(body, k))].frame, k)
  BY <1>2, SyncedFirst
<1>7. /\ r \in Verdicts
      /\ r.verdict \in {"values", "refused"} =>
           /\ \E i \in 1..Len(b) : FrameAt(b, i) /\ b[i].frame = r.frame
           /\ (r.verdict = "refused") = r.frame.refused
  <2>1. CASE r = Nothing("ValueError") \/ r = Nothing("unsupported_register")
    BY <2>1, <1>5
  <2>2. CASE r = ParseValidatedFrame(body[Min(Synced(body, k))].frame) /\ Synced(body, k) # {}
    BY <2>2, <1>4, <1>6
  <2>3. CASE r = TrimAndParse(body)
    <3>1. CASE FrameAt(body, 1)
      BY <2>3, <3>1, <1>4 DEF TrimAndParse
    <3> QED
      BY <2>1, <2>3, <3>1 DEF TrimAndParse
  <2> QED
    BY <1>3, <2>1, <2>2, <2>3
<1>8. ASSUME NEW i \in 1..Len(b), i <= SyncWindow, FrameAt(b, i), Fits(b[i].frame, k),
             Dash \notin Range(b)
      PROVE  r.frame # None /\ Fits(r.frame, k)
  <2>1. i > z
    BY <1>1, <1>8 DEF FrameAt, Stray
  <2>2. i - z \in Nat \ {0} /\ i - z <= Len(body) /\ i - z <= SyncWindow /\ z + (i - z) = i
    BY <1>2, <1>8, <2>1, ProtocolAssumption
  <2>3. FrameAt(body, i - z) /\ Fits(body[i - z].frame, k)
    BY <1>2, <1>8, <2>2
  <2>4. Synced(body, k) # {}
    BY <1>2, <2>2, <2>3 DEF Synced
  <2>5. body # <<>> /\ body[1] = b[z + 1] /\ z + 1 \in 1..Len(b)
    BY <1>2, <2>2
  <2>6. body[1] # Dash
    BY <1>8, <2>5 DEF Range
  <2>7. r = ParseValidatedFrame(body[Min(Synced(body, k))].frame)
    BY <1>3, <2>4, <2>5, <2>6
  <2> QED
    BY <1>4, <1>6, <2>4, <2>7
<1> QED
  BY <1>7, <1>8 DEF r

\* What the last notification was decoded to is what decode_response() makes of it.
LastInv ==
  last # None =>
    /\ last.kind \in Commands /\ last.bytes \in Seq(Bytes)
    /\ last = [kind |-> last.kind, bytes |-> last.bytes,
               result |-> DecodeResponse(last.bytes, last.kind)]

LEMMA LastKept ==
  ASSUME LastInv, [Next]_vars
  PROVE  LastInv'
<1>1. CASE UNCHANGED last
  BY <1>1 DEF LastInv
<1>2. ASSUME NEW p \in Payloads, Notified(p)
      PROVE  LastInv'
  <2>1. p.kind \in Commands /\ p.bytes \in Seq(Bytes)
    BY WireAssumption
  <2>2. last' = [kind |-> p.kind, bytes |-> p.bytes, result |-> DecodeResponse(p.bytes, p.kind)]
    BY <1>2 DEF Notified
  <2> QED
    BY <2>1, <2>2 DEF LastInv
<1> QED
  BY <1>1, <1>2 DEF Next, Resume, Steady, rest, vars, EnsureConnected, BackoffOver,
     ConnectReturns, Shutdown, ShutdownEnds

\* modbus_rtu_protocol.py: what a command is told over BLE is what some whole
\* frame of the notification says, an exception never as values; and if a frame
\* that fits the command is within reach, what it is told is one that fits.
THEOREM DecodingIsTrue == Spec => []OutcomeTrue
<1>1. Init => LastInv
  BY DEF Init, LastInv
<1>2. LastInv /\ [Next]_vars => LastInv'
  BY LastKept
<1>3. LastInv => OutcomeTrue
  <2> SUFFICES ASSUME LastInv, last # None PROVE OutcomeTrue
    BY DEF OutcomeTrue
  <2>1. last.bytes \in Seq(Bytes) /\ last.result = DecodeResponse(last.bytes, last.kind)
    BY DEF LastInv
  <2> QED
    BY <2>1, DecodeTrue DEF OutcomeTrue
<1> QED
  BY <1>1, <1>2, <1>3, PTL DEF Spec

-----------------------------------------------------------------------------
(* The lock *)

\* The queue holds those who are in send(), each once and in the order of their
\* commands; who reads is its head.
LockInv ==
  /\ \A t \in Tasks : pc[t] \in {"queued", "reading"} <=> \E i \in DOMAIN queue : queue[i] = t
  /\ \A t \in Tasks : pc[t] \in {"queued", "reading"} => cmd[t] \in Numbers /\ cmd[t] <= Len(sent)
  /\ \A t \in Tasks : pc[t] = "reading" => Head(queue) = t /\ on[t] \in Conns
  /\ \A i, j \in DOMAIN queue : i < j => cmd[queue[i]] < cmd[queue[j]]

CallersTyped ==
  /\ queue \in Seq(Tasks) /\ pc \in [Tasks -> Places]
  /\ on \in [Tasks -> Conns \cup {None}] /\ cmd \in [Tasks -> Numbers \cup {None}]
  /\ sent \in Seq(Commands)

\* t may use the lock for command k: it is the first in the queue, or nobody is
\* there and the command is a new one.
Holds(t, k) ==
  /\ k \in Numbers
  /\ \/ queue = <<>> /\ pc[t] \in {"idle", "ready"} /\ k = Len(sent) + 1 /\ Len(sent') = k
     \/ queue # <<>> /\ Head(queue) = t /\ pc[t] \in {"queued", "reading"} /\ cmd[t] = k /\ sent' = sent

LEMMA NobodyElseReads ==
  ASSUME LockInv, NEW t \in Tasks, NEW k, Holds(t, k)
  PROVE  \A u \in Tasks : u # t => pc[u] # "reading"
<1>1. CASE queue = <<>>
  <2>1. DOMAIN queue = {}
    BY <1>1
  <2> QED
    BY <2>1 DEF LockInv
<1>2. CASE queue # <<>>
  <2>1. Head(queue) = t
    BY <1>2 DEF Holds
  <2> QED
    BY <2>1 DEF LockInv
<1> QED
  BY <1>1, <1>2

LEMMA QueueHead ==
  ASSUME CallersTyped, LockInv, queue # <<>>
  PROVE  /\ Tail(queue) \in Seq(Tasks)
         /\ \A i \in DOMAIN Tail(queue) : i + 1 \in DOMAIN queue /\ Tail(queue)[i] = queue[i + 1]
         /\ \A i \in DOMAIN queue : i = 1 \/ i - 1 \in DOMAIN Tail(queue)
         /\ 1 \in DOMAIN queue /\ Head(queue) = queue[1] /\ queue[1] \in Tasks
         /\ \A i \in DOMAIN Tail(queue) : Tail(queue)[i] # Head(queue)
<1>1. /\ Tail(queue) \in Seq(Tasks) /\ Len(Tail(queue)) = Len(queue) - 1 /\ Len(queue) \in Nat \ {0}
      /\ \A i \in 1..(Len(queue) - 1) : Tail(queue)[i] = queue[i + 1]
      /\ Head(queue) = queue[1] /\ queue[1] \in Tasks
      /\ DOMAIN queue = 1..Len(queue) /\ DOMAIN Tail(queue) = 1..(Len(queue) - 1)
  BY DEF CallersTyped
<1>2. \A i \in DOMAIN queue : queue[i] \in Tasks /\ cmd[queue[i]] \in Nat
  <2>1. \A i \in DOMAIN queue : queue[i] \in Tasks
    BY DEF CallersTyped
  <2>2. \A i \in DOMAIN queue : cmd[queue[i]] \in Numbers
    BY <2>1 DEF LockInv
  <2> QED
    BY <2>1, <2>2, ProtocolAssumption
<1>3. \A i \in DOMAIN queue : i > 1 => cmd[queue[1]] < cmd[queue[i]]
  BY <1>1 DEF LockInv
<1>4. \A i \in DOMAIN queue : i > 1 => queue[i] # queue[1]
  BY <1>1, <1>2, <1>3
<1> QED
  BY <1>1, <1>4

LEMMA LeaveLocks ==
  ASSUME CallersTyped, LockInv, NEW t \in Tasks, NEW k, Holds(t, k), Leave(t),
         sent' \in Seq(Commands)
  PROVE  CallersTyped' /\ LockInv' /\ \A u \in Tasks : pc'[u] # "reading"
<1>1. /\ pc' \in [Tasks -> Places] /\ pc'[t] \in {"idle", "ready"}
      /\ \A u \in Tasks : u # t => pc'[u] = pc[u]
  BY DEF CallersTyped, Leave, Places
<1>2. /\ on' \in [Tasks -> Conns \cup {None}] /\ cmd' \in [Tasks -> Numbers \cup {None}]
      /\ \A u \in Tasks : u # t => on'[u] = on[u] /\ cmd'[u] = cmd[u]
  BY DEF CallersTyped, Leave
<1>3. Len(sent) \in Nat /\ Len(sent') \in Nat /\ Len(sent) <= Len(sent')
  BY DEF CallersTyped, Holds
<1>4. \A u \in Tasks : pc'[u] # "reading"
  BY <1>1, NobodyElseReads
<1>5. CASE queue = <<>>
  <2>1. queue' = <<>>
    BY <1>5 DEF Leave, Released
  <2>2. \A u \in Tasks : pc'[u] \notin {"queued", "reading"}
    BY <1>1, <1>5 DEF LockInv
  <2> QED
    BY <1>1, <1>2, <1>4, <2>1, <2>2 DEF CallersTyped, LockInv
<1>6. CASE queue # <<>>
  <2>1. queue' = Tail(queue) /\ Head(queue) = t
    BY <1>6 DEF Leave, Released, Holds
  <2>2. queue' \in Seq(Tasks) /\ \A i \in DOMAIN queue' : i + 1 \in DOMAIN queue /\ queue'[i] = queue[i + 1] /\ queue'[i] # t
    BY <1>6, <2>1, QueueHead
  <2>3. \A u \in Tasks : u # t /\ pc[u] \in {"queued", "reading"} => \E i \in DOMAIN queue' : queue'[i] = u
    BY <1>6, <2>1, <2>2, QueueHead DEF LockInv
  <2>4. \A u \in Tasks : (\E i \in DOMAIN queue' : queue'[i] = u) => u # t /\ pc[u] \in {"queued", "reading"}
    BY <2>2 DEF LockInv
  <2>5. \A u \in Tasks : pc'[u] \in {"queued", "reading"} <=> \E i \in DOMAIN queue' : queue'[i] = u
    BY <1>1, <2>3, <2>4
  <2>6. \A u \in Tasks : pc'[u] \in {"queued", "reading"} => cmd'[u] \in Numbers /\ cmd'[u] <= Len(sent')
    <3> SUFFICES ASSUME NEW u \in Tasks, pc'[u] \in {"queued", "reading"}
                 PROVE  cmd'[u] \in Numbers /\ cmd'[u] <= Len(sent')
      OBVIOUS
    <3>1. u # t /\ cmd'[u] = cmd[u] /\ cmd[u] \in Numbers /\ cmd[u] <= Len(sent)
      BY <1>1, <1>2 DEF LockInv
    <3>2. cmd[u] \in Nat
      BY <3>1, ProtocolAssumption
    <3> QED
      BY <1>3, <3>1, <3>2
  <2>7. \A i, j \in DOMAIN queue' : i < j => cmd'[queue'[i]] < cmd'[queue'[j]]
    <3> SUFFICES ASSUME NEW i \in DOMAIN queue', NEW j \in DOMAIN queue', i < j
                 PROVE  cmd'[queue'[i]] < cmd'[queue'[j]]
      OBVIOUS
    <3>1. /\ i + 1 \in DOMAIN queue /\ j + 1 \in DOMAIN queue /\ i + 1 < j + 1
          /\ queue'[i] = queue[i + 1] /\ queue'[j] = queue[j + 1]
          /\ queue'[i] \in Tasks /\ queue'[j] \in Tasks /\ queue'[i] # t /\ queue'[j] # t
      BY <2>2
    <3>2. cmd[queue[i + 1]] < cmd[queue[j + 1]]
      BY <3>1 DEF LockInv
    <3> QED
      BY <1>2, <3>1, <3>2
  <2> QED
    BY <1>1, <1>2, <1>4, <2>2, <2>5, <2>6, <2>7 DEF CallersTyped, LockInv
<1> QED
  BY <1>5, <1>6

LEMMA WaitLocks ==
  ASSUME CallersTyped, LockInv, NEW t \in Tasks, NEW k, NEW c \in Conns, Holds(t, k), Wait(t, k, c),
         sent' \in Seq(Commands)
  PROVE  CallersTyped' /\ LockInv' /\ \A u \in Tasks : u # t => pc'[u] # "reading"
<1>1. /\ pc' \in [Tasks -> Places] /\ pc'[t] = "reading"
      /\ \A u \in Tasks : u # t => pc'[u] = pc[u]
  BY DEF CallersTyped, Wait, Places, Waiting
<1>2. /\ on' \in [Tasks -> Conns \cup {None}] /\ cmd' \in [Tasks -> Numbers \cup {None}]
      /\ on'[t] = c /\ cmd'[t] = k
      /\ \A u \in Tasks : u # t => on'[u] = on[u] /\ cmd'[u] = cmd[u]
  BY DEF CallersTyped, Wait, Holds
<1>3. Len(sent) \in Nat /\ Len(sent') \in Nat /\ Len(sent) <= Len(sent')
  BY DEF CallersTyped, Holds
<1>4. \A u \in Tasks : u # t => pc'[u] # "reading"
  BY <1>1, NobodyElseReads
<1>5. k \in Numbers /\ k \in Nat
  BY ProtocolAssumption DEF Holds
<1>6. CASE queue = <<>>
  <2>1. t \notin Range(queue)
    BY <1>6 DEF Range
  <2>2. queue' \in Seq(Tasks) /\ DOMAIN queue' = {1} /\ queue'[1] = t /\ Head(queue') = t
    BY <1>6, <2>1 DEF Wait
  <2>3. \A u \in Tasks : u # t => pc'[u] \notin {"queued", "reading"}
    BY <1>1, <1>6 DEF LockInv
  <2>4. k <= Len(sent')
    BY <1>6 DEF Holds
  <2> QED
    BY <1>1, <1>2, <1>4, <1>5, <2>2, <2>3, <2>4 DEF CallersTyped, LockInv
<1>7. CASE queue # <<>>
  <2>1. Head(queue) = t /\ cmd[t] = k /\ pc[t] \in {"queued", "reading"} /\ sent' = sent
    BY <1>7 DEF Holds
  <2>2. t \in Range(queue)
    BY <1>7, <2>1, QueueHead DEF Range
  <2>3. queue' = queue
    BY <2>2 DEF Wait
  <2>4. \A u \in Tasks : cmd'[u] = cmd[u]
    BY <1>2, <2>1
  <2>5. \A u \in Tasks : pc'[u] \in {"queued", "reading"} <=> pc[u] \in {"queued", "reading"}
    BY <1>1, <2>1
  <2>6. \A i \in DOMAIN queue : queue[i] \in Tasks
    BY DEF CallersTyped
  <2>7. \A u \in Tasks : pc'[u] \in {"queued", "reading"} <=> \E i \in DOMAIN queue' : queue'[i] = u
    BY <2>3, <2>5 DEF LockInv
  <2>8. \A u \in Tasks : pc'[u] \in {"queued", "reading"} => cmd'[u] \in Numbers /\ cmd'[u] <= Len(sent')
    BY <2>1, <2>4, <2>5 DEF LockInv
  <2>9. \A u \in Tasks : pc'[u] = "reading" => Head(queue') = u /\ on'[u] \in Conns
    BY <1>2, <1>4, <2>1, <2>3
  <2>10. \A i, j \in DOMAIN queue' : i < j => cmd'[queue'[i]] < cmd'[queue'[j]]
    BY <2>3, <2>4, <2>6 DEF LockInv
  <2> QED
    BY <1>1, <1>2, <1>4, <2>3, <2>7, <2>8, <2>9, <2>10 DEF CallersTyped, LockInv
<1> QED
  BY <1>6, <1>7

\* A task that finds the lock taken waits behind the others.
LEMMA EnqueueLocks ==
  ASSUME CallersTyped, LockInv, NEW t \in Tasks, pc[t] \in {"idle", "ready"}, queue # <<>>,
         Len(sent) + 1 \in Numbers, sent' \in Seq(Commands), Len(sent') = Len(sent) + 1,
         queue' = Append(queue, t), pc' = [pc EXCEPT ![t] = "queued"],
         cmd' = [cmd EXCEPT ![t] = Len(sent) + 1], on' = on
  PROVE  CallersTyped' /\ LockInv'
<1>1. /\ pc' \in [Tasks -> Places] /\ pc'[t] = "queued"
      /\ \A u \in Tasks : u # t => pc'[u] = pc[u]
  BY DEF CallersTyped, Places
<1>2. /\ cmd' \in [Tasks -> Numbers \cup {None}] /\ cmd'[t] = Len(sent) + 1
      /\ \A u \in Tasks : u # t => cmd'[u] = cmd[u]
  BY DEF CallersTyped
<1>3. /\ queue' \in Seq(Tasks) /\ Len(queue) \in Nat \ {0}
      /\ DOMAIN queue = 1..Len(queue) /\ DOMAIN queue' = 1..(Len(queue) + 1)
      /\ \A i \in DOMAIN queue : queue'[i] = queue[i]
      /\ queue'[Len(queue) + 1] = t /\ Head(queue') = Head(queue)
  BY DEF CallersTyped
<1>4. \A i \in DOMAIN queue : queue[i] \in Tasks /\ queue[i] # t
  <2>1. \A i \in DOMAIN queue : queue[i] \in Tasks
    BY DEF CallersTyped
  <2> QED
    BY <2>1 DEF LockInv
<1>5. Len(sent) \in Nat
  BY DEF CallersTyped
<1>6. \A u \in Tasks : pc[u] \in {"queued", "reading"} => cmd[u] \in Nat /\ cmd[u] <= Len(sent)
  BY ProtocolAssumption DEF LockInv
<1>7. \A u \in Tasks : pc'[u] \in {"queued", "reading"} <=> \E i \in DOMAIN queue' : queue'[i] = u
  <2>1. \A u \in Tasks : u # t => ((\E i \in DOMAIN queue' : queue'[i] = u) <=> \E i \in DOMAIN queue : queue[i] = u)
    BY <1>3
  <2>2. \E i \in DOMAIN queue' : queue'[i] = t
    <3>1. Len(queue) + 1 \in DOMAIN queue'
      BY <1>3
    <3> QED
      BY <1>3, <3>1
  <2> QED
    BY <1>1, <2>1, <2>2 DEF LockInv
<1>8. \A u \in Tasks : pc'[u] \in {"queued", "reading"} => cmd'[u] \in Numbers /\ cmd'[u] <= Len(sent')
  <2> SUFFICES ASSUME NEW u \in Tasks, pc'[u] \in {"queued", "reading"}
               PROVE  cmd'[u] \in Numbers /\ cmd'[u] <= Len(sent')
    OBVIOUS
  <2>1. CASE u = t
    BY <1>2, <1>5, <2>1
  <2>2. CASE u # t
    <3>1. pc[u] \in {"queued", "reading"} /\ cmd'[u] = cmd[u]
      BY <1>1, <1>2, <2>2
    <3>2. cmd[u] \in Numbers
      BY <3>1 DEF LockInv
    <3> QED
      BY <1>5, <1>6, <3>1, <3>2
  <2> QED
    BY <2>1, <2>2
<1>9. \A u \in Tasks : pc'[u] = "reading" => Head(queue') = u /\ on'[u] \in Conns
  BY <1>1, <1>3 DEF LockInv
<1>10. \A i, j \in DOMAIN queue' : i < j => cmd'[queue'[i]] < cmd'[queue'[j]]
  <2> SUFFICES ASSUME NEW i \in DOMAIN queue', NEW j \in DOMAIN queue', i < j
               PROVE  cmd'[queue'[i]] < cmd'[queue'[j]]
    OBVIOUS
  <2>1. i \in DOMAIN queue /\ cmd'[queue'[i]] = cmd[queue[i]] /\ pc[queue[i]] \in {"queued", "reading"}
    BY <1>2, <1>3, <1>4 DEF LockInv
  <2>2. CASE j \in DOMAIN queue
    <3>1. cmd'[queue'[j]] = cmd[queue[j]]
      BY <1>2, <1>3, <1>4, <2>2
    <3> QED
      BY <2>1, <2>2, <3>1 DEF LockInv
  <2>3. CASE j = Len(queue) + 1
    <3>1. cmd[queue[i]] \in Nat /\ cmd[queue[i]] <= Len(sent)
      BY <1>4, <1>6, <2>1
    <3>2. cmd'[queue'[j]] = Len(sent) + 1
      BY <1>2, <1>3, <2>3
    <3> QED
      BY <1>5, <2>1, <3>1, <3>2
  <2> QED
    BY <1>3, <2>2, <2>3
<1> QED
  BY <1>1, <1>2, <1>3, <1>7, <1>8, <1>9, <1>10 DEF CallersTyped, LockInv

-----------------------------------------------------------------------------
(* What the variables are *)

\* The gateway has only been asked what has been sent.
AskedInv == \A c \in Conns : \A i \in DOMAIN conn[c].asked : conn[c].asked[i] <= Len(sent)

ConnsTyped == conn \in [Conns -> Connections] /\ AskedInv

FieldsTyped == stream \in Conns \cup {None} /\ connected \in BOOLEAN /\ rxbuf \in Seq(Bytes)

HistoryTyped ==
  /\ sentOn \in [Numbers -> Conns \cup {None}]
  /\ answer \in [Numbers -> Numbers \cup {None}]
  /\ givenUp \subseteq Numbers

BufferBounded == \A t \in Tasks : pc[t] = "reading" => Len(rxbuf) <= Cap

TcpInv ==
  /\ FieldsTyped /\ CallersTyped /\ ConnsTyped /\ HistoryTyped /\ BufferBounded /\ LockInv
  /\ budget \in 0..MaxTrouble

LEMMA TcpInvTypes == TcpInv => TcpTypeOK
BY DEF TcpInv, TcpTypeOK, FieldsTyped, CallersTyped, ConnsTyped, HistoryTyped, BufferBounded, Places

LEMMA QuietTyped ==
  ASSUME NEW s \in {"unused", "up", "fin", "rst", "lost", "closed"}
  PROVE  /\ Quiet(s) \in Connections /\ Quiet(s).asked = <<>> /\ Quiet(s).coming = <<>>
         /\ Quiet(s).inbox = <<>> /\ Quiet(s).status = s
BY DEF Quiet, Connections

\* One connection is changed; it has not been asked what has not been sent.
LEMMA ConnSet ==
  ASSUME ConnsTyped, NEW c \in Conns, NEW x \in Connections, conn' = [conn EXCEPT ![c] = x],
         Len(sent) \in Nat, Len(sent') \in Nat, Len(sent) <= Len(sent'),
         \A i \in DOMAIN x.asked : x.asked[i] <= Len(sent')
  PROVE  ConnsTyped'
<1>1. conn' \in [Conns -> Connections] /\ conn'[c] = x /\ \A d \in Conns : d # c => conn'[d] = conn[d]
  BY DEF ConnsTyped
<1>2. ASSUME NEW d \in Conns, NEW i \in DOMAIN conn'[d].asked
      PROVE  conn'[d].asked[i] <= Len(sent')
  <2>1. CASE d = c
    BY <1>1, <1>2, <2>1
  <2>2. CASE d # c
    <3>1. conn'[d] = conn[d]
      BY <1>1, <2>2
    <3>2. i \in DOMAIN conn[d].asked /\ conn[d].asked[i] <= Len(sent)
      BY <1>2, <3>1 DEF ConnsTyped, AskedInv
    <3>3. conn[d].asked[i] \in Nat
      <4>1. conn[d].asked \in Seq(Numbers)
        BY DEF ConnsTyped, Connections
      <4>2. conn[d].asked[i] \in Numbers
        BY <3>2, <4>1
      <4> QED
        BY <4>2, ProtocolAssumption
    <3> QED
      BY <3>1, <3>2, <3>3
  <2> QED
    BY <2>1, <2>2
<1> QED
  BY <1>1, <1>2 DEF ConnsTyped, AskedInv

LEMMA ConnSame ==
  ASSUME ConnsTyped, conn' = conn, Len(sent) \in Nat, Len(sent') \in Nat, Len(sent) <= Len(sent')
  PROVE  ConnsTyped'
<1> SUFFICES ASSUME NEW d \in Conns, NEW i \in DOMAIN conn[d].asked
             PROVE  conn[d].asked[i] <= Len(sent')
  BY DEF ConnsTyped, AskedInv
<1>1. conn[d].asked \in Seq(Numbers)
  BY DEF ConnsTyped, Connections
<1>2. conn[d].asked[i] \in Numbers /\ conn[d].asked[i] <= Len(sent)
  BY <1>1 DEF ConnsTyped, AskedInv
<1>3. conn[d].asked[i] \in Nat
  BY <1>2, ProtocolAssumption
<1> QED
  BY <1>2, <1>3

LEMMA ConnClosed ==
  ASSUME ConnsTyped, stream \in Conns \cup {None}, conn' = Closed(stream),
         Len(sent) \in Nat, Len(sent') \in Nat, Len(sent) <= Len(sent')
  PROVE  ConnsTyped'
<1>1. CASE Open(stream)
  <2>1. stream \in Conns /\ conn' = [conn EXCEPT ![stream] = Quiet("closed")]
    BY <1>1 DEF Closed, Open
  <2>2. Quiet("closed") \in Connections /\ Quiet("closed").asked = <<>>
    BY QuietTyped
  <2>3. DOMAIN Quiet("closed").asked = {}
    BY <2>2
  <2> QED
    BY <2>1, <2>2, <2>3, ConnSet
<1>2. CASE ~Open(stream)
  BY <1>2, ConnSame DEF Closed
<1> QED
  BY <1>1, <1>2

LEMMA FailTyped ==
  ASSUME TcpInv, NEW t \in Tasks, NEW k, Holds(t, k), Fail(t, k), sent' \in Seq(Commands)
  PROVE  /\ CallersTyped' /\ LockInv' /\ \A u \in Tasks : pc'[u] # "reading"
         /\ answer' = answer /\ givenUp' \subseteq Numbers
BY LeaveLocks DEF TcpInv, Fail, Holds, HistoryTyped

\* Whatever the search of the buffer ends with.
LEMMA SearchTyped ==
  ASSUME TcpInv, NEW t \in Tasks, NEW k, NEW c \in Conns, NEW b \in Seq(Bytes), Holds(t, k),
         Search(t, k, c, b), sent' \in Seq(Commands)
  PROVE  /\ CallersTyped' /\ LockInv' /\ BufferBounded' /\ rxbuf' \in Seq(Bytes)
         /\ answer' \in [Numbers -> Numbers \cup {None}] /\ givenUp' \subseteq Numbers
<1>1. CASE Found(b) # {}
  <2>1. rxbuf' = Rest(b) /\ Leave(t) /\ answer' = [answer EXCEPT ![k] = Extracted(b).of]
        /\ givenUp' = givenUp
    BY <1>1 DEF Search, Return
  <2>2. CallersTyped' /\ LockInv' /\ \A u \in Tasks : pc'[u] # "reading"
    BY <2>1, LeaveLocks DEF TcpInv
  <2>3. Extracted(b).of \in Numbers /\ Rest(b) \in Seq(Bytes)
    BY <1>1, FoundFrame DEF Frames
  <2> QED
    BY <2>1, <2>2, <2>3 DEF TcpInv, HistoryTyped, BufferBounded
<1>2. CASE ~(Found(b) # {})
  <2>1. rxbuf' = Trim(b) /\ (Wait(t, k, c) \/ Fail(t, k))
    BY <1>2 DEF Search
  <2>2. rxbuf' \in Seq(Bytes) /\ Len(rxbuf') <= Cap
    BY <2>1, Trimmed
  <2>3. CASE Fail(t, k)
    BY <2>2, <2>3, FailTyped DEF TcpInv, HistoryTyped, BufferBounded
  <2>4. CASE Wait(t, k, c)
    <3>1. CallersTyped' /\ LockInv'
      BY <2>4, WaitLocks DEF TcpInv
    <3> QED
      BY <2>2, <2>4, <3>1 DEF Wait, TcpInv, HistoryTyped, BufferBounded
  <2> QED
    BY <2>1, <2>3, <2>4
<1> QED
  BY <1>1, <1>2

\* How far the history of commands is, before and after.
LEMMA SentGrows ==
  ASSUME TcpInv, NEW t \in Tasks, NEW k, Holds(t, k), sent' \in Seq(Commands)
  PROVE  /\ Len(sent) \in Nat /\ Len(sent') \in Nat /\ Len(sent) <= Len(sent')
         /\ k \in Numbers /\ k \in Nat /\ k <= Len(sent')
<1>1. k \in Numbers /\ k \in Nat /\ Len(sent) \in Nat /\ Len(sent') \in Nat
  BY ProtocolAssumption DEF Holds, TcpInv, CallersTyped
<1>2. CASE Len(sent') = k /\ k = Len(sent) + 1
  BY <1>1, <1>2
<1>3. CASE sent' = sent /\ pc[t] \in {"queued", "reading"} /\ cmd[t] = k
  BY <1>1, <1>3 DEF TcpInv, LockInv
<1> QED
  BY <1>1, <1>2, <1>3 DEF Holds

LEMMA ConnRecord ==
  ASSUME ConnsTyped, NEW c \in Conns
  PROVE  /\ conn[c] \in Connections
         /\ conn[c].status \in {"unused", "up", "fin", "rst", "lost", "closed"}
         /\ conn[c].asked \in Seq(Numbers) /\ conn[c].coming \in Seq(Bytes)
         /\ conn[c].inbox \in Seq(Bytes)
         /\ \A i \in DOMAIN conn[c].asked : conn[c].asked[i] <= Len(sent)
BY DEF ConnsTyped, AskedInv, Connections

\* What becomes of the connection a command is written to.
Reached(k) ==
  LET s == conn[stream]
      inbox == IF Found(rxbuf) # {} THEN s.inbox ELSE <<>>
  IN [status |-> IF s.status = "up" THEN "up" ELSE "rst",
      asked |-> IF s.status = "up" THEN Append(s.asked, k) ELSE s.asked,
      coming |-> s.coming, inbox |-> inbox]

\* The bytes the search for its answer begins with.
Before == IF Found(rxbuf) # {} THEN rxbuf ELSE Trim(rxbuf) \o conn[stream].inbox

LEMMA WrittenIs ==
  ASSUME TcpInv, NEW t \in Tasks, NEW k, Written(t, k)
  PROVE  /\ stream \in Conns /\ conn[stream].status \in {"up", "fin"}
         /\ sentOn' = [sentOn EXCEPT ![k] = stream]
         /\ Before \in Seq(Bytes) /\ Search(t, k, stream, Before)
         /\ conn' = [conn EXCEPT ![stream] = Reached(k)]
         /\ UNCHANGED <<stream, connected>>
<1>1. stream \in Conns /\ conn[stream].status \in {"up", "fin"}
  BY DEF Written, TcpInv, FieldsTyped
<1>2. Before \in Seq(Bytes)
  <2>1. rxbuf \in Seq(Bytes) /\ Trim(rxbuf) \in Seq(Bytes) /\ conn[stream].inbox \in Seq(Bytes)
    BY <1>1, ConnRecord, Trimmed DEF TcpInv, FieldsTyped
  <2> QED
    BY <2>1 DEF Before
<1>3. Search(t, k, stream, Before)
  BY DEF Written, Before
<1>4. conn' = [conn EXCEPT ![stream] = Reached(k)]
  <2>1. conn[stream] \in Connections
    BY <1>1, ConnRecord DEF TcpInv
  <2>2. conn' = [conn EXCEPT ![stream] =
                   WrittenTo(conn[stream], k, IF Found(rxbuf) # {} THEN conn[stream].inbox ELSE <<>>)]
    BY DEF Written
  <2>3. WrittenTo(conn[stream], k, IF Found(rxbuf) # {} THEN conn[stream].inbox ELSE <<>>) = Reached(k)
    BY <1>1, <2>1 DEF Reached, Connections, WrittenTo
  <2> QED
    BY <2>2, <2>3
<1> QED
  BY <1>1, <1>2, <1>3, <1>4 DEF Written

LEMMA TransmitTyped ==
  ASSUME TcpInv, NEW t \in Tasks, NEW k, Holds(t, k), Transmit(t, k), sent' \in Seq(Commands),
         budget' = budget
  PROVE  TcpInv'
<1>0. /\ Len(sent) \in Nat /\ Len(sent') \in Nat /\ Len(sent) <= Len(sent')
      /\ k \in Numbers /\ k \in Nat /\ k <= Len(sent')
  BY SentGrows
<1>1. CASE NoWriter(t, k)
  <2>1. Fail(t, k) /\ UNCHANGED <<stream, connected, rxbuf, conn, sentOn>>
    BY <1>1 DEF NoWriter, fields
  <2>2. CallersTyped' /\ LockInv' /\ BufferBounded' /\ answer' = answer /\ givenUp' \subseteq Numbers
    BY <2>1, FailTyped DEF BufferBounded
  <2>3. ConnsTyped'
    BY <1>0, <2>1, ConnSame DEF TcpInv
  <2> QED
    BY <2>1, <2>2, <2>3 DEF TcpInv, FieldsTyped, HistoryTyped
<1>2. CASE Broken(t, k)
  <2>1. /\ Fail(t, k) /\ sentOn' = sentOn /\ conn' = Closed(stream)
        /\ connected' = FALSE /\ rxbuf' = <<>> /\ stream' = None
    BY <1>2 DEF Broken, InvalidateSocket
  <2>2. CallersTyped' /\ LockInv' /\ BufferBounded' /\ answer' = answer /\ givenUp' \subseteq Numbers
    BY <2>1, FailTyped DEF BufferBounded
  <2>3. ConnsTyped'
    BY <1>0, <2>1, ConnClosed DEF TcpInv, FieldsTyped
  <2>4. <<>> \in Seq(Bytes)
    OBVIOUS
  <2>5. FieldsTyped'
    BY <2>1, <2>4 DEF FieldsTyped
  <2> QED
    BY <2>1, <2>2, <2>3, <2>5 DEF TcpInv, HistoryTyped
<1>3. CASE Written(t, k)
  <2>1. /\ stream \in Conns /\ conn[stream].status \in {"up", "fin"}
        /\ sentOn' = [sentOn EXCEPT ![k] = stream]
        /\ Before \in Seq(Bytes) /\ Search(t, k, stream, Before)
        /\ conn' = [conn EXCEPT ![stream] = Reached(k)]
        /\ UNCHANGED <<stream, connected>>
    BY <1>3, WrittenIs
  <2>2. /\ CallersTyped' /\ LockInv' /\ BufferBounded' /\ rxbuf' \in Seq(Bytes)
        /\ answer' \in [Numbers -> Numbers \cup {None}] /\ givenUp' \subseteq Numbers
    BY <2>1, SearchTyped
  <2>3. Reached(k) \in Connections /\ \A i \in DOMAIN Reached(k).asked : Reached(k).asked[i] <= Len(sent')
    <3> DEFINE s == conn[stream]
    <3>1. /\ s.asked \in Seq(Numbers) /\ s.coming \in Seq(Bytes) /\ s.inbox \in Seq(Bytes)
          /\ \A i \in DOMAIN s.asked : s.asked[i] <= Len(sent)
      BY <2>1, ConnRecord DEF TcpInv
    <3> HIDE DEF s
    <3>2. \A i \in DOMAIN s.asked : s.asked[i] \in Nat
      <4>1. \A i \in DOMAIN s.asked : s.asked[i] \in Numbers
        BY <3>1
      <4> QED
        BY <4>1, ProtocolAssumption
    <3> DEFINE q == Append(s.asked, k)
    <3>3. /\ q \in Seq(Numbers) /\ DOMAIN q = DOMAIN s.asked \cup {Len(s.asked) + 1}
          /\ q[Len(s.asked) + 1] = k /\ \A i \in DOMAIN s.asked : q[i] = s.asked[i]
      BY <1>0, <3>1
    <3> HIDE DEF q
    <3>4. \A i \in DOMAIN q : q[i] <= Len(sent')
      BY <1>0, <3>1, <3>2, <3>3
    <3>5. \A i \in DOMAIN s.asked : s.asked[i] <= Len(sent')
      BY <1>0, <3>1, <3>2
    <3>6. /\ Reached(k).asked \in {q, s.asked} /\ Reached(k).coming = s.coming
          /\ Reached(k).inbox \in {s.inbox, <<>>} /\ Reached(k).status \in {"up", "rst"}
          /\ Reached(k) = [status |-> Reached(k).status, asked |-> Reached(k).asked,
                         coming |-> Reached(k).coming, inbox |-> Reached(k).inbox]
      BY DEF Reached, s, q
    <3> HIDE DEF Reached
    <3>7. Reached(k) \in Connections
      <4> DEFINE a == Reached(k).asked
                 o == Reached(k).coming
                 i == Reached(k).inbox
                 u == Reached(k).status
      <4>1. a \in Seq(Numbers) /\ o \in Seq(Bytes) /\ i \in Seq(Bytes) /\ u \in {"up", "rst"}
        <5>1. <<>> \in Seq(Bytes)
          OBVIOUS
        <5> QED
          BY <3>1, <3>3, <3>6, <5>1
      <4>2. Reached(k) = [status |-> u, asked |-> a, coming |-> o, inbox |-> i]
        BY <3>6
      <4> HIDE DEF a, o, i, u
      <4> QED
        BY <4>1, <4>2 DEF Connections
    <3> QED
      BY <3>4, <3>5, <3>6, <3>7
  <2>4. ConnsTyped'
    BY <1>0, <2>1, <2>3, ConnSet DEF TcpInv
  <2> QED
    BY <2>1, <2>2, <2>4 DEF TcpInv, FieldsTyped, HistoryTyped
<1> QED
  BY <1>1, <1>2, <1>3 DEF Transmit

\* A task that is not in send() goes on to another await outside it.
LEMMA CallersMove ==
  ASSUME CallersTyped, LockInv, NEW t \in Tasks, NEW p \in Places \ {"queued", "reading"},
         pc[t] \notin {"queued", "reading"}, pc' = [pc EXCEPT ![t] = p],
         NEW c \in Conns \cup {None}, on' \in {on, [on EXCEPT ![t] = c]},
         UNCHANGED <<queue, cmd, sent>>
  PROVE  /\ CallersTyped' /\ LockInv' /\ \A u \in Tasks : pc'[u] = "reading" => pc[u] = "reading"
         /\ \A u \in Tasks : u # t => pc'[u] = pc[u] /\ on'[u] = on[u]
<1>1. /\ pc' \in [Tasks -> Places] /\ pc'[t] \notin {"queued", "reading"}
      /\ \A u \in Tasks : u # t => pc'[u] = pc[u]
  BY DEF CallersTyped
<1>2. on' \in [Tasks -> Conns \cup {None}] /\ \A u \in Tasks : u # t => on'[u] = on[u]
  BY DEF CallersTyped
<1>3. \A u \in Tasks : /\ pc'[u] \in {"queued", "reading"} <=> pc[u] \in {"queued", "reading"}
                       /\ pc'[u] = "reading" <=> pc[u] = "reading"
  BY <1>1
<1>4. CallersTyped'
  BY <1>1, <1>2 DEF CallersTyped
<1>5. LockInv'
  BY <1>1, <1>2, <1>3 DEF LockInv
<1> QED
  BY <1>1, <1>2, <1>3, <1>4, <1>5

LEMMA SentLength ==
  ASSUME TcpInv, sent' = sent
  PROVE  Len(sent) \in Nat /\ Len(sent') \in Nat /\ Len(sent) <= Len(sent')
BY DEF TcpInv, CallersTyped

LEMMA StartConnectTyped ==
  ASSUME TcpInv, NEW t \in Tasks, pc[t] \in {"idle", "backoff"}, StartConnect(t)
  PROVE  TcpInv'
<1>1. /\ connected' = FALSE /\ pc' = [pc EXCEPT ![t] = "opening"]
      /\ UNCHANGED <<stream, rxbuf, queue, on, cmd, sent, conn, sentOn, answer, givenUp, budget>>
  BY DEF StartConnect, history
<1>2. CallersTyped' /\ LockInv' /\ BufferBounded'
  <2>1. CallersTyped' /\ LockInv' /\ \A u \in Tasks : pc'[u] = "reading" => pc[u] = "reading"
    BY <1>1, CallersMove DEF TcpInv, Places
  <2> QED
    BY <1>1, <2>1 DEF TcpInv, BufferBounded
<1>3. ConnsTyped'
  BY <1>1, ConnSame, SentLength DEF TcpInv
<1> QED
  BY <1>1, <1>2, <1>3 DEF TcpInv, FieldsTyped, HistoryTyped

\* A task goes on and touches nothing else.
LEMMA MoveTyped ==
  ASSUME TcpInv, NEW t \in Tasks, NEW p \in Places \ {"queued", "reading"},
         pc[t] \notin {"queued", "reading"}, pc' = [pc EXCEPT ![t] = p],
         on' \in {on, [on EXCEPT ![t] = None]},
         UNCHANGED <<fields, queue, cmd, sent, conn, history, budget>>
  PROVE  TcpInv'
<1>1. CallersTyped' /\ LockInv' /\ BufferBounded'
  <2>1. CallersTyped' /\ LockInv' /\ \A u \in Tasks : pc'[u] = "reading" => pc[u] = "reading"
    BY CallersMove DEF TcpInv
  <2> QED
    BY <2>1 DEF TcpInv, BufferBounded, fields
<1>2. ConnsTyped'
  BY ConnSame, SentLength DEF TcpInv
<1> QED
  BY <1>1, <1>2 DEF TcpInv, FieldsTyped, HistoryTyped, fields, history

LEMMA OpenedTyped ==
  ASSUME TcpInv, NEW t \in Tasks, Opened(t)
  PROVE  TcpInv'
<1>1. PICK c \in Conns :
        /\ stream' = c /\ conn' = [Closed(stream) EXCEPT ![c] = Quiet("up")]
        /\ on' = [on EXCEPT ![t] = c]
  BY DEF Opened
<1>2. /\ connected' = TRUE /\ rxbuf' = <<>> /\ pc[t] = "opening" /\ pc' = [pc EXCEPT ![t] = "draining"]
      /\ UNCHANGED <<queue, cmd, sent, sentOn, answer, givenUp, budget>>
  BY DEF Opened, history
<1>3. CallersTyped' /\ LockInv'
  BY <1>1, <1>2, CallersMove DEF TcpInv, Places, Waiting
<1>4. rxbuf' \in Seq(Bytes) /\ Len(rxbuf') = 0 /\ Cap \in Nat
  BY <1>2, TransportAssumption
<1>5. ConnsTyped'
  <2>1. /\ Quiet("up") \in Connections /\ Quiet("closed") \in Connections
        /\ DOMAIN Quiet("up").asked = {} /\ DOMAIN Quiet("closed").asked = {}
    <3>1. Quiet("up").asked = <<>> /\ Quiet("closed").asked = <<>>
      BY DEF Quiet
    <3> QED
      BY <3>1, QuietTyped
  <2>2. conn' \in [Conns -> Connections]
    BY <1>1, <2>1 DEF Closed, TcpInv, ConnsTyped
  <2>3. \A d \in Conns : conn'[d] \in {conn[d], Quiet("up"), Quiet("closed")}
    BY <1>1 DEF Closed, TcpInv, ConnsTyped
  <2> QED
    BY <1>2, <2>1, <2>2, <2>3 DEF TcpInv, ConnsTyped, AskedInv
<1> QED
  BY <1>1, <1>2, <1>3, <1>4, <1>5 DEF TcpInv, FieldsTyped, HistoryTyped, BufferBounded

LEMMA ConnectFailedTyped ==
  ASSUME TcpInv, NEW t \in Tasks, pc[t] \in {"opening", "draining"}, ConnectFailed(t),
         budget' \in 0..MaxTrouble
  PROVE  TcpInv'
<1>1. /\ stream' = None /\ connected' = FALSE /\ conn' = Closed(stream)
      /\ pc' = [pc EXCEPT ![t] = "idle"] /\ on' = [on EXCEPT ![t] = None]
      /\ UNCHANGED <<rxbuf, queue, cmd, sent, sentOn, answer, givenUp>>
  BY DEF ConnectFailed, history
<1>2. CallersTyped' /\ LockInv' /\ BufferBounded'
  <2>1. CallersTyped' /\ LockInv' /\ \A u \in Tasks : pc'[u] = "reading" => pc[u] = "reading"
    BY <1>1, CallersMove DEF TcpInv, Places
  <2> QED
    BY <1>1, <2>1 DEF TcpInv, BufferBounded
<1>3. ConnsTyped'
  BY <1>1, ConnClosed, SentLength DEF TcpInv, FieldsTyped
<1> QED
  BY <1>1, <1>2, <1>3 DEF TcpInv, FieldsTyped, HistoryTyped

LEMMA TroubleBounded ==
  ASSUME budget \in 0..MaxTrouble, Trouble
  PROVE  budget' \in 0..MaxTrouble
BY TransportAssumption DEF Trouble

-----------------------------------------------------------------------------
(* send() *)

LEMMA HoldsNew ==
  ASSUME TcpInv, NEW t \in Tasks, NEW kind \in Commands, pc[t] \in {"idle", "ready"}, Send(t, kind)
  PROVE  /\ Len(sent) \in Nat /\ Len(sent) + 1 \in Numbers
         /\ sent' \in Seq(Commands) /\ Len(sent') = Len(sent) + 1
         /\ queue = <<>> => Holds(t, Len(sent) + 1)
<1>1. Len(sent) + 1 \in Numbers /\ sent' = Append(sent, kind) /\ sent \in Seq(Commands)
  BY DEF Send, TcpInv, CallersTyped
<1> QED
  BY <1>1 DEF Holds

LEMMA HoldsOld ==
  ASSUME TcpInv, NEW t \in Tasks, pc[t] \in {"queued", "reading"}, Head(queue) = t, sent' = sent
  PROVE  Holds(t, cmd[t]) /\ sent' \in Seq(Commands)
<1>1. queue # <<>>
  <2> SUFFICES ASSUME queue = <<>> PROVE FALSE
    OBVIOUS
  <2>1. DOMAIN queue = {}
    OBVIOUS
  <2> QED
    BY <2>1 DEF TcpInv, LockInv
<1> QED
  BY <1>1 DEF Holds, TcpInv, LockInv, CallersTyped

LEMMA SendTyped ==
  ASSUME TcpInv, NEW t \in Tasks, NEW kind \in Commands, pc[t] \in {"idle", "ready"}, Send(t, kind)
  PROVE  TcpInv'
<1>1. /\ Len(sent) \in Nat /\ Len(sent) + 1 \in Numbers
      /\ sent' \in Seq(Commands) /\ Len(sent') = Len(sent) + 1
      /\ queue = <<>> => Holds(t, Len(sent) + 1)
  BY HoldsNew
<1>2. CASE queue = <<>>
  BY <1>1, <1>2, TransmitTyped DEF Send
<1>3. CASE queue # <<>>
  <2>1. /\ queue' = Append(queue, t) /\ pc' = [pc EXCEPT ![t] = "queued"]
        /\ cmd' = [cmd EXCEPT ![t] = Len(sent) + 1]
        /\ UNCHANGED <<on, stream, connected, rxbuf, conn, sentOn, answer, givenUp, budget>>
    BY <1>3 DEF Send, fields, history
  <2>2. CallersTyped' /\ LockInv'
    BY <1>1, <1>3, <2>1, EnqueueLocks DEF TcpInv
  <2>3. BufferBounded'
    BY <2>1 DEF TcpInv, BufferBounded, CallersTyped
  <2>4. ConnsTyped'
    BY <1>1, <2>1, ConnSame DEF TcpInv
  <2> QED
    BY <2>1, <2>2, <2>3, <2>4 DEF TcpInv, FieldsTyped, HistoryTyped
<1> QED
  BY <1>2, <1>3

LEMMA LockedTyped ==
  ASSUME TcpInv, NEW t \in Tasks, Locked(t)
  PROVE  TcpInv'
BY HoldsOld, TransmitTyped DEF Locked

LEMMA GivesUpTyped ==
  ASSUME TcpInv, NEW t \in Tasks, TimeOut(t) \/ EndOfStream(t)
  PROVE  TcpInv'
<1>1. pc[t] = "reading" /\ Fail(t, cmd[t]) /\ UNCHANGED <<sent, sentOn, budget>>
  BY DEF TimeOut, EndOfStream
<1>2. Holds(t, cmd[t]) /\ sent' \in Seq(Commands)
  BY <1>1, HoldsOld DEF TcpInv, LockInv
<1>3. CallersTyped' /\ LockInv' /\ BufferBounded' /\ answer' = answer /\ givenUp' \subseteq Numbers
  BY <1>1, <1>2, FailTyped DEF BufferBounded
<1>4. FieldsTyped' /\ ConnsTyped'
  <2>1. CASE UNCHANGED <<fields, conn>>
    BY <1>1, <2>1, ConnSame, SentLength DEF TcpInv, FieldsTyped, fields
  <2>2. CASE InvalidateSocket
    <3>1. ConnsTyped'
      BY <1>1, <2>2, ConnClosed, SentLength DEF TcpInv, FieldsTyped, InvalidateSocket
    <3>2. <<>> \in Seq(Bytes)
      OBVIOUS
    <3> QED
      BY <2>2, <3>1, <3>2 DEF FieldsTyped, InvalidateSocket
  <2> QED
    BY <2>1, <2>2 DEF TimeOut, EndOfStream
<1> QED
  BY <1>1, <1>3, <1>4 DEF TcpInv, HistoryTyped

-----------------------------------------------------------------------------
(* The network *)

Link(s, asked, coming, inbox) == [status |-> s, asked |-> asked, coming |-> coming, inbox |-> inbox]

LEMMA LinkTyped ==
  ASSUME NEW s \in {"unused", "up", "fin", "rst", "lost", "closed"}, NEW a \in Seq(Numbers),
         NEW o \in Seq(Bytes), NEW i \in Seq(Bytes)
  PROVE  /\ Link(s, a, o, i) \in Connections
         /\ Link(s, a, o, i).status = s /\ Link(s, a, o, i).asked = a
         /\ Link(s, a, o, i).coming = o /\ Link(s, a, o, i).inbox = i
BY DEF Link, Connections

LEMMA UpTyped ==
  ASSUME NEW a \in Seq(Numbers), NEW o \in Seq(Bytes), NEW i \in Seq(Bytes)
  PROVE  Link("up", a, o, i) \in Connections /\ Link("up", a, o, i).asked = a
BY DEF Link, Connections

LEMMA LinkExcept ==
  ASSUME NEW r \in Connections, NEW x
  PROVE  /\ [r EXCEPT !.coming = x] = Link(r.status, r.asked, x, r.inbox)
         /\ [r EXCEPT !.asked = x] = Link(r.status, x, r.coming, r.inbox)
         /\ [r EXCEPT !.inbox = x] = Link(r.status, r.asked, r.coming, x)
BY DEF Link, Connections

LEMMA ComingExcept ==
  ASSUME ConnsTyped, NEW c \in Conns, NEW q
  PROVE  [conn EXCEPT ![c].coming = q]
           = [conn EXCEPT ![c] = Link(conn[c].status, conn[c].asked, q, conn[c].inbox)]
<1> DEFINE r == conn[c]
<1>1. conn \in [Conns -> Connections] /\ r \in Connections
  BY DEF ConnsTyped
<1>2. [conn EXCEPT ![c].coming = q] = [conn EXCEPT ![c] = [r EXCEPT !.coming = q]]
  BY <1>1
<1> HIDE DEF r
<1>3. [r EXCEPT !.coming = q] = Link(r.status, r.asked, q, r.inbox)
  BY <1>1, LinkExcept, Zenon
<1> QED
  BY <1>2, <1>3 DEF r

LEMMA AskedExcept ==
  ASSUME ConnsTyped, NEW c \in Conns, NEW p, NEW q
  PROVE  [conn EXCEPT ![c].asked = p, ![c].coming = q]
           = [conn EXCEPT ![c] = Link(conn[c].status, p, q, conn[c].inbox)]
<1> DEFINE r == conn[c]
<1>1. conn \in [Conns -> Connections] /\ r \in Connections
  BY DEF ConnsTyped
<1>2. [conn EXCEPT ![c].asked = p, ![c].coming = q] = [conn EXCEPT ![c] = [[r EXCEPT !.asked = p] EXCEPT !.coming = q]]
  BY <1>1
<1> HIDE DEF r
<1>3. [[r EXCEPT !.asked = p] EXCEPT !.coming = q] = Link(r.status, p, q, r.inbox)
  <2>1. [r EXCEPT !.asked = p] = Link(r.status, p, r.coming, r.inbox)
    BY <1>1, LinkExcept, Zenon
  <2>2. [Link(r.status, p, r.coming, r.inbox) EXCEPT !.coming = q] = Link(r.status, p, q, r.inbox)
    BY DEF Link
  <2> QED
    BY <2>1, <2>2
<1> QED
  BY <1>2, <1>3 DEF r

LEMMA InboxExcept ==
  ASSUME NEW m \in [Conns -> Connections], NEW c \in Conns, NEW i
  PROVE  [m EXCEPT ![c].inbox = i]
           = [m EXCEPT ![c] = Link(m[c].status, m[c].asked, m[c].coming, i)]
<1>1. [m EXCEPT ![c].inbox = i] = [m EXCEPT ![c] = [m[c] EXCEPT !.inbox = i]] /\ m[c] \in Connections
  OBVIOUS
<1>2. [m[c] EXCEPT !.inbox = i] = Link(m[c].status, m[c].asked, m[c].coming, i)
  BY <1>1, LinkExcept, Zenon
<1> QED
  BY <1>1, <1>2

LEMMA SeqSplit ==
  ASSUME NEW s \in Seq(Bytes), NEW n \in DOMAIN s
  PROVE  /\ n \in 1..Len(s)
         /\ SubSeq(s, 1, n) \in Seq(Bytes) /\ SubSeq(s, n + 1, Len(s)) \in Seq(Bytes)
         /\ s = SubSeq(s, 1, n) \o SubSeq(s, n + 1, Len(s))
<1> DEFINE a == SubSeq(s, 1, n)
           b == SubSeq(s, n + 1, Len(s))
<1>1. n \in 1..Len(s) /\ Len(s) \in Nat
  OBVIOUS
<1>2. /\ a \in Seq(Bytes) /\ Len(a) = n /\ \A i \in 1..n : a[i] = s[i]
  BY <1>1
<1>3. /\ b \in Seq(Bytes) /\ Len(b) = Len(s) - n /\ \A i \in 1..(Len(s) - n) : b[i] = s[n + i]
  BY <1>1
<1> HIDE DEF a, b
<1>4. a \o b \in Seq(Bytes) /\ Len(a \o b) = Len(s)
  BY <1>1, <1>2, <1>3
<1>5. \A i \in 1..Len(s) : (a \o b)[i] = s[i]
  <2> SUFFICES ASSUME NEW i \in 1..Len(s) PROVE (a \o b)[i] = s[i]
    OBVIOUS
  <2>1. CASE i <= n
    BY <1>1, <1>2, <1>3, <2>1
  <2>2. CASE ~(i <= n)
    <3>1. (a \o b)[i] = b[i - n] /\ i - n \in 1..(Len(s) - n) /\ n + (i - n) = i
      BY <1>1, <1>2, <1>3, <2>2
    <3> QED
      BY <1>3, <3>1
  <2> QED
    BY <2>1, <2>2
<1>6. s = a \o b
  <2> DEFINE w == a \o b
  <2> HIDE DEF w
  <2>1. w \in Seq(Bytes) /\ Len(w) = Len(s) /\ \A i \in 1..Len(s) : w[i] = s[i]
    BY <1>4, <1>5 DEF w
  <2>2. s = w
    BY <2>1
  <2> QED
    BY <2>2 DEF w
<1> QED
  BY <1>1, <1>2, <1>3, <1>6 DEF a, b

LEMMA AnsweredIs ==
  ASSUME ConnsTyped, NEW c \in Conns, NEW bytes, Answered(c, bytes)
  PROVE  conn' = [conn EXCEPT ![c] = Link("up", Tail(conn[c].asked), conn[c].coming \o bytes,
                                          conn[c].inbox)]
<1>1. conn[c] \in Connections /\ conn[c].status = "up"
  BY ConnRecord DEF Answered
<1> DEFINE p == Tail(conn[c].asked)
           q == conn[c].coming \o bytes
<1> HIDE DEF p, q
<1>2. [conn EXCEPT ![c].asked = p, ![c].coming = q]
        = [conn EXCEPT ![c] = Link(conn[c].status, p, q, conn[c].inbox)]
  BY AskedExcept, Zenon
<1>3. conn' = [conn EXCEPT ![c].asked = Tail(conn[c].asked), ![c].coming = conn[c].coming \o bytes]
  BY DEF Answered, ConnsTyped
<1> QED
  BY <1>1, <1>2, <1>3 DEF p, q

LEMMA DisturbedIs ==
  ASSUME ConnsTyped, NEW c \in Conns, NEW n, Disturbed(c, n)
  PROVE  conn' = [conn EXCEPT ![c] = Link("up", conn[c].asked,
                                          conn[c].coming \o [i \in 1..n |-> Noise], conn[c].inbox)]
<1>1. conn[c] \in Connections /\ conn[c].status = "up"
  BY ConnRecord DEF Disturbed
<1>2. \A q : [conn EXCEPT ![c].coming = q]
               = [conn EXCEPT ![c] = Link("up", conn[c].asked, q, conn[c].inbox)]
  BY <1>1, ComingExcept, Zenon
<1> QED
  BY <1>2 DEF Disturbed

\* The bytes that arrive, those still on their way, and who gets the former.
LEMMA DeliverIs ==
  ASSUME ConnsTyped, NEW c \in Conns, NEW n, Deliver(c, n)
  PROVE  LET s == conn[c]
             chunk == SubSeq(s.coming, 1, n)
             left == SubSeq(s.coming, n + 1, Len(s.coming))
         IN /\ s.status = "up" /\ n \in 1..Len(s.coming)
            /\ chunk \in Seq(Bytes) /\ left \in Seq(Bytes) /\ s.coming = chunk \o left
            /\ UNCHANGED <<stream, connected, sent, sentOn, budget>>
            /\ \/ \E t \in Tasks :
                     /\ pc[t] = "reading" /\ on[t] = c
                     /\ conn' = [conn EXCEPT ![c] = Link("up", s.asked, left, s.inbox)]
                     /\ Search(t, cmd[t], c, rxbuf \o chunk)
               \/ /\ conn' = [conn EXCEPT ![c] = Link("up", s.asked, left, s.inbox)]
                  /\ \E t \in Reader(c) : pc[t] = "draining"
                  /\ UNCHANGED <<rxbuf, queue, pc, on, cmd, answer, givenUp>>
               \/ /\ conn' = [conn EXCEPT ![c] = Link("up", s.asked, left, s.inbox \o chunk)]
                  /\ Reader(c) = {}
                  /\ UNCHANGED <<rxbuf, queue, pc, on, cmd, answer, givenUp>>
<1> DEFINE s == conn[c]
           chunk == SubSeq(s.coming, 1, n)
           left == SubSeq(s.coming, n + 1, Len(s.coming))
<1>1. s \in Connections /\ s.status = "up" /\ s.coming \in Seq(Bytes) /\ n \in DOMAIN s.coming
  BY ConnRecord DEF Deliver
<1>2. n \in 1..Len(s.coming) /\ chunk \in Seq(Bytes) /\ left \in Seq(Bytes) /\ s.coming = chunk \o left
  BY <1>1, SeqSplit
<1>3. \A q : [conn EXCEPT ![c].coming = q] = [conn EXCEPT ![c] = Link("up", s.asked, q, s.inbox)]
  BY <1>1, ComingExcept, Zenon
<1> DEFINE mid == [conn EXCEPT ![c].coming = left]
<1>4. mid = [conn EXCEPT ![c] = Link("up", s.asked, left, s.inbox)]
  BY <1>3
<1>5. [mid EXCEPT ![c].inbox = mid[c].inbox \o chunk]
        = [conn EXCEPT ![c] = Link("up", s.asked, left, s.inbox \o chunk)]
  <2>1. Link("up", s.asked, left, s.inbox) \in Connections
    BY <1>1, <1>2, LinkTyped DEF Connections
  <2> DEFINE l == Link("up", s.asked, left, s.inbox)
  <2>2. l.status = "up" /\ l.asked = s.asked /\ l.coming = left /\ l.inbox = s.inbox
    BY DEF Link
  <2> HIDE DEF mid, l, left, chunk
  <2>3. mid \in [Conns -> Connections] /\ mid[c] = l
    BY <1>4, <2>1 DEF ConnsTyped, l
  <2>4. \A i : [mid EXCEPT ![c].inbox = i]
          = [mid EXCEPT ![c] = Link(mid[c].status, mid[c].asked, mid[c].coming, i)]
    BY <2>3, InboxExcept, Zenon
  <2>5. \A i : [mid EXCEPT ![c].inbox = i] = [mid EXCEPT ![c] = Link("up", s.asked, left, i)]
    BY <2>2, <2>3, <2>4
  <2>6. \A x : [mid EXCEPT ![c] = x] = [conn EXCEPT ![c] = x]
    BY <1>4 DEF ConnsTyped
  <2>7. mid[c].inbox = s.inbox
    BY <2>2, <2>3
  <2> QED
    BY <2>5, <2>6, <2>7
<1>6. \/ \E t \in Reader(c) :
            /\ pc[t] = "reading" /\ conn' = [conn EXCEPT ![c].coming = left]
            /\ Search(t, cmd[t], c, rxbuf \o chunk)
      \/ /\ \E t \in Reader(c) : pc[t] = "draining"
         /\ conn' = [conn EXCEPT ![c].coming = left]
         /\ UNCHANGED <<rxbuf, queue, pc, on, cmd, answer, givenUp>>
      \/ /\ Reader(c) = {}
         /\ conn' = [mid EXCEPT ![c].inbox = mid[c].inbox \o chunk]
         /\ UNCHANGED <<rxbuf, queue, pc, on, cmd, answer, givenUp>>
  BY DEF Deliver
<1>7. UNCHANGED <<stream, connected, sent, sentOn, budget>>
  BY DEF Deliver
<1> HIDE DEF chunk, left, mid
<1>8. CASE \E t \in Reader(c) :
            /\ pc[t] = "reading" /\ conn' = [conn EXCEPT ![c].coming = left]
            /\ Search(t, cmd[t], c, rxbuf \o chunk)
  BY <1>1, <1>2, <1>3, <1>7, <1>8 DEF Reader, chunk, left
<1>9. CASE /\ \E t \in Reader(c) : pc[t] = "draining"
           /\ conn' = [conn EXCEPT ![c].coming = left]
           /\ UNCHANGED <<rxbuf, queue, pc, on, cmd, answer, givenUp>>
  BY <1>1, <1>2, <1>3, <1>7, <1>9 DEF chunk, left
<1>10. CASE /\ Reader(c) = {}
            /\ conn' = [mid EXCEPT ![c].inbox = mid[c].inbox \o chunk]
            /\ UNCHANGED <<rxbuf, queue, pc, on, cmd, answer, givenUp>>
  BY <1>1, <1>2, <1>5, <1>7, <1>10 DEF chunk, left
<1> QED
  BY <1>6, <1>8, <1>9, <1>10

LEMMA ReplyTyped ==
  ASSUME TcpInv, NEW c \in Conns, conn[c].asked # <<>>, NEW refused \in BOOLEAN
  PROVE  \E f \in Frames : f.of = Head(conn[c].asked) /\ Reply(c, refused) = Encoded(f)
<1> DEFINE k == Head(conn[c].asked)
           f == [of |-> k, kind |-> sent[k], refused |-> refused]
<1>1. conn[c].asked \in Seq(Numbers) /\ \A i \in DOMAIN conn[c].asked : conn[c].asked[i] <= Len(sent)
  BY ConnRecord DEF TcpInv
<1>2. k \in Numbers /\ k <= Len(sent)
  BY <1>1
<1>3. k \in 1..Len(sent) /\ sent \in Seq(Commands)
  <2>1. k \in Nat \ {0}
    BY <1>2, ProtocolAssumption
  <2>2. sent \in Seq(Commands) /\ Len(sent) \in Nat
    BY DEF TcpInv, CallersTyped
  <2> HIDE DEF k
  <2> QED
    BY <1>2, <2>1, <2>2
<1>4. f \in Frames
  BY <1>2, <1>3 DEF Frames
<1>5. Reply(c, refused) = Encoded(f) /\ f.of = Head(conn[c].asked)
  BY DEF Reply
<1> QED
  BY <1>4, <1>5

\* Only the connection changes.
LEMMA LinkKeepsType ==
  ASSUME TcpInv, NEW c \in Conns, NEW x \in Connections, conn' = [conn EXCEPT ![c] = x],
         \A i \in DOMAIN x.asked : x.asked[i] <= Len(sent),
         UNCHANGED <<fields, caller, history>>, budget' \in 0..MaxTrouble
  PROVE  TcpInv'
<1>1. UNCHANGED <<stream, connected, rxbuf, queue, pc, on, cmd, sent, sentOn, answer, givenUp>>
  BY DEF fields, caller, history
<1>2. ConnsTyped'
  BY <1>1, ConnSet, SentLength DEF TcpInv
<1>3. CallersTyped' /\ LockInv' /\ BufferBounded'
  BY <1>1 DEF TcpInv, CallersTyped, LockInv, BufferBounded
<1> QED
  BY <1>1, <1>2, <1>3 DEF TcpInv, FieldsTyped, HistoryTyped

LEMMA AnsweredTyped ==
  ASSUME TcpInv, NEW c \in Conns, NEW bytes \in Seq(Bytes), Answered(c, bytes),
         budget' \in 0..MaxTrouble
  PROVE  TcpInv'
<1> DEFINE s == conn[c]
           x == Link("up", Tail(s.asked), s.coming \o bytes, s.inbox)
<1>1. /\ s.asked \in Seq(Numbers) /\ s.asked # <<>> /\ s.coming \in Seq(Bytes) /\ s.inbox \in Seq(Bytes)
      /\ \A i \in DOMAIN s.asked : s.asked[i] <= Len(sent)
  BY ConnRecord DEF TcpInv, Answered
<1>2. conn' = [conn EXCEPT ![c] = x]
  BY AnsweredIs DEF TcpInv
<1>3. /\ Tail(s.asked) \in Seq(Numbers) /\ s.coming \o bytes \in Seq(Bytes)
      /\ \A i \in DOMAIN Tail(s.asked) : i + 1 \in DOMAIN s.asked /\ Tail(s.asked)[i] = s.asked[i + 1]
  BY <1>1
<1>4. x \in Connections /\ x.asked = Tail(s.asked)
  BY <1>1, <1>3, UpTyped, Zenon
<1> HIDE DEF x
<1>5. \A i \in DOMAIN x.asked : x.asked[i] <= Len(sent)
  BY <1>1, <1>3, <1>4
<1> QED
  BY <1>2, <1>4, <1>5, LinkKeepsType DEF Answered

LEMMA DisturbedTyped ==
  ASSUME TcpInv, NEW c \in Conns, NEW n \in Bursts, Disturbed(c, n)
  PROVE  TcpInv'
<1> DEFINE s == conn[c]
           z == [i \in 1..n |-> Noise]
           x == Link("up", s.asked, s.coming \o z, s.inbox)
<1>1. /\ s.asked \in Seq(Numbers) /\ s.coming \in Seq(Bytes) /\ s.inbox \in Seq(Bytes)
      /\ \A i \in DOMAIN s.asked : s.asked[i] <= Len(sent)
  BY ConnRecord DEF TcpInv
<1>2. conn' = [conn EXCEPT ![c] = x]
  BY DisturbedIs DEF TcpInv
<1>3. z \in Seq(Bytes)
  BY NoiseTyped
<1> HIDE DEF z
<1>4. s.coming \o z \in Seq(Bytes)
  BY <1>1, <1>3
<1>5. x \in Connections /\ x.asked = s.asked
  BY <1>1, <1>4, UpTyped, Zenon
<1> HIDE DEF x
<1>6. budget' \in 0..MaxTrouble
  BY TroubleBounded DEF TcpInv, Disturbed
<1> QED
  BY <1>1, <1>2, <1>5, <1>6, LinkKeepsType DEF Disturbed

LEMMA DeliverTyped ==
  ASSUME TcpInv, NEW c \in Conns, NEW n, Deliver(c, n)
  PROVE  TcpInv'
<1> DEFINE s == conn[c]
           chunk == SubSeq(s.coming, 1, n)
           left == SubSeq(s.coming, n + 1, Len(s.coming))
           x == Link("up", s.asked, left, s.inbox)
           y == Link("up", s.asked, left, s.inbox \o chunk)
<1>1. /\ s.asked \in Seq(Numbers) /\ s.inbox \in Seq(Bytes)
      /\ \A i \in DOMAIN s.asked : s.asked[i] <= Len(sent)
  BY ConnRecord DEF TcpInv
<1>2. /\ chunk \in Seq(Bytes) /\ left \in Seq(Bytes)
      /\ UNCHANGED <<stream, connected, sent, sentOn, budget>>
      /\ \/ \E t \in Tasks :
               /\ pc[t] = "reading" /\ on[t] = c
               /\ conn' = [conn EXCEPT ![c] = x]
               /\ Search(t, cmd[t], c, rxbuf \o chunk)
         \/ conn' = [conn EXCEPT ![c] = x] /\ UNCHANGED <<rxbuf, queue, pc, on, cmd, answer, givenUp>>
         \/ conn' = [conn EXCEPT ![c] = y] /\ UNCHANGED <<rxbuf, queue, pc, on, cmd, answer, givenUp>>
  BY DeliverIs DEF TcpInv
<1>3. s.inbox \o chunk \in Seq(Bytes)
  BY <1>1, <1>2
<1>4. x \in Connections /\ x.asked = s.asked /\ y \in Connections /\ y.asked = s.asked
  BY <1>1, <1>2, <1>3, UpTyped, Zenon
<1> HIDE DEF x, y
<1>5. CASE UNCHANGED <<rxbuf, queue, pc, on, cmd, answer, givenUp>>
           /\ \E z \in {x, y} : conn' = [conn EXCEPT ![c] = z]
  <2>1. budget' \in 0..MaxTrouble /\ UNCHANGED <<fields, caller, history>>
    BY <1>2, <1>5 DEF TcpInv, fields, caller, history
  <2> QED
    BY <1>1, <1>4, <1>5, <2>1, LinkKeepsType
<1>6. ASSUME NEW t \in Tasks, pc[t] = "reading", conn' = [conn EXCEPT ![c] = x],
             Search(t, cmd[t], c, rxbuf \o chunk)
      PROVE  TcpInv'
  <2>1. Holds(t, cmd[t]) /\ sent' \in Seq(Commands)
    BY <1>2, <1>6, HoldsOld DEF TcpInv, LockInv
  <2>2. rxbuf \o chunk \in Seq(Bytes)
    BY <1>2 DEF TcpInv, FieldsTyped
  <2>3. /\ CallersTyped' /\ LockInv' /\ BufferBounded' /\ rxbuf' \in Seq(Bytes)
        /\ answer' \in [Numbers -> Numbers \cup {None}] /\ givenUp' \subseteq Numbers
    BY <1>6, <2>1, <2>2, SearchTyped
  <2>4. ConnsTyped'
    BY <1>1, <1>2, <1>4, <1>6, ConnSet, SentLength DEF TcpInv
  <2> QED
    BY <1>2, <2>3, <2>4 DEF TcpInv, FieldsTyped, HistoryTyped
<1> QED
  BY <1>2, <1>5, <1>6

LEMMA ClosesTyped ==
  ASSUME TcpInv, NEW c \in Conns, FinArrives(c) \/ ResetArrives(c)
  PROVE  TcpInv'
<1>1. budget' \in 0..MaxTrouble /\ UNCHANGED <<fields, caller, history>>
  BY TroubleBounded DEF TcpInv, FinArrives, ResetArrives
<1>2. \E x \in Connections : x.asked = <<>> /\ conn' = [conn EXCEPT ![c] = x]
  <2>1. CASE FinArrives(c)
    <3>1. conn' = [conn EXCEPT ![c] = Link("fin", <<>>, <<>>, conn[c].inbox)]
      <4>1. [Quiet("fin") EXCEPT !.inbox = conn[c].inbox] = Link("fin", <<>>, <<>>, conn[c].inbox)
        <5>1. Quiet("fin") = Link("fin", <<>>, <<>>, <<>>)
          BY DEF Quiet, Link
        <5>2. [Link("fin", <<>>, <<>>, <<>>) EXCEPT !.inbox = conn[c].inbox]
                = Link("fin", <<>>, <<>>, conn[c].inbox)
          BY DEF Link
        <5> QED
          BY <5>1, <5>2
      <4> QED
        BY <2>1, <4>1 DEF FinArrives
    <3>2. \A i \in Seq(Bytes) : Link("fin", <<>>, <<>>, i) \in Connections /\ Link("fin", <<>>, <<>>, i).asked = <<>>
      BY DEF Link, Connections
    <3>3. conn[c].inbox \in Seq(Bytes)
      BY ConnRecord DEF TcpInv
    <3> QED
      BY <3>1, <3>2, <3>3
  <2>2. CASE ResetArrives(c)
    BY <2>2, QuietTyped DEF ResetArrives
  <2> QED
    BY <2>1, <2>2
<1>3. PICK x \in Connections : x.asked = <<>> /\ conn' = [conn EXCEPT ![c] = x]
  BY <1>2
<1>4. \A i \in DOMAIN x.asked : x.asked[i] <= Len(sent)
  BY <1>3
<1> QED
  BY <1>1, <1>3, <1>4, LinkKeepsType

LEMMA NetworkTyped ==
  ASSUME TcpInv, NEW c \in Conns, Network(c)
  PROVE  TcpInv'
<1>1. CASE Answers(c) \/ Refuses(c)
  <2>1. \E r \in BOOLEAN : conn[c].asked # <<>> /\ Answered(c, Reply(c, r)) /\ budget' \in 0..MaxTrouble
    BY <1>1, TroubleBounded DEF Answers, Refuses, TcpInv
  <2> QED
    BY <2>1, ReplyTyped, FrameTyped, AnsweredTyped
<1>2. CASE Ignores(c)
  <2>1. <<>> \in Seq(Bytes) /\ budget' \in 0..MaxTrouble
    BY <1>2, TroubleBounded DEF Ignores, TcpInv
  <2> QED
    BY <1>2, <2>1, AnsweredTyped DEF Ignores
<1> QED
  BY <1>1, <1>2, DisturbedTyped, DeliverTyped, ClosesTyped DEF Network

-----------------------------------------------------------------------------
(* The whole link *)

\* No step of a task, of the network or of the shutdown does anything to the
\* transport but what has been looked at above.
LEMMA TcpNext == TcpInv /\ [Next]_vars => TcpInv'
<1> SUFFICES ASSUME TcpInv, [Next]_vars PROVE TcpInv'
  OBVIOUS
<1>1. ASSUME NEW t \in Tasks, EnsureConnected(t)
      PROVE  TcpInv'
  <2>1. pc[t] = "idle"
    BY <1>1 DEF EnsureConnected
  <2>2. CASE StartConnect(t)
    BY <2>1, <2>2, StartConnectTyped
  <2>3. CASE \E p \in {"ready", "backoff"} :
               /\ pc' = [pc EXCEPT ![t] = p]
               /\ UNCHANGED <<fields, queue, on, cmd, sent, conn, history, budget>>
    BY <2>1, <2>3, MoveTyped DEF Places
  <2> QED
    BY <1>1, <2>2, <2>3 DEF EnsureConnected
<1>2. ASSUME NEW t \in Tasks, Resume(t)
      PROVE  TcpInv'
  <2>1. CASE BackoffOver(t)
    BY <2>1, StartConnectTyped DEF BackoffOver
  <2>2. CASE Drained(t)
    BY <2>2, MoveTyped DEF Drained, Places
  <2>3. CASE OpenFails(t)
    BY <2>3, ConnectFailedTyped, TroubleBounded DEF OpenFails, TcpInv
  <2>4. CASE Reset(t)
    BY <2>4, ConnectFailedTyped DEF Reset, TcpInv
  <2>5. CASE Finish(t)
    BY <2>5, MoveTyped DEF Finish, Places
  <2> QED
    BY <1>2, <2>1, <2>2, <2>3, <2>4, <2>5, OpenedTyped, LockedTyped, GivesUpTyped
    DEF Resume, ConnectReturns
<1>3. ASSUME NEW t \in Tasks, NEW kind \in Asks[t], SendCommand(t, kind)
      PROVE  TcpInv'
  <2>1. kind \in Commands
    BY WireAssumption
  <2>2. pc[t] \in {"idle", "ready"} /\ Send(t, kind)
    BY <1>3 DEF SendCommand, MaySend
  <2> QED
    BY <2>1, <2>2, SendTyped
<1>4. ASSUME NEW c \in Conns, Network(c)
      PROVE  TcpInv'
  BY <1>4, NetworkTyped
<1>5. CASE UNCHANGED tcpVars
  <2>1. UNCHANGED <<stream, connected, rxbuf, queue, pc, on, cmd, sent, conn, sentOn, answer,
                    givenUp, budget>>
    BY <1>5 DEF tcpVars, fields, caller, history
  <2> QED
    BY <2>1 DEF TcpInv, FieldsTyped, CallersTyped, ConnsTyped, AskedInv, HistoryTyped,
       BufferBounded, LockInv
<1>6. ASSUME UNCHANGED <<caller, history, budget>>, conn' = Closed(stream),
             stream' \in {stream, None}, connected' \in {connected, FALSE},
             rxbuf' \in {rxbuf, <<>>}
      PROVE  TcpInv'
  <2>1. UNCHANGED <<queue, pc, on, cmd, sent, sentOn, answer, givenUp>>
    BY <1>6 DEF caller, history
  <2>2. ConnsTyped'
    BY <1>6, <2>1, ConnClosed, SentLength DEF TcpInv, FieldsTyped
  <2>3. <<>> \in Seq(Bytes) /\ Len(<<>>) = 0 /\ Cap \in Nat
    <3>1. Cap \in Nat
      BY TransportAssumption
    <3> QED
      BY <3>1
  <2>4. FieldsTyped'
    <3>1. connected' \in BOOLEAN
      BY <1>6 DEF TcpInv, FieldsTyped
    <3>2. rxbuf' \in Seq(Bytes) /\ stream' \in Conns \cup {None}
      BY <1>6, <2>3 DEF TcpInv, FieldsTyped
    <3> QED
      BY <3>1, <3>2 DEF FieldsTyped
  <2>5. CallersTyped' /\ LockInv' /\ BufferBounded' /\ HistoryTyped'
    BY <1>6, <2>1, <2>3 DEF TcpInv, CallersTyped, LockInv, BufferBounded, HistoryTyped
  <2> QED
    BY <1>6, <2>2, <2>4, <2>5 DEF TcpInv
<1>7. CASE Shutdown
  BY <1>5, <1>6, <1>7 DEF Shutdown, StartDisconnect, fields
<1>8. CASE ShutdownEnds
  BY <1>6, <1>8 DEF ShutdownEnds, Disconnected
<1>9. ASSUME NEW p, Notified(p)
      PROVE  TcpInv'
  BY <1>5, <1>9 DEF Notified
<1>10. CASE UNCHANGED vars
  BY <1>5, <1>10 DEF vars
<1> QED
  BY <1>1, <1>2, <1>3, <1>4, <1>7, <1>8, <1>9, <1>10 DEF Next

LEMMA TcpStart == Init => TcpInv
<1> SUFFICES ASSUME Init PROVE TcpInv
  OBVIOUS
<1>1. /\ stream = None /\ connected = FALSE /\ rxbuf = <<>> /\ queue = <<>> /\ sent = <<>>
      /\ pc = [t \in Tasks |-> "idle"] /\ on = [t \in Tasks |-> None]
      /\ cmd = [t \in Tasks |-> None] /\ conn = [c \in Conns |-> Quiet("unused")]
      /\ sentOn = [k \in Numbers |-> None] /\ answer = [k \in Numbers |-> None]
      /\ givenUp = {} /\ budget = MaxTrouble
  BY DEF Init, TcpInit
<1>2. <<>> \in Seq(Bytes) /\ <<>> \in Seq(Tasks) /\ <<>> \in Seq(Commands) /\ DOMAIN <<>> = {}
  OBVIOUS
<1>3. FieldsTyped /\ HistoryTyped
  BY <1>1, <1>2 DEF FieldsTyped, HistoryTyped
<1>4. CallersTyped /\ LockInv /\ BufferBounded
  BY <1>1, <1>2 DEF CallersTyped, LockInv, BufferBounded, Places
<1>5. ConnsTyped
  BY <1>1, <1>2, QuietTyped DEF ConnsTyped, AskedInv
<1>6. budget \in 0..MaxTrouble
  BY <1>1, TransportAssumption
<1> QED
  BY <1>3, <1>4, <1>5, <1>6 DEF TcpInv

RestTyped ==
  /\ link \in {"tcp", "ble"} /\ mgr \in SM!States
  /\ stopped \in BOOLEAN /\ closing \in BOOLEAN /\ old \subseteq Conns

LEMMA AfterTyped ==
  ASSUME NEW s \in SM!States, NEW e
  PROVE  SM!After(s, e) \in SM!States
<1>1. CASE SM!Accepts(s, e)
  BY <1>1 DEF SM!After, SM!Accepts
<1>2. CASE ~SM!Accepts(s, e)
  BY <1>2 DEF SM!After
<1> QED
  BY <1>1, <1>2

LEMMA RestNext ==
  ASSUME RestTyped, [Next]_vars
  PROVE  RestTyped'
<1>1. Reconciled \in SM!States
  BY AfterTyped DEF Reconciled, RestTyped
<1>2. link' = link /\ mgr' \in SM!States
  <2>1. CASE \E t \in Tasks : EnsureConnected(t)
    BY <1>1, <2>1, AfterTyped DEF EnsureConnected
  <2>2. CASE \E t \in Tasks : BackoffOver(t) \/ ConnectReturns(t)
    BY <2>2, AfterTyped DEF BackoffOver, ConnectReturns, RestTyped
  <2>3. CASE UNCHANGED <<link, mgr>>
    BY <2>3 DEF RestTyped
  <2> QED
    BY <2>1, <2>2, <2>3 DEF Next, Resume, Steady, rest, vars, Shutdown, ShutdownEnds, Notified
<1>3. stopped' \in BOOLEAN /\ closing' \in BOOLEAN /\ old' \subseteq Conns
  <2>1. CASE Shutdown
    <3>1. ToDisconnect \in BOOLEAN
      BY Zenon DEF ToDisconnect, IsConnected
    <3>2. old' \subseteq Conns /\ stopped' \in BOOLEAN
      BY <2>1 DEF Shutdown
    <3>3. closing' = ToDisconnect
      BY <2>1 DEF Shutdown
    <3> QED
      BY <3>1, <3>2, <3>3
  <2>2. CASE ShutdownEnds
    BY <2>2 DEF ShutdownEnds, RestTyped
  <2>3. CASE UNCHANGED <<stopped, closing, old>>
    BY <2>3 DEF RestTyped
  <2> QED
    BY <2>1, <2>2, <2>3 DEF Next, Resume, Steady, rest, vars, EnsureConnected, BackoffOver,
       ConnectReturns, Notified
<1> QED
  BY <1>2, <1>3 DEF RestTyped

\* Every variable of the link keeps to its type: in particular the receive
\* buffer stays within its limit while a command waits for its answer, the lock's
\* queue holds tasks only, and the manager's machine is in one of its states.
THEOREM LinkTypeOK == Spec => []TypeOK
<1> DEFINE Inv == TcpInv /\ RestTyped /\ LastInv
<1>1. Init => Inv
  BY TcpStart DEF Init, RestTyped, LastInv, SM!States
<1>2. Inv /\ [Next]_vars => Inv'
  BY TcpNext, RestNext, LastKept
<1>3. Inv => TypeOK
  <2> SUFFICES ASSUME Inv PROVE TypeOK
    OBVIOUS
  <2>1. last \in [kind: Commands, bytes: Seq(Bytes), result: Verdicts] \cup {None}
    <3>1. CASE last # None
      <4>1. last.kind \in Commands /\ last.bytes \in Seq(Bytes)
        BY <3>1 DEF LastInv
      <4>2. DecodeResponse(last.bytes, last.kind) \in Verdicts
        BY <4>1, DecodeTrue
      <4>3. last = [kind |-> last.kind, bytes |-> last.bytes,
                    result |-> DecodeResponse(last.bytes, last.kind)]
        BY <3>1 DEF LastInv
      <4> QED
        BY <4>1, <4>2, <4>3
    <3> QED
      BY <3>1
  <2> QED
    BY <2>1, TcpInvTypes DEF TypeOK, RestTyped
<1> QED
  BY <1>1, <1>2, <1>3, PTL DEF Spec

-----------------------------------------------------------------------------
(* The order of the answers on their way *)

HeadAt(b, i) == b[i] \notin Stray /\ b[i].at = 1

\* The commands whose answers begin in b.
Of(b) == {b[i].frame.of : i \in {j \in DOMAIN b : HeadAt(b, j)}}

Elements(q) == {q[i] : i \in DOMAIN q}

Precede(A, B) == \A x \in A, y \in B : x < y

InOrder(b) ==
  \A i, j \in DOMAIN b :
     i < j /\ HeadAt(b, i) /\ HeadAt(b, j) => b[i].frame.of < b[j].frame.of

Rising(q) == \A i, j \in DOMAIN q : i < j => q[i] < q[j]

LEMMA OfConcat ==
  ASSUME NEW a \in Seq(Bytes), NEW b \in Seq(Bytes)
  PROVE  /\ a \o b \in Seq(Bytes)
         /\ Of(a \o b) = Of(a) \cup Of(b)
         /\ InOrder(a \o b) <=> InOrder(a) /\ InOrder(b) /\ Precede(Of(a), Of(b))
<1> DEFINE w == a \o b
           m == Len(a)
<1>1. /\ w \in Seq(Bytes) /\ m \in Nat /\ Len(b) \in Nat /\ DOMAIN w = 1..(m + Len(b))
      /\ DOMAIN a = 1..m /\ DOMAIN b = 1..Len(b)
      /\ \A i \in DOMAIN a : i \in DOMAIN w /\ w[i] = a[i]
      /\ \A i \in DOMAIN b : m + i \in DOMAIN w /\ w[m + i] = b[i]
  OBVIOUS
<1> HIDE DEF w, m
<1>2. /\ \A i \in DOMAIN a : i \in DOMAIN w /\ w[i] = a[i] /\ (HeadAt(w, i) <=> HeadAt(a, i))
      /\ \A i \in DOMAIN b : m + i \in DOMAIN w /\ w[m + i] = b[i] /\ (HeadAt(w, m + i) <=> HeadAt(b, i))
      /\ \A i \in DOMAIN w : i \in DOMAIN a \/ (i - m \in DOMAIN b /\ m + (i - m) = i)
      /\ \A i \in DOMAIN a, j \in DOMAIN b : i < m + j
      /\ \A i, j \in DOMAIN b : i < j <=> m + i < m + j
  <2>1. \A i \in DOMAIN a : i \in DOMAIN w /\ w[i] = a[i] /\ (HeadAt(w, i) <=> HeadAt(a, i))
    BY <1>1 DEF HeadAt
  <2>2. \A i \in DOMAIN b : m + i \in DOMAIN w /\ w[m + i] = b[i] /\ (HeadAt(w, m + i) <=> HeadAt(b, i))
    BY <1>1 DEF HeadAt
  <2>3. \A i \in DOMAIN w : i \in DOMAIN a \/ (i - m \in DOMAIN b /\ m + (i - m) = i)
    BY <1>1
  <2>4. \A i \in DOMAIN a, j \in DOMAIN b : i < m + j
    BY <1>1
  <2>5. \A i, j \in DOMAIN b : i < j <=> m + i < m + j
    BY <1>1
  <2> QED
    BY <2>1, <2>2, <2>3, <2>4, <2>5
<1>3. Of(w) = Of(a) \cup Of(b)
  <2>1. ASSUME NEW x \in Of(w) PROVE x \in Of(a) \cup Of(b)
    <3>1. PICK i \in DOMAIN w : HeadAt(w, i) /\ x = w[i].frame.of
      BY <2>1 DEF Of
    <3>2. CASE i \in DOMAIN a
      BY <1>2, <3>1, <3>2 DEF Of
    <3>3. CASE i - m \in DOMAIN b /\ m + (i - m) = i
      <4>1. HeadAt(b, i - m) /\ x = b[i - m].frame.of
        BY <1>2, <3>1, <3>3
      <4> QED
        BY <3>3, <4>1 DEF Of
    <3> QED
      BY <1>2, <3>2, <3>3
  <2>2. ASSUME NEW x \in Of(a) PROVE x \in Of(w)
    BY <1>2, <2>2 DEF Of
  <2>3. ASSUME NEW x \in Of(b) PROVE x \in Of(w)
    <3>1. PICK i \in DOMAIN b : HeadAt(b, i) /\ x = b[i].frame.of
      BY <2>3 DEF Of
    <3>2. m + i \in DOMAIN w /\ HeadAt(w, m + i) /\ x = w[m + i].frame.of
      BY <1>2, <3>1
    <3> QED
      BY <3>2 DEF Of
  <2> QED
    BY <2>1, <2>2, <2>3
<1>4. ASSUME InOrder(w)
      PROVE  InOrder(a) /\ InOrder(b) /\ Precede(Of(a), Of(b))
  <2>1. InOrder(a)
    BY <1>2, <1>4 DEF InOrder
  <2>2. InOrder(b)
    <3> SUFFICES ASSUME NEW i \in DOMAIN b, NEW j \in DOMAIN b, i < j, HeadAt(b, i), HeadAt(b, j)
                 PROVE  b[i].frame.of < b[j].frame.of
      BY DEF InOrder
    <3>1. m + i \in DOMAIN w /\ m + j \in DOMAIN w /\ m + i < m + j /\ HeadAt(w, m + i) /\ HeadAt(w, m + j)
          /\ w[m + i] = b[i] /\ w[m + j] = b[j]
      BY <1>2
    <3>2. w[m + i].frame.of < w[m + j].frame.of
      BY <1>4, <3>1 DEF InOrder
    <3> QED
      BY <3>1, <3>2
  <2>3. Precede(Of(a), Of(b))
    <3> SUFFICES ASSUME NEW x \in Of(a), NEW y \in Of(b) PROVE x < y
      BY DEF Precede
    <3>1. PICK i \in DOMAIN a : HeadAt(a, i) /\ x = a[i].frame.of
      BY DEF Of
    <3>2. PICK j \in DOMAIN b : HeadAt(b, j) /\ y = b[j].frame.of
      BY DEF Of
    <3>3. i \in DOMAIN w /\ m + j \in DOMAIN w /\ i < m + j /\ HeadAt(w, i) /\ HeadAt(w, m + j)
          /\ w[i] = a[i] /\ w[m + j] = b[j]
      BY <1>2, <3>1, <3>2
    <3>4. w[i].frame.of < w[m + j].frame.of
      BY <1>4, <3>3 DEF InOrder
    <3> QED
      BY <3>1, <3>2, <3>3, <3>4
  <2> QED
    BY <2>1, <2>2, <2>3
<1>5. ASSUME InOrder(a), InOrder(b), Precede(Of(a), Of(b))
      PROVE  InOrder(w)
  <2> SUFFICES ASSUME NEW i \in DOMAIN w, NEW j \in DOMAIN w, i < j, HeadAt(w, i), HeadAt(w, j)
               PROVE  w[i].frame.of < w[j].frame.of
    BY DEF InOrder
  <2>1. CASE i \in DOMAIN a /\ j \in DOMAIN a
    BY <1>2, <1>5, <2>1 DEF InOrder
  <2>2. CASE i \in DOMAIN a /\ j \notin DOMAIN a
    <3>1. a[i].frame.of \in Of(a)
      BY <1>2, <2>2 DEF Of
    <3>2. j - m \in DOMAIN b /\ HeadAt(b, j - m) /\ w[j] = b[j - m]
      BY <1>2, <2>2
    <3>3. b[j - m].frame.of \in Of(b)
      BY <3>2 DEF Of
    <3> QED
      BY <1>2, <1>5, <2>2, <3>1, <3>2, <3>3 DEF Precede
  <2>3. CASE i \notin DOMAIN a
    <3>1. j \notin DOMAIN a
      BY <1>1, <2>3
    <3>2. /\ i - m \in DOMAIN b /\ HeadAt(b, i - m) /\ w[i] = b[i - m]
          /\ j - m \in DOMAIN b /\ HeadAt(b, j - m) /\ w[j] = b[j - m] /\ i - m < j - m
      BY <1>1, <1>2, <2>3, <3>1
    <3> QED
      BY <1>5, <3>2 DEF InOrder
  <2> QED
    BY <2>1, <2>2, <2>3
<1> QED
  BY <1>1, <1>3, <1>4, <1>5 DEF w

LEMMA OfNumbers ==
  ASSUME NEW b \in Seq(Bytes)
  PROVE  Of(b) \subseteq Numbers
<1> SUFFICES ASSUME NEW i \in DOMAIN b, HeadAt(b, i) PROVE b[i].frame.of \in Numbers
  BY DEF Of
<1>1. b[i].frame \in Frames
  BY FrameOfByte DEF HeadAt
<1> QED
  BY <1>1 DEF Frames

LEMMA OfNothing == Of(<<>>) = {} /\ InOrder(<<>>) /\ Elements(<<>>) = {} /\ Rising(<<>>)
<1>1. DOMAIN <<>> = {}
  OBVIOUS
<1> QED
  BY <1>1 DEF Of, InOrder, Elements, Rising

LEMMA OfStray ==
  ASSUME NEW b \in Seq(Bytes), \A i \in DOMAIN b : b[i] \in Stray
  PROVE  Of(b) = {} /\ InOrder(b)
BY DEF Of, InOrder, HeadAt

LEMMA OfFrame ==
  ASSUME NEW f \in Frames
  PROVE  Of(Encoded(f)) \subseteq {f.of} /\ InOrder(Encoded(f))
<1> DEFINE e == Encoded(f)
<1>1. /\ Length(f) \in Nat \ {0} /\ e \in Seq(Bytes) /\ Len(e) = Length(f)
      /\ \A i \in 1..Length(f) : e[i] = [frame |-> f, at |-> i]
  BY FrameTyped
<1> HIDE DEF e
<1>2. \A i \in DOMAIN e : e[i].frame = f /\ e[i].at = i
  BY <1>1
<1>4. \A i \in DOMAIN e : HeadAt(e, i) => i = 1
  BY <1>2 DEF HeadAt
<1>5. Of(e) \subseteq {f.of}
  BY <1>2, <1>4 DEF Of
<1>6. InOrder(e)
  BY <1>4 DEF InOrder
<1> QED
  BY <1>5, <1>6 DEF e

\* The end of a buffer.
LEMMA OfSuffix ==
  ASSUME NEW b \in Seq(Bytes), NEW m \in Nat \ {0}, InOrder(b)
  PROVE  /\ SubSeq(b, m, Len(b)) \in Seq(Bytes) /\ InOrder(SubSeq(b, m, Len(b)))
         /\ Of(SubSeq(b, m, Len(b))) \subseteq Of(b)
         /\ \A n \in DOMAIN b : n < m /\ HeadAt(b, n) =>
               Precede({b[n].frame.of}, Of(SubSeq(b, m, Len(b))))
<1> DEFINE e == SubSeq(b, m, Len(b))
<1>1. /\ e \in Seq(Bytes) /\ DOMAIN e \subseteq Nat \ {0}
      /\ \A i \in DOMAIN e : m + i - 1 \in DOMAIN b /\ e[i] = b[m + i - 1]
  OBVIOUS
<1> HIDE DEF e
<1>2. \A i \in DOMAIN e : /\ m + i - 1 \in DOMAIN b /\ e[i] = b[m + i - 1] /\ m <= m + i - 1
                          /\ HeadAt(e, i) <=> HeadAt(b, m + i - 1)
  BY <1>1 DEF HeadAt
<1>3. InOrder(e)
  <2> SUFFICES ASSUME NEW i \in DOMAIN e, NEW j \in DOMAIN e, i < j, HeadAt(e, i), HeadAt(e, j)
               PROVE  e[i].frame.of < e[j].frame.of
    BY DEF InOrder
  <2>1. m + i - 1 < m + j - 1
    BY <1>1
  <2> QED
    BY <1>2, <2>1 DEF InOrder
<1>4. Of(e) \subseteq Of(b)
  BY <1>2 DEF Of
<1>5. ASSUME NEW n \in DOMAIN b, n < m, HeadAt(b, n)
      PROVE  Precede({b[n].frame.of}, Of(e))
  <2> SUFFICES ASSUME NEW i \in DOMAIN e, HeadAt(e, i)
               PROVE  b[n].frame.of < e[i].frame.of
    BY DEF Precede, Of
  <2>1. n < m + i - 1
    BY <1>1, <1>2, <1>5
  <2> QED
    BY <1>2, <1>5, <2>1 DEF InOrder
<1> QED
  BY <1>1, <1>3, <1>4, <1>5 DEF e

LEMMA OfTrim ==
  ASSUME NEW b \in Seq(Bytes), InOrder(b)
  PROVE  Trim(b) \in Seq(Bytes) /\ InOrder(Trim(b)) /\ Of(Trim(b)) \subseteq Of(b)
<1>1. CASE Len(b) > Cap
  <2>1. Cap \in Nat /\ Keep \in 0..Cap /\ Len(b) \in Nat
    BY TransportAssumption
  <2>2. Len(b) - Keep + 1 \in Nat \ {0}
    BY <1>1, <2>1
  <2>3. Trim(b) = SubSeq(b, Len(b) - Keep + 1, Len(b))
    BY <1>1 DEF Trim
  <2> QED
    BY <2>2, <2>3, OfSuffix
<1>2. CASE ~(Len(b) > Cap)
  BY <1>2 DEF Trim
<1> QED
  BY <1>1, <1>2

\* The frame that is taken out is of an earlier command than all that is left.
LEMMA OfExtract ==
  ASSUME NEW b \in Seq(Bytes), InOrder(b), Found(b) # {}
  PROVE  /\ Extracted(b).of \in Of(b) /\ Extracted(b).of \in Numbers
         /\ Rest(b) \in Seq(Bytes) /\ InOrder(Rest(b)) /\ Of(Rest(b)) \subseteq Of(b)
         /\ Precede({Extracted(b).of}, Of(Rest(b)))
<1> DEFINE m == Min(Found(b))
           f == Extracted(b)
<1>1. /\ m \in 1..Len(b) /\ FrameAt(b, m) /\ f \in Frames /\ f = b[m].frame
      /\ Rest(b) = SubSeq(b, m + Length(f), Len(b)) /\ Length(f) \in Nat \ {0}
  BY FoundFrame, FrameTyped DEF Extracted, Rest
<1> HIDE DEF m, f
<1>2. HeadAt(b, m) /\ m \in DOMAIN b
  BY <1>1 DEF FrameAt, HeadAt
<1>3. f.of \in Of(b) /\ f.of \in Numbers
  BY <1>1, <1>2 DEF Of, Frames
<1>4. m + Length(f) \in Nat \ {0} /\ m < m + Length(f)
  BY <1>1
<1> QED
  BY <1>1, <1>2, <1>3, <1>4, OfSuffix DEF f

-----------------------------------------------------------------------------
(* The commands at the gateway *)

LEMMA RisingTail ==
  ASSUME NEW q \in Seq(Numbers), q # <<>>, Rising(q)
  PROVE  /\ Tail(q) \in Seq(Numbers) /\ Rising(Tail(q)) /\ Head(q) \in Elements(q)
         /\ Elements(Tail(q)) \subseteq Elements(q)
         /\ Precede({Head(q)}, Elements(Tail(q)))
<1> DEFINE w == Tail(q)
<1>1. /\ w \in Seq(Numbers) /\ DOMAIN w \subseteq Nat \ {0} /\ 1 \in DOMAIN q /\ Head(q) = q[1]
      /\ \A i \in DOMAIN w : i + 1 \in DOMAIN q /\ w[i] = q[i + 1]
  OBVIOUS
<1> HIDE DEF w
<1>2. Rising(w)
  <2> SUFFICES ASSUME NEW i \in DOMAIN w, NEW j \in DOMAIN w, i < j PROVE w[i] < w[j]
    BY DEF Rising
  <2>1. i + 1 < j + 1
    BY <1>1
  <2> QED
    BY <1>1, <2>1 DEF Rising
<1>3. Head(q) \in Elements(q) /\ Elements(w) \subseteq Elements(q)
  BY <1>1 DEF Elements
<1>4. Precede({Head(q)}, Elements(w))
  <2> SUFFICES ASSUME NEW i \in DOMAIN w PROVE q[1] < w[i]
    BY <1>1 DEF Precede, Elements
  <2>1. 1 < i + 1
    BY <1>1
  <2> QED
    BY <1>1, <2>1 DEF Rising
<1> QED
  BY <1>1, <1>2, <1>3, <1>4 DEF w

LEMMA RisingAppend ==
  ASSUME NEW q \in Seq(Numbers), NEW k \in Numbers, Rising(q), Precede(Elements(q), {k})
  PROVE  /\ Append(q, k) \in Seq(Numbers) /\ Rising(Append(q, k))
         /\ Elements(Append(q, k)) = Elements(q) \cup {k}
<1> DEFINE w == Append(q, k)
           m == Len(q)
<1>1. /\ w \in Seq(Numbers) /\ m \in Nat /\ DOMAIN q = 1..m /\ DOMAIN w = 1..(m + 1)
      /\ w[m + 1] = k /\ \A i \in DOMAIN q : w[i] = q[i]
  OBVIOUS
<1> HIDE DEF w, m
<1>2. m + 1 \in DOMAIN w /\ \A i \in DOMAIN w : i \in DOMAIN q \/ i = m + 1
  BY <1>1
<1>3. \A i \in DOMAIN q : i \in DOMAIN w
  BY <1>1
<1>4. Elements(w) = Elements(q) \cup {k}
  BY <1>1, <1>2, <1>3 DEF Elements
<1>5. Rising(w)
  <2> SUFFICES ASSUME NEW i \in DOMAIN w, NEW j \in DOMAIN w, i < j PROVE w[i] < w[j]
    BY DEF Rising
  <2>1. i \in DOMAIN q /\ q[i] < k
    BY <1>1 DEF Precede, Elements
  <2> QED
    BY <1>1, <1>2, <2>1 DEF Rising
<1> QED
  BY <1>1, <1>4, <1>5 DEF w

-----------------------------------------------------------------------------
(* From the buffer to the gateway the answers come later and later: r is the *)
(* buffer, i what nobody has read yet, o what is on its way, q what the      *)
(* gateway has not answered.                                                 *)

Flow(r, i, o, q) ==
  /\ InOrder(r) /\ InOrder(i) /\ InOrder(o) /\ Rising(q)
  /\ Precede(Of(r), Of(i) \cup Of(o) \cup Elements(q))
  /\ Precede(Of(i), Of(o) \cup Elements(q))
  /\ Precede(Of(o), Elements(q))

Ahead(r, i, o, q) == Of(r) \cup Of(i) \cup Of(o) \cup Elements(q)

\* Any part may lose answers.
LEMMA FlowLoses ==
  ASSUME NEW r, NEW i, NEW o, NEW q, Flow(r, i, o, q), NEW s, NEW j, NEW p, NEW w,
         InOrder(s), InOrder(j), InOrder(p), Rising(w),
         Of(s) \subseteq Of(r), Of(j) \subseteq Of(i), Of(p) \subseteq Of(o), Elements(w) \subseteq Elements(q)
  PROVE  Flow(s, j, p, w) /\ Ahead(s, j, p, w) \subseteq Ahead(r, i, o, q)
BY Zenon DEF Flow, Ahead, Precede

LEMMA FlowTrim ==
  ASSUME NEW r \in Seq(Bytes), NEW i, NEW o, NEW q, Flow(r, i, o, q)
  PROVE  /\ Trim(r) \in Seq(Bytes) /\ Flow(Trim(r), i, o, q)
         /\ Ahead(Trim(r), i, o, q) \subseteq Ahead(r, i, o, q)
BY OfTrim, FlowLoses, Zenon DEF Flow

\* A coroutine reads all that is there.
LEMMA FlowRead ==
  ASSUME NEW r \in Seq(Bytes), NEW i \in Seq(Bytes), NEW o, NEW q, Flow(r, i, o, q)
  PROVE  /\ r \o i \in Seq(Bytes) /\ Flow(r \o i, <<>>, o, q)
         /\ Ahead(r \o i, <<>>, o, q) \subseteq Ahead(r, i, o, q)
<1>1. r \o i \in Seq(Bytes) /\ Of(r \o i) = Of(r) \cup Of(i)
      /\ (InOrder(r \o i) <=> InOrder(r) /\ InOrder(i) /\ Precede(Of(r), Of(i)))
  BY OfConcat
<1>2. Of(<<>>) = {} /\ InOrder(<<>>)
  BY OfNothing
<1>3. InOrder(r \o i)
  BY <1>1 DEF Flow, Precede
<1> QED
  BY <1>1, <1>2, <1>3 DEF Flow, Ahead, Precede

\* The first bytes on their way arrive.
LEMMA FlowArrives ==
  ASSUME NEW r \in Seq(Bytes), NEW i \in Seq(Bytes), NEW a \in Seq(Bytes), NEW o \in Seq(Bytes),
         NEW q, Flow(r, i, a \o o, q)
  PROVE  /\ i \o a \in Seq(Bytes)
         /\ Flow(r, i \o a, o, q) /\ Ahead(r, i \o a, o, q) \subseteq Ahead(r, i, a \o o, q)
         /\ Flow(r, i, o, q) /\ Ahead(r, i, o, q) \subseteq Ahead(r, i, a \o o, q)
<1>1. Of(a \o o) = Of(a) \cup Of(o)
      /\ (InOrder(a \o o) <=> InOrder(a) /\ InOrder(o) /\ Precede(Of(a), Of(o)))
  BY OfConcat
<1>2. i \o a \in Seq(Bytes) /\ Of(i \o a) = Of(i) \cup Of(a)
      /\ (InOrder(i \o a) <=> InOrder(i) /\ InOrder(a) /\ Precede(Of(i), Of(a)))
  BY OfConcat
<1>3. InOrder(a) /\ InOrder(o) /\ Precede(Of(a), Of(o))
  BY <1>1 DEF Flow
<1>4. InOrder(i \o a)
  BY <1>1, <1>2, <1>3 DEF Flow, Precede
<1>5. Flow(r, i \o a, o, q) /\ Ahead(r, i \o a, o, q) \subseteq Ahead(r, i, a \o o, q)
  BY <1>1, <1>2, <1>3, <1>4 DEF Flow, Ahead, Precede
<1>6. Flow(r, i, o, q) /\ Ahead(r, i, o, q) \subseteq Ahead(r, i, a \o o, q)
  BY <1>1, <1>3 DEF Flow, Ahead, Precede
<1> QED
  BY <1>2, <1>5, <1>6

\* The gateway is done with its first command, and sends bytes that are no
\* answer but, maybe, the one to it.
LEMMA FlowAnswer ==
  ASSUME NEW r, NEW i, NEW o \in Seq(Bytes), NEW q \in Seq(Numbers), q # <<>>, Flow(r, i, o, q),
         NEW a \in Seq(Bytes), InOrder(a), Of(a) \subseteq {Head(q)}
  PROVE  /\ o \o a \in Seq(Bytes) /\ Flow(r, i, o \o a, Tail(q))
         /\ Ahead(r, i, o \o a, Tail(q)) \subseteq Ahead(r, i, o, q)
<1>1. o \o a \in Seq(Bytes) /\ Of(o \o a) = Of(o) \cup Of(a)
      /\ (InOrder(o \o a) <=> InOrder(o) /\ InOrder(a) /\ Precede(Of(o), Of(a)))
  BY OfConcat
<1>2. /\ Rising(Tail(q)) /\ Head(q) \in Elements(q) /\ Elements(Tail(q)) \subseteq Elements(q)
      /\ Precede({Head(q)}, Elements(Tail(q)))
  BY RisingTail DEF Flow
<1>3. InOrder(o \o a)
  BY <1>1, <1>2 DEF Flow, Precede
<1> QED
  BY <1>1, <1>2, <1>3, Zenon DEF Flow, Ahead, Precede

\* Noise.
LEMMA FlowNoise ==
  ASSUME NEW r, NEW i, NEW o \in Seq(Bytes), NEW q, Flow(r, i, o, q),
         NEW a \in Seq(Bytes), InOrder(a), Of(a) = {}
  PROVE  /\ o \o a \in Seq(Bytes) /\ Flow(r, i, o \o a, q)
         /\ Ahead(r, i, o \o a, q) \subseteq Ahead(r, i, o, q)
<1>1. o \o a \in Seq(Bytes) /\ Of(o \o a) = Of(o) \cup Of(a)
      /\ (InOrder(o \o a) <=> InOrder(o) /\ InOrder(a) /\ Precede(Of(o), Of(a)))
  BY OfConcat
<1>2. InOrder(o \o a)
  BY <1>1 DEF Flow, Precede
<1> QED
  BY <1>1, <1>2 DEF Flow, Ahead

\* A command that comes after all of them is written.
LEMMA FlowAsk ==
  ASSUME NEW r, NEW i, NEW o, NEW q \in Seq(Numbers), Flow(r, i, o, q), NEW k \in Numbers,
         Precede(Ahead(r, i, o, q), {k})
  PROVE  /\ Append(q, k) \in Seq(Numbers) /\ Flow(r, i, o, Append(q, k))
         /\ Ahead(r, i, o, Append(q, k)) = Ahead(r, i, o, q) \cup {k}
<1>1. Precede(Elements(q), {k})
  BY DEF Precede, Ahead
<1>2. /\ Append(q, k) \in Seq(Numbers) /\ Rising(Append(q, k))
      /\ Elements(Append(q, k)) = Elements(q) \cup {k}
  BY <1>1, RisingAppend DEF Flow
<1> DEFINE w == Append(q, k)
<1> HIDE DEF w
<1>3. Rising(w) /\ Elements(w) = Elements(q) \cup {k}
  BY <1>2 DEF w
<1>4. Flow(r, i, o, w) /\ Ahead(r, i, o, w) = Ahead(r, i, o, q) \cup {k}
  BY <1>3 DEF Flow, Ahead, Precede
<1> QED
  BY <1>2, <1>4 DEF w

\* A frame is taken out of the buffer.
LEMMA FlowExtract ==
  ASSUME NEW b \in Seq(Bytes), NEW i, NEW o, NEW q, Flow(b, i, o, q), Found(b) # {}
  PROVE  /\ Extracted(b).of \in Ahead(b, i, o, q) /\ Extracted(b).of \in Numbers
         /\ Rest(b) \in Seq(Bytes) /\ Flow(Rest(b), i, o, q)
         /\ Ahead(Rest(b), i, o, q) \subseteq Ahead(b, i, o, q)
         /\ Precede({Extracted(b).of}, Ahead(Rest(b), i, o, q))
<1>1. /\ Extracted(b).of \in Of(b) /\ Extracted(b).of \in Numbers
      /\ Rest(b) \in Seq(Bytes) /\ InOrder(Rest(b)) /\ Of(Rest(b)) \subseteq Of(b)
      /\ Precede({Extracted(b).of}, Of(Rest(b)))
  BY OfExtract DEF Flow
<1>2. Flow(Rest(b), i, o, q) /\ Ahead(Rest(b), i, o, q) \subseteq Ahead(b, i, o, q)
  BY <1>1, FlowLoses, Zenon DEF Flow
<1> DEFINE n == Extracted(b).of
           w == Rest(b)
<1> HIDE DEF n, w
<1>3. n \in Of(b) /\ Precede({n}, Of(w))
  BY <1>1 DEF n, w
<1>4. n \in Ahead(b, i, o, q) /\ Precede({n}, Ahead(w, i, o, q))
  BY <1>3 DEF Flow, Ahead, Precede
<1> QED
  BY <1>1, <1>2, <1>4 DEF n, w

-----------------------------------------------------------------------------
(* Whose answer a command is given *)

\* The commands on the stream that are later than every one whose answer has
\* been given out.
Fresh == {n \in Numbers : sentOn[n] = stream /\ \A j \in Numbers : answer[j] # None => answer[j] < n}

\* What may still come on the stream comes in order and is fresh.
FlowInv ==
  stream # None =>
    LET s == conn[stream] IN
    /\ Flow(rxbuf, s.inbox, s.coming, s.asked)
    /\ Ahead(rxbuf, s.inbox, s.coming, s.asked) \subseteq Fresh

\* A command that was written has been given up or answered, or is waited for.
Accounted ==
  \A j \in Numbers : sentOn[j] # None =>
     j \in givenUp \/ answer[j] # None \/ \E t \in Tasks : pc[t] = "reading" /\ cmd[t] = j

\* Who waits for the lock comes after all that were written.
QueueLater ==
  \A t \in Tasks : pc[t] = "queued" => \A j \in Numbers : sentOn[j] # None => j < cmd[t]

\* The command that is read for is the last that was written, is not answered,
\* and nothing lies unread on its connection.
ReaderLast ==
  \A t \in Tasks : pc[t] = "reading" =>
     /\ sentOn[cmd[t]] = on[t] /\ answer[cmd[t]] = None /\ conn[on[t]].inbox = <<>>
     /\ \A j \in Numbers : sentOn[j] # None => j <= cmd[t]

TurnInv ==
  /\ \A j \in Numbers : sentOn[j] # None => j <= Len(sent)
  /\ \A j \in Numbers : answer[j] # None => sentOn[j] # None
  /\ Accounted /\ QueueLater /\ ReaderLast

AnswerInv == TcpInv /\ ClosedInv /\ FlowInv /\ TurnInv /\ OwnAnswer

LEMMA HistoryFacts ==
  ASSUME AnswerInv
  PROVE  /\ Numbers \subseteq Nat \ {0} /\ None \notin Numbers /\ None \notin Conns
         /\ sentOn \in [Numbers -> Conns \cup {None}]
         /\ answer \in [Numbers -> Numbers \cup {None}] /\ givenUp \subseteq Numbers
         /\ \A j \in Numbers : answer[j] # None =>
               answer[j] \in Numbers /\ answer[j] <= j /\ sentOn[j] # None
<1>1. Numbers \subseteq Nat \ {0} /\ None \notin Numbers /\ None \notin Conns
  BY ProtocolAssumption, NoneAssumption, TransportAssumption
<1>2. /\ sentOn \in [Numbers -> Conns \cup {None}]
      /\ answer \in [Numbers -> Numbers \cup {None}] /\ givenUp \subseteq Numbers
  BY DEF AnswerInv, TcpInv, HistoryTyped
<1>3. \A j \in Numbers : answer[j] # None =>
         answer[j] \in Numbers /\ answer[j] <= j /\ sentOn[j] # None
  BY <1>2 DEF AnswerInv, TurnInv, OwnAnswer
<1> QED
  BY <1>1, <1>2, <1>3

\* Command k is written, or is not, and nothing is answered.
LEMMA OwnKept ==
  ASSUME AnswerInv, NEW k \in Numbers, NEW c,
         \/ sentOn' = sentOn
         \/ /\ sentOn' = [sentOn EXCEPT ![k] = c] /\ answer[k] = None
            /\ \A j \in Numbers : sentOn[j] # None => j <= k,
         answer' = answer, givenUp \subseteq givenUp'
  PROVE  OwnAnswer'
<1>0. /\ Numbers \subseteq Nat \ {0} /\ sentOn \in [Numbers -> Conns \cup {None}]
      /\ \A j \in Numbers : answer[j] # None =>
            answer[j] \in Numbers /\ answer[j] <= j /\ sentOn[j] # None
      /\ givenUp \subseteq Numbers
  BY HistoryFacts
<1> SUFFICES ASSUME NEW i \in Numbers, answer[i] # None
             PROVE  /\ answer[i] <= i /\ sentOn'[answer[i]] = sentOn'[i]
                    /\ \A j \in Numbers : j < i /\ answer[j] # None => answer[j] < answer[i]
                    /\ answer[i] = i \/ \E j \in givenUp' : j < i /\ sentOn'[j] = sentOn'[i]
  BY DEF OwnAnswer
<1>1. /\ answer[i] <= i /\ sentOn[answer[i]] = sentOn[i]
      /\ \A j \in Numbers : j < i /\ answer[j] # None => answer[j] < answer[i]
      /\ answer[i] = i \/ \E j \in givenUp : j < i /\ sentOn[j] = sentOn[i]
  BY DEF AnswerInv, OwnAnswer
<1>2. \A j \in Numbers : j <= i => sentOn'[j] = sentOn[j]
  <2>1. CASE sentOn' = sentOn
    BY <2>1
  <2>2. CASE /\ sentOn' = [sentOn EXCEPT ![k] = c] /\ answer[k] = None
             /\ \A j \in Numbers : sentOn[j] # None => j <= k
    <3>1. i < k
      BY <1>0, <2>2
    <3>2. \A j \in Numbers : j <= i => j # k
      BY <1>0, <3>1
    <3> QED
      BY <1>0, <2>2, <3>2
  <2> QED
    BY <2>1, <2>2
<1>3. sentOn'[i] = sentOn[i] /\ sentOn'[answer[i]] = sentOn[answer[i]]
  BY <1>0, <1>1, <1>2
<1>4. \A j \in givenUp : j < i => j \in givenUp' /\ sentOn'[j] = sentOn[j]
  <2>1. \A j \in givenUp : j < i => j <= i /\ j \in Numbers
    BY <1>0
  <2> QED
    BY <1>2, <2>1
<1> QED
  BY <1>1, <1>3, <1>4

\* A command is given the answer to n, which is fresh, and all commands that
\* were written before it are accounted for.
LEMMA OwnGiven ==
  ASSUME AnswerInv, NEW k \in Numbers, NEW n \in Numbers, stream \in Conns,
         sentOn' = [sentOn EXCEPT ![k] = stream], answer[k] = None,
         answer' = [answer EXCEPT ![k] = n], givenUp' = givenUp,
         \A j \in Numbers : sentOn[j] # None => j <= k,
         sentOn'[n] = stream, \A j \in Numbers : answer[j] # None => answer[j] < n,
         \A j \in Numbers : j # k /\ sentOn[j] # None => j \in givenUp \/ answer[j] # None
  PROVE  OwnAnswer'
<1>0. /\ Numbers \subseteq Nat \ {0} /\ sentOn \in [Numbers -> Conns \cup {None}]
      /\ answer \in [Numbers -> Numbers \cup {None}] /\ givenUp \subseteq Numbers
      /\ None \notin Conns
      /\ \A j \in Numbers : answer[j] # None =>
            answer[j] \in Numbers /\ answer[j] <= j /\ sentOn[j] # None
  BY HistoryFacts
<1>1. /\ sentOn'[k] = stream /\ \A j \in Numbers : j # k => sentOn'[j] = sentOn[j]
      /\ answer'[k] = n /\ \A j \in Numbers : j # k => answer'[j] = answer[j]
  BY <1>0
<1>2. n <= k
  <2>1. CASE n = k
    BY <1>0, <2>1
  <2>2. CASE n # k
    BY <1>0, <1>1, <2>2
  <2> QED
    BY <2>1, <2>2
<1>3. n = k \/ \E j \in givenUp' : j < k /\ sentOn'[j] = sentOn'[k]
  <2> SUFFICES ASSUME n # k PROVE \E j \in givenUp' : j < k /\ sentOn'[j] = sentOn'[k]
    OBVIOUS
  <2>1. n < k /\ sentOn[n] = stream
    BY <1>0, <1>1, <1>2
  <2>2. CASE n \in givenUp
    BY <1>1, <2>1, <2>2
  <2>3. CASE answer[n] # None
    <3>1. answer[n] < n
      BY <2>3
    <3>2. answer[n] # n
      BY <1>0, <2>3, <3>1
    <3>3. PICK j \in givenUp : j < n /\ sentOn[j] = sentOn[n]
      BY <2>3, <3>2 DEF AnswerInv, OwnAnswer
    <3>4. j \in givenUp' /\ j < k /\ j # k
      BY <1>0, <2>1, <3>3
    <3> QED
      BY <1>0, <1>1, <2>1, <3>3, <3>4
  <2> QED
    BY <1>0, <2>1, <2>2, <2>3
<1>4. \A j \in Numbers : j < k /\ answer'[j] # None => answer'[j] < n
  BY <1>0, <1>1
<1>5. ASSUME NEW i \in Numbers, i # k, answer'[i] # None
      PROVE  /\ answer'[i] <= i /\ sentOn'[answer'[i]] = sentOn'[i]
             /\ \A j \in Numbers : j < i /\ answer'[j] # None => answer'[j] < answer'[i]
             /\ answer'[i] = i \/ \E j \in givenUp' : j < i /\ sentOn'[j] = sentOn'[i]
  <2>1. answer'[i] = answer[i] /\ sentOn'[i] = sentOn[i] /\ answer[i] # None /\ i < k
    BY <1>0, <1>1, <1>5
  <2>2. /\ answer[i] <= i /\ sentOn[answer[i]] = sentOn[i]
        /\ \A j \in Numbers : j < i /\ answer[j] # None => answer[j] < answer[i]
        /\ answer[i] = i \/ \E j \in givenUp : j < i /\ sentOn[j] = sentOn[i]
    BY <2>1 DEF AnswerInv, OwnAnswer
  <2>3. \A j \in Numbers : j <= i => j # k
    BY <1>0, <2>1
  <2>4. answer[i] \in Numbers /\ answer[i] # k
    BY <1>0, <2>1, <2>2, <2>3
  <2>5. sentOn'[answer'[i]] = sentOn'[i]
    BY <1>1, <2>1, <2>2, <2>4
  <2>6. \A j \in Numbers : j < i /\ answer'[j] # None => answer'[j] < answer'[i]
    BY <1>0, <1>1, <2>1, <2>2, <2>3
  <2>7. \A j \in givenUp : j < i => j \in Numbers /\ j # k
    BY <1>0, <2>1
  <2>8. answer'[i] = i \/ \E j \in givenUp' : j < i /\ sentOn'[j] = sentOn'[i]
    BY <1>1, <2>1, <2>2, <2>7
  <2> QED
    BY <2>1, <2>2, <2>5, <2>6, <2>8
<1>6. ASSUME NEW i \in Numbers, answer'[i] # None
      PROVE  /\ answer'[i] <= i /\ sentOn'[answer'[i]] = sentOn'[i]
             /\ \A j \in Numbers : j < i /\ answer'[j] # None => answer'[j] < answer'[i]
             /\ answer'[i] = i \/ \E j \in givenUp' : j < i /\ sentOn'[j] = sentOn'[i]
  <2>1. CASE i = k
    BY <1>1, <1>2, <1>3, <1>4, <2>1
  <2>2. CASE i # k
    BY <1>5, <1>6, <2>2
  <2> QED
    BY <2>1, <2>2
<1> QED
  BY <1>6 DEF OwnAnswer

\* Those who wait while t has the lock are later than t's command.
LEMMA LaterThanHolder ==
  ASSUME CallersTyped, LockInv, NEW t \in Tasks, NEW k, Holds(t, k)
  PROVE  \A u \in Tasks : u # t /\ pc[u] = "queued" => k < cmd[u]
<1> SUFFICES ASSUME NEW u \in Tasks, u # t, pc[u] = "queued" PROVE k < cmd[u]
  OBVIOUS
<1>1. PICK i \in DOMAIN queue : queue[i] = u
  BY DEF LockInv
<1>2. queue # <<>>
  <2> SUFFICES ASSUME queue = <<>> PROVE FALSE
    OBVIOUS
  <2>1. DOMAIN queue = {}
    OBVIOUS
  <2> QED
    BY <1>1, <2>1
<1>3. Head(queue) = t /\ cmd[t] = k
  BY <1>2 DEF Holds
<1>4. 1 \in DOMAIN queue /\ queue[1] = t
  BY <1>2, <1>3, QueueHead
<1>5. 1 < i
  <2>1. i \in Nat \ {0}
    BY <1>1 DEF CallersTyped
  <2>2. i # 1
    BY <1>1, <1>4
  <2> QED
    BY <2>1, <2>2
<1> QED
  BY <1>1, <1>3, <1>4, <1>5 DEF LockInv

\* t is done with command k, which was given up, answered or never written.
LEMMA TurnLeft ==
  ASSUME AnswerInv, NEW t \in Tasks, NEW k, Holds(t, k), Leave(t), sent' \in Seq(Commands),
         \A j \in Numbers : j # k => sentOn'[j] = sentOn[j] /\ answer'[j] = answer[j],
         \A j \in Numbers : sentOn[j] # None => sentOn'[j] # None,
         givenUp \subseteq givenUp',
         sentOn'[k] # None => k \in givenUp' \/ answer'[k] # None,
         answer'[k] # None => sentOn'[k] # None
  PROVE  TurnInv'
<1>0. /\ Len(sent) \in Nat /\ Len(sent') \in Nat /\ Len(sent) <= Len(sent')
      /\ k \in Numbers /\ k \in Nat /\ k <= Len(sent') /\ Numbers \subseteq Nat \ {0}
  BY SentGrows, HistoryFacts DEF AnswerInv
<1>1. \A u \in Tasks : pc'[u] # "reading"
  BY LeaveLocks DEF AnswerInv, TcpInv
<1>2. \A u \in Tasks : u # t => pc'[u] = pc[u] /\ cmd'[u] = cmd[u]
  BY DEF Leave, AnswerInv, TcpInv, CallersTyped
<1>3. pc'[t] # "queued"
  BY DEF Leave, AnswerInv, TcpInv, CallersTyped
<1>4. \A u \in Tasks : u # t => pc[u] # "reading"
  BY NobodyElseReads DEF AnswerInv, TcpInv
<1>5. \A j \in Numbers : sentOn'[j] # None => j <= Len(sent')
  BY <1>0 DEF AnswerInv, TurnInv
<1>6. \A j \in Numbers : answer'[j] # None => sentOn'[j] # None
  BY DEF AnswerInv, TurnInv
<1>7. Accounted'
  <2> SUFFICES ASSUME NEW j \in Numbers, sentOn'[j] # None
               PROVE  j \in givenUp' \/ answer'[j] # None
    BY DEF Accounted
  <2>1. CASE j = k
    BY <2>1
  <2>2. CASE j # k
    <3>1. j \in givenUp \/ answer[j] # None \/ \E u \in Tasks : pc[u] = "reading" /\ cmd[u] = j
      BY <2>2 DEF AnswerInv, TurnInv, Accounted
    <3>2. ~\E u \in Tasks : pc[u] = "reading" /\ cmd[u] = j
      <4> SUFFICES ASSUME NEW u \in Tasks, pc[u] = "reading", cmd[u] = j PROVE FALSE
        OBVIOUS
      <4>1. u = t
        BY <1>4
      <4>2. cmd[t] = k
        BY <4>1 DEF Holds
      <4> QED
        BY <2>2, <4>1, <4>2
    <3> QED
      BY <2>2, <3>1, <3>2
  <2> QED
    BY <2>1, <2>2
<1>8. QueueLater'
  <2> SUFFICES ASSUME NEW u \in Tasks, pc'[u] = "queued", NEW j \in Numbers, sentOn'[j] # None
               PROVE  j < cmd'[u]
    BY DEF QueueLater
  <2>1. u # t /\ pc[u] = "queued" /\ cmd'[u] = cmd[u]
    BY <1>2, <1>3
  <2>2. CASE j = k
    BY <2>1, <2>2, LaterThanHolder DEF AnswerInv, TcpInv
  <2>3. CASE j # k
    BY <2>1, <2>3 DEF AnswerInv, TurnInv, QueueLater
  <2> QED
    BY <2>2, <2>3
<1>9. ReaderLast'
  BY <1>1 DEF ReaderLast
<1> QED
  BY <1>5, <1>6, <1>7, <1>8, <1>9 DEF TurnInv

\* t waits for the answer to k, which is the last command written.
LEMMA TurnWaits ==
  ASSUME AnswerInv, NEW t \in Tasks, NEW k, NEW c \in Conns, Holds(t, k), Wait(t, k, c),
         sent' \in Seq(Commands), sentOn' = [sentOn EXCEPT ![k] = c], answer[k] = None,
         \A j \in Numbers : sentOn[j] # None => j <= k, conn'[c].inbox = <<>>
  PROVE  TurnInv'
<1>0. /\ Len(sent) \in Nat /\ Len(sent') \in Nat /\ Len(sent) <= Len(sent')
      /\ k \in Numbers /\ k \in Nat /\ k <= Len(sent') /\ Numbers \subseteq Nat \ {0}
  BY SentGrows, HistoryFacts DEF AnswerInv
<1>1. /\ sentOn'[k] = c /\ c # None /\ \A j \in Numbers : j # k => sentOn'[j] = sentOn[j]
      /\ answer' = answer /\ givenUp' = givenUp
  BY <1>0, HistoryFacts DEF Wait
<1>2. /\ \A u \in Tasks : u # t => pc'[u] = pc[u] /\ cmd'[u] = cmd[u]
      /\ pc'[t] = "reading" /\ cmd'[t] = k /\ on'[t] = c
  BY DEF Wait, AnswerInv, TcpInv, CallersTyped
<1>3. \A u \in Tasks : u # t => pc[u] # "reading" /\ pc'[u] # "reading"
  BY <1>2, NobodyElseReads DEF AnswerInv, TcpInv
<1>4. \A j \in Numbers : sentOn'[j] # None => j <= k /\ j <= Len(sent')
  <2> SUFFICES ASSUME NEW j \in Numbers, sentOn'[j] # None PROVE j <= k /\ j <= Len(sent')
    OBVIOUS
  <2>1. j \in Nat
    BY <1>0
  <2>2. j <= k
    BY <1>0, <1>1
  <2> QED
    BY <1>0, <2>1, <2>2
<1>5. \A j \in Numbers : answer'[j] # None => sentOn'[j] # None
  BY <1>1 DEF AnswerInv, TurnInv
<1>6. Accounted'
  <2> SUFFICES ASSUME NEW j \in Numbers, sentOn'[j] # None, j # k
               PROVE  j \in givenUp' \/ answer'[j] # None
    BY <1>2 DEF Accounted
  <2>1. j \in givenUp \/ answer[j] # None \/ \E u \in Tasks : pc[u] = "reading" /\ cmd[u] = j
    BY <1>1 DEF AnswerInv, TurnInv, Accounted
  <2>2. \A u \in Tasks : pc[u] = "reading" => cmd[u] = k
    BY <1>3 DEF Holds
  <2> QED
    BY <1>1, <2>1, <2>2
<1>7. QueueLater'
  <2> SUFFICES ASSUME NEW u \in Tasks, pc'[u] = "queued", NEW j \in Numbers, sentOn'[j] # None
               PROVE  j < cmd'[u]
    BY DEF QueueLater
  <2>1. u # t /\ pc[u] = "queued" /\ cmd'[u] = cmd[u]
    BY <1>2
  <2>2. CASE j = k
    BY <2>1, <2>2, LaterThanHolder DEF AnswerInv, TcpInv
  <2>3. CASE j # k
    BY <1>1, <2>1, <2>3 DEF AnswerInv, TurnInv, QueueLater
  <2> QED
    BY <2>2, <2>3
<1>8. ReaderLast'
  BY <1>1, <1>2, <1>3, <1>4 DEF ReaderLast
<1> QED
  BY <1>4, <1>5, <1>6, <1>7, <1>8 DEF TurnInv

\* The search of the bytes b that have come on the stream for command k, which
\* has been written to it, whatever it ends with; i, o and q are what is left on
\* the connection.
LEMMA SearchAnswers ==
  ASSUME AnswerInv, NEW t \in Tasks, NEW k, Holds(t, k), sent' \in Seq(Commands),
         stream \in Conns, stream' = stream,
         sentOn' = [sentOn EXCEPT ![k] = stream], answer[k] = None,
         \A j \in Numbers : sentOn[j] # None => j <= k,
         NEW b \in Seq(Bytes), Search(t, k, stream, b), NEW i, NEW o, NEW q,
         conn'[stream].inbox = i, conn'[stream].coming = o, conn'[stream].asked = q,
         Found(b) = {} => i = <<>>,
         Flow(b, i, o, q),
         \A n \in Ahead(b, i, o, q) :
            n \in Numbers /\ sentOn'[n] = stream /\ \A j \in Numbers : answer[j] # None => answer[j] < n
  PROVE  FlowInv' /\ TurnInv' /\ OwnAnswer'
<1>0. /\ Numbers \subseteq Nat \ {0} /\ None \notin Numbers /\ None \notin Conns /\ k \in Numbers
      /\ sentOn \in [Numbers -> Conns \cup {None}]
      /\ answer \in [Numbers -> Numbers \cup {None}] /\ givenUp \subseteq Numbers
      /\ \A j \in Numbers : answer[j] # None =>
            answer[j] \in Numbers /\ answer[j] <= j /\ sentOn[j] # None
  BY HistoryFacts DEF Holds
<1>1. sentOn'[k] = stream /\ \A j \in Numbers : j # k => sentOn'[j] = sentOn[j]
  BY <1>0
<1>2. CASE Found(b) # {}
  <2> DEFINE n == Extracted(b).of
  <2>1. rxbuf' = Rest(b) /\ Leave(t) /\ answer' = [answer EXCEPT ![k] = n] /\ givenUp' = givenUp
    BY <1>2 DEF Search, Return
  <2>2. /\ n \in Ahead(b, i, o, q) /\ n \in Numbers /\ Flow(Rest(b), i, o, q)
        /\ Ahead(Rest(b), i, o, q) \subseteq Ahead(b, i, o, q)
        /\ Precede({n}, Ahead(Rest(b), i, o, q))
    BY <1>2, FlowExtract
  <2> HIDE DEF n
  <2>3. answer'[k] = n /\ \A j \in Numbers : j # k => answer'[j] = answer[j]
    BY <1>0, <2>1, <2>2
  <2>4. FlowInv'
    <3>1. Ahead(Rest(b), i, o, q) \subseteq Fresh'
      <4> SUFFICES ASSUME NEW m \in Ahead(Rest(b), i, o, q) PROVE m \in Fresh'
        OBVIOUS
      <4>1. m \in Numbers /\ sentOn'[m] = stream /\ n < m
            /\ \A j \in Numbers : answer[j] # None => answer[j] < m
        BY <2>2 DEF Precede
      <4>2. \A j \in Numbers : answer'[j] # None => answer'[j] < m
        BY <2>3, <4>1
      <4> QED
        BY <4>1, <4>2 DEF Fresh
    <3> QED
      BY <2>1, <2>2, <3>1 DEF FlowInv
  <2>5. \A j \in Numbers : j # k /\ sentOn[j] # None => j \in givenUp \/ answer[j] # None
    <3> SUFFICES ASSUME NEW j \in Numbers, j # k, sentOn[j] # None
                 PROVE  j \in givenUp \/ answer[j] # None
      OBVIOUS
    <3>1. j \in givenUp \/ answer[j] # None \/ \E u \in Tasks : pc[u] = "reading" /\ cmd[u] = j
      BY DEF AnswerInv, TurnInv, Accounted
    <3>2. \A u \in Tasks : pc[u] = "reading" => cmd[u] = k
      BY NobodyElseReads DEF Holds, AnswerInv, TcpInv
    <3> QED
      BY <3>1, <3>2
  <2>6. OwnAnswer'
    BY <1>0, <2>1, <2>2, <2>5, OwnGiven
  <2>7. /\ \A j \in Numbers : j # k => sentOn'[j] = sentOn[j] /\ answer'[j] = answer[j]
        /\ \A j \in Numbers : sentOn[j] # None => sentOn'[j] # None
        /\ givenUp \subseteq givenUp' /\ answer'[k] # None /\ sentOn'[k] # None
    BY <1>0, <1>1, <2>1, <2>2, <2>3
  <2>8. TurnInv'
    BY <2>1, <2>7, TurnLeft
  <2> QED
    BY <2>4, <2>6, <2>8
<1>3. CASE ~(Found(b) # {})
  <2>1. rxbuf' = Trim(b) /\ (Wait(t, k, stream) \/ Fail(t, k))
    BY <1>3 DEF Search
  <2>2. answer' = answer /\ givenUp \subseteq givenUp'
    BY <2>1 DEF Wait, Fail
  <2>3. Flow(Trim(b), i, o, q) /\ Ahead(Trim(b), i, o, q) \subseteq Ahead(b, i, o, q)
    BY FlowTrim
  <2>4. FlowInv'
    <3>1. Ahead(Trim(b), i, o, q) \subseteq Fresh'
      BY <2>2, <2>3 DEF Fresh
    <3> QED
      BY <2>1, <2>3, <3>1 DEF FlowInv
  <2>5. OwnAnswer'
    BY <1>0, <2>2, OwnKept
  <2>6. CASE Fail(t, k)
    <3>1. Leave(t) /\ k \in givenUp'
      BY <2>6 DEF Fail
    <3>2. /\ \A j \in Numbers : j # k => sentOn'[j] = sentOn[j] /\ answer'[j] = answer[j]
          /\ \A j \in Numbers : sentOn[j] # None => sentOn'[j] # None
          /\ sentOn'[k] # None
      BY <1>0, <1>1, <2>2
    <3>3. TurnInv'
      BY <2>2, <3>1, <3>2, TurnLeft
    <3> QED
      BY <2>4, <2>5, <3>3
  <2>7. CASE Wait(t, k, stream)
    <3>1. conn'[stream].inbox = <<>>
      BY <1>3
    <3>2. TurnInv'
      BY <2>7, <3>1, TurnWaits
    <3> QED
      BY <2>4, <2>5, <3>2
  <2> QED
    BY <2>1, <2>6, <2>7
<1> QED
  BY <1>2, <1>3

\* A command that is yet to be written comes after all that were.
LEMMA Unwritten ==
  ASSUME AnswerInv, NEW t \in Tasks, NEW k, Holds(t, k), pc[t] # "reading"
  PROVE  answer[k] = None /\ \A j \in Numbers : sentOn[j] # None => j < k
<1>0. /\ Numbers \subseteq Nat \ {0} /\ k \in Numbers
      /\ \A j \in Numbers : answer[j] # None =>
            answer[j] \in Numbers /\ answer[j] <= j /\ sentOn[j] # None
  BY HistoryFacts DEF Holds
<1>1. \A j \in Numbers : sentOn[j] # None => j < k
  <2>1. CASE k = Len(sent) + 1
    <3>1. Len(sent) \in Nat
      BY DEF AnswerInv, TcpInv, CallersTyped
    <3>2. \A j \in Numbers : sentOn[j] # None => j <= Len(sent)
      BY DEF AnswerInv, TurnInv
    <3> QED
      BY <1>0, <2>1, <3>1, <3>2
  <2>2. CASE pc[t] = "queued" /\ cmd[t] = k
    BY <2>2 DEF AnswerInv, TurnInv, QueueLater
  <2> QED
    BY <2>1, <2>2 DEF Holds
<1> QED
  BY <1>0, <1>1

LEMMA FlowOf ==
  ASSUME AnswerInv, stream \in Conns
  PROVE  LET s == conn[stream] IN
         /\ rxbuf \in Seq(Bytes) /\ s.asked \in Seq(Numbers) /\ s.coming \in Seq(Bytes)
         /\ s.inbox \in Seq(Bytes)
         /\ Flow(rxbuf, s.inbox, s.coming, s.asked)
         /\ Ahead(rxbuf, s.inbox, s.coming, s.asked) \subseteq Fresh
<1>1. stream # None
  BY HistoryFacts
<1> QED
  BY <1>1, ConnRecord DEF AnswerInv, FlowInv, TcpInv, FieldsTyped

\* What lies before the search that follows a write.
LEMMA BeforeFlow ==
  ASSUME AnswerInv, stream \in Conns
  PROVE  LET s == conn[stream]
             left == IF Found(rxbuf) # {} THEN s.inbox ELSE <<>>
         IN /\ Before \in Seq(Bytes) /\ Flow(Before, left, s.coming, s.asked)
            /\ Ahead(Before, left, s.coming, s.asked) \subseteq Fresh
            /\ Found(Before) = {} => left = <<>>
<1> DEFINE s == conn[stream]
<1>1. /\ rxbuf \in Seq(Bytes) /\ s.inbox \in Seq(Bytes)
      /\ Flow(rxbuf, s.inbox, s.coming, s.asked)
      /\ Ahead(rxbuf, s.inbox, s.coming, s.asked) \subseteq Fresh
  BY FlowOf
<1>2. CASE Found(rxbuf) # {}
  BY <1>1, <1>2 DEF Before
<1>3. CASE ~(Found(rxbuf) # {})
  <2> DEFINE i == s.inbox
             o == s.coming
             q == s.asked
  <2>0. i = s.inbox /\ o = s.coming /\ q = s.asked
    OBVIOUS
  <2> HIDE DEF i, o, q
  <2>1. /\ Trim(rxbuf) \in Seq(Bytes) /\ Flow(Trim(rxbuf), i, o, q)
        /\ Ahead(Trim(rxbuf), i, o, q) \subseteq Ahead(rxbuf, i, o, q)
    BY <1>1, <2>0, FlowTrim
  <2>2. /\ Trim(rxbuf) \o i \in Seq(Bytes) /\ Flow(Trim(rxbuf) \o i, <<>>, o, q)
        /\ Ahead(Trim(rxbuf) \o i, <<>>, o, q) \subseteq Ahead(Trim(rxbuf), i, o, q)
    BY <1>1, <2>0, <2>1, FlowRead
  <2> QED
    BY <1>1, <1>3, <2>0, <2>1, <2>2 DEF Before
<1> QED
  BY <1>2, <1>3

LEMMA WrittenAnswers ==
  ASSUME AnswerInv, NEW t \in Tasks, NEW k, Holds(t, k), pc[t] # "reading", sent' \in Seq(Commands),
         Written(t, k)
  PROVE  FlowInv' /\ TurnInv' /\ OwnAnswer'
<1>0. /\ Numbers \subseteq Nat \ {0} /\ None \notin Conns /\ k \in Numbers /\ k \in Nat
      /\ sentOn \in [Numbers -> Conns \cup {None}]
      /\ \A j \in Numbers : answer[j] # None =>
            answer[j] \in Numbers /\ answer[j] <= j /\ sentOn[j] # None
  BY HistoryFacts DEF Holds
<1>1. /\ stream \in Conns /\ conn[stream].status \in {"up", "fin"}
      /\ sentOn' = [sentOn EXCEPT ![k] = stream]
      /\ Before \in Seq(Bytes) /\ Search(t, k, stream, Before)
      /\ conn' = [conn EXCEPT ![stream] = Reached(k)]
      /\ stream' = stream
  BY WrittenIs DEF AnswerInv
<1>2. answer[k] = None /\ \A j \in Numbers : sentOn[j] # None => j < k
  BY Unwritten
<1> DEFINE s == conn[stream]
           i == IF Found(rxbuf) # {} THEN s.inbox ELSE <<>>
           o == s.coming
           q == IF s.status = "up" THEN Append(s.asked, k) ELSE s.asked
<1>3. conn'[stream].inbox = i /\ conn'[stream].coming = o /\ conn'[stream].asked = q
  <2>1. conn'[stream] = Reached(k)
    BY <1>1 DEF AnswerInv, TcpInv, ConnsTyped
  <2> QED
    BY <2>1 DEF Reached
<1>4. /\ s.asked \in Seq(Numbers) /\ Flow(Before, i, o, s.asked)
      /\ Ahead(Before, i, o, s.asked) \subseteq Fresh /\ (Found(Before) = {} => i = <<>>)
  BY <1>1, FlowOf, BeforeFlow
<1>5. \A n \in Fresh : /\ n \in Numbers /\ n < k /\ sentOn'[n] = stream
                       /\ \A j \in Numbers : answer[j] # None => answer[j] < n
  BY <1>0, <1>1, <1>2 DEF Fresh
<1>6. \A j \in Numbers : answer[j] # None => answer[j] < k
  <2> SUFFICES ASSUME NEW j \in Numbers, answer[j] # None PROVE answer[j] < k
    OBVIOUS
  <2>1. answer[j] \in Nat /\ j \in Nat /\ answer[j] <= j /\ j < k
    BY <1>0, <1>2
  <2> QED
    BY <1>0, <2>1
<1>7. Flow(Before, i, o, q) /\ Ahead(Before, i, o, q) \subseteq Ahead(Before, i, o, s.asked) \cup {k}
  <2>1. CASE s.status = "up"
    <3>1. Precede(Ahead(Before, i, o, s.asked), {k})
      BY <1>4, <1>5 DEF Precede
    <3> DEFINE w == s.asked
    <3>2. w \in Seq(Numbers) /\ Flow(Before, i, o, w) /\ Precede(Ahead(Before, i, o, w), {k})
      BY <1>4, <3>1
    <3> HIDE DEF w, i, o
    <3>3. /\ Flow(Before, i, o, Append(w, k))
          /\ Ahead(Before, i, o, Append(w, k)) = Ahead(Before, i, o, w) \cup {k}
      BY <1>0, <3>2, FlowAsk
    <3> QED
      BY <2>1, <3>3 DEF w
  <2>2. CASE s.status # "up"
    BY <1>4, <2>2
  <2> QED
    BY <2>1, <2>2
<1>8. \A n \in Ahead(Before, i, o, q) :
         /\ n \in Numbers /\ sentOn'[n] = stream
         /\ \A j \in Numbers : answer[j] # None => answer[j] < n
  <2>1. sentOn'[k] = stream
    BY <1>0, <1>1
  <2> HIDE DEF i, o, q
  <2> QED
    BY <1>0, <1>4, <1>5, <1>6, <1>7, <2>1
<1>9. \A j \in Numbers : sentOn[j] # None => j <= k
  <2> SUFFICES ASSUME NEW j \in Numbers, sentOn[j] # None PROVE j <= k
    OBVIOUS
  <2>1. j \in Nat /\ j < k
    BY <1>0, <1>2
  <2> QED
    BY <1>0, <2>1
<1> HIDE DEF s, i, o, q
<1> QED
  BY <1>1, <1>2, <1>3, <1>4, <1>7, <1>8, <1>9, SearchAnswers

\* Command k fails and nothing is written for it.
LEMMA GivenUpAnswers ==
  ASSUME AnswerInv, NEW t \in Tasks, NEW k, Holds(t, k), Fail(t, k), sent' \in Seq(Commands),
         sentOn' = sentOn
  PROVE  TurnInv' /\ OwnAnswer' /\ answer' = answer
<1>1. Leave(t) /\ answer' = answer /\ givenUp' = givenUp \cup {k} /\ k \in Numbers
  BY DEF Fail, Holds
<1>2. OwnAnswer'
  BY <1>1, OwnKept
<1>3. answer'[k] # None => sentOn'[k] # None
  BY <1>1, HistoryFacts
<1>4. TurnInv'
  BY <1>1, <1>3, TurnLeft
<1> QED
  BY <1>1, <1>2, <1>4

LEMMA FlowSame ==
  ASSUME FlowInv, UNCHANGED <<stream, rxbuf, sentOn, answer>>, stream # None => conn'[stream] = conn[stream]
  PROVE  FlowInv'
BY DEF FlowInv, Fresh

LEMMA FlowNone ==
  ASSUME stream' = None
  PROVE  FlowInv'
BY DEF FlowInv

LEMMA TransmitAnswers ==
  ASSUME AnswerInv, NEW t \in Tasks, NEW k, Holds(t, k), pc[t] # "reading", sent' \in Seq(Commands),
         Transmit(t, k)
  PROVE  FlowInv' /\ TurnInv' /\ OwnAnswer'
<1>1. CASE NoWriter(t, k)
  BY <1>1, GivenUpAnswers, FlowNone DEF NoWriter, fields
<1>2. CASE Broken(t, k)
  BY <1>2, GivenUpAnswers, FlowNone DEF Broken, InvalidateSocket
<1> QED
  BY <1>1, <1>2, WrittenAnswers DEF Transmit

LEMMA LockedAnswers ==
  ASSUME AnswerInv, NEW t \in Tasks, Locked(t)
  PROVE  FlowInv' /\ TurnInv' /\ OwnAnswer'
<1>1. pc[t] = "queued" /\ Transmit(t, cmd[t]) /\ sent' = sent /\ Head(queue) = t
  BY DEF Locked
<1>2. Holds(t, cmd[t]) /\ sent' \in Seq(Commands)
  BY <1>1, HoldsOld DEF AnswerInv, TcpInv, CallersTyped
<1> QED
  BY <1>1, <1>2, TransmitAnswers

LEMMA GivesUpAnswers ==
  ASSUME AnswerInv, NEW t \in Tasks, TimeOut(t) \/ EndOfStream(t)
  PROVE  FlowInv' /\ TurnInv' /\ OwnAnswer'
<1>1. pc[t] = "reading" /\ Fail(t, cmd[t]) /\ UNCHANGED <<sent, sentOn>>
  BY DEF TimeOut, EndOfStream
<1>2. Holds(t, cmd[t]) /\ sent' \in Seq(Commands)
  <2>1. Head(queue) = t
    BY <1>1 DEF AnswerInv, TcpInv, LockInv
  <2> QED
    BY <1>1, <2>1, HoldsOld DEF AnswerInv, TcpInv, CallersTyped
<1>3. TurnInv' /\ OwnAnswer' /\ answer' = answer
  BY <1>1, <1>2, GivenUpAnswers
<1>4. CASE UNCHANGED <<fields, conn>>
  BY <1>1, <1>3, <1>4, FlowSame DEF fields, AnswerInv
<1>5. CASE InvalidateSocket
  BY <1>3, <1>5, FlowNone DEF InvalidateSocket
<1> QED
  BY <1>3, <1>4, <1>5 DEF TimeOut, EndOfStream

\* Nothing is written or answered: some may go to an await outside send(), or
\* begin to wait for the lock.
LEMMA TurnKept ==
  ASSUME AnswerInv, UNCHANGED history, Len(sent) \in Nat, Len(sent') \in Nat, Len(sent) <= Len(sent'),
         \A u \in Tasks : pc'[u] = "reading" <=> pc[u] = "reading",
         \A u \in Tasks : pc[u] = "reading" =>
            cmd'[u] = cmd[u] /\ on'[u] = on[u] /\ conn'[on[u]].inbox = <<>>,
         \A u \in Tasks : pc'[u] = "queued" =>
            \/ pc[u] = "queued" /\ cmd'[u] = cmd[u]
            \/ \A j \in Numbers : sentOn[j] # None => j < cmd'[u]
  PROVE  TurnInv' /\ OwnAnswer'
<1>0. sentOn' = sentOn /\ answer' = answer /\ givenUp' = givenUp
  BY DEF history
<1>1. OwnAnswer'
  BY <1>0 DEF AnswerInv, OwnAnswer
<1>2. \A j \in Numbers : sentOn'[j] # None => j <= Len(sent')
  <2> SUFFICES ASSUME NEW j \in Numbers, sentOn[j] # None PROVE j <= Len(sent')
    BY <1>0
  <2>1. j \in Nat
    BY HistoryFacts
  <2>2. j <= Len(sent)
    BY DEF AnswerInv, TurnInv
  <2> QED
    BY <2>1, <2>2
<1>3. \A j \in Numbers : answer'[j] # None => sentOn'[j] # None
  BY <1>0 DEF AnswerInv, TurnInv
<1>4. Accounted'
  BY <1>0 DEF AnswerInv, TurnInv, Accounted
<1>5. QueueLater'
  BY <1>0 DEF AnswerInv, TurnInv, QueueLater
<1>6. ReaderLast'
  BY <1>0 DEF AnswerInv, TurnInv, ReaderLast
<1> QED
  BY <1>1, <1>2, <1>3, <1>4, <1>5, <1>6 DEF TurnInv

\* What may become of a connection that a command waits on: its bytes stay, or
\* it is emptied.
LEMMA ReadInbox ==
  ASSUME AnswerInv, NEW u \in Tasks, pc[u] = "reading"
  PROVE  on[u] \in Conns /\ conn[on[u]].inbox = <<>>
BY DEF AnswerInv, TurnInv, ReaderLast, TcpInv, LockInv

LEMMA EnqueueAnswers ==
  ASSUME AnswerInv, NEW t \in Tasks, pc[t] \in {"idle", "ready"}, sent' \in Seq(Commands),
         Len(sent') = Len(sent) + 1, pc' = [pc EXCEPT ![t] = "queued"],
         cmd' = [cmd EXCEPT ![t] = Len(sent) + 1], UNCHANGED <<on, fields, conn, history>>
  PROVE  FlowInv' /\ TurnInv' /\ OwnAnswer'
<1>0. /\ Len(sent) \in Nat /\ Len(sent') \in Nat /\ Len(sent) <= Len(sent')
  <2>1. Len(sent) \in Nat
    BY DEF AnswerInv, TcpInv, CallersTyped
  <2> QED
    BY <2>1
<1>1. /\ \A u \in Tasks : u # t => pc'[u] = pc[u] /\ cmd'[u] = cmd[u]
      /\ pc'[t] = "queued" /\ cmd'[t] = Len(sent) + 1
  BY DEF AnswerInv, TcpInv, CallersTyped
<1>2. \A j \in Numbers : sentOn[j] # None => j < Len(sent) + 1
  <2> SUFFICES ASSUME NEW j \in Numbers, sentOn[j] # None PROVE j < Len(sent) + 1
    OBVIOUS
  <2>1. j \in Nat
    BY HistoryFacts
  <2>2. j <= Len(sent)
    BY DEF AnswerInv, TurnInv
  <2> QED
    BY <1>0, <2>1, <2>2
<1>3. TurnInv' /\ OwnAnswer'
  BY <1>0, <1>1, <1>2, ReadInbox, TurnKept
<1>4. FlowInv'
  BY FlowSame DEF AnswerInv, fields, history
<1> QED
  BY <1>3, <1>4

LEMMA SendAnswers ==
  ASSUME AnswerInv, NEW t \in Tasks, NEW kind \in Commands, pc[t] \in {"idle", "ready"}, Send(t, kind)
  PROVE  FlowInv' /\ TurnInv' /\ OwnAnswer'
<1>1. /\ sent' \in Seq(Commands) /\ Len(sent') = Len(sent) + 1
      /\ queue = <<>> => Holds(t, Len(sent) + 1)
  BY HoldsNew DEF AnswerInv
<1>2. CASE queue = <<>>
  BY <1>1, <1>2, TransmitAnswers DEF Send
<1>3. CASE queue # <<>>
  BY <1>1, <1>3, EnqueueAnswers DEF Send
<1> QED
  BY <1>2, <1>3

\* A task outside send() goes on to another await there.
LEMMA MoveAnswers ==
  ASSUME AnswerInv, NEW t \in Tasks, NEW p \in Places \ {"queued", "reading"},
         pc[t] \notin {"queued", "reading"}, pc' = [pc EXCEPT ![t] = p],
         NEW c, on' = on \/ on' = [on EXCEPT ![t] = c],
         cmd' = cmd, sent' = sent, history' = history,
         \A d \in Conns : conn[d].inbox = <<>> => conn'[d].inbox = <<>>
  PROVE  TurnInv' /\ OwnAnswer'
<1>1. Len(sent) \in Nat /\ Len(sent') \in Nat /\ Len(sent) <= Len(sent')
  <2>1. Len(sent) \in Nat
    BY DEF AnswerInv, TcpInv, CallersTyped
  <2> QED
    BY <2>1
<1>2. /\ \A u \in Tasks : u # t => pc'[u] = pc[u] /\ on'[u] = on[u]
      /\ pc'[t] = p
  BY DEF AnswerInv, TcpInv, CallersTyped
<1> QED
  BY <1>1, <1>2, ReadInbox, TurnKept

LEMMA ClosedInbox ==
  ASSUME AnswerInv
  PROVE  /\ Closed(stream) \in [Conns -> Connections]
         /\ \A d \in Conns : conn[d].inbox = <<>> => Closed(stream)[d].inbox = <<>>
<1>1. conn \in [Conns -> Connections] /\ Quiet("closed") \in Connections /\ Quiet("closed").inbox = <<>>
  BY QuietTyped DEF AnswerInv, TcpInv, ConnsTyped
<1> QED
  BY <1>1 DEF Closed

LEMMA OpenedAnswers ==
  ASSUME AnswerInv, NEW t \in Tasks, Opened(t)
  PROVE  FlowInv' /\ TurnInv' /\ OwnAnswer'
<1>1. PICK c \in Conns : /\ stream' = c /\ conn' = [Closed(stream) EXCEPT ![c] = Quiet("up")]
                         /\ on' = [on EXCEPT ![t] = c]
  BY DEF Opened
<1>2. /\ pc[t] = "opening" /\ rxbuf' = <<>> /\ pc' = [pc EXCEPT ![t] = "draining"]
      /\ UNCHANGED <<cmd, sent, history>>
  BY DEF Opened
<1>3. Quiet("up").asked = <<>> /\ Quiet("up").coming = <<>> /\ Quiet("up").inbox = <<>>
  BY QuietTyped
<1>4. /\ conn'[c] = Quiet("up")
      /\ \A d \in Conns : conn[d].inbox = <<>> => conn'[d].inbox = <<>>
  BY <1>1, <1>3, ClosedInbox
<1>5. TurnInv' /\ OwnAnswer'
  <2>1. /\ "draining" \in Places \ {"queued", "reading"} /\ pc[t] \notin {"queued", "reading"}
        /\ on' = [on EXCEPT ![t] = c] /\ cmd' = cmd /\ sent' = sent /\ history' = history
    BY <1>1, <1>2 DEF Places, Waiting
  <2> QED
    BY <1>2, <1>4, <2>1, MoveAnswers, Zenon
<1>6. Flow(<<>>, <<>>, <<>>, <<>>) /\ Ahead(<<>>, <<>>, <<>>, <<>>) = {}
  BY OfNothing DEF Flow, Ahead, Precede
<1>7. FlowInv'
  BY <1>1, <1>2, <1>3, <1>4, <1>6 DEF FlowInv
<1> QED
  BY <1>5, <1>7

LEMMA ConnectFailedAnswers ==
  ASSUME AnswerInv, NEW t \in Tasks, ConnectFailed(t), pc[t] \in {"opening", "draining"}
  PROVE  FlowInv' /\ TurnInv' /\ OwnAnswer'
<1>1. /\ stream' = None /\ conn' = Closed(stream) /\ pc' = [pc EXCEPT ![t] = "idle"]
      /\ on' = [on EXCEPT ![t] = None] /\ UNCHANGED <<cmd, sent, history>>
  BY DEF ConnectFailed
<1>2. TurnInv' /\ OwnAnswer'
  <2>1. /\ "idle" \in Places \ {"queued", "reading"} /\ pc[t] \notin {"queued", "reading"}
        /\ on' = [on EXCEPT ![t] = None] /\ cmd' = cmd /\ sent' = sent /\ history' = history
        /\ \A d \in Conns : conn[d].inbox = <<>> => conn'[d].inbox = <<>>
    BY <1>1, ClosedInbox DEF Places
  <2> QED
    BY <1>1, <2>1, MoveAnswers, Zenon
<1> QED
  BY <1>1, <1>2, FlowNone

LEMMA StepAnswers ==
  ASSUME AnswerInv, NEW t \in Tasks, NEW p \in Places \ {"queued", "reading"},
         pc[t] \notin {"queued", "reading"}, pc' = [pc EXCEPT ![t] = p],
         on' \in {on, [on EXCEPT ![t] = None]}, UNCHANGED <<cmd, sent, history, stream, rxbuf, conn>>
  PROVE  FlowInv' /\ TurnInv' /\ OwnAnswer'
<1>1. TurnInv' /\ OwnAnswer'
  <2>1. /\ on' = on \/ on' = [on EXCEPT ![t] = None]
        /\ cmd' = cmd /\ sent' = sent /\ history' = history
        /\ \A d \in Conns : conn[d].inbox = <<>> => conn'[d].inbox = <<>>
    BY DEF history
  <2> QED
    BY <2>1, MoveAnswers, Zenon
<1> QED
  BY <1>1, FlowSame DEF AnswerInv, history

\* Something comes on a connection, and no command takes notice.
LEMMA LinkAnswers ==
  ASSUME AnswerInv, NEW c \in Conns, NEW x, conn' = [conn EXCEPT ![c] = x],
         stream' = stream, rxbuf' = rxbuf, pc' = pc, on' = on, cmd' = cmd, sent' = sent,
         history' = history,
         (conn[c].inbox = <<>> => x.inbox = <<>>) \/ Reader(c) = {},
         c = stream => /\ Flow(rxbuf, x.inbox, x.coming, x.asked)
                       /\ Ahead(rxbuf, x.inbox, x.coming, x.asked) \subseteq Fresh
  PROVE  FlowInv' /\ TurnInv' /\ OwnAnswer'
<1>1. conn'[c] = x /\ \A d \in Conns : d # c => conn'[d] = conn[d]
  BY DEF AnswerInv, TcpInv, ConnsTyped
<1>2. sentOn' = sentOn /\ answer' = answer
  BY DEF history
<1>3. FlowInv'
  <2>1. CASE c = stream
    BY <1>1, <1>2, <2>1 DEF FlowInv, Fresh
  <2>2. CASE c # stream
    <3>1. stream # None => stream \in Conns
      BY DEF AnswerInv, TcpInv, FieldsTyped
    <3> QED
      BY <1>1, <1>2, <2>2, <3>1, FlowSame DEF AnswerInv
  <2> QED
    BY <2>1, <2>2
<1>4. \A u \in Tasks : pc[u] = "reading" => conn'[on[u]].inbox = <<>>
  <2> SUFFICES ASSUME NEW u \in Tasks, pc[u] = "reading" PROVE conn'[on[u]].inbox = <<>>
    OBVIOUS
  <2>1. on[u] \in Conns /\ conn[on[u]].inbox = <<>>
    BY ReadInbox
  <2>2. on[u] = c => u \in Reader(c)
    BY DEF Reader, Waiting
  <2> QED
    BY <1>1, <2>1, <2>2
<1>5. Len(sent) \in Nat /\ Len(sent') \in Nat /\ Len(sent) <= Len(sent')
  <2>1. Len(sent) \in Nat
    BY DEF AnswerInv, TcpInv, CallersTyped
  <2> QED
    BY <2>1
<1>6. TurnInv' /\ OwnAnswer'
  BY <1>4, <1>5, TurnKept
<1> QED
  BY <1>3, <1>6

\* The gateway sends an answer to its first command, or none.
LEMMA AnsweredAnswers ==
  ASSUME AnswerInv, NEW c \in Conns, NEW bytes \in Seq(Bytes), Answered(c, bytes),
         InOrder(bytes), Of(bytes) \subseteq {Head(conn[c].asked)}
  PROVE  FlowInv' /\ TurnInv' /\ OwnAnswer'
<1> DEFINE s == conn[c]
           i == s.inbox
           o == s.coming \o bytes
           q == Tail(s.asked)
           x == Link("up", q, o, i)
<1>1. /\ s.asked \in Seq(Numbers) /\ s.asked # <<>> /\ s.coming \in Seq(Bytes)
  BY ConnRecord DEF AnswerInv, TcpInv, Answered
<1>2. conn' = [conn EXCEPT ![c] = x]
  BY AnsweredIs DEF AnswerInv, TcpInv
<1>3. /\ stream' = stream /\ rxbuf' = rxbuf /\ pc' = pc /\ on' = on /\ cmd' = cmd
      /\ sent' = sent /\ history' = history
  BY DEF Answered, fields, caller
<1>4. c = stream => Flow(rxbuf, i, o, q) /\ Ahead(rxbuf, i, o, q) \subseteq Fresh
  <2> SUFFICES ASSUME c = stream PROVE Flow(rxbuf, i, o, q) /\ Ahead(rxbuf, i, o, q) \subseteq Fresh
    OBVIOUS
  <2>1. /\ Flow(rxbuf, i, s.coming, s.asked)
        /\ Ahead(rxbuf, i, s.coming, s.asked) \subseteq Fresh
    BY FlowOf
  <2> DEFINE a == s.coming
             w == s.asked
  <2>2. /\ Flow(rxbuf, i, a, w) /\ Ahead(rxbuf, i, a, w) \subseteq Fresh
        /\ a \in Seq(Bytes) /\ w \in Seq(Numbers) /\ w # <<>> /\ Of(bytes) \subseteq {Head(w)}
    BY <1>1, <2>1
  <2> HIDE DEF a, w, i
  <2>3. Flow(rxbuf, i, a \o bytes, Tail(w)) /\ Ahead(rxbuf, i, a \o bytes, Tail(w)) \subseteq Ahead(rxbuf, i, a, w)
    BY <2>2, FlowAnswer
  <2> QED
    BY <2>2, <2>3 DEF a, w
<1>5. x.inbox = i /\ x.coming = o /\ x.asked = q
  BY DEF Link
<1>6. conn[c].inbox = <<>> => x.inbox = <<>>
  BY <1>5
<1> HIDE DEF x, i, o, q
<1> QED
  BY <1>2, <1>3, <1>4, <1>5, <1>6, LinkAnswers

LEMMA DisturbedAnswers ==
  ASSUME AnswerInv, NEW c \in Conns, NEW n \in Bursts, Disturbed(c, n)
  PROVE  FlowInv' /\ TurnInv' /\ OwnAnswer'
<1> DEFINE s == conn[c]
           z == [j \in 1..n |-> Noise]
           i == s.inbox
           o == s.coming \o z
           q == s.asked
           x == Link("up", q, o, i)
<1>1. s.coming \in Seq(Bytes)
  BY ConnRecord DEF AnswerInv, TcpInv
<1>2. conn' = [conn EXCEPT ![c] = x]
  BY DisturbedIs DEF AnswerInv, TcpInv
<1>3. /\ stream' = stream /\ rxbuf' = rxbuf /\ pc' = pc /\ on' = on /\ cmd' = cmd
      /\ sent' = sent /\ history' = history
  BY DEF Disturbed, fields, caller
<1>4. z \in Seq(Bytes) /\ Of(z) = {} /\ InOrder(z)
  <2>1. z \in Seq(Bytes) /\ \A j \in DOMAIN z : z[j] \in Stray
    BY NoiseTyped DEF Stray
  <2> QED
    BY <2>1, OfStray
<1> HIDE DEF z
<1>5. c = stream => Flow(rxbuf, i, o, q) /\ Ahead(rxbuf, i, o, q) \subseteq Fresh
  <2> SUFFICES ASSUME c = stream PROVE Flow(rxbuf, i, o, q) /\ Ahead(rxbuf, i, o, q) \subseteq Fresh
    OBVIOUS
  <2> DEFINE a == s.coming
  <2>1. Flow(rxbuf, i, a, q) /\ Ahead(rxbuf, i, a, q) \subseteq Fresh /\ a \in Seq(Bytes)
    BY <1>1, FlowOf
  <2> HIDE DEF a, q, i
  <2>2. Flow(rxbuf, i, a \o z, q) /\ Ahead(rxbuf, i, a \o z, q) \subseteq Ahead(rxbuf, i, a, q)
    BY <1>4, <2>1, FlowNoise
  <2> QED
    BY <2>1, <2>2 DEF a
<1>6. x.inbox = i /\ x.coming = o /\ x.asked = q
  BY DEF Link
<1>7. conn[c].inbox = <<>> => x.inbox = <<>>
  BY <1>6
<1> HIDE DEF x, i, o, q
<1> QED
  BY <1>2, <1>3, <1>5, <1>6, <1>7, LinkAnswers

\* The connection is closed: what has not arrived is lost.
LEMMA ClosesAnswers ==
  ASSUME AnswerInv, NEW c \in Conns, FinArrives(c) \/ ResetArrives(c)
  PROVE  FlowInv' /\ TurnInv' /\ OwnAnswer'
<1>1. /\ stream' = stream /\ rxbuf' = rxbuf /\ pc' = pc /\ on' = on /\ cmd' = cmd
      /\ sent' = sent /\ history' = history
  BY DEF FinArrives, ResetArrives, fields, caller
<1>2. PICK x : /\ conn' = [conn EXCEPT ![c] = x] /\ x.coming = <<>> /\ x.asked = <<>>
               /\ x.inbox \in {conn[c].inbox, <<>>}
  <2>1. CASE FinArrives(c)
    <3> DEFINE x == [Quiet("fin") EXCEPT !.inbox = conn[c].inbox]
    <3>1. conn' = [conn EXCEPT ![c] = x]
      BY <2>1 DEF FinArrives
    <3>2. x.coming = <<>> /\ x.asked = <<>> /\ x.inbox = conn[c].inbox
      BY DEF Quiet
    <3> QED
      BY <3>1, <3>2
  <2>2. CASE ResetArrives(c)
    BY <2>2, QuietTyped DEF ResetArrives
  <2> QED
    BY <2>1, <2>2
<1>3. ASSUME c = stream
      PROVE  /\ Flow(rxbuf, x.inbox, x.coming, x.asked)
             /\ Ahead(rxbuf, x.inbox, x.coming, x.asked) \subseteq Fresh
  <2> DEFINE r == rxbuf
             i == conn[c].inbox
             o == conn[c].coming
             q == conn[c].asked
  <2>1. Flow(r, i, o, q) /\ Ahead(r, i, o, q) \subseteq Fresh
    BY <1>3, FlowOf
  <2>2. x.inbox \in {i, <<>>}
    BY <1>2
  <2> HIDE DEF r, i, o, q
  <2>3. /\ InOrder(r) /\ InOrder(x.inbox) /\ InOrder(<<>>) /\ Rising(<<>>)
        /\ Of(x.inbox) \subseteq Of(i) /\ Of(<<>>) \subseteq Of(o) /\ Elements(<<>>) \subseteq Elements(q)
    BY <2>1, <2>2, OfNothing DEF Flow
  <2>4. /\ Flow(r, x.inbox, <<>>, <<>>)
        /\ Ahead(r, x.inbox, <<>>, <<>>) \subseteq Ahead(r, i, o, q)
    BY <2>1, <2>3, FlowLoses
  <2> QED
    BY <1>2, <2>1, <2>4 DEF r
<1>4. conn[c].inbox = <<>> => x.inbox = <<>>
  BY <1>2
<1> QED
  BY <1>1, <1>2, <1>3, <1>4, LinkAnswers

LEMMA DeliverAnswers ==
  ASSUME AnswerInv, NEW c \in Conns, NEW n, Deliver(c, n)
  PROVE  FlowInv' /\ TurnInv' /\ OwnAnswer'
<1> DEFINE s == conn[c]
           a == SubSeq(s.coming, 1, n)
           o == SubSeq(s.coming, n + 1, Len(s.coming))
           i == s.inbox
           q == s.asked
           x == Link("up", q, o, i)
           y == Link("up", q, o, i \o a)
<1>1. /\ s.status = "up" /\ a \in Seq(Bytes) /\ o \in Seq(Bytes) /\ s.coming = a \o o
      /\ UNCHANGED <<stream, connected, sent, sentOn, budget>>
      /\ \/ \E t \in Tasks :
               /\ pc[t] = "reading" /\ on[t] = c
               /\ conn' = [conn EXCEPT ![c] = x]
               /\ Search(t, cmd[t], c, rxbuf \o a)
         \/ /\ conn' = [conn EXCEPT ![c] = x]
            /\ UNCHANGED <<rxbuf, queue, pc, on, cmd, answer, givenUp>>
         \/ /\ conn' = [conn EXCEPT ![c] = y] /\ Reader(c) = {}
            /\ UNCHANGED <<rxbuf, queue, pc, on, cmd, answer, givenUp>>
  BY DeliverIs DEF AnswerInv, TcpInv
<1>2. i \in Seq(Bytes) /\ rxbuf \in Seq(Bytes)
  BY ConnRecord DEF AnswerInv, TcpInv, FieldsTyped
<1>3. c = stream => /\ Flow(rxbuf, i, a \o o, q) /\ Ahead(rxbuf, i, a \o o, q) \subseteq Fresh
  BY <1>1, FlowOf
<1>4. x.inbox = i /\ x.coming = o /\ x.asked = q /\ y.inbox = i \o a /\ y.coming = o /\ y.asked = q
  BY DEF Link
<1> HIDE DEF a, o, i, q, x, y
<1>5. c = stream => /\ Flow(rxbuf, i \o a, o, q) /\ Ahead(rxbuf, i \o a, o, q) \subseteq Fresh
                    /\ Flow(rxbuf, i, o, q) /\ Ahead(rxbuf, i, o, q) \subseteq Fresh
  <2> SUFFICES ASSUME c = stream
               PROVE  /\ Flow(rxbuf, i \o a, o, q) /\ Ahead(rxbuf, i \o a, o, q) \subseteq Fresh
                      /\ Flow(rxbuf, i, o, q) /\ Ahead(rxbuf, i, o, q) \subseteq Fresh
    OBVIOUS
  <2>1. Flow(rxbuf, i, a \o o, q) /\ Ahead(rxbuf, i, a \o o, q) \subseteq Fresh
    BY <1>3
  <2>2. /\ Flow(rxbuf, i \o a, o, q) /\ Ahead(rxbuf, i \o a, o, q) \subseteq Ahead(rxbuf, i, a \o o, q)
        /\ Flow(rxbuf, i, o, q) /\ Ahead(rxbuf, i, o, q) \subseteq Ahead(rxbuf, i, a \o o, q)
    BY <1>1, <1>2, <2>1, FlowArrives
  <2> QED
    BY <2>1, <2>2
<1>6. ASSUME NEW z, conn' = [conn EXCEPT ![c] = z], z = x \/ (z = y /\ Reader(c) = {}),
             UNCHANGED <<rxbuf, queue, pc, on, cmd, answer, givenUp>>
      PROVE  FlowInv' /\ TurnInv' /\ OwnAnswer'
  <2>2. (conn[c].inbox = <<>> => z.inbox = <<>>) \/ Reader(c) = {}
    BY <1>4, <1>6 DEF i
  <2>3. c = stream => /\ Flow(rxbuf, z.inbox, z.coming, z.asked)
                      /\ Ahead(rxbuf, z.inbox, z.coming, z.asked) \subseteq Fresh
    BY <1>4, <1>5, <1>6
  <2>4. history' = history
    BY <1>1, <1>6 DEF history
  <2> QED
    BY <1>1, <1>6, <2>2, <2>3, <2>4, LinkAnswers
<1>7. ASSUME NEW t \in Tasks, pc[t] = "reading", on[t] = c, conn' = [conn EXCEPT ![c] = x],
             Search(t, cmd[t], c, rxbuf \o a)
      PROVE  FlowInv' /\ TurnInv' /\ OwnAnswer'
  <2> DEFINE k == cmd[t]
  <2>1. Holds(t, k) /\ sent' \in Seq(Commands)
    <3>1. Head(queue) = t /\ sent' = sent
      BY <1>1, <1>7 DEF AnswerInv, TcpInv, LockInv
    <3> QED
      BY <1>7, <3>1, HoldsOld DEF AnswerInv
  <2>2. c = stream
    BY <1>1, HistoryFacts DEF AnswerInv, ClosedInv, Open
  <2>3. /\ sentOn[k] = stream /\ answer[k] = None /\ i = <<>>
        /\ \A j \in Numbers : sentOn[j] # None => j <= k
    BY <1>7, <2>2 DEF AnswerInv, TurnInv, ReaderLast, i
  <2>4. sentOn' = [sentOn EXCEPT ![k] = stream]
    BY <1>1, <2>1, <2>3 DEF Holds, AnswerInv, TcpInv, HistoryTyped
  <2>5. /\ rxbuf \o a \in Seq(Bytes) /\ Flow(rxbuf \o a, <<>>, o, q)
        /\ Ahead(rxbuf \o a, <<>>, o, q) \subseteq Fresh
    <3>1. <<>> \o a = a /\ <<>> \in Seq(Bytes)
      BY <1>1
    <3>2. Flow(rxbuf, a, o, q) /\ Ahead(rxbuf, a, o, q) \subseteq Fresh
      BY <1>5, <2>2, <2>3, <3>1
    <3>3. /\ rxbuf \o a \in Seq(Bytes) /\ Flow(rxbuf \o a, <<>>, o, q)
          /\ Ahead(rxbuf \o a, <<>>, o, q) \subseteq Ahead(rxbuf, a, o, q)
      BY <1>1, <1>2, <3>2, FlowRead
    <3> QED
      BY <3>2, <3>3
  <2>6. /\ conn'[stream].inbox = <<>> /\ conn'[stream].coming = o /\ conn'[stream].asked = q
    BY <1>4, <1>7, <2>2, <2>3 DEF AnswerInv, TcpInv, ConnsTyped
  <2>7. \A m \in Fresh : /\ m \in Numbers /\ sentOn'[m] = stream
                         /\ \A j \in Numbers : answer[j] # None => answer[j] < m
    BY <1>1 DEF Fresh
  <2>8. \A m \in Ahead(rxbuf \o a, <<>>, o, q) :
           /\ m \in Numbers /\ sentOn'[m] = stream
           /\ \A j \in Numbers : answer[j] # None => answer[j] < m
    BY <2>5, <2>7
  <2>9. Search(t, k, stream, rxbuf \o a) /\ stream \in Conns /\ stream' = stream
    BY <1>1, <1>7, <2>2
  <2> DEFINE b == rxbuf \o a
             e == <<>>
  <2>10. /\ b \in Seq(Bytes) /\ Flow(b, e, o, q) /\ Search(t, k, stream, b) /\ e = <<>>
         /\ conn'[stream].inbox = e
         /\ \A m \in Ahead(b, e, o, q) :
               /\ m \in Numbers /\ sentOn'[m] = stream
               /\ \A j \in Numbers : answer[j] # None => answer[j] < m
    BY <2>5, <2>6, <2>8, <2>9
  <2> HIDE DEF k, b, e
  <2> QED
    BY <2>1, <2>3, <2>4, <2>6, <2>9, <2>10, SearchAnswers
<1> QED
  BY <1>1, <1>6, <1>7

LEMMA NetworkAnswers ==
  ASSUME AnswerInv, NEW c \in Conns, Network(c)
  PROVE  FlowInv' /\ TurnInv' /\ OwnAnswer'
<1>1. CASE Answers(c) \/ Refuses(c)
  <2>1. PICK r \in BOOLEAN : conn[c].asked # <<>> /\ Answered(c, Reply(c, r))
    BY <1>1 DEF Answers, Refuses
  <2>2. PICK f \in Frames : f.of = Head(conn[c].asked) /\ Reply(c, r) = Encoded(f)
    BY <2>1, ReplyTyped DEF AnswerInv
  <2>3. Encoded(f) \in Seq(Bytes) /\ Of(Encoded(f)) \subseteq {f.of} /\ InOrder(Encoded(f))
    BY FrameTyped, OfFrame
  <2> QED
    BY <2>1, <2>2, <2>3, AnsweredAnswers
<1>2. CASE Ignores(c)
  <2>1. <<>> \in Seq(Bytes)
    OBVIOUS
  <2>2. Of(<<>>) = {} /\ InOrder(<<>>)
    BY OfNothing
  <2>3. Answered(c, <<>>) /\ Of(<<>>) \subseteq {Head(conn[c].asked)}
    BY <1>2, <2>2 DEF Ignores
  <2> QED
    BY <2>1, <2>2, <2>3, AnsweredAnswers
<1> QED
  BY <1>1, <1>2, DisturbedAnswers, DeliverAnswers, ClosesAnswers DEF Network

\* What the shutdown leaves of the fields and the connections.
LEMMA DisconnectAnswers ==
  ASSUME AnswerInv, UNCHANGED <<caller, history>>,
         \/ UNCHANGED <<stream, rxbuf, conn>>
         \/ conn' = Closed(stream) /\ UNCHANGED <<stream, rxbuf>>
         \/ conn' = Closed(stream) /\ stream' = None
  PROVE  FlowInv' /\ TurnInv' /\ OwnAnswer'
<1>0. UNCHANGED <<queue, pc, on, cmd, sent, sentOn, answer, givenUp>>
  BY DEF caller, history
<1>1. \A d \in Conns : conn[d].inbox = <<>> => conn'[d].inbox = <<>>
  BY ClosedInbox
<1>2. Len(sent) \in Nat /\ Len(sent') \in Nat /\ Len(sent) <= Len(sent')
  <2>1. Len(sent) \in Nat
    BY DEF AnswerInv, TcpInv, CallersTyped
  <2> QED
    BY <1>0, <2>1
<1>3. TurnInv' /\ OwnAnswer'
  BY <1>0, <1>1, <1>2, ReadInbox, TurnKept
<1>4. CASE UNCHANGED <<stream, rxbuf, conn>>
  BY <1>0, <1>3, <1>4, FlowSame DEF AnswerInv
<1>5. CASE conn' = Closed(stream) /\ UNCHANGED <<stream, rxbuf>>
  <2>1. CASE Open(stream)
    <3>1. stream \in Conns
      BY <2>1 DEF Open, AnswerInv, TcpInv, FieldsTyped
    <3> DEFINE i == conn[stream].inbox
               o == conn[stream].coming
               q == conn[stream].asked
    <3>2. Flow(rxbuf, i, o, q) /\ Ahead(rxbuf, i, o, q) \subseteq Fresh
      BY <3>1, FlowOf
    <3>3. conn'[stream] = Quiet("closed")
      BY <1>5, <2>1, <3>1 DEF Closed, AnswerInv, TcpInv, ConnsTyped
    <3>4. /\ conn'[stream].inbox = <<>> /\ conn'[stream].coming = <<>> /\ conn'[stream].asked = <<>>
      BY <3>3 DEF Quiet
    <3> HIDE DEF i, o, q
    <3>5. /\ InOrder(rxbuf) /\ InOrder(<<>>) /\ Rising(<<>>) /\ Of(<<>>) = {} /\ Elements(<<>>) = {}
      BY <3>2, OfNothing DEF Flow
    <3>6. Of(<<>>) \subseteq Of(i) /\ Of(<<>>) \subseteq Of(o) /\ Elements(<<>>) \subseteq Elements(q)
      BY <3>5
    <3>7. Flow(rxbuf, <<>>, <<>>, <<>>) /\ Ahead(rxbuf, <<>>, <<>>, <<>>) \subseteq Ahead(rxbuf, i, o, q)
      BY <3>2, <3>5, <3>6, FlowLoses
    <3>8. Fresh' = Fresh
      BY <1>0, <1>5 DEF Fresh
    <3> QED
      BY <1>3, <1>5, <3>2, <3>4, <3>7, <3>8 DEF FlowInv
  <2>2. CASE ~Open(stream)
    BY <1>0, <1>3, <1>5, <2>2, FlowSame DEF AnswerInv, Closed
  <2> QED
    BY <2>1, <2>2
<1>6. CASE stream' = None
  BY <1>3, <1>6, FlowNone
<1> QED
  BY <1>3, <1>4, <1>5, <1>6

LEMMA AnswerNext == AnswerInv /\ [Next]_vars => AnswerInv'
<1> SUFFICES ASSUME AnswerInv, [Next]_vars PROVE FlowInv' /\ TurnInv' /\ OwnAnswer'
  BY TcpNext, ClosedNext DEF AnswerInv
<1>1. ASSUME NEW t \in Tasks, NEW p \in Places \ {"queued", "reading"},
             pc[t] \notin {"queued", "reading"}, pc' = [pc EXCEPT ![t] = p],
             UNCHANGED <<stream, rxbuf, cmd, sent, conn, history>>,
             on' = on \/ on' = [on EXCEPT ![t] = None]
      PROVE  FlowInv' /\ TurnInv' /\ OwnAnswer'
  BY <1>1, StepAnswers
<1>2. ASSUME NEW t \in Tasks, StartConnect(t), pc[t] \in {"idle", "backoff"}
      PROVE  FlowInv' /\ TurnInv' /\ OwnAnswer'
  BY <1>1, <1>2 DEF StartConnect, Places
<1>3. ASSUME NEW t \in Tasks, EnsureConnected(t)
      PROVE  FlowInv' /\ TurnInv' /\ OwnAnswer'
  <2>1. pc[t] = "idle"
    BY <1>3 DEF EnsureConnected
  <2>2. CASE StartConnect(t)
    BY <1>2, <2>1, <2>2
  <2>3. CASE \E p \in {"ready", "backoff"} :
               /\ pc' = [pc EXCEPT ![t] = p]
               /\ UNCHANGED <<fields, queue, on, cmd, sent, conn, history, budget>>
    BY <1>1, <2>1, <2>3 DEF Places, fields
  <2> QED
    BY <1>3, <2>2, <2>3 DEF EnsureConnected
<1>4. ASSUME NEW t \in Tasks, Resume(t)
      PROVE  FlowInv' /\ TurnInv' /\ OwnAnswer'
  <2>1. CASE BackoffOver(t)
    BY <1>2, <2>1 DEF BackoffOver
  <2>2. CASE Drained(t)
    BY <1>1, <2>2 DEF Drained, Places, fields
  <2>3. CASE OpenFails(t) \/ Reset(t)
    BY <2>3, ConnectFailedAnswers DEF OpenFails, Reset
  <2>4. CASE Finish(t)
    BY <1>1, <2>4 DEF Finish, Places, fields
  <2> QED
    BY <1>4, <2>1, <2>2, <2>3, <2>4, OpenedAnswers, LockedAnswers, GivesUpAnswers
    DEF Resume, ConnectReturns
<1>5. ASSUME NEW t \in Tasks, NEW kind \in Asks[t], SendCommand(t, kind)
      PROVE  FlowInv' /\ TurnInv' /\ OwnAnswer'
  <2>1. kind \in Commands
    BY WireAssumption
  <2>2. pc[t] \in {"idle", "ready"} /\ Send(t, kind)
    BY <1>5 DEF SendCommand, MaySend
  <2> QED
    BY <2>1, <2>2, SendAnswers
<1>6. CASE UNCHANGED tcpVars
  BY <1>6, DisconnectAnswers DEF tcpVars, fields
<1>7. CASE Shutdown
  BY <1>6, <1>7, DisconnectAnswers DEF Shutdown, StartDisconnect, fields
<1>8. CASE ShutdownEnds
  BY <1>8, DisconnectAnswers DEF ShutdownEnds, Disconnected
<1>9. ASSUME NEW p, Notified(p)
      PROVE  FlowInv' /\ TurnInv' /\ OwnAnswer'
  BY <1>6, <1>9 DEF Notified
<1>10. CASE UNCHANGED vars
  BY <1>6, <1>10 DEF vars
<1> QED
  BY <1>3, <1>4, <1>5, <1>7, <1>8, <1>9, <1>10, NetworkAnswers DEF Next

\* tcp_rtu_transport.py: whatever is lost, late, garbled or closed, on a
\* connection the answers are given out in the order of the commands, none twice
\* and none of another connection; and a command is given another's answer only
\* if an earlier one on that connection has failed.
THEOREM AnswersInOrder == Spec => []OwnAnswer
<1>1. Init => AnswerInv
  <2> SUFFICES ASSUME Init PROVE AnswerInv
    OBVIOUS
  <2>1. /\ stream = None /\ pc = [t \in Tasks |-> "idle"]
        /\ sentOn = [k \in Numbers |-> None] /\ answer = [k \in Numbers |-> None]
    BY DEF Init, TcpInit
  <2>2. TurnInv /\ OwnAnswer
    BY <2>1 DEF TurnInv, Accounted, QueueLater, ReaderLast, OwnAnswer
  <2>3. ClosedInv
    BY DEF Init, TcpInit, ClosedInv, Open, Quiet, Places, Statused
  <2> QED
    BY <2>1, <2>2, <2>3, TcpStart DEF AnswerInv, FlowInv
<1>2. AnswerInv => OwnAnswer
  BY DEF AnswerInv
<1> QED
  BY <1>1, <1>2, AnswerNext, PTL DEF Spec
=============================================================================
