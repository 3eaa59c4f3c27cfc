-------------------------- MODULE ModbusRTUProtocol --------------------------
(***************************************************************************)
(* infrastructure/protocol/modbus_rtu_protocol.py: how the answer to a     *)
(* command is found among the bytes that came with it, and what it says.   *)
(*                                                                         *)
(* A byte belongs to a place of a frame, or is noise, a zero of the prefix *)
(* BLE notifications have, or part of the dashes the inverter sends for a  *)
(* batch it rejects.  The CRC is taken as perfect: a piece of the buffer   *)
(* passes it when it is one whole frame.  A byte here may stand for        *)
(* several of the wire; Size says how many a frame has.                    *)
(***************************************************************************)
EXTENDS Integers, Sequences

LOCAL INSTANCE FiniteSetsExt

CONSTANTS
  Commands,    \* what is asked: the kinds of command
  Code,        \* Code[k]: the function code of a command
  Size,        \* Size[k]: the length of its answer, which the byte count gives
  Numbers,     \* the commands themselves, numbered as they are sent
  Noise, Zero, Dash,
  MaxZeros,    \* _MAX_BLE_ZERO_PREFIX
  SyncWindow,  \* _MAX_FRAME_SEARCH_WINDOW + 1
  None

ASSUME ProtocolAssumption ==
  /\ DOMAIN Code = Commands /\ Size \in [Commands -> Nat \ {0}]
  /\ Numbers \subseteq Nat \ {0}
  /\ MaxZeros \in Nat /\ SyncWindow \in Nat \ {0}

Frames == [of: Numbers, kind: Commands, refused: BOOLEAN]

\* None stands for "no frame" and "no command".
ASSUME NoneAssumption == None \notin Frames \cup Numbers

\* An exception frame is the shortest one.
Length(f) == IF f.refused THEN 1 ELSE Size[f.kind]

Encoded(f) == [i \in 1..Length(f) |-> [frame |-> f, at |-> i]]

Stray == {Noise, Zero, Dash}

Bytes == Stray \cup [frame: Frames, at: Nat \ {0}]

\* The piece of b from i on is a frame with a valid CRC.
FrameAt(b, i) ==
  /\ i \in DOMAIN b /\ b[i] \notin Stray /\ b[i].at = 1
  /\ i + Length(b[i].frame) - 1 <= Len(b)
  /\ SubSeq(b, i, i + Length(b[i].frame) - 1) = Encoded(b[i].frame)

\* An answer has the function code and the byte count of the command, an
\* exception only its function code.
Fits(f, k) == IF f.refused THEN Code[f.kind] = Code[k] ELSE f.kind = k

-----------------------------------------------------------------------------
(* Decoding *)

StripLeadingZeroPadding(b) ==
  LET zeros == {i \in 0..Len(b) : i <= MaxZeros /\ \A j \in 1..i : b[j] = Zero}
  IN SubSeq(b, Max(zeros) + 1, Len(b))

\* _sync_frame_from_command(): where frames that fit the command begin.
Synced(b, k) ==
  {i \in 1..Len(b) : i <= SyncWindow /\ FrameAt(b, i) /\ Fits(b[i].frame, k)}

MutantIgnoresException(f) == [verdict |-> "values", frame |-> f]

ParseValidatedFrame(f) == [verdict |-> IF f.refused THEN "refused" ELSE "values", frame |-> f]

Nothing(verdict) == [verdict |-> verdict, frame |-> None]

\* A frame at the very beginning is taken even when it does not fit.
TrimAndParse(b) ==
  IF FrameAt(b, 1) THEN ParseValidatedFrame(b[1].frame) ELSE Nothing("ValueError")

DecodeResponse(b, k) ==
  LET body == StripLeadingZeroPadding(b)
      starts == Synced(body, k)
  IN IF body = <<>> THEN Nothing("ValueError")
     ELSE IF body[1] = Dash THEN Nothing("unsupported_register")
     ELSE IF starts # {} THEN ParseValidatedFrame(body[Min(starts)].frame)
     ELSE TrimAndParse(body)

Verdicts == [verdict: {"values", "refused"}, frame: Frames]
            \cup [verdict: {"ValueError", "unsupported_register"}, frame: {None}]
=============================================================================
