------------------------------- MODULE MCWire -------------------------------
(* An instance of Wire: a refresh, a read and a write over two connections,  *)
(* and notifications with a prefix, noise and one frame or two.              *)
EXTENDS Wire, TLC

CONSTANTS read, long, write, poll, ask, set

MCCode == read :> 3 @@ long :> 3 @@ write :> 6
MCAsks == poll :> {read} @@ ask :> {read} @@ set :> {write}
MCSize == read :> 2 @@ long :> 3 @@ write :> 2

Heads == {<<>>, <<Zero>>, <<Zero, Zero, Zero>>, <<Noise>>, <<Noise, Noise>>, <<Dash>>, <<Zero, Dash>>}
Whole == {Encoded([of |-> n, kind |-> k, refused |-> x]) : n \in {1}, k \in Commands, x \in BOOLEAN}
Cut == {SubSeq(f, 1, 1) : f \in Whole} \cup {<<>>}
MCPayloads == {[kind |-> k, bytes |-> h \o a \o b] :
                 k \in Commands, h \in Heads, a \in Whole \cup Cut, b \in Whole \cup {<<>>, <<Noise>>}}
=============================================================================
