------------------------------ MODULE MCHarts ------------------------------
(* Small systems of harts for TLC: a supervisor (process 0), a server with *)
(* its clients, and a receiver with its senders.                           *)
EXTENDS Harts

CONSTANTS h1, h2, p0, p1, p2

(* Every hart has time slices of every process. *)
AllSlots       == [h \in Harts |-> Procs]
RootSupervises == [p \in Procs |-> IF p = p0 THEN Procs \ {p0} ELSE {}]

(* p1 serves or receives on every channel. *)
P1Receives == [ch \in Channels |-> p1]
RootCalls  == [ch \in Channels |-> {p0}]
BothCall   == [ch \in Channels |-> {p0, p2}]

(* p2 calls the server p1 on channel 0, and receives on the other what p1  *)
(* and the supervisor send.                                                *)
P1ServesP2Receives == [ch \in Channels |-> IF ch = 0 THEN p1 ELSE p2]
P2CallsOthersSend  == [ch \in Channels |-> IF ch = 0 THEN {p2} ELSE {p0, p1}]
============================================================================
