------------------------------- MODULE MCIpc -------------------------------
(* A system of MCHarts with its registers: the supervisor p0 and the       *)
(* client and receiver p2 have time slices on both harts, the server p1 on *)
(* one.                                                                    *)
EXTENDS MCHarts, Ipc

ServerOnOne == [h \in Harts |-> IF h = h1 THEN {p0, p2} ELSE Procs]
============================================================================
