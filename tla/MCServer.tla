------------------------------ MODULE MCServer ------------------------------
(***************************************************************************)
(* Server for TLC: a client sending up to three requests drawn from a    *)
(* few commands, delivered whole or split after two bytes.               *)
(***************************************************************************)
EXTENDS Server

\* A reader-pool command, a backend command, and auth with the password
\* (answered on the loop; any other command before it is answered noauth).
MCRequests == {<<<<"r">>>>, <<<<"b">>>>, <<AUTH, <<"k">>>>}
MCPassword == <<"k">>
MCChunks == {2}
\* A client pipelines up to three requests.
MCMaxRequests == [c \in Clients |-> 3]
====
