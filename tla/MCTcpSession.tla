---------------------------- MODULE MCTcpSession ----------------------------
(* Two kinds of messages; the data of one looks like a mark. *)
EXTENDS TcpSession

MCMessages == {[cmd |-> 1, data |-> <<7>>], [cmd |-> 2, data |-> <<0, PB_END, 9>>]}
=============================================================================
