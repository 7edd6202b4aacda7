---------------------------- MODULE MCTcpServer ----------------------------
(* Three connection objects over fds 1 and 2 (0 is the listening socket):  *)
(* at most two connections are open, a third must wait for a close, then  *)
(* reuses the lowest fd freed; a waiting client meets EMFILE meanwhile.    *)
EXTENDS TcpServer

CONSTANTS a, b, c

MCConns == {a, b, c}
MCFds == {0, 1, 2}
====
