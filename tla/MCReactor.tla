------------------------------ MODULE MCReactor ------------------------------
(* Instances of Reactor: which descriptor the core of each goroutine watches. *)
EXTENDS Reactor

CONSTANTS f1
SharedFd == [g \in Gids |-> f1]
NoFds == [g \in Gids |-> NoFd]
=============================================================================
