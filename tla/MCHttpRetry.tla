---------------------------- MODULE MCHttpRetry ----------------------------
(* Small instances of HttpRetry for TLC: a read, a command and a kill().    *)
EXTENDS HttpRetry

CONSTANTS get, post, kill

Verbs == [c \in Calls |->
  CASE c = get -> "GET" [] c = post -> "POST" [] OTHER -> "DELETE"]
=============================================================================
