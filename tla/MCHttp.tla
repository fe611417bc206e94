------------------------------- MODULE MCHttp -------------------------------
(* HttpTransport instantiated for TLC: pushes with and without a key, and an  *)
(* ack, whose answer is not read.  A GET or DELETE is classified like the one *)
(* with the key.                                                              *)
EXTENDS HttpTransport

CONSTANTS push, keyed, ack, k1

Methods == [o \in Ops |-> "POST"]
Keys == [o \in Ops |-> IF o = keyed THEN k1 ELSE NoKey]
=============================================================================
