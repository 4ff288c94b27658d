---------------------------- MODULE MCGrpcNetwork ----------------------------
(* Two sessions started at the same time on one runtime, both in the same  *)
(* shard of message_queues.                                                *)
EXTENDS GrpcNetwork

MCShard(s) == 0
MCClients(p) == IF p = 1 THEN <<0, 2>> ELSE <<next(p), prev(p)>>
===============================================================================
