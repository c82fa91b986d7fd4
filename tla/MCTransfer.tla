----------------------------- MODULE MCTransfer -----------------------------
(* Transfer with the inputs of the runs: a timed and an untimed sync       *)
(* transfer to a target of this node, one to another peer, an async one,   *)
(* and batches that meet every way an item can end.                        *)
EXTENDS Transfer, TLC

MCMessages == (Requests \X (1 .. MaxItems)) \cup Foreign

Local == [resource |-> "bridge", target |-> "self", protocol |-> "http",
          meta |-> TRUE, class |-> "plain", timed |-> FALSE]
Timed == [Local EXCEPT !.timed = TRUE]
Remote == [Timed EXCEPT !.resource = "other", !.target = "other"]
ByCoap == [Local EXCEPT !.protocol = "coap"]
Unbuildable == [Local EXCEPT !.class = "unbuildable"]
Invalid == [Local EXCEPT !.target = "", !.class = "invalid"]
Nameless == [Local EXCEPT !.resource = ""]
Schemaless == [Local EXCEPT !.meta = FALSE]

Sole(mode, i) == [mode |-> mode, items |-> <<i>>]
Batch(items) == [mode |-> "batch", items |-> items]

MCInputs ==
  {Sole("sync", Timed), Sole("sync", Remote), Sole("async", Local),
   Batch(<<>>), Batch(<<Nameless, Schemaless>>), Batch(<<ByCoap, Invalid>>),
   Batch(<<Unbuildable, Local>>)}

MCForeignKinds == {[sync |-> TRUE, class |-> "invalid"]}
=============================================================================
