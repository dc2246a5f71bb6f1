---------------------------- MODULE MCBlobStore ----------------------------
(* One row of each kind that the protocols tell apart, two session rows for *)
(* forks, and two payloads for the kind whose replaced payload is deleted.  *)
EXTENDS BlobStore, TLC

MCRows == {"block", "copy", "child", "projection", "queue", "event", "execution"}
MCDigests == {"text", "history", "document", "state1", "state2"}
MCTableOf == [block |-> "session", copy |-> "session", child |-> "subagent",
              projection |-> "history", queue |-> "queue", event |-> "records",
              execution |-> "durable"]
MCPayloads == [block |-> {"text"}, copy |-> {"text"}, child |-> {"text"},
               projection |-> {"history"}, queue |-> {"document"},
               event |-> {"state1"}, execution |-> {"state1", "state2"}]

Symmetry == Permutations(Writers)
=============================================================================
