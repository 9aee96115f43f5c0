------------------------------- MODULE MCTurn -------------------------------
(* Instances of TurnLoop: a shell call that runs alone and takes everything *)
(* down when it fails, and an edit.  The clients report those failures     *)
(* that the run is meant to meet on their kind of attempt.                 *)
EXTENDS TurnLoop

MCClient(tier, mode, failures) == [tier |-> tier, mode |-> mode, failures |-> failures]

MCPaths == [c \in Call |-> IF c = "bash" THEN {} ELSE {"file"}]
MCClients ==
    {MCClient("full_streaming", "stream", {"internal_error"}),
     MCClient("none", "stream", {"provider_overload"}),
     MCClient("buffered", "buffered_completion", {"context_limit", "output_limit"})}
MCStreaming == {MCClient("full_streaming", "stream", {})}
=============================================================================
