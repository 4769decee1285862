----------------------------- MODULE MCGateway ------------------------------
(* Instances of Gateway: one client that reads and one that need not.        *)
EXTENDS Gateway, TLC

CONSTANTS c1, c2

Local(k) == [kind |-> "local", frames |-> k]
Forward(k) == [kind |-> "forward", frames |-> k]

\* To the client that need not read, a response that cannot strand the reader and
\* one that can stop it: with every cap 1, the frames of one that is being written,
\* one queued, one being relayed, one in the channel and one that the reader holds.
FlowAsks == c1 :> {Forward(1)}
            @@ c2 :> {Local(1), Forward(responseQueueSize + 1),
                      Forward(responseQueueSize + 2 * QueueMax + 2)}

\* To the client that may leave, one frame less.
AbandonedAsks == c1 :> {Local(2), Forward(1)}
                 @@ c2 :> {Forward(responseQueueSize + QueueMax + 2)}
=============================================================================
