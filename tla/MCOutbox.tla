------------------------------- MODULE MCOutbox -------------------------------
(* One event with a publication for the worker and one for the dispatcher. *)
EXTENDS Outbox

MCEvent == {"message"}
MCPublication == {"fanout", "realtime"}
MCEventOf == [p \in MCPublication |-> "message"]
MCWorkerPub == {"fanout"}
MCDispatcherPub == {"realtime"}

=============================================================================
