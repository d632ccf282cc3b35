------------------------ MODULE MCSignalingSession ------------------------
(* SignalingSession on small channels: see the README for the bounds. *)
EXTENDS SignalingSession

\* One message for each way session_loop goes on: it answers, ignores or refuses.
OneOfEach == {[type |-> "offer", v |-> 1], [type |-> "candidate", v |-> 1],
              [type |-> "candidate", v |-> 2]}
=============================================================================
