------------------------------- MODULE MCRpc -------------------------------
(* Instances of Rpc for TLC. *)
EXTENDS Rpc

CONSTANT Timed   \* the call whose timeout is looked at

\* Calls that interleave and connections that fail are looked at while the
\* clock stands still, and time with one call on connections that work: no
\* client, no clock and nothing that fails is bound to take its step.
OneTimed ==
    now' > 0 => /\ \A i \in Items \ {Timed} : cReply'[i] = "none"
                /\ \A k \in Callees : cOpen'[k] /\ cPoll'[k] = "polling"
                /\ rOpen'[Server] /\ rPoll'[Server] = "polling"

MCSpec == Init /\ [][Next /\ OneTimed]_vars /\ Fairness
=============================================================================
