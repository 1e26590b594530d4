-------------------------- MODULE MCGatewayStream --------------------------
(***************************************************************************)
(* Two goroutines that connect, two connections, one place in the channel. *)
(* The run takes three cuts through this instance: one call at a time and  *)
(* two frames, while anything ends; two calls in any order, with Close or  *)
(* with one frame, while contexts go on and the consumer reads; and one    *)
(* connection that nobody ends or closes with four frames, enough for a    *)
(* message that a control frame splits, its rest and a message behind it.  *)
(* No cut stands in the way of a fair action.                              *)
(***************************************************************************)
EXTENDS GatewayStream

CONSTANTS d1, d2

MCOneDialer == {d1}
MCTwoDialers == {d1, d2}

OneCall == dialer[d2].pc = "idle" /\ ~crossed /\ dialer[d1].looked \in {0, Len(conns)}
NoneExpired == \A n \in Connections : ~conns[n].expired

OneCallAtATime == OneCall /\ FramesSent <= 2
TwoCalls ==
    /\ NoneExpired /\ consumer # "stopped"
    /\ FramesSent = 0 \/ (FramesSent = 1 /\ closer.pc = "idle")
ManyFrames ==
    /\ OneCall /\ Len(conns) <= 1 /\ \A n \in Connections : ~conns[n].gone
    /\ NoneExpired /\ consumer # "stopped" /\ closer.pc = "idle"

MCNext == Next /\ (OneCallAtATime \/ TwoCalls \/ ManyFrames)'
MCSpec == Init /\ [][MCNext]_vars /\ Fairness
============================================================================
