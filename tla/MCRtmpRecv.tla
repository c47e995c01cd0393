----------------------------- MODULE MCRtmpRecv -----------------------------
(***************************************************************************)
(* RtmpRecv for TLC.  Two bounds keep the instances small and lose no path *)
(* of the client: the server writes all its messages before the client     *)
(* reads the first chunk byte (TCP still delivers any prefix of them at    *)
(* any time, and the client never looks at what is in flight), and recv    *)
(* does not return in the inner bytes of a header, all of which take the   *)
(* same path.                                                              *)
(***************************************************************************)
EXTENDS RtmpRecv

ServerFinished ==
  Mux.started = MaxMsgs /\ \A cs \in Csids : Mux.open[cs].rem = 0

(* A cut before byte i of chunk k is at the front of the header, at its    *)
(* end, or in the body.                                                    *)
WorthCutting(cell) ==
  cell[1] = 0 \/ cell[2] \in {0, 1} \/ cell[2] >= HeaderLen(wire[cell[1]]) - 1

Cut ==
  received' # received /\ received' < Len(stream) => WorthCutting(stream[received' + 1])

AllWritten ==
  received' # received /\ received' > S0S1Len + S2Len => ServerFinished

MCNext == Next /\ Cut /\ AllWritten
MCSpec == Init /\ [][MCNext]_vars

(* For liveness the server may stop anywhere, so only the cuts are bounded; *)
(* a recv that returns everything in flight is always among them.           *)
MCFairSpec == Init /\ [][Next /\ Cut]_vars /\ WF_vars(ThreadStep /\ Cut)
=============================================================================
