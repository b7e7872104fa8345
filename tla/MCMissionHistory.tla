-------------------------- MODULE MCMissionHistory --------------------------
(* An instance of MissionHistory for TLC: the batches that a turn, an approval, a denial *)
(* or an editor save hands to record_events, as one- and two-event sequences.            *)
EXTENDS MissionHistory, TLC

CONSTANTS t1, t2, app, r1, e1, e2

Step(action, path, exit, request, evidence) ==
  [action |-> action, path |-> path, exit |-> exit, request |-> request, evidence |-> evidence]

Write(p)      == Step("write_file", p, "ok", NoRequest, e1)
Test(exit, e) == Step("run_python", app, exit, NoRequest, e)
Review        == Step("delete_requested", app, "none", r1, e1)
Denied        == Step("delete_denied", app, "fail", r1, e1)
Approved      == Step("delete_file", app, "ok", r1, e1)

MCBatches ==
  {<<Write(app)>>, <<Test("ok", e1)>>, <<Test("fail", e1)>>, <<Test("fail", e2)>>,
   <<Review>>, <<Denied>>, <<Approved>>, <<Write(app), Test("ok", e1)>>, <<Test("ok", e1), Write(app)>>,
   <<Write(app), Test("fail", e1)>>}

\* One long mission beside a short one.
MCMaxSeq == t1 :> 3 @@ t2 :> 1
=============================================================================
