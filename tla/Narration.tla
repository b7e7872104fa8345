------------------------------ MODULE Narration ------------------------------
(***************************************************************************)
(* What the audio bridge promises of each spoken response: it waits until  *)
(* it is rendered, one player takes it, it is settled, and nothing changes *)
(* it afterwards.  A player that vanished gives its recording back, and    *)
(* one handler may give several back and take one.                         *)
(***************************************************************************)
CONSTANT Recordings

VARIABLE stage  \* for each recording: "waiting", "ready", "taken" or "settled"

NarrationInit == stage = [r \in Recordings |-> "waiting"]

Moves == {<<"waiting", "ready">>, <<"waiting", "settled">>, <<"ready", "taken">>,
          <<"ready", "settled">>, <<"taken", "ready">>, <<"taken", "settled">>}

NarrationNext ==
  /\ stage' \in [Recordings -> {"waiting", "ready", "taken", "settled"}]
  /\ \A r \in Recordings : stage'[r] # stage[r] => <<stage[r], stage'[r]>> \in Moves
  /\ \A r, s \in Recordings :
       stage[r] = "ready" /\ stage'[r] = "taken" /\ stage[s] = "ready" /\ stage'[s] = "taken" => r = s

NarrationSpec == NarrationInit /\ [][NarrationNext]_stage
=============================================================================
