----------------------------- MODULE MCRunEngine -----------------------------
(* Small instances of RunEngine for TLC.                                    *)
EXTENDS RunEngine, TLC

CONSTANTS e1, e2, e3, c1, c2

MCCtx == (e1 :> c1) @@ (e2 :> c1) @@ (e3 :> c2)

MCCtxPair == (e1 :> c1) @@ (e2 :> c1)

(* A one-pass profile that serializes contexts, as the shipped loops do,    *)
(* and a looping profile that retries.                                      *)
OnePass == [steps |-> <<"agent", "dispatch", "memory">>,
            one_pass |-> TRUE, serialize |-> TRUE, retry |-> 0]
Looping == [steps |-> <<"agent", "dispatch">>,
            one_pass |-> FALSE, serialize |-> TRUE, retry |-> 1]
Gated   == [steps |-> <<"native", "gated", "aside">>,
            one_pass |-> TRUE, serialize |-> FALSE, retry |-> 0]

MCProfiles == {OnePass, Looping, Gated}

MCLooping == {Looping}

MCOutputs == {<<>>, <<"msg">>, <<"sub">>}

(* An output with nothing to do, and one that requests an action.           *)
MCActions == {<<>>, <<"sub">>}
=============================================================================
