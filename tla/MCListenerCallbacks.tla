------------------------ MODULE MCListenerCallbacks ------------------------
(* Instances of ListenerCallbacks: which events the library emits on which *)
(* thread, and which calls the application's closures make.                *)
EXTENDS ListenerCallbacks, TLC

OnMain == "main"
OnData == "data"
Threads == {OnMain, OnData}

(* A filter connected with RT_PROCESS: its param_changed closure may call  *)
(* set_error and disconnect, which emit state_changed, and a state_changed *)
(* closure may remove a port, which emits remove_buffer, or disconnect     *)
(* too: the library emits state_changed before disconnect returns.         *)
FilterEvents == {"state_changed", "param_changed", "remove_buffer", "process"}
FilterEmits == (OnMain :> FilterEvents \ {"process"}) @@ (OnData :> {"process"})
FilterNests == {<<"param_changed", "state_changed">>, <<"state_changed", "remove_buffer">>,
                <<"state_changed", "state_changed">>}

(* A stream connected with RT_PROCESS, its closures calling nothing. *)
StreamEvents == {"param_changed", "process"}
StreamEmits == (OnMain :> {"param_changed"}) @@ (OnData :> {"process"})

NoNests == {}
=============================================================================
