--------------------------- MODULE MCReplayWriter ---------------------------
(* ReplayWriter for TLC: a flow that restarts, and another one that names  *)
(* the same recording.                                                     *)
EXTENDS ReplayWriter

RestartAndOther == {<<"a", 1>>, <<"a", 2>>, <<"b", 1>>}
=============================================================================
