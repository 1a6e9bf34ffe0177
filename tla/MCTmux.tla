-------------------------------- MODULE MCTmux --------------------------------
(* A pane of three frames; the text is in the second, the body changes once. *)
EXTENDS TmuxSession

\* Every call returns, also the close and the Drop that run while the server does not
\* answer, unless a command hangs; and a server is left by a session that was let go of
\* only if its kill-server has failed.
SessionIsLetGo == CallsReturn /\ []NoServerLeft
=============================================================================
