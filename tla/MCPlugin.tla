------------------------------- MODULE MCPlugin -------------------------------
(* A client of a few calls and a plugin that may print and log a little.    *)
EXTENDS PluginClient

\* A call ends if handlers return, a shutdown ends whatever the plugin does, and after
\* the client was dropped no plugin runs.
PluginEnds == CallsEnd /\ ShutdownReturns /\ NoPluginLeft
=============================================================================
