----------------------------- MODULE PythonBridge -----------------------------
(***************************************************************************)
(* A Python plugin behind the plugin protocol:                             *)
(* crates/termproof-plugin-protocol/src/python_bridge.rs. The bridge       *)
(* writes its script to a file, starts Python on it, and is dropped; the   *)
(* script imports the plugin and answers one line after the other. A       *)
(* script of the caller's own is taken to be a copy of the embedded. One    *)
(* exchange of the client (PluginClient) is one step here.                 *)
(***************************************************************************)
EXTENDS Naturals, Sequences

CONSTANT MaxExchanges   \* bound on the calls made of one bridge

VARIABLES
  script,      \* "embedded", "own", or "named_alike" with the mark of the embedded
  plugin,      \* what the import does and the plugin then is
  onDisk,      \* the script's file is there
  bridge,      \* "spawning", "starting", "shaking", "live", "refused" or "dropped"
  python,      \* "none", "importing", "failed", "waiting", "serving" or "exited"
  offered,     \* the capabilities of the hello
  exchanges    \* the calls and their answers, in order

bridgeVars == <<script, plugin, onDisk, bridge, python, offered, exchanges>>

Own == {"own", "named_alike"}
\* Drop looks for the mark of write_embedded_bridge in the path, whoever chose it.
Marked == script # "own"

\* "missing" cannot be imported, "exits" ends Python while it is, "raises" is asked for a
\* handler and raises, "handles" has one of the handlers and "plain" has none.
Plugins == {"missing", "exits", "raises", "handles", "plain"}
Requests == {"create_session", "other"}

BridgeInit ==
  /\ script \in {"embedded"} \cup Own
  /\ plugin \in Plugins
  /\ onDisk = (script \in Own)
  /\ bridge = "spawning" /\ python = "none"
  /\ offered = {} /\ exchanges = <<>>

-----------------------------------------------------------------------------
(* PythonBridge::spawn.                                                    *)

UseOwnScript ==
  /\ bridge = "spawning" /\ script \in Own
  /\ bridge' = "starting"
  /\ UNCHANGED <<script, plugin, onDisk, python, offered, exchanges>>

WriteEmbeddedBridge ==
  /\ bridge = "spawning" /\ script = "embedded"
  /\ \/ onDisk' = TRUE /\ bridge' = "starting"
     \/ onDisk' \in BOOLEAN /\ bridge' = "refused"
  /\ UNCHANGED <<script, plugin, python, offered, exchanges>>

StartPython ==
  /\ bridge = "starting"
  /\ \/ bridge' = "shaking" /\ python' = "importing"
     \/ bridge' = "refused" /\ UNCHANGED python
  /\ UNCHANGED <<script, plugin, onDisk, offered, exchanges>>

\* What the hello offers is not looked at.
Handshake ==
  /\ bridge = "shaking" /\ python \in {"failed", "waiting"}
  /\ bridge' = "live"
  /\ UNCHANGED <<script, plugin, onDisk, python, offered, exchanges>>

\* No hello, or none in time: the client is dropped, which ends Python.
HandshakeFails ==
  /\ bridge = "shaking"
  /\ bridge' = "refused" /\ python' = "exited"
  /\ UNCHANGED <<script, plugin, onDisk, offered, exchanges>>

-----------------------------------------------------------------------------
(* The script.                                                             *)

\* A plugin that cannot be imported says hello all the same, with nothing on offer.
LoadFails ==
  /\ python = "importing" /\ plugin = "missing"
  /\ python' = "failed" /\ offered' = {}
  /\ UNCHANGED <<script, plugin, onDisk, bridge, exchanges>>

LoadExits ==
  /\ python = "importing" /\ plugin = "exits"
  /\ python' = "exited"
  /\ UNCHANGED <<script, plugin, onDisk, bridge, offered, exchanges>>

LoadPlugin ==
  /\ python = "importing" /\ plugin \notin {"missing", "exits"}
  /\ python' = "waiting" /\ offered' = {"inferred"}
  /\ UNCHANGED <<script, plugin, onDisk, bridge, exchanges>>

\* The client has checked the version of the hello: the ready's is the script's.
ReadReady ==
  /\ bridge = "live" /\ python = "waiting"
  /\ python' = "serving"
  /\ UNCHANGED <<script, plugin, onDisk, bridge, offered, exchanges>>

\* Faulty: the request is served whether or not there is a plugin.
AnswerAnyone(request) == IF plugin = "raises" THEN "error" ELSE "result"

Answer(request) ==
  IF python = "failed" THEN "load_error"
  ELSE IF request # "create_session" /\ plugin = "raises" THEN "error" ELSE "result"

Exchange ==
  /\ bridge = "live" /\ python \in {"failed", "serving"} /\ Len(exchanges) < MaxExchanges
  /\ \E request \in Requests :
       exchanges' = Append(exchanges, [request |-> request, answer |-> Answer(request)])
  /\ UNCHANGED <<script, plugin, onDisk, bridge, python, offered>>

-----------------------------------------------------------------------------
\* Drop ends the client first, which ends Python.
DropBridge ==
  /\ bridge = "live"
  /\ bridge' = "dropped" /\ python' = "exited"
  /\ \/ Marked /\ onDisk' = FALSE
     \/ ~Marked /\ UNCHANGED onDisk
  /\ UNCHANGED <<script, plugin, offered, exchanges>>

BridgeStep ==
  \/ UseOwnScript \/ WriteEmbeddedBridge \/ StartPython \/ Handshake \/ HandshakeFails
  \/ LoadFails \/ LoadExits \/ LoadPlugin \/ ReadReady \/ Exchange \/ DropBridge

BridgeSpec == BridgeInit /\ [][BridgeStep]_bridgeVars

-----------------------------------------------------------------------------
\* The handshake takes a hello that offers nothing, so a bridge can be live without its
\* plugin: every call of it is then answered with the error of the import, and a result
\* means that the plugin was there. Python never runs without its script, and a bridge
\* that was dropped leaves neither Python nor the script it wrote.
BridgeFailsClosed ==
  /\ \A i \in 1..Len(exchanges) : exchanges[i].answer = "result" => offered # {}
  /\ plugin = "missing" => \A i \in 1..Len(exchanges) : exchanges[i].answer = "load_error"
  /\ python \notin {"none", "exited"} => onDisk /\ bridge \in {"shaking", "live"}
  /\ bridge = "dropped" => python = "exited" /\ (script = "embedded" => ~onDisk)
  /\ script = "own" => onDisk

===============================================================================
