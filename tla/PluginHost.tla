------------------------------ MODULE PluginHost ------------------------------
(***************************************************************************)
(* A plugin process: run_plugin of crates/termproof-plugin-protocol/src/   *)
(* host.rs, with a handler it knows nothing of, reading lines from its     *)
(* stdin and writing lines to its stdout. The pipes are sequences of       *)
(* messages; a message is the fields the two sides look at.                *)
(***************************************************************************)
EXTENDS Naturals, Sequences

CONSTANTS
  MaxCalls,  \* bound on the requests of the client
  MaxStray,  \* bound on the lines the handler prints on stdout by itself
  LogCap     \* what the stderr pipe holds before a write to it blocks

ASSUME PluginAssumption == MaxCalls \in Nat /\ MaxStray \in Nat /\ LogCap \in Nat

PROTOCOL_VERSION == 1
Ids == 0..MaxCalls
Outcomes == {"result", "error"}

Hello(v) == [type |-> "hello", version |-> v]
Ready == [type |-> "ready", version |-> PROTOCOL_VERSION]
Request(id) == [type |-> "request", id |-> id]
Shutdown == [type |-> "shutdown"]
Response(id, outcome) == [type |-> outcome, id |-> id]
StrayLine == [type |-> "stray"]

VARIABLES
  plugin,     \* where in run_plugin the plugin is
  process,    \* "running", "zombie" or "reaped"
  killed,     \* it has been sent SIGKILL
  version,    \* the protocol version it was built with
  toPlugin, toClient,
  open,       \* the client holds its ends of the pipes
  request,    \* the id of the request being handled
  strays, logged,
  outcomes    \* what the handler returned for the ids it was given

pluginVars == <<plugin, process, killed, version, toPlugin, toClient, open, request, strays,
                logged, outcomes>>

Unhandled == "none"

PluginInit ==
  /\ plugin = "hello" /\ process = "running" /\ killed = FALSE
  /\ version \in {PROTOCOL_VERSION, PROTOCOL_VERSION + 1}
  /\ toPlugin = <<>> /\ toClient = <<>> /\ open = TRUE
  /\ request = 0 /\ strays = 0 /\ logged = 0
  /\ outcomes = [id \in Ids |-> Unhandled]

-----------------------------------------------------------------------------
Running == process = "running"

\* run_plugin returns, or the process ends some other way.
Exit == plugin' = "exited" /\ process' = "zombie"

Stay(step) == plugin' = step /\ UNCHANGED process

\* Writing a line fails, and ends run_plugin, when nobody can read it.
WriteLine(line, step) ==
  \/ open /\ toClient' = Append(toClient, line) /\ Stay(step)
  \/ ~open /\ UNCHANGED toClient /\ Exit

AtEof == toPlugin = <<>> /\ ~open

SendHello ==
  /\ Running /\ plugin = "hello"
  /\ WriteLine(Hello(version), "await_ready")
  /\ UNCHANGED <<killed, version, toPlugin, open, request, strays, logged, outcomes>>

\* Faulty: the first line is taken for the greeting, whatever it says.
ReadAnyReady ==
  /\ Running /\ plugin = "await_ready"
  /\ \/ AtEof /\ UNCHANGED toPlugin /\ Exit
     \/ /\ toPlugin # <<>>
        /\ toPlugin' = Tail(toPlugin)
        /\ Stay("loop")
  /\ UNCHANGED <<killed, version, toClient, open, request, strays, logged, outcomes>>

\* Only a Ready has a protocol_version: any other line does not parse as one.
ReadReady ==
  /\ Running /\ plugin = "await_ready"
  /\ \/ AtEof /\ UNCHANGED toPlugin /\ Exit
     \/ /\ toPlugin # <<>>
        /\ toPlugin' = Tail(toPlugin)
        /\ \/ Head(toPlugin) = Ready /\ version = PROTOCOL_VERSION /\ Stay("loop")
           \/ (Head(toPlugin) # Ready \/ version # PROTOCOL_VERSION) /\ Exit
  /\ UNCHANGED <<killed, version, toClient, open, request, strays, logged, outcomes>>

ReadEof ==
  /\ Running /\ plugin = "loop"
  /\ AtEof
  /\ Exit
  /\ UNCHANGED <<killed, version, toPlugin, toClient, open, request, strays, logged, outcomes>>

ReadShutdown ==
  /\ Running /\ plugin = "loop"
  /\ toPlugin # <<>> /\ Head(toPlugin).type = "shutdown"
  /\ toPlugin' = Tail(toPlugin)
  /\ Exit
  /\ UNCHANGED <<killed, version, toClient, open, request, strays, logged, outcomes>>

\* A client's Ready comes once and is read by then: in the loop there are requests
\* only, and the answer with id 0 to a line that is none is never given.
ReadRequest ==
  /\ Running /\ plugin = "loop"
  /\ toPlugin # <<>> /\ Head(toPlugin).type = "request"
  /\ toPlugin' = Tail(toPlugin)
  /\ request' = Head(toPlugin).id
  /\ Stay("handling")
  /\ UNCHANGED <<killed, version, toClient, open, strays, logged, outcomes>>

\* The handler's result, too large a one of which ends run_plugin.
Respond ==
  /\ Running /\ plugin = "handling"
  /\ \/ \E o \in Outcomes :
          /\ outcomes' = [outcomes EXCEPT ![request] = o]
          /\ WriteLine(Response(request, o), "loop")
     \/ Exit /\ UNCHANGED <<outcomes, toClient>>
  /\ UNCHANGED <<killed, version, toPlugin, open, request, strays, logged>>

-----------------------------------------------------------------------------
(* What a handler may do besides returning.                                *)

BeginLog ==
  /\ Running /\ plugin = "handling"
  /\ Stay("logging")
  /\ UNCHANGED <<killed, version, toPlugin, toClient, open, request, strays, logged, outcomes>>

\* The client pipes stderr and reads none of it.
Log ==
  /\ Running /\ plugin = "logging"
  /\ \/ open /\ logged < LogCap /\ logged' = logged + 1
     \/ ~open /\ UNCHANGED logged
  /\ Stay("handling")
  /\ UNCHANGED <<killed, version, toPlugin, toClient, open, request, strays, outcomes>>

PrintStray ==
  /\ Running /\ plugin = "handling"
  /\ open /\ strays < MaxStray
  /\ strays' = strays + 1
  /\ toClient' = Append(toClient, StrayLine)
  /\ UNCHANGED <<plugin, process, killed, version, toPlugin, open, request, logged, outcomes>>

Dies ==
  /\ Running
  /\ Exit
  /\ UNCHANGED <<killed, version, toPlugin, toClient, open, request, strays, logged, outcomes>>

LoopStep == SendHello \/ ReadReady \/ ReadEof \/ ReadShutdown \/ ReadRequest
HandlerStep == Respond \/ Log
PluginStep == LoopStep \/ HandlerStep \/ BeginLog \/ PrintStray \/ Dies

-----------------------------------------------------------------------------
ToPlugin == {Ready, Shutdown} \cup {Request(id) : id \in Ids}
ToClient ==
  {StrayLine} \cup {Hello(v) : v \in {PROTOCOL_VERSION, PROTOCOL_VERSION + 1}}
    \cup {Response(id, o) : id \in Ids, o \in Outcomes}

PluginTypeOK ==
  /\ plugin \in {"hello", "await_ready", "loop", "handling", "logging", "exited"}
  /\ process \in {"running", "zombie", "reaped"} /\ killed \in BOOLEAN
  /\ version \in {PROTOCOL_VERSION, PROTOCOL_VERSION + 1}
  /\ toPlugin \in Seq(ToPlugin) /\ toClient \in Seq(ToClient)
  /\ open \in BOOLEAN
  /\ request \in Ids /\ strays \in 0..MaxStray /\ logged \in 0..LogCap
  /\ outcomes \in [Ids -> Outcomes \cup {Unhandled}]

=============================================================================
