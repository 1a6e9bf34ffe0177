----------------------------- MODULE PluginClient -----------------------------
(***************************************************************************)
(* PluginClient of crates/termproof-plugin-protocol/src/client.rs, driving *)
(* the plugin of PluginHost: its calls in any order, one at a time.        *)
(***************************************************************************)
EXTENDS PluginHost

CONSTANTS MaxQueue   \* bound on the lines the plugin has not read, for shutdowns

ASSUME QueueAssumption == MaxQueue \in Nat

VARIABLES
  pc,       \* "ready", or where the call in progress is; "dropped" at the end
  next_id,
  id,       \* the id of the last request
  greeted,  \* hello holds what the plugin said
  expired,  \* the timeout of the call in progress has elapsed
  ret       \* what the last call returned

clientVars == <<pc, next_id, id, greeted, expired, ret>>
vars == <<pluginVars, clientVars>>

Value(kind, of) == [kind |-> kind, of |-> of]
Plain(kind) == Value(kind, 0)

Init ==
  /\ PluginInit
  /\ pc = "ready" /\ next_id = 1 /\ id = 0 /\ greeted = FALSE
  /\ expired = FALSE /\ ret = Plain("none")

Return(value) == pc' = "ready" /\ ret' = value

pluginFrame == <<plugin, process, killed, version, open, request, strays, logged, outcomes>>

-----------------------------------------------------------------------------
\* send_json: a plugin that is gone cannot be written to.
SendLine(line) == Running /\ toPlugin' = Append(toPlugin, line)
SendFails == ~Running /\ UNCHANGED toPlugin

\* read_line_with_timeout: there is a line, or the plugin's end is closed. The
\* timeout is compared when the line is there, and the line is then gone.
LineRead == toClient # <<>> /\ toClient' = Tail(toClient)
StreamEnds == toClient = <<>> /\ ~Running /\ UNCHANGED toClient

DeadlinePasses ==
  /\ pc \in {"hello", "response", "exit"}
  /\ ~expired
  /\ expired' = TRUE
  /\ UNCHANGED <<pluginVars, pc, next_id, id, greeted, ret>>

ReadEnds ==
  /\ pc \in {"hello", "response"}
  /\ StreamEnds
  /\ Return(Plain("terminated"))
  /\ UNCHANGED <<pluginFrame, toPlugin, next_id, id, greeted, expired>>

\* Faulty: a read that gives up leaves its line for the next one.
ReadTooLateKept ==
  /\ pc \in {"hello", "response"}
  /\ expired
  /\ UNCHANGED toClient
  /\ Return(Plain("timeout"))
  /\ UNCHANGED <<pluginFrame, toPlugin, next_id, id, greeted, expired>>

ReadTooLate ==
  /\ pc \in {"hello", "response"}
  /\ expired
  /\ LineRead
  /\ Return(Plain("timeout"))
  /\ UNCHANGED <<pluginFrame, toPlugin, next_id, id, greeted, expired>>

-----------------------------------------------------------------------------
BeginHandshake ==
  /\ pc = "ready"
  /\ pc' = "hello" /\ expired' = FALSE /\ ret' = Plain("none")
  /\ UNCHANGED <<pluginVars, next_id, id, greeted>>

HandshakeRefused ==
  /\ pc = "hello" /\ ~expired
  /\ LineRead
  /\ \/ Head(toClient).type # "hello" /\ Return(Plain("not_hello"))
     \/ /\ Head(toClient).type = "hello"
        /\ Head(toClient).version # PROTOCOL_VERSION
        /\ Return(Plain("version_mismatch"))
  /\ UNCHANGED <<pluginFrame, toPlugin, next_id, id, greeted, expired>>

HandshakeDone ==
  /\ pc = "hello" /\ ~expired
  /\ LineRead
  /\ Head(toClient) = Hello(PROTOCOL_VERSION)
  /\ greeted' = TRUE
  /\ \/ SendLine(Ready) /\ Return(Plain("ok"))
     \/ SendFails /\ Return(Plain("io"))
  /\ UNCHANGED <<pluginFrame, next_id, id, expired>>

\* A request takes an id even if it is too large to be sent, or cannot be.
BeginCall ==
  /\ pc = "ready"
  /\ next_id <= MaxCalls
  /\ id' = next_id /\ next_id' = next_id + 1
  /\ \/ SendLine(Request(next_id)) /\ pc' = "response" /\ ret' = Plain("none")
     \/ SendFails /\ Return(Plain("io"))
     \/ UNCHANGED toPlugin /\ Return(Plain("too_large"))
  /\ expired' = FALSE
  /\ UNCHANGED <<pluginFrame, toClient, greeted>>

\* Faulty: whatever comes is the answer.
CallReturnsAny ==
  /\ pc = "response" /\ ~expired
  /\ LineRead
  /\ LET line == Head(toClient) IN
     \/ line.type \notin Outcomes /\ Return(Plain("parse"))
     \/ line.type \in Outcomes /\ Return(Value(line.type, line.id))
  /\ UNCHANGED <<pluginFrame, toPlugin, next_id, id, greeted, expired>>

CallReturns ==
  /\ pc = "response" /\ ~expired
  /\ LineRead
  /\ LET line == Head(toClient) IN
     \/ line.type \notin Outcomes /\ Return(Plain("parse"))
     \/ line.type \in Outcomes /\ line.id # id /\ Return(Plain("id_mismatch"))
     \/ line.type \in Outcomes /\ line.id = id /\ Return(Value(line.type, line.id))
  /\ UNCHANGED <<pluginFrame, toPlugin, next_id, id, greeted, expired>>

RequireCapability ==
  /\ pc = "ready"
  /\ Return(Plain(IF greeted THEN "ok" ELSE "capability"))
  /\ UNCHANGED <<pluginVars, next_id, id, greeted, expired>>

BeginShutdown ==
  /\ pc = "ready" /\ Len(toPlugin) < MaxQueue
  /\ SendLine(Shutdown) \/ SendFails
  /\ pc' = "exit" /\ expired' = FALSE /\ ret' = Plain("none")
  /\ UNCHANGED <<pluginFrame, toClient, next_id, id, greeted>>

ShutdownEnds ==
  /\ pc = "exit" /\ ~Running
  /\ process' = "reaped"
  /\ Return(Plain("ok"))
  /\ UNCHANGED <<plugin, killed, version, toPlugin, toClient, open, request, strays, logged,
                 outcomes, next_id, id, greeted, expired>>

\* The plugin is killed, and not waited for.
ShutdownGivesUp ==
  /\ pc = "exit" /\ Running /\ expired
  /\ killed' = TRUE
  /\ Return(Plain("timeout"))
  /\ UNCHANGED <<plugin, process, version, toPlugin, toClient, open, request, strays, logged,
                 outcomes, next_id, id, greeted, expired>>

\* Faulty: the pipes are closed, and the plugin is left to notice.
DropUnkilled ==
  /\ pc = "ready"
  /\ pc' = "dropped" /\ open' = FALSE
  /\ UNCHANGED <<plugin, process, killed, version, toPlugin, toClient, request, strays, logged,
                 outcomes, next_id, id, greeted, expired, ret>>

Drop ==
  /\ pc = "ready"
  /\ pc' = "dropped" /\ open' = FALSE
  /\ killed' = (killed \/ Running)
  /\ UNCHANGED <<plugin, process, version, toPlugin, toClient, request, strays, logged,
                 outcomes, next_id, id, greeted, expired, ret>>

-----------------------------------------------------------------------------
CallStart == BeginHandshake \/ BeginCall \/ RequireCapability \/ BeginShutdown \/ Drop
CallStep ==
  \/ ReadEnds \/ ReadTooLate \/ HandshakeRefused \/ HandshakeDone \/ CallReturns
  \/ ShutdownEnds \/ ShutdownGivesUp

PluginMoves == PluginStep /\ UNCHANGED clientVars

KilledDies == killed /\ Dies /\ UNCHANGED clientVars

Next == PluginMoves \/ CallStart \/ CallStep \/ DeadlinePasses

(* The client is scheduled and time passes; a killed plugin dies, and one   *)
(* that is not runs its loop. Nothing is assumed of its handler.            *)
Fairness ==
  /\ WF_vars(CallStep) /\ WF_vars(DeadlinePasses)
  /\ WF_vars(KilledDies)
  /\ WF_vars(LoopStep /\ UNCHANGED clientVars)

Spec == Init /\ [][Next]_vars
FairSpec == Spec /\ Fairness

-----------------------------------------------------------------------------
Kinds == {"none", "ok", "timeout", "terminated", "io", "not_hello", "version_mismatch",
          "too_large", "parse", "id_mismatch", "capability"} \cup Outcomes

\* Every variable stays in its range.
TypeOK ==
  /\ PluginTypeOK
  /\ pc \in {"ready", "hello", "response", "exit", "dropped"}
  /\ next_id \in 1..MaxCalls + 1 /\ id \in Ids
  /\ greeted \in BOOLEAN /\ expired \in BOOLEAN
  /\ ret \in [kind : Kinds, of : Ids]

\* An answer the client returns is the handler's, and to the request of this call,
\* whatever else the plugin wrote to its stdout before.
AnswerIsForCall == ret.kind \in Outcomes => ret.of = id /\ ret.kind = outcomes[id]

\* A plugin that prints nothing but its answers stays in step with the client: a call
\* that timed out, was too large or failed does not leave the next with its answer.
InStep == strays = 0 => ret.kind # "id_mismatch"

\* No handler is run for a client of another protocol version, or one that has not
\* read the plugin's hello: call() itself does not look, run_plugin does.
VersionsAgree ==
  plugin \in {"loop", "handling", "logging"} => greeted /\ version = PROTOCOL_VERSION

Handling == plugin \in {"handling", "logging"}

\* A call ends, if only with a timeout, whenever handlers return: run_plugin answers
\* every request it takes, or ends.
CallsEnd == (Handling ~> ~Handling) => (pc = "response" ~> pc = "ready")

\* A shutdown ends whatever the plugin does.
ShutdownReturns == pc = "exit" ~> pc = "ready"

\* No plugin outlives its client.
NoPluginLeft == pc = "dropped" ~> ~Running

\* What the type's documentation says and the code does not do: "Timeouts, size bounds,
\* and version negotiation are enforced."
TimeoutsEnforced == pc \in {"hello", "response"} /\ expired ~> pc = "ready"

=============================================================================
