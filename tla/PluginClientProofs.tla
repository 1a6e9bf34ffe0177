-------------------------- MODULE PluginClientProofs --------------------------
(***************************************************************************)
(* Proofs about PluginClient, for any number of calls, of stray lines and  *)
(* of log lines: an answer is the handler's to this very request, no       *)
(* handler runs without a handshake of one version, and a plugin that      *)
(* prints only its answers stays in step with its client.                  *)
(***************************************************************************)
EXTENDS PluginClient, SequenceTheorems, TLAPS

\* A Ready on its way to the plugin was sent by a client that read its hello.
Handshake == \A i \in 1..Len(toPlugin) : toPlugin[i].type = "ready" => greeted

\* A request the handler has not answered is one of its own: sent once, and not
\* both on its way and being handled.
Pending ==
  /\ \A i \in 1..Len(toPlugin) : toPlugin[i].type = "request" =>
       toPlugin[i].id < next_id /\ outcomes[toPlugin[i].id] = Unhandled
  /\ \A i, j \in 1..Len(toPlugin) :
       (toPlugin[i].type = "request" /\ toPlugin[j].type = "request" /\ i # j)
         => toPlugin[i].id # toPlugin[j].id
  /\ Handling =>
       /\ request < next_id /\ outcomes[request] = Unhandled
       /\ \A i \in 1..Len(toPlugin) :
            toPlugin[i].type = "request" => toPlugin[i].id # request

\* What has not been sent yet has not been handled either.
Unsent == \A k \in Ids : k >= next_id => outcomes[k] = Unhandled

\* An answer on its way is what the handler returned.
Answers ==
  \A i \in 1..Len(toClient) :
    toClient[i].type \in Outcomes => outcomes[toClient[i].id] = toClient[i].type

Inv == TypeOK /\ Handshake /\ VersionsAgree /\ Pending /\ Unsent /\ Answers /\ AnswerIsForCall

LEMMA AppendFacts ==
  ASSUME NEW S, NEW q \in Seq(S), NEW x \in S
  PROVE  /\ Append(q, x) \in Seq(S) /\ Len(Append(q, x)) = Len(q) + 1
         /\ \A i \in 1..Len(q) + 1 :
              Append(q, x)[i] = (IF i = Len(q) + 1 THEN x ELSE q[i])
OBVIOUS

LEMMA TailFacts ==
  ASSUME NEW S, NEW q \in Seq(S), q # <<>>
  PROVE  /\ Tail(q) \in Seq(S) /\ Len(Tail(q)) = Len(q) - 1 /\ Len(q) \in Nat \ {0}
         /\ \A i \in 1..Len(q) - 1 : Tail(q)[i] = q[i + 1]
         /\ Head(q) = q[1] /\ Head(q) \in S
OBVIOUS

\* The messages and what can be told of them by their type.
LEMMA MessageFacts ==
  /\ Ready.type = "ready" /\ Shutdown.type = "shutdown" /\ StrayLine.type = "stray"
  /\ \A k : Request(k).type = "request" /\ Request(k).id = k
  /\ \A v : Hello(v).type = "hello"
  /\ \A k, o : Response(k, o).type = o /\ Response(k, o).id = k
  /\ \A m \in ToPlugin : m.type \in {"ready", "shutdown", "request"}
  /\ \A m \in ToPlugin : m.type = "request" => m.id \in Ids
  /\ \A m \in ToPlugin : m.type = "ready" => m = Ready
  /\ \A m \in ToClient : m.type \in Outcomes => m.id \in Ids
BY DEF Ready, Shutdown, StrayLine, Request, Hello, Response, ToPlugin, ToClient, Outcomes

LEMMA InitInv ==
  ASSUME Init
  PROVE  Inv
<1> USE PluginAssumption
<1>1. 0 \in Ids /\ 1 \in 1..MaxCalls + 1 /\ Plain("none") = [kind |-> "none", of |-> 0]
  BY DEF Ids, Plain, Value
<1>2. TypeOK
  BY <1>1 DEF Init, PluginInit, TypeOK, PluginTypeOK, Kinds
<1>3. Handshake /\ VersionsAgree /\ Pending /\ Answers /\ Unsent
  BY <1>1 DEF Init, PluginInit, Handshake, VersionsAgree, Pending, Answers, Unsent, Handling
<1>4. AnswerIsForCall
  BY <1>1 DEF Init, AnswerIsForCall, Outcomes
<1> QED
  BY <1>2, <1>3, <1>4 DEF Inv

-----------------------------------------------------------------------------
(* A step of the plugin.                                                   *)

\* Ending leaves everything as it was, but for the lines already read.
LEMMA PluginEnds ==
  ASSUME Inv, UNCHANGED clientVars, Exit,
         toPlugin' = toPlugin \/ (toPlugin # <<>> /\ toPlugin' = Tail(toPlugin)),
         UNCHANGED <<killed, version, toClient, open, request, strays, logged, outcomes>>
  PROVE  Inv'
<1>1. toPlugin \in Seq(ToPlugin)
  BY DEF Inv, TypeOK, PluginTypeOK
<1>2. /\ toPlugin' \in Seq(ToPlugin) /\ Len(toPlugin') <= Len(toPlugin)
      /\ \/ toPlugin' = toPlugin
         \/ \A i \in 1..Len(toPlugin') : i + 1 \in 1..Len(toPlugin) /\ toPlugin'[i] = toPlugin[i + 1]
  BY <1>1, TailFacts
<1>3. TypeOK'
  BY <1>2 DEF Inv, TypeOK, PluginTypeOK, Exit, clientVars
<1>4. Handshake' /\ Pending'
  <2>1. ~Handling'
    BY DEF Exit, Handling
  <2>2. \A i \in 1..Len(toPlugin') : \E d \in {0, 1} :
          i + d \in 1..Len(toPlugin) /\ toPlugin'[i] = toPlugin[i + d]
    BY <1>1, <1>2
  <2>3. Handshake'
    BY <2>2 DEF Inv, Handshake, clientVars
  <2>4. \A i \in 1..Len(toPlugin') : toPlugin'[i].type = "request" =>
          toPlugin'[i].id < next_id /\ outcomes[toPlugin'[i].id] = Unhandled
    BY <2>2 DEF Inv, Pending
  <2>5. \A i, j \in 1..Len(toPlugin') :
          (toPlugin'[i].type = "request" /\ toPlugin'[j].type = "request" /\ i # j)
            => toPlugin'[i].id # toPlugin'[j].id
    <3>1. CASE toPlugin' = toPlugin
      BY <3>1 DEF Inv, Pending
    <3>2. CASE \A i \in 1..Len(toPlugin') :
                 i + 1 \in 1..Len(toPlugin) /\ toPlugin'[i] = toPlugin[i + 1]
      <4> SUFFICES ASSUME NEW i \in 1..Len(toPlugin'), NEW j \in 1..Len(toPlugin'), i # j,
                          toPlugin'[i].type = "request", toPlugin'[j].type = "request"
                   PROVE  toPlugin'[i].id # toPlugin'[j].id
        OBVIOUS
      <4>1. i + 1 # j + 1 /\ i + 1 \in 1..Len(toPlugin) /\ j + 1 \in 1..Len(toPlugin)
        BY <3>2
      <4>2. toPlugin'[i] = toPlugin[i + 1] /\ toPlugin'[j] = toPlugin[j + 1]
        BY <3>2
      <4> QED
        BY <4>1, <4>2 DEF Inv, Pending
    <3> QED
      BY <1>2, <3>1, <3>2
  <2>6. UNCHANGED <<next_id, outcomes>>
    BY DEF clientVars
  <2> QED
    BY <2>1, <2>3, <2>4, <2>5, <2>6 DEF Pending
<1>5. VersionsAgree' /\ Unsent' /\ Answers' /\ AnswerIsForCall'
  BY DEF Inv, VersionsAgree, Unsent, Answers, AnswerIsForCall, Exit, clientVars
<1> QED
  BY <1>3, <1>4, <1>5 DEF Inv

\* Taking a line and going on: into the loop, or to the handler.
LEMMA PluginTakes ==
  ASSUME Inv, UNCHANGED clientVars,
         toPlugin # <<>>, toPlugin' = Tail(toPlugin),
         \/ /\ plugin = "await_ready" /\ version = PROTOCOL_VERSION
            /\ Head(toPlugin) = Ready
            /\ Stay("loop") /\ request' = request
         \/ /\ plugin = "loop"
            /\ Head(toPlugin).type = "request" /\ request' = Head(toPlugin).id
            /\ Stay("handling"),
         UNCHANGED <<killed, version, toClient, open, strays, logged, outcomes>>
  PROVE  Inv'
<1>1. toPlugin \in Seq(ToPlugin)
  BY DEF Inv, TypeOK, PluginTypeOK
<1>2. /\ toPlugin' \in Seq(ToPlugin) /\ Len(toPlugin) \in Nat /\ 1 \in 1..Len(toPlugin)
      /\ \A i \in 1..Len(toPlugin') :
           /\ i + 1 \in 1..Len(toPlugin) /\ i + 1 # 1
           /\ toPlugin'[i] = toPlugin[i + 1]
      /\ \A i, j \in 1..Len(toPlugin') : i # j => i + 1 # j + 1
      /\ Head(toPlugin) = toPlugin[1] /\ Head(toPlugin) \in ToPlugin
  BY <1>1, TailFacts
<1>3. TypeOK'
  BY <1>2, MessageFacts DEF Inv, TypeOK, PluginTypeOK, Stay, clientVars
<1>4. Handshake' /\ VersionsAgree'
  BY <1>2, MessageFacts DEF Inv, Handshake, VersionsAgree, Stay, clientVars
<1>5. Pending'
  <2>1. \A i \in 1..Len(toPlugin') : toPlugin'[i].type = "request" =>
          toPlugin'[i].id < next_id /\ outcomes[toPlugin'[i].id] = Unhandled
    BY <1>2 DEF Inv, Pending
  <2>2. \A i, j \in 1..Len(toPlugin') :
          (toPlugin'[i].type = "request" /\ toPlugin'[j].type = "request" /\ i # j)
            => toPlugin'[i].id # toPlugin'[j].id
    BY <1>2 DEF Inv, Pending
  <2>3. Handling' =>
          /\ request' < next_id /\ outcomes[request'] = Unhandled
          /\ \A i \in 1..Len(toPlugin') :
               toPlugin'[i].type = "request" => toPlugin'[i].id # request'
    BY <1>2 DEF Inv, Pending, Handling, Stay
  <2> QED
    BY <2>1, <2>2, <2>3 DEF Pending, clientVars
<1>6. Unsent' /\ Answers' /\ AnswerIsForCall'
  BY DEF Inv, Unsent, Answers, AnswerIsForCall, clientVars
<1> QED
  BY <1>3, <1>4, <1>5, <1>6 DEF Inv

\* Writing a line that is no answer to a request.
LEMMA PluginWrites ==
  ASSUME Inv, UNCHANGED clientVars, NEW line \in ToClient, line.type \notin Outcomes,
         toClient' = Append(toClient, line),
         \/ plugin = "hello" /\ plugin' = "await_ready" /\ strays' = strays
         \/ plugin' = plugin /\ strays' \in 0..MaxStray,
         UNCHANGED <<process, killed, version, toPlugin, open, request, logged, outcomes>>
  PROVE  Inv'
<1>1. toClient \in Seq(ToClient)
  BY DEF Inv, TypeOK, PluginTypeOK
<1>2. /\ toClient' \in Seq(ToClient) /\ Len(toClient') = Len(toClient) + 1
      /\ Len(toClient) \in Nat
      /\ \A i \in 1..Len(toClient) + 1 :
           toClient'[i] = (IF i = Len(toClient) + 1 THEN line ELSE toClient[i])
  BY <1>1, AppendFacts
<1>3. TypeOK'
  BY <1>2 DEF Inv, TypeOK, PluginTypeOK, clientVars
<1>4. Answers'
  BY <1>2 DEF Inv, Answers
<1>5. Handshake' /\ VersionsAgree' /\ Pending' /\ Unsent' /\ AnswerIsForCall'
  BY DEF Inv, Handshake, VersionsAgree, Pending, Handling, Unsent, AnswerIsForCall, clientVars
<1> QED
  BY <1>3, <1>4, <1>5 DEF Inv

\* The handler returns: only now is there an outcome, and no answer disagrees with it.
LEMMA PluginAnswers ==
  ASSUME Inv, UNCHANGED clientVars, plugin = "handling", NEW o \in Outcomes,
         outcomes' = [outcomes EXCEPT ![request] = o],
         WriteLine(Response(request, o), "loop"),
         UNCHANGED <<killed, version, toPlugin, open, request, strays, logged>>
  PROVE  Inv'
<1> USE PluginAssumption
<1>0. /\ toClient \in Seq(ToClient) /\ toPlugin \in Seq(ToPlugin) /\ request \in Ids
      /\ outcomes \in [Ids -> Outcomes \cup {Unhandled}]
      /\ Handling /\ request < next_id /\ outcomes[request] = Unhandled
  BY DEF Inv, TypeOK, PluginTypeOK, Pending, Handling
<1>1. Response(request, o) \in ToClient
  BY <1>0 DEF ToClient
<1>2. Len(toClient) \in Nat /\ toClient' \in Seq(ToClient)
      /\ \/ toClient' = toClient
         \/ /\ Len(toClient') = Len(toClient) + 1
            /\ \A i \in 1..Len(toClient) + 1 :
                 toClient'[i] = (IF i = Len(toClient) + 1 THEN Response(request, o)
                                 ELSE toClient[i])
  <2>1. toClient' \in {toClient, Append(toClient, Response(request, o))}
    BY DEF WriteLine
  <2>2. CASE toClient' = toClient
    BY <1>0, <2>2
  <2>3. CASE toClient' = Append(toClient, Response(request, o))
    BY <1>0, <1>1, <2>3, AppendFacts
  <2> QED
    BY <2>1, <2>2, <2>3
<1>3. plugin' \in {"loop", "exited"} /\ process' \in {process, "zombie"}
  BY DEF WriteLine, Stay, Exit
<1>4. \A k \in Ids : /\ outcomes[k] # Unhandled => outcomes'[k] = outcomes[k]
                     /\ k # request => outcomes'[k] = outcomes[k]
  BY <1>0
<1>5. Unhandled \notin Outcomes /\ outcomes'[request] = o
  BY <1>0 DEF Unhandled, Outcomes
<1>6. TypeOK'
  <2>1. outcomes' \in [Ids -> Outcomes \cup {Unhandled}]
    BY <1>0
  <2> QED
    BY <1>2, <1>3, <2>1 DEF Inv, TypeOK, PluginTypeOK, clientVars
<1>7. Handshake' /\ VersionsAgree'
  BY <1>3 DEF Inv, Handshake, VersionsAgree, clientVars
<1>8. Pending'
  <2>1. ~Handling'
    BY <1>3 DEF Handling
  <2>2. \A i \in 1..Len(toPlugin) : toPlugin[i].type = "request" =>
          toPlugin[i].id \in Ids /\ toPlugin[i].id # request
    BY <1>0, MessageFacts DEF Inv, Pending
  <2> QED
    BY <1>4, <2>1, <2>2 DEF Inv, Pending, clientVars
<1>9. Unsent'
  <2>1. next_id \in Nat /\ UNCHANGED next_id
    BY DEF Inv, TypeOK, clientVars
  <2>2. \A k \in Ids : k >= next_id => k # request
    BY <1>0, <2>1 DEF Ids
  <2> QED
    BY <1>4, <2>1, <2>2 DEF Inv, Unsent
<1>10. Answers'
  <2>1. \A i \in 1..Len(toClient) : toClient[i].type \in Outcomes =>
          toClient[i].id \in Ids /\ outcomes'[toClient[i].id] = toClient[i].type
    BY <1>0, <1>4, <1>5, MessageFacts DEF Inv, Answers
  <2> QED
    BY <1>2, <1>5, <2>1, MessageFacts DEF Answers
<1>11. AnswerIsForCall'
  BY <1>4, <1>5 DEF Inv, AnswerIsForCall, TypeOK, clientVars
<1> QED
  BY <1>6, <1>7, <1>8, <1>9, <1>10, <1>11 DEF Inv

\* The handler logs, or comes back from it.
LEMMA PluginLogs ==
  ASSUME Inv, UNCHANGED clientVars, BeginLog \/ Log
  PROVE  Inv'
<1>1. TypeOK'
  BY PluginAssumption DEF Inv, TypeOK, PluginTypeOK, BeginLog, Log, Stay, clientVars
<1>2. Handling /\ Handling' /\ UNCHANGED <<toPlugin, toClient, request, outcomes, version>>
  BY DEF BeginLog, Log, Stay, Handling
<1>3. Handshake' /\ Pending' /\ Unsent' /\ Answers' /\ AnswerIsForCall'
  BY <1>2 DEF Inv, Handshake, Pending, Unsent, Answers, AnswerIsForCall, clientVars
<1>4. VersionsAgree'
  BY <1>2 DEF Inv, VersionsAgree, Handling, clientVars
<1> QED
  BY <1>1, <1>3, <1>4 DEF Inv

LEMMA PluginKeepsInv ==
  ASSUME Inv, PluginMoves
  PROVE  Inv'
<1> USE DEF PluginMoves
<1>1. CASE SendHello
  <2>1. Hello(version) \in ToClient /\ Hello(version).type \notin Outcomes
    BY MessageFacts DEF Inv, TypeOK, PluginTypeOK, ToClient, Outcomes
  <2>2. CASE ~open
    BY <1>1, <2>2, PluginEnds DEF SendHello, WriteLine
  <2>3. CASE open
    BY <1>1, <2>1, <2>3, PluginWrites DEF SendHello, WriteLine, Stay
  <2> QED
    BY <2>2, <2>3
<1>2. CASE ReadReady
  <2>1. CASE Exit
    BY <1>2, <2>1, PluginEnds DEF ReadReady
  <2>2. CASE ~Exit
    BY <1>2, <2>2, PluginTakes DEF ReadReady
  <2> QED
    BY <2>1, <2>2
<1>3. CASE ReadEof \/ ReadShutdown \/ Dies
  BY <1>3, PluginEnds DEF ReadEof, ReadShutdown, Dies
<1>4. CASE ReadRequest
  BY <1>4, PluginTakes DEF ReadRequest
<1>5. CASE Respond
  <2>1. CASE \E o \in Outcomes : /\ outcomes' = [outcomes EXCEPT ![request] = o]
                                 /\ WriteLine(Response(request, o), "loop")
    BY <1>5, <2>1, PluginAnswers DEF Respond
  <2>2. CASE Exit /\ UNCHANGED <<outcomes, toClient>>
    BY <1>5, <2>2, PluginEnds DEF Respond
  <2> QED
    BY <1>5, <2>1, <2>2 DEF Respond
<1>6. CASE BeginLog \/ Log
  BY <1>6, PluginLogs
<1>7. CASE PrintStray
  <2>1. StrayLine \in ToClient /\ StrayLine.type \notin Outcomes
    BY MessageFacts DEF ToClient, Outcomes
  <2>2. strays + 1 \in 0..MaxStray
    BY <1>7, PluginAssumption DEF PrintStray, Inv, TypeOK, PluginTypeOK
  <2> QED
    BY <1>7, <2>1, <2>2, PluginWrites DEF PrintStray
<1> QED
  BY <1>1, <1>2, <1>3, <1>4, <1>5, <1>6, <1>7 DEF PluginStep, LoopStep, HandlerStep

-----------------------------------------------------------------------------
(* A step of the client.                                                   *)

Silent == Kinds \ Outcomes

LEMMA SilentFacts ==
  /\ {"none", "ok", "timeout", "terminated", "io", "not_hello", "version_mismatch",
      "too_large", "parse", "id_mismatch", "capability"} \subseteq Silent
  /\ \A kind \in Silent : Plain(kind).kind \notin Outcomes
                          /\ Plain(kind) \in [kind : Kinds, of : Ids]
  /\ \A o, k : Value(o, k).kind = o /\ Value(o, k).of = k
  /\ \A o \in Outcomes, k \in Ids : Value(o, k) \in [kind : Kinds, of : Ids]
BY PluginAssumption DEF Silent, Kinds, Outcomes, Plain, Value, Ids

\* Taking one line, or none, off the plugin's stdout and returning.
LEMMA ClientReturns ==
  ASSUME Inv,
         toClient' = toClient \/ (toClient # <<>> /\ toClient' = Tail(toClient)),
         pc' = "ready",
         \/ \E kind \in Silent : ret' = Plain(kind)
         \/ /\ toClient # <<>> /\ Head(toClient).type \in Outcomes
            /\ Head(toClient).id = id
            /\ ret' = Value(Head(toClient).type, Head(toClient).id),
         UNCHANGED <<pluginFrame, toPlugin, next_id, id, greeted, expired>>
  PROVE  Inv'
<1>1. toClient \in Seq(ToClient) /\ id \in Ids
  BY DEF Inv, TypeOK, PluginTypeOK
<1>2. toClient' \in Seq(ToClient)
      /\ \A i \in 1..Len(toClient') : \E d \in {0, 1} :
           i + d \in 1..Len(toClient) /\ toClient'[i] = toClient[i + d]
  BY <1>1, TailFacts
<1>3. ret' \in [kind : Kinds, of : Ids] /\ AnswerIsForCall'
  <2>1. CASE \E kind \in Silent : ret' = Plain(kind)
    BY <2>1, SilentFacts DEF AnswerIsForCall
  <2>2. CASE /\ toClient # <<>> /\ Head(toClient).type \in Outcomes
             /\ Head(toClient).id = id
             /\ ret' = Value(Head(toClient).type, Head(toClient).id)
    <3>1. Head(toClient) = toClient[1] /\ 1 \in 1..Len(toClient)
      BY <1>1, <2>2, TailFacts
    <3>2. outcomes[id] = Head(toClient).type
      BY <2>2, <3>1 DEF Inv, Answers
    <3>3. outcomes' = outcomes /\ id' = id
      BY DEF pluginFrame
    <3> QED
      BY <1>1, <2>2, <3>2, <3>3, SilentFacts DEF AnswerIsForCall
  <2> QED
    BY <2>1, <2>2
<1>4. TypeOK'
  BY <1>2, <1>3 DEF Inv, TypeOK, PluginTypeOK, pluginFrame
<1>5. Answers'
  BY <1>2 DEF Inv, Answers, pluginFrame
<1>6. Handshake' /\ VersionsAgree' /\ Pending' /\ Unsent'
  BY DEF Inv, Handshake, VersionsAgree, Pending, Handling, Unsent, pluginFrame
<1> QED
  BY <1>3, <1>4, <1>5, <1>6 DEF Inv

\* Sending a line that is no request.
LEMMA ClientSends ==
  ASSUME Inv, NEW line \in ToPlugin, line.type # "request",
         line.type = "ready" => greeted',
         toPlugin' = Append(toPlugin, line),
         \E kind \in Silent : ret' = Plain(kind),
         pc' \in {"ready", "exit"}, greeted' \in {TRUE, greeted}, expired' \in BOOLEAN,
         toClient' = toClient \/ (toClient # <<>> /\ toClient' = Tail(toClient)),
         UNCHANGED <<pluginFrame, next_id, id>>
  PROVE  Inv'
<1>1. toPlugin \in Seq(ToPlugin) /\ toClient \in Seq(ToClient)
  BY DEF Inv, TypeOK, PluginTypeOK
<1>2. /\ toPlugin' \in Seq(ToPlugin) /\ Len(toPlugin') = Len(toPlugin) + 1
      /\ Len(toPlugin) \in Nat
      /\ \A i \in 1..Len(toPlugin) + 1 :
           toPlugin'[i] = (IF i = Len(toPlugin) + 1 THEN line ELSE toPlugin[i])
  BY <1>1, AppendFacts
<1>3. toClient' \in Seq(ToClient)
      /\ \A i \in 1..Len(toClient') : \E d \in {0, 1} :
           i + d \in 1..Len(toClient) /\ toClient'[i] = toClient[i + d]
  <2>1. CASE toClient' = toClient
    BY <1>1, <2>1
  <2>2. CASE toClient # <<>> /\ toClient' = Tail(toClient)
    BY <1>1, <2>2, TailFacts
  <2> QED
    BY <2>1, <2>2
<1>4. ret' \in [kind : Kinds, of : Ids] /\ AnswerIsForCall'
  BY SilentFacts DEF AnswerIsForCall
<1>5. TypeOK'
  BY <1>2, <1>3, <1>4 DEF Inv, TypeOK, PluginTypeOK, pluginFrame
<1>6. \A i \in 1..Len(toPlugin') : toPlugin'[i].type = "request" =>
        i \in 1..Len(toPlugin) /\ toPlugin'[i] = toPlugin[i]
  BY <1>2
<1>7. Handshake'
  <2> SUFFICES ASSUME NEW i \in 1..Len(toPlugin'), toPlugin'[i].type = "ready"
               PROVE  greeted'
    BY DEF Handshake
  <2>1. CASE i = Len(toPlugin) + 1
    BY <1>2, <2>1
  <2>2. CASE i # Len(toPlugin) + 1
    <3>1. i \in 1..Len(toPlugin) /\ toPlugin[i].type = "ready"
      BY <1>2, <2>2
    <3>2. greeted
      BY <3>1 DEF Inv, Handshake
    <3> QED
      BY <3>2, Zenon
  <2> QED
    BY <2>1, <2>2
<1>8. Pending'
  BY <1>6 DEF Inv, Pending, Handling, pluginFrame
<1>9. VersionsAgree' /\ Unsent' /\ Answers'
  BY <1>3 DEF Inv, VersionsAgree, Unsent, Answers, pluginFrame, TypeOK
<1> QED
  BY <1>4, <1>5, <1>7, <1>8, <1>9 DEF Inv

\* A request takes a new id, whether or not it is sent.
LEMMA CallKeepsInv ==
  ASSUME Inv, BeginCall
  PROVE  Inv'
<1> USE PluginAssumption
<1>1. /\ toPlugin \in Seq(ToPlugin) /\ next_id \in Nat \ {0} /\ next_id \in Ids
      /\ next_id' = next_id + 1 /\ id' = next_id /\ next_id' \in 1..MaxCalls + 1
  BY DEF Inv, TypeOK, PluginTypeOK, BeginCall, Ids
<1>2. UNCHANGED <<pluginFrame, toClient, greeted>> /\ expired' = FALSE
      /\ pc' \in {"ready", "response"}
  BY DEF BeginCall, Return
<1>3. ret' \in [kind : Kinds, of : Ids] /\ AnswerIsForCall'
  <2>1. \E kind \in Silent : ret' = Plain(kind)
    BY SilentFacts DEF BeginCall, Return
  <2> QED
    BY <2>1, SilentFacts DEF AnswerIsForCall
<1>4. CASE toPlugin' = Append(toPlugin, Request(next_id))
  <2>1. Request(next_id) \in ToPlugin
    BY <1>1 DEF ToPlugin
  <2>2. /\ toPlugin' \in Seq(ToPlugin) /\ Len(toPlugin') = Len(toPlugin) + 1
        /\ Len(toPlugin) \in Nat
        /\ \A i \in 1..Len(toPlugin) + 1 :
             toPlugin'[i] = (IF i = Len(toPlugin) + 1 THEN Request(next_id) ELSE toPlugin[i])
    BY <1>1, <1>4, <2>1, AppendFacts
  <2>3. TypeOK'
    BY <1>1, <1>2, <1>3, <2>2 DEF Inv, TypeOK, PluginTypeOK, pluginFrame
  <2>4. Handshake' /\ Answers' /\ VersionsAgree'
    BY <1>2, <2>2, MessageFacts DEF Inv, Handshake, Answers, VersionsAgree, pluginFrame
  <2>5. \A i \in 1..Len(toPlugin) : toPlugin[i].type = "request" =>
          toPlugin[i].id < next_id /\ toPlugin[i].id \in Ids
    BY <1>1, MessageFacts DEF Inv, Pending
  <2>6. outcomes' = outcomes /\ outcomes[next_id] = Unhandled
        /\ request' = request /\ request \in Ids /\ plugin' = plugin
    BY <1>1, <1>2 DEF Inv, Unsent, pluginFrame, TypeOK, PluginTypeOK, Ids
  <2>7. Pending'
    <3>1. \A i \in 1..Len(toPlugin') : toPlugin'[i].type = "request" =>
            toPlugin'[i].id < next_id' /\ outcomes'[toPlugin'[i].id] = Unhandled
      BY <1>1, <2>2, <2>5, <2>6, MessageFacts DEF Inv, Pending, Ids
    <3>2. \A i, j \in 1..Len(toPlugin') :
            (toPlugin'[i].type = "request" /\ toPlugin'[j].type = "request" /\ i # j)
              => toPlugin'[i].id # toPlugin'[j].id
      BY <1>1, <2>2, <2>5, MessageFacts DEF Inv, Pending, Ids
    <3>3. Handling' =>
            /\ request' < next_id' /\ outcomes'[request'] = Unhandled
            /\ \A i \in 1..Len(toPlugin') :
                 toPlugin'[i].type = "request" => toPlugin'[i].id # request'
      BY <1>1, <2>2, <2>5, <2>6, MessageFacts DEF Inv, Pending, Handling, Ids
    <3> QED
      BY <3>1, <3>2, <3>3 DEF Pending
  <2>8. Unsent'
    BY <1>1, <2>6 DEF Inv, Unsent, Ids
  <2> QED
    BY <1>3, <2>3, <2>4, <2>7, <2>8 DEF Inv
<1>5. CASE toPlugin' = toPlugin
  <2>1. TypeOK'
    BY <1>1, <1>2, <1>3, <1>5 DEF Inv, TypeOK, PluginTypeOK, pluginFrame
  <2>2. Handshake' /\ Answers' /\ VersionsAgree'
    BY <1>2, <1>5 DEF Inv, Handshake, Answers, VersionsAgree, pluginFrame
  <2>3. \A k \in Ids : k < next_id => k < next_id + 1
    BY <1>1 DEF Ids
  <2>4. Pending'
    <3>1. \A i \in 1..Len(toPlugin) : toPlugin[i].type = "request" => toPlugin[i].id \in Ids
      BY <1>1, MessageFacts
    <3>2. request \in Ids
      BY DEF Inv, TypeOK, PluginTypeOK
    <3> QED
      BY <1>1, <1>2, <1>5, <2>3, <3>1, <3>2 DEF Inv, Pending, Handling, pluginFrame
  <2>5. Unsent'
    BY <1>1, <1>2 DEF Inv, Unsent, Ids, pluginFrame
  <2> QED
    BY <1>3, <2>1, <2>2, <2>4, <2>5 DEF Inv
<1> QED
  BY <1>4, <1>5 DEF BeginCall, SendLine, SendFails

\* The calls that touch neither line queue.
LEMMA QuietKeepsInv ==
  ASSUME Inv, BeginHandshake \/ RequireCapability \/ ShutdownEnds \/ ShutdownGivesUp \/ Drop
              \/ DeadlinePasses
  PROVE  Inv'
<1>1. UNCHANGED <<plugin, version, toPlugin, toClient, request, outcomes, next_id, id, greeted>>
  BY DEF BeginHandshake, RequireCapability, ShutdownEnds, ShutdownGivesUp, Drop,
         DeadlinePasses, pluginVars
<1>2. ret' = ret \/ \E kind \in Silent : ret' = Plain(kind)
  BY SilentFacts DEF BeginHandshake, RequireCapability, ShutdownEnds, ShutdownGivesUp, Drop,
         DeadlinePasses, Return
<1>3. ret' \in [kind : Kinds, of : Ids] /\ AnswerIsForCall'
  BY <1>1, <1>2, SilentFacts DEF Inv, TypeOK, AnswerIsForCall
<1>4. TypeOK'
  <2>1. /\ process' \in {"running", "zombie", "reaped"} /\ killed' \in BOOLEAN
        /\ open' \in BOOLEAN /\ UNCHANGED <<strays, logged>>
    BY DEF Inv, TypeOK, PluginTypeOK, BeginHandshake, RequireCapability, ShutdownEnds,
           ShutdownGivesUp, Drop, DeadlinePasses, pluginVars, Running
  <2>2. pc' \in {"ready", "hello", "response", "exit", "dropped"} /\ expired' \in BOOLEAN
    BY DEF Inv, TypeOK, BeginHandshake, RequireCapability, ShutdownEnds, ShutdownGivesUp,
           Drop, DeadlinePasses, Return
  <2> QED
    BY <1>1, <1>3, <2>1, <2>2 DEF Inv, TypeOK, PluginTypeOK
<1>5. Handshake' /\ VersionsAgree' /\ Pending' /\ Unsent' /\ Answers'
  BY <1>1 DEF Inv, Handshake, VersionsAgree, Pending, Handling, Unsent, Answers
<1> QED
  BY <1>3, <1>4, <1>5 DEF Inv

LEMMA InvInductive ==
  ASSUME Inv, [Next]_vars
  PROVE  Inv'
<1>1. CASE ReadEnds \/ ReadTooLate \/ HandshakeRefused \/ CallReturns
  <2>1. CASE ReadEnds \/ ReadTooLate
    BY <2>1, SilentFacts, ClientReturns DEF ReadEnds, ReadTooLate, Return, LineRead, StreamEnds
  <2>2. CASE HandshakeRefused
    BY <2>2, SilentFacts, ClientReturns DEF HandshakeRefused, Return, LineRead
  <2>3. CASE CallReturns
    BY <2>3, SilentFacts, ClientReturns DEF CallReturns, Return, LineRead
  <2> QED
    BY <1>1, <2>1, <2>2, <2>3
<1>2. CASE HandshakeDone
  <2>1. CASE SendLine(Ready)
    <3>1. Ready \in ToPlugin /\ Ready.type # "request"
      BY MessageFacts DEF ToPlugin
    <3>2. expired' \in BOOLEAN
      BY <1>2 DEF HandshakeDone, Inv, TypeOK
    <3>3. ret' = Plain("ok")
      BY <1>2, <2>1 DEF HandshakeDone, SendLine, SendFails, Return
    <3>4. pc' = "ready" /\ greeted' = TRUE /\ toPlugin' = Append(toPlugin, Ready)
      BY <1>2, <2>1 DEF HandshakeDone, SendLine, Return
    <3>5. /\ toClient # <<>> /\ toClient' = Tail(toClient)
          /\ UNCHANGED <<pluginFrame, next_id, id>>
      BY <1>2 DEF HandshakeDone, LineRead
    <3> QED
      BY <3>1, <3>2, <3>3, <3>4, <3>5, SilentFacts, ClientSends
  <2>2. CASE SendFails
    <3>1. /\ toClient \in Seq(ToClient) /\ toClient # <<>> /\ toClient' = Tail(toClient)
          /\ greeted' = TRUE /\ pc' = "ready" /\ toPlugin' = toPlugin
          /\ UNCHANGED <<pluginFrame, next_id, id, expired>>
      BY <1>2, <2>2 DEF HandshakeDone, LineRead, SendFails, Return, Inv, TypeOK, PluginTypeOK
    <3>2. ret' = Plain("io") 
      BY <1>2, <2>2 DEF HandshakeDone, SendLine, SendFails, Return
    <3>3. ret' \in [kind : Kinds, of : Ids] /\ AnswerIsForCall'
      BY <3>2, SilentFacts DEF AnswerIsForCall
    <3>4. toClient' \in Seq(ToClient)
          /\ \A i \in 1..Len(toClient') :
               i + 1 \in 1..Len(toClient) /\ toClient'[i] = toClient[i + 1]
      BY <3>1, TailFacts
    <3>5. TypeOK'
      BY <3>1, <3>3, <3>4 DEF Inv, TypeOK, PluginTypeOK, pluginFrame
    <3>6. Answers'
      BY <3>1, <3>4 DEF Inv, Answers, pluginFrame
    <3>7. Handshake' /\ VersionsAgree' /\ Pending' /\ Unsent'
      BY <3>1 DEF Inv, Handshake, VersionsAgree, Pending, Handling, Unsent, pluginFrame
    <3> QED
      BY <3>3, <3>5, <3>6, <3>7 DEF Inv
  <2> QED
    BY <1>2, <2>1, <2>2 DEF HandshakeDone
<1>3. CASE BeginShutdown
  <2>1. CASE SendLine(Shutdown)
    <3>1. Shutdown \in ToPlugin /\ Shutdown.type \notin {"request", "ready"}
      BY MessageFacts DEF ToPlugin
    <3> QED
      BY <1>3, <2>1, <3>1, SilentFacts, ClientSends DEF BeginShutdown, SendLine
  <2>2. CASE SendFails
    <3>1. ret' = Plain("none") /\ pc' = "exit" /\ expired' = FALSE /\ toPlugin' = toPlugin
          /\ UNCHANGED <<pluginFrame, toClient, next_id, id, greeted>>
      BY <1>3, <2>2 DEF BeginShutdown, SendFails
    <3>2. ret' \in [kind : Kinds, of : Ids] /\ AnswerIsForCall'
      BY <3>1, SilentFacts DEF AnswerIsForCall
    <3>3. TypeOK'
      BY <3>1, <3>2 DEF Inv, TypeOK, PluginTypeOK, pluginFrame
    <3>4. Handshake' /\ VersionsAgree' /\ Pending' /\ Unsent' /\ Answers'
      BY <3>1 DEF Inv, Handshake, VersionsAgree, Pending, Handling, Unsent, Answers, pluginFrame
    <3> QED
      BY <3>2, <3>3, <3>4 DEF Inv
  <2> QED
    BY <1>3, <2>1, <2>2 DEF BeginShutdown
<1>4. CASE UNCHANGED vars
  BY <1>4 DEF vars, pluginVars, clientVars, Inv, TypeOK, PluginTypeOK, Handshake, VersionsAgree,
              Pending, Handling, Unsent, Answers, AnswerIsForCall
<1> QED
  BY <1>1, <1>2, <1>3, <1>4, PluginKeepsInv, CallKeepsInv, QuietKeepsInv
  DEF Next, CallStart, CallStep

THEOREM InvHolds == Spec => []Inv
<1>1. Init => Inv
  BY InitInv
<1>2. Inv /\ [Next]_vars => Inv'
  BY InvInductive
<1> QED
  BY <1>1, <1>2, PTL DEF Spec

\* Every variable of the client and the plugin stays in its range.
THEOREM TypeCorrect == Spec => []TypeOK
<1>1. Inv => TypeOK
  BY DEF Inv
<1> QED
  BY <1>1, InvHolds, PTL

\* An answer that call() returns is what the handler returned for its request,
\* whatever the plugin prints besides.
THEOREM AnswersBelong == Spec => []AnswerIsForCall
<1>1. Inv => AnswerIsForCall
  BY DEF Inv
<1> QED
  BY <1>1, InvHolds, PTL

\* run_plugin hands nothing to its handler unless the client has read its hello and
\* both have one version, although call() checks neither.
THEOREM VersionsAlwaysAgree == Spec => []VersionsAgree
<1>1. Inv => VersionsAgree
  BY DEF Inv
<1> QED
  BY <1>1, InvHolds, PTL

-----------------------------------------------------------------------------
(* A plugin that prints nothing of its own stays in step with its client.  *)

Lines(queue) == {queue[i] : i \in 1..Len(queue)}
OnWay(type) == \E m \in Lines(toPlugin) : m.type = type

\* The plugin's hello is still to be said, or to be read.
HelloUnread == plugin = "hello" \/ (plugin = "await_ready" /\ toClient # <<>>)

\* The plugin answers requests, or will once it has read the Ready it was sent.
Serving == plugin \in {"loop", "handling", "logging"} \/ (plugin = "await_ready" /\ OnWay("ready"))

\* The one line there may be to read is the hello of a plugin that nobody said Ready to,
\* or the answer to the call in progress.
LineIsDue ==
  /\ Len(toClient) <= 1
  /\ \A m \in Lines(toClient) :
       \/ /\ m.type = "hello" /\ plugin \in {"await_ready", "exited"}
          /\ plugin = "await_ready" => ~OnWay("ready")
       \/ m.type \in Outcomes /\ m.id = id /\ pc = "response" /\ plugin \in {"loop", "exited"}

\* While the hello is unread no Ready is on its way, and no request but that of a call
\* that is going to read the hello in place of an answer.
HelloFirst ==
  /\ plugin = "hello" => toClient = <<>>
  /\ HelloUnread => ~OnWay("ready") /\ (OnWay("request") => pc = "response")

\* A request is in one place: on its way, with the handler, or answered; and nobody
\* but the call in progress has one.
OneAtATime ==
  Serving =>
    /\ \A m \in Lines(toPlugin) : m.type = "request" =>
         pc = "response" /\ m.id = id /\ toClient = <<>> /\ ~Handling
    /\ Handling => pc = "response" /\ request = id /\ toClient = <<>>

Exchange ==
  /\ plugin # "exited" => Running
  /\ strays = 0 => LineIsDue /\ HelloFirst /\ OneAtATime /\ InStep

LEMMA LinesFacts ==
  ASSUME NEW S, NEW q \in Seq(S)
  PROVE  /\ Lines(q) \subseteq S
         /\ q = <<>> => Lines(q) = {}
         /\ q # <<>> => /\ Head(q) \in Lines(q)
                        /\ Tail(q) \in Seq(S) /\ Lines(Tail(q)) \subseteq Lines(q)
         /\ q # <<>> /\ Len(q) <= 1 => Lines(q) = {Head(q)} /\ Tail(q) = <<>>
         /\ \A x \in S : Lines(Append(q, x)) = Lines(q) \cup {x}
<1>1. Lines(q) \subseteq S /\ (q = <<>> => Lines(q) = {})
  BY DEF Lines
<1>2. ASSUME q # <<>>
      PROVE  Head(q) \in Lines(q) /\ Tail(q) \in Seq(S) /\ Lines(Tail(q)) \subseteq Lines(q)
  <2>1. /\ Tail(q) \in Seq(S) /\ Len(Tail(q)) = Len(q) - 1 /\ Len(q) \in Nat \ {0}
        /\ \A i \in 1..Len(q) - 1 : Tail(q)[i] = q[i + 1]
        /\ Head(q) = q[1]
    BY <1>2, TailFacts
  <2>2. \A i \in 1..Len(q) - 1 : i + 1 \in 1..Len(q)
    BY <2>1
  <2> QED
    BY <2>1, <2>2 DEF Lines
<1>3. ASSUME q # <<>>, Len(q) <= 1
      PROVE  Lines(q) = {Head(q)} /\ Tail(q) = <<>>
  <2>1. /\ Tail(q) \in Seq(S) /\ Len(Tail(q)) = Len(q) - 1 /\ Len(q) \in Nat \ {0}
        /\ Head(q) = q[1]
    BY <1>3, TailFacts
  <2>2. Len(q) = 1 /\ 1..Len(q) = {1}
    BY <1>3, <2>1
  <2>3. Len(Tail(q)) = 0
    BY <2>1, <2>2
  <2>4. Tail(q) = <<>>
    BY <2>1, <2>3, EmptySeq
  <2> QED
    BY <2>1, <2>2, <2>4 DEF Lines
<1>4. ASSUME NEW x \in S
      PROVE  Lines(Append(q, x)) = Lines(q) \cup {x}
  <2>1. /\ Len(Append(q, x)) = Len(q) + 1 /\ Len(q) \in Nat
        /\ \A i \in 1..Len(q) + 1 :
             Append(q, x)[i] = (IF i = Len(q) + 1 THEN x ELSE q[i])
    BY AppendFacts
  <2>2. \A i \in 1..Len(q) : i \in 1..Len(q) + 1 /\ i # Len(q) + 1
    BY <2>1
  <2>3. \A i \in 1..Len(q) + 1 : i = Len(q) + 1 \/ i \in 1..Len(q)
    BY <2>1
  <2>4. Len(q) + 1 \in 1..Len(q) + 1
    BY <2>1
  <2> QED
    BY <2>1, <2>2, <2>3, <2>4 DEF Lines
<1> QED
  BY <1>1, <1>2, <1>3, <1>4

LEMMA NoLines == Len(<<>>) = 0 /\ Lines(<<>>) = {}
<1>1. Len(<<>>) = 0
  OBVIOUS
<1> QED
  BY <1>1 DEF Lines

\* The queues of a state that satisfies the invariant.
LEMMA QueueFacts ==
  ASSUME Inv
  PROVE  /\ toPlugin \in Seq(ToPlugin) /\ toClient \in Seq(ToClient) /\ strays \in Nat
         /\ Lines(toPlugin) \subseteq ToPlugin
         /\ \A m \in ToPlugin : Lines(Append(toPlugin, m)) = Lines(toPlugin) \cup {m}
         /\ toClient = <<>> =>
              /\ Len(toClient) = 0 /\ Lines(toClient) = {}
              /\ \A m \in ToClient : /\ Len(Append(toClient, m)) = 1
                                     /\ Lines(Append(toClient, m)) = {m}
<1>1. toPlugin \in Seq(ToPlugin) /\ toClient \in Seq(ToClient) /\ strays \in Nat
  BY DEF Inv, TypeOK, PluginTypeOK
<1>2. /\ Lines(toPlugin) \subseteq ToPlugin
      /\ \A m \in ToPlugin : Lines(Append(toPlugin, m)) = Lines(toPlugin) \cup {m}
  BY <1>1, LinesFacts
<1>3. /\ toClient = <<>> => Lines(toClient) = {}
      /\ \A m \in ToClient : Lines(Append(toClient, m)) = Lines(toClient) \cup {m}
  BY <1>1, LinesFacts
<1>4. \A m \in ToClient : Len(Append(toClient, m)) = Len(toClient) + 1
  BY <1>1, AppendFacts
<1>5. toClient = <<>> => Len(toClient) = 0
  OBVIOUS
<1> QED
  BY <1>1, <1>2, <1>3, <1>4, <1>5

\* A plugin that ends leaves at most the line there was.
LEMMA ExitKeepsExchange ==
  ASSUME Inv, Exchange, Exit, UNCHANGED <<toClient, strays, pc, id, ret>>
  PROVE  Exchange'
BY DEF Exchange, Exit, LineIsDue, HelloFirst, HelloUnread, OneAtATime, Serving, InStep

\* A step that leaves the plugin's place and the answers alone, takes no request from
\* its call, and sends neither a Ready nor a request.
LEMMA QuietKeepsExchange ==
  ASSUME Inv, Exchange,
         UNCHANGED <<plugin, toClient, strays, request, id>>,
         process' = process \/ plugin = "exited",
         toPlugin' = toPlugin \/ toPlugin' = Append(toPlugin, Shutdown),
         pc = "response" => pc' = "response",
         ret' = ret \/ ret'.kind # "id_mismatch"
  PROVE  Exchange'
<1>0. Shutdown \in ToPlugin
  BY DEF ToPlugin
<1>1. \A m \in Lines(toPlugin') : m \in Lines(toPlugin) \/ m.type = "shutdown"
  <2>1. Lines(toPlugin') \subseteq Lines(toPlugin) \cup {Shutdown}
    BY <1>0, QueueFacts
  <2> QED
    BY <2>1 DEF Shutdown
<1>2. Lines(toPlugin) \subseteq Lines(toPlugin')
  BY <1>0, QueueFacts
<1>3. \A type \in {"ready", "request"} : OnWay(type)' <=> OnWay(type)
  BY <1>1, <1>2 DEF OnWay
<1>4. (plugin # "exited" => Running)'
  BY DEF Exchange, Running
<1>5. ASSUME strays = 0
      PROVE  LineIsDue' /\ HelloFirst' /\ OneAtATime' /\ InStep'
  <2>1. LineIsDue /\ HelloFirst /\ OneAtATime /\ InStep
    BY <1>5 DEF Exchange
  <2>2. LineIsDue'
    BY <1>3, <2>1 DEF LineIsDue
  <2>3. HelloFirst'
    BY <1>3, <2>1 DEF HelloFirst, HelloUnread
  <2>4. OneAtATime'
    BY <1>1, <1>3, <2>1 DEF OneAtATime, Serving, Handling
  <2>5. InStep'
    BY <1>5, <2>1 DEF InStep
  <2> QED
    BY <2>2, <2>3, <2>4, <2>5
<1> QED
  BY <1>4, <1>5 DEF Exchange

LEMMA PluginKeepsExchange ==
  ASSUME Inv, Inv', Exchange, PluginMoves
  PROVE  Exchange'
<1> USE DEF PluginMoves, clientVars
<1>1. CASE Exit
  <2>1. UNCHANGED <<toClient, strays>>
    BY <1>1 DEF Exit, PluginStep, LoopStep, HandlerStep, SendHello, ReadReady, ReadEof,
       ReadShutdown, ReadRequest, Respond, Log, BeginLog, PrintStray, Dies, WriteLine, Stay,
       Inv, TypeOK, PluginTypeOK
  <2> QED
    BY <1>1, <2>1, ExitKeepsExchange
<1>2. CASE SendHello /\ ~Exit
  <2>1. /\ plugin = "hello" /\ plugin' = "await_ready" /\ UNCHANGED <<process, toPlugin, strays>>
        /\ toClient' = Append(toClient, Hello(version)) /\ Running
    BY <1>2 DEF SendHello, WriteLine, Stay
  <2>2. Hello(version) \in ToClient /\ Hello(version).type = "hello"
    BY MessageFacts DEF ToClient, Inv, TypeOK, PluginTypeOK
  <2>3. (plugin # "exited" => Running)'
    BY <2>1 DEF Running
  <2>4. ASSUME strays = 0
        PROVE  LineIsDue' /\ HelloFirst' /\ OneAtATime' /\ InStep'
    <3>1. toClient = <<>> /\ ~OnWay("ready") /\ (OnWay("request") => pc = "response")
      BY <2>1, <2>4 DEF Exchange, HelloFirst, HelloUnread
    <3>2. Len(toClient') = 1 /\ Lines(toClient') = {Hello(version)}
      BY <2>1, <2>2, <3>1, QueueFacts
    <3>3. ~OnWay("ready")' /\ (OnWay("request")' => pc = "response")
      BY <2>1, <3>1 DEF OnWay
    <3>4. LineIsDue'
      BY <2>1, <2>2, <3>2, <3>3 DEF LineIsDue
    <3>5. HelloFirst' /\ OneAtATime'
      BY <2>1, <3>3 DEF HelloFirst, OneAtATime, Serving
    <3> QED
      BY <2>4, <3>4, <3>5 DEF Exchange, InStep
  <2> QED
    BY <2>1, <2>3, <2>4 DEF Exchange
<1>3. CASE ReadReady /\ ~Exit
  <2>1. /\ plugin = "await_ready" /\ plugin' = "loop" /\ UNCHANGED <<process, toClient, strays>>
        /\ toPlugin # <<>> /\ toPlugin' = Tail(toPlugin) /\ Head(toPlugin) = Ready /\ Running
    BY <1>3 DEF ReadReady, Stay
  <2>2. OnWay("ready") /\ Lines(toPlugin') \subseteq Lines(toPlugin)
    BY <2>1, QueueFacts, LinesFacts, MessageFacts DEF OnWay
  <2>3. ASSUME strays = 0
        PROVE  LineIsDue' /\ HelloFirst' /\ OneAtATime' /\ InStep'
    <3>1. LineIsDue /\ OneAtATime /\ InStep /\ Serving
      BY <2>1, <2>2, <2>3 DEF Exchange, Serving
    <3>2. LineIsDue'
      BY <2>1, <2>2, <3>1 DEF LineIsDue
    <3>3. OneAtATime'
      BY <2>1, <2>2, <3>1 DEF OneAtATime, Handling
    <3> QED
      BY <2>1, <2>3, <3>1, <3>2, <3>3 DEF HelloFirst, HelloUnread, InStep
  <2> QED
    BY <2>1, <2>3 DEF Exchange, Running
<1>4. CASE ReadRequest
  <2>1. /\ plugin = "loop" /\ plugin' = "handling" /\ UNCHANGED <<process, toClient, strays>>
        /\ toPlugin # <<>> /\ toPlugin' = Tail(toPlugin) /\ Head(toPlugin).type = "request"
        /\ request' = Head(toPlugin).id /\ Running
    BY <1>4 DEF ReadRequest, Stay
  <2>2. Lines(toPlugin') \subseteq Lines(toPlugin) /\ Head(toPlugin) \in Lines(toPlugin)
    BY <2>1, QueueFacts, LinesFacts
  <2>3. \A m \in Lines(toPlugin') : m.type = "request" => m.id # request'
    <3>1. Handling'
      BY <2>1 DEF Handling
    <3> QED
      BY <3>1 DEF Inv, Pending, Lines
  <2>4. ASSUME strays = 0
        PROVE  LineIsDue' /\ HelloFirst' /\ OneAtATime' /\ InStep'
    <3>1. LineIsDue /\ OneAtATime /\ InStep /\ Serving
      BY <2>1, <2>4 DEF Exchange, Serving
    <3>2. /\ pc = "response" /\ Head(toPlugin).id = id /\ toClient = <<>>
          /\ \A m \in Lines(toPlugin') : m.type # "request"
      BY <2>1, <2>2, <2>3, <3>1 DEF OneAtATime
    <3>3. LineIsDue'
      BY <2>1, <3>2, QueueFacts DEF LineIsDue
    <3>4. OneAtATime'
      BY <2>1, <3>2 DEF OneAtATime
    <3> QED
      BY <2>1, <2>4, <3>1, <3>3, <3>4 DEF HelloFirst, HelloUnread, InStep
  <2> QED
    BY <2>1, <2>4 DEF Exchange, Running
<1>5. CASE Respond /\ ~Exit
  <2>1. PICK o \in Outcomes : /\ toClient' = Append(toClient, Response(request, o))
                              /\ plugin' = "loop"
    BY <1>5 DEF Respond, WriteLine, Stay
  <2>2. /\ plugin = "handling" /\ UNCHANGED <<process, toPlugin, strays, request>> /\ Running
    BY <1>5 DEF Respond, WriteLine, Stay
  <2>3. /\ Response(request, o) \in ToClient
        /\ Response(request, o).type = o /\ Response(request, o).id = request
    BY MessageFacts DEF ToClient, Inv, TypeOK, PluginTypeOK
  <2>4. ASSUME strays = 0
        PROVE  LineIsDue' /\ HelloFirst' /\ OneAtATime' /\ InStep'
    <3>1. /\ pc = "response" /\ request = id /\ toClient = <<>>
          /\ \A m \in Lines(toPlugin) : m.type # "request"
      BY <2>2, <2>4 DEF Exchange, OneAtATime, Serving, Handling
    <3>2. Len(toClient') = 1 /\ Lines(toClient') = {Response(request, o)}
      BY <2>1, <2>3, <3>1, QueueFacts
    <3>3. LineIsDue'
      BY <2>1, <2>3, <3>1, <3>2 DEF LineIsDue
    <3>4. HelloFirst' /\ OneAtATime'
      BY <2>1, <2>2, <3>1 DEF HelloFirst, HelloUnread, OneAtATime, Handling
    <3> QED
      BY <2>2, <2>4, <3>3, <3>4 DEF Exchange, InStep
  <2> QED
    BY <2>1, <2>2, <2>4 DEF Exchange, Running
<1>6. CASE BeginLog \/ Log
  <2>1. /\ Handling /\ Handling' /\ Running
        /\ UNCHANGED <<process, toPlugin, toClient, request, strays>>
    BY <1>6 DEF BeginLog, Log, Stay, Handling
  <2>2. ASSUME strays = 0
        PROVE  LineIsDue' /\ HelloFirst' /\ OneAtATime' /\ InStep'
    <3>1. LineIsDue /\ OneAtATime /\ InStep /\ Serving /\ toClient = <<>>
      BY <2>1, <2>2 DEF Exchange, Serving, Handling, OneAtATime
    <3>2. LineIsDue'
      BY <2>1, <3>1, QueueFacts, LinesFacts DEF LineIsDue
    <3>3. OneAtATime' /\ HelloFirst'
      BY <2>1, <3>1 DEF OneAtATime, Handling, HelloFirst, HelloUnread
    <3> QED
      BY <2>2, <3>1, <3>2, <3>3 DEF InStep
  <2> QED
    BY <2>1, <2>2 DEF Exchange, Running
<1>7. CASE PrintStray
  <2>1. strays' # 0 /\ UNCHANGED <<plugin, process>>
    BY <1>7, QueueFacts DEF PrintStray
  <2> QED
    BY <2>1 DEF Exchange, Running
<1>8. Exit \/ SendHello \/ ReadReady \/ ReadRequest \/ Respond \/ BeginLog \/ Log \/ PrintStray
  BY DEF PluginStep, LoopStep, HandlerStep, ReadEof, ReadShutdown, Dies
<1> QED
  BY <1>1, <1>2, <1>3, <1>4, <1>5, <1>6, <1>7, <1>8

\* A call that takes the one line there is, whatever it makes of it, leaves none; a
\* hello that is gone without a Ready is never said again.
LEMMA ReadKeepsExchange ==
  ASSUME Inv, Exchange, pc \in {"hello", "response"}, pc' = "ready",
         LineRead, UNCHANGED <<pluginFrame, toPlugin, id>>,
         strays = 0 => ret'.kind # "id_mismatch"
  PROVE  Exchange'
<1> USE DEF LineRead
<1>1. /\ UNCHANGED <<plugin, process, strays, request>>
      /\ (plugin # "exited" => Running)'
  BY DEF Exchange, pluginFrame, Running
<1>2. ASSUME strays = 0
      PROVE  LineIsDue' /\ HelloFirst' /\ OneAtATime' /\ InStep'
  <2>1. LineIsDue /\ HelloFirst /\ OneAtATime
    BY <1>2 DEF Exchange
  <2>2. /\ Lines(toClient) = {Head(toClient)} /\ toClient' = <<>>
        /\ Len(toClient') = 0 /\ Lines(toClient') = {}
    <3>1. Lines(toClient) = {Head(toClient)} /\ toClient' = <<>>
      BY <2>1, QueueFacts, LinesFacts DEF LineIsDue
    <3> QED
      BY <3>1, NoLines
  <2>3. LineIsDue'
    BY <2>2 DEF LineIsDue
  <2>4. HelloFirst'
    BY <1>1, <2>1, <2>2 DEF HelloFirst, HelloUnread
  <2>5. OneAtATime'
    <3>1. CASE plugin = "await_ready"
      BY <1>1, <2>1, <3>1 DEF HelloFirst, HelloUnread, OneAtATime, Serving, Handling, OnWay
    <3>2. CASE plugin # "await_ready"
      BY <1>1, <2>1, <3>2 DEF OneAtATime, Serving, Handling
    <3> QED
      BY <3>1, <3>2
  <2> QED
    BY <1>2, <2>3, <2>4, <2>5 DEF InStep
<1> QED
  BY <1>1, <1>2 DEF Exchange

\* The answer a call reads has the call's own id.
LEMMA CallReturnsInStep ==
  ASSUME Inv, Exchange, CallReturns
  PROVE  Exchange'
<1>1. strays = 0 /\ Head(toClient).type \in Outcomes => Head(toClient).id = id
  <2>1. Head(toClient) \in Lines(toClient)
    BY QueueFacts, LinesFacts DEF CallReturns, LineRead
  <2>2. strays = 0 => LineIsDue
    BY DEF Exchange
  <2> QED
    BY <2>1, <2>2 DEF LineIsDue, Outcomes
<1>2. strays = 0 => ret'.kind # "id_mismatch"
  BY <1>1 DEF CallReturns, Return, Plain, Value, Outcomes
<1>3. /\ pc \in {"hello", "response"} /\ pc' = "ready" /\ LineRead
      /\ UNCHANGED <<pluginFrame, toPlugin, id>>
  BY DEF CallReturns, Return
<1> QED
  BY <1>2, <1>3, ReadKeepsExchange

\* A handshake that is done says Ready to a plugin that has no request yet.
LEMMA HandshakeKeepsExchange ==
  ASSUME Inv, Exchange, HandshakeDone, SendLine(Ready)
  PROVE  Exchange'
<1>1. /\ pc = "hello" /\ pc' = "ready" /\ LineRead /\ Running
      /\ toPlugin' = Append(toPlugin, Ready) /\ ret' \in {Plain("ok"), Plain("io")}
      /\ UNCHANGED <<plugin, process, strays, request, id>>
  BY DEF HandshakeDone, SendLine, Return, pluginFrame
<1>2. Lines(toPlugin') = Lines(toPlugin) \cup {Ready} /\ Ready.type = "ready"
  BY <1>1, QueueFacts, MessageFacts DEF ToPlugin
<1>3. ASSUME strays = 0
      PROVE  LineIsDue' /\ HelloFirst' /\ OneAtATime' /\ InStep'
  <2>1. LineIsDue /\ HelloFirst
    BY <1>3 DEF Exchange
  <2>2. /\ Lines(toClient) = {Head(toClient)} /\ toClient # <<>> /\ toClient' = <<>>
        /\ Len(toClient') = 0 /\ Lines(toClient') = {}
    <3>1. Lines(toClient) = {Head(toClient)} /\ toClient # <<>> /\ toClient' = <<>>
      BY <1>1, <2>1, QueueFacts, LinesFacts DEF LineIsDue, LineRead
    <3> QED
      BY <3>1, NoLines
  <2>3. plugin \in {"await_ready", "exited"}
    BY <1>1, <2>1, <2>2 DEF LineIsDue
  <2>4. plugin = "await_ready" => \A m \in Lines(toPlugin') : m.type # "request"
    BY <1>1, <1>2, <2>1, <2>2 DEF HelloFirst, HelloUnread, OnWay
  <2>5. LineIsDue' /\ HelloFirst'
    BY <1>1, <2>2, <2>3 DEF LineIsDue, HelloFirst, HelloUnread
  <2>6. OneAtATime'
    BY <1>1, <2>3, <2>4 DEF OneAtATime, Serving, Handling
  <2> QED
    BY <1>1, <2>5, <2>6 DEF InStep, Plain, Value
<1> QED
  BY <1>1, <1>3 DEF Exchange, Running

\* A call begins when no other has a request or an answer anywhere.
LEMMA CallKeepsExchange ==
  ASSUME Inv, Exchange, BeginCall
  PROVE  Exchange'
<1>1. /\ pc = "ready" /\ id' = next_id
      /\ UNCHANGED <<plugin, process, strays, request, toClient>>
      /\ \/ /\ toPlugin' = Append(toPlugin, Request(next_id)) /\ pc' = "response"
            /\ ret' = Plain("none")
         \/ /\ toPlugin' = toPlugin /\ pc' = "ready"
            /\ ret' \in {Plain("io"), Plain("too_large")}
  BY DEF BeginCall, SendLine, SendFails, Return, pluginFrame
<1>2. /\ Request(next_id) \in ToPlugin
      /\ Request(next_id).type = "request" /\ Request(next_id).id = next_id
  BY MessageFacts, PluginAssumption DEF ToPlugin, BeginCall, Inv, TypeOK, Ids
<1>3. \/ toPlugin' = toPlugin /\ pc' = "ready"
      \/ Lines(toPlugin') = Lines(toPlugin) \cup {Request(next_id)} /\ pc' = "response"
  BY <1>1, <1>2, QueueFacts
<1>4. OnWay("ready")' <=> OnWay("ready")
  BY <1>2, <1>3 DEF OnWay
<1>5. ASSUME strays = 0
      PROVE  LineIsDue' /\ HelloFirst' /\ OneAtATime' /\ InStep'
  <2>1. LineIsDue /\ HelloFirst /\ OneAtATime
    BY <1>5 DEF Exchange
  <2>2. LineIsDue'
    BY <1>1, <1>4, <2>1 DEF LineIsDue
  <2>3. HelloFirst'
    BY <1>1, <1>3, <1>4, <2>1 DEF HelloFirst, HelloUnread, OnWay
  <2>4. OneAtATime'
    <3> SUFFICES ASSUME Serving'
                 PROVE  /\ ~Handling'
                        /\ \A m \in Lines(toPlugin') : m.type = "request" =>
                             pc' = "response" /\ m.id = id' /\ toClient' = <<>>
      BY DEF OneAtATime
    <3>1. Serving /\ ~Handling /\ \A m \in Lines(toPlugin) : m.type # "request"
      BY <1>1, <1>4, <2>1 DEF Serving, OneAtATime
    <3>2. toClient = <<>>
      <4> SUFFICES ASSUME toClient # <<>>
                   PROVE  FALSE
        OBVIOUS
      <4>1. Head(toClient) \in Lines(toClient)
        BY QueueFacts, LinesFacts
      <4> QED
        BY <1>1, <2>1, <3>1, <4>1 DEF LineIsDue, Serving
    <3> QED
      BY <1>1, <1>2, <1>3, <3>1, <3>2 DEF Handling
  <2> QED
    BY <1>1, <2>2, <2>3, <2>4 DEF InStep, Plain, Value
<1> QED
  BY <1>1, <1>5 DEF Exchange, Running

LEMMA ClientKeepsExchange ==
  ASSUME Inv, Exchange, CallStart \/ CallStep \/ DeadlinePasses
  PROVE  Exchange'
<1> USE DEF Return, Plain, Value
<1>1. CASE ReadTooLate \/ HandshakeRefused \/ (HandshakeDone /\ SendFails)
  <2>1. /\ pc \in {"hello", "response"} /\ pc' = "ready" /\ LineRead
        /\ UNCHANGED <<pluginFrame, toPlugin, id>>
        /\ ret'.kind \in {"timeout", "not_hello", "version_mismatch", "ok", "io"}
    BY <1>1 DEF ReadTooLate, HandshakeRefused, HandshakeDone, SendFails, SendLine
  <2> QED
    BY <2>1, ReadKeepsExchange
<1>2. CASE ReadEnds
  <2>1. /\ plugin = "exited" /\ ~Running /\ UNCHANGED <<pluginFrame, toClient, toPlugin, id>>
        /\ toClient = <<>> /\ ret'.kind = "terminated"
    BY <1>2 DEF ReadEnds, StreamEnds, Exchange
  <2>2. Len(toClient) = 0 /\ Lines(toClient) = {}
    BY <2>1, QueueFacts
  <2> QED
    BY <2>1, <2>2 DEF Exchange, LineIsDue, HelloFirst, HelloUnread, OneAtATime, Serving, InStep,
       pluginFrame
<1>3. CASE BeginHandshake \/ RequireCapability \/ BeginShutdown \/ ShutdownEnds
           \/ ShutdownGivesUp \/ Drop \/ DeadlinePasses
  <2>1. /\ UNCHANGED <<plugin, toClient, strays, request, id>>
        /\ toPlugin' \in {toPlugin, Append(toPlugin, Shutdown)}
        /\ pc = "response" => pc' = "response"
    BY <1>3 DEF BeginHandshake, RequireCapability, BeginShutdown, ShutdownEnds,
       ShutdownGivesUp, Drop, DeadlinePasses, SendLine, SendFails, pluginFrame, pluginVars
  <2>2. process' = process \/ plugin = "exited"
    BY <1>3 DEF BeginHandshake, RequireCapability, BeginShutdown, ShutdownEnds,
       ShutdownGivesUp, Drop, DeadlinePasses, pluginFrame, pluginVars, Exchange
  <2>3. ret' = ret \/ ret'.kind # "id_mismatch"
    BY <1>3 DEF BeginHandshake, RequireCapability, BeginShutdown, ShutdownEnds,
       ShutdownGivesUp, Drop, DeadlinePasses
  <2> QED
    BY <2>1, <2>2, <2>3, QuietKeepsExchange
<1> QED
  BY <1>1, <1>2, <1>3, CallReturnsInStep, HandshakeKeepsExchange, CallKeepsExchange
  DEF CallStart, CallStep, HandshakeDone

\* A plugin that prints nothing but its answers never has one taken for that of another
\* call, whatever calls timed out, were too large or came before the handshake.
THEOREM CallsStayInStep == Spec => []InStep
<1>1. Init => Exchange
  BY DEF Init, PluginInit, Exchange, LineIsDue, HelloFirst, HelloUnread, OneAtATime, Serving,
     Lines, OnWay, InStep, Running, Plain, Value
<1>2. Inv /\ Inv' /\ Exchange /\ [Next]_vars => Exchange'
  <2> SUFFICES ASSUME Inv, Inv', Exchange, [Next]_vars
               PROVE  Exchange'
    OBVIOUS
  <2>1. CASE UNCHANGED vars
    BY <2>1 DEF vars, pluginVars, clientVars, Exchange, LineIsDue, HelloFirst, HelloUnread,
       OneAtATime, Serving, Handling, Lines, OnWay, InStep, Running
  <2> QED
    BY <2>1, PluginKeepsExchange, ClientKeepsExchange DEF Next
<1>3. Inv /\ Exchange => InStep
  BY DEF Exchange, InStep
<1> QED
  BY <1>1, <1>2, <1>3, InvHolds, PTL DEF Spec

=============================================================================
