-------------------------- MODULE TmuxSessionProofs --------------------------
(***************************************************************************)
(* Proofs about TmuxSession, for any number of frames, whichever of them   *)
(* show the awaited text or look alike: the cache a caller reads is of its *)
(* own call, an answer holds of what the caller reads, and a session that  *)
(* was let go of leaves a server behind only if its kill-server has failed.  *)
(***************************************************************************)
EXTENDS TmuxSession, TLAPS

\* The call in progress may have got to this step, or goes there from its refresh.
At(step) == pc = step \/ (pc \in {"screen", "raw"} /\ after = step)

\* Which calls take which way.
Ways ==
  /\ At("text") => call = "wait_for_text"
  /\ At("first") \/ At("compare") \/ pc = "idle" => call = "wait_for_idle"
  /\ At("kill") => call \in {"close", "drop"}
  /\ pc = "text" => after = "text"
  /\ pc = "keys" => after \in {"return", "enter"}
  /\ pc = "poll" => call = "wait_for_exit"
  /\ pc = "alive" => call = "is_alive"

\* A capture is of the call in progress if it is no older than that call.
Fresh(cached) == cached = NoFrame \/ cached >= since
InOrder == screen = NoFrame \/ raw = NoFrame \/ screen <= raw

\* No capture is of a frame that was not drawn; the one just taken is fresh, and so are
\* both after a refresh.
Captures ==
  /\ since <= frame
  /\ screen # NoFrame => screen <= frame
  /\ raw # NoFrame => raw <= frame
  /\ pc = "raw" => Fresh(screen)
  /\ pc \in {"text", "first", "idle", "compare"} \/ (pc = "return" /\ call \in Refreshing) =>
       Fresh(screen) /\ Fresh(raw) /\ InOrder

\* All looks since the last change found the body that the next is compared with.
Looks ==
  /\ At("compare") \/ pc = "idle" => looks = {previous}
  /\ pc = "idle" => previous = Body(screen)

\* A closed session has no server that its kill-server reached.
Servers ==
  /\ pc = "create" => (hung \/ server = "absent") /\ ~closed
  /\ hung => pc \notin {"ready", "drop", "dropped"}
  /\ closed => server \in {"absent", "gone"} \/ killLost
  /\ pc = "dropped" => closed \/ server = "absent"

Inv == TypeOK /\ Ways /\ Captures /\ Looks /\ Servers /\ CacheIsCurrent /\ AnswersHold

LEMMA InitInv ==
  ASSUME Init
  PROVE  Inv
<1>1. 0 \in Frames /\ NoFrame \in Cached
  BY TmuxAssumption DEF Frames, Cached
<1>2. previous \in {Body(f) : f \in Cached}
  BY <1>1 DEF Init, Body
<1>3. TypeOK
  BY <1>1, <1>2 DEF Init, TypeOK
<1> QED
  BY <1>3, TmuxAssumption DEF Init, Inv, Ways, At, Captures, Fresh, InOrder, Refreshing, Looks, Servers,
     CacheIsCurrent, AnswersHold

\* What the numbers of a state are.
LEMMA FrameFacts ==
  ASSUME TypeOK
  PROVE  /\ frame \in Nat /\ since \in Nat
         /\ screen # NoFrame => screen \in Nat
         /\ raw # NoFrame => raw \in Nat
         /\ frame \in Cached /\ frame # NoFrame /\ NoFrame \in Cached
         /\ frame < MaxFrame => frame + 1 \in Frames
BY TmuxAssumption DEF TypeOK, Frames, Cached

-----------------------------------------------------------------------------
(* The steps of a call.                                                    *)

LEMMA TypesKept ==
  ASSUME Inv, [Next]_vars
  PROVE  TypeOK'
<1> USE FrameFacts DEF Inv, TypeOK, cache, waiting, Goto, Return
<1>1. CASE NewSession \/ Refuse
  BY <1>1 DEF NewSession, Refuse
<1>2. CASE CaptureScreen \/ CaptureRaw
  BY <1>2 DEF CaptureScreen, CaptureRaw, Fails, Misses, TimesOut
<1>3. CASE RefreshReturns \/ PressEnter \/ LookForText \/ LookIdle \/ UnknownKey
  BY <1>3 DEF RefreshReturns, PressEnter, LookForText, LookIdle, UnknownKey
<1>4. CASE SendKeys \/ LookAlive \/ PollExit
  BY <1>4 DEF SendKeys, LookAlive, PollExit, Fails, Misses, TimesOut
<1>5. CASE FirstBody \/ Compare
  BY <1>5 DEF FirstBody, Compare
<1>6. CASE KillServer
  <2>1. killLost' \in BOOLEAN
    <3>1. (server' \in {"up", "wedged"}) \in BOOLEAN
      OBVIOUS
    <3> QED
      BY <1>6, <3>1, Zenon DEF KillServer
  <2>2. server' \in {"absent", "up", "wedged", "gone"} /\ pc' \in {"dropped", "return"}
    BY <1>6 DEF KillServer, Reaches, Fails, Misses, TimesOut
  <2>3. closed' = TRUE /\ UNCHANGED <<frame, cache, call, after, waiting, answer, hung, since>>
    BY <1>6 DEF KillServer
  <2> QED
    BY <2>1, <2>2, <2>3
<1>7. CASE Drop
  BY <1>7 DEF Drop
<1>8. CASE BeginCall
  <2>1. NoFrame \in Cached
    BY FrameFacts
  <2>2. previous' = NoFrame => previous' \in {Body(f) : f \in Cached}
    BY <2>1 DEF Body
  <2> QED
    BY <1>8, <2>2 DEF BeginCall, Begin, SendText, SendLine, Press, WaitForText, WaitForIdle,
       WaitForExit, ReadAvailable, ScreenAttributed, IsAlive, Close
<1>9. CASE DeadlinePasses \/ StablePasses \/ Draw \/ ServerChanges \/ UNCHANGED vars
  BY <1>9 DEF DeadlinePasses, StablePasses, Draw, ServerChanges, vars
<1>10. CASE CommandHangs
  BY <1>10 DEF CommandHangs
<1> QED
  BY <1>1, <1>2, <1>3, <1>4, <1>5, <1>6, <1>7, <1>8, <1>9, <1>10 DEF Next, CallStep

LEMMA CallBegins ==
  ASSUME Inv, BeginCall
  PROVE  Ways' /\ Captures' /\ Looks' /\ Servers' /\ CacheIsCurrent' /\ AnswersHold'
<1>1. PICK name, first, cont : Begin(name, first, cont)
  BY DEF BeginCall, SendText, SendLine, Press, WaitForText, WaitForIdle, WaitForExit,
     ReadAvailable, ScreenAttributed, IsAlive, Close
<1>2. /\ pc = "ready" /\ since' = frame /\ answer' = "none"
      /\ UNCHANGED <<server, frame, screen, raw, closed, hung, killLost>>
  BY <1>1 DEF Begin, cache
<1>3. Ways' /\ pc' \notin {"text", "first", "idle", "compare", "raw", "ready", "create", "dropped"}
      /\ ~At("compare")' /\ (pc' = "return" => call' \notin Refreshing)
  BY DEF BeginCall, Begin, SendText, SendLine, Press, WaitForText, WaitForIdle, WaitForExit,
     ReadAvailable, ScreenAttributed, IsAlive, Close, Ways, At, Refreshing
<1>4. Captures'
  BY <1>2, <1>3, FrameFacts DEF Inv, Captures
<1> QED
  BY <1>2, <1>3, <1>4 DEF Inv, Looks, Servers, CacheIsCurrent, AnswersHold

LEMMA RefreshKeepsInv ==
  ASSUME Inv, CaptureScreen \/ CaptureRaw
  PROVE  Ways' /\ Captures' /\ Looks' /\ Servers' /\ CacheIsCurrent' /\ AnswersHold'
<1>1. /\ UNCHANGED <<frame, closed, call, after, waiting, answer, since, hung, killLost>>
      /\ server' = server \/ (server = "wedged" /\ server' = "gone")
  BY DEF CaptureScreen, CaptureRaw, Fails, Misses, TimesOut
<1>2. Servers'
  BY <1>1 DEF Inv, Servers, CaptureScreen, CaptureRaw, Goto, TypeOK
<1>3. CASE CaptureScreen
  <2>1. pc = "screen" /\ pc' = "raw" /\ raw' = raw /\ screen' \in {frame, NoFrame}
    BY <1>3 DEF CaptureScreen, Goto
  <2>2. Captures'
    BY <1>1, <2>1, FrameFacts DEF Inv, Captures, Fresh
  <2> QED
    BY <1>1, <1>2, <2>1, <2>2 DEF Inv, Ways, At, Looks, CacheIsCurrent, AnswersHold, waiting
<1>4. CASE CaptureRaw
  <2>1. pc = "raw" /\ pc' = after /\ screen' = screen /\ raw' \in {frame, NoFrame}
    BY <1>4 DEF CaptureRaw, Goto
  <2>2. Fresh(screen)' /\ Fresh(raw)' /\ InOrder'
    BY <1>1, <2>1, FrameFacts DEF Inv, Captures, Fresh, InOrder
  <2>3. Captures'
    BY <1>1, <2>1, <2>2, FrameFacts DEF Inv, Captures, TypeOK
  <2> QED
    BY <1>1, <1>2, <2>1, <2>3 DEF Inv, TypeOK, Ways, At, Looks, CacheIsCurrent, AnswersHold,
       waiting
<1> QED
  BY <1>3, <1>4

\* The steps that end a call, or go on to the next refresh, and do not run a command that
\* reads the pane.
LEMMA CallKeepsInv ==
  ASSUME Inv, CallStep \/ (~hung /\ (Refuse \/ UnknownKey)) \/ Drop, ~CaptureScreen, ~CaptureRaw
  PROVE  Ways' /\ Captures' /\ Looks' /\ Servers' /\ CacheIsCurrent' /\ AnswersHold'
<1>0. ~hung
  BY DEF CallStep, Drop, Inv, Servers
<1> USE DEF Inv, Ways, At, Captures, Fresh, InOrder, Looks, Servers, CacheIsCurrent,
         AnswersHold, Goto, Return, cache, waiting, Refreshing
<1>1. CASE NewSession \/ Refuse
  BY <1>0, <1>1 DEF NewSession, Refuse
<1>2. CASE RefreshReturns
  BY <1>0, <1>2 DEF RefreshReturns
<1>3. CASE SendKeys \/ UnknownKey \/ PressEnter
  BY <1>0, <1>3 DEF SendKeys, UnknownKey, PressEnter, Fails, Misses, TimesOut
<1>4. CASE LookForText
  BY <1>0, <1>4 DEF LookForText
<1>5. CASE FirstBody
  BY <1>0, <1>5 DEF FirstBody
<1>6. CASE LookIdle
  BY <1>0, <1>6 DEF LookIdle
<1>7. CASE Compare
  BY <1>0, <1>7 DEF Compare
<1>8. CASE LookAlive \/ PollExit
  BY <1>0, <1>8 DEF LookAlive, PollExit, Fails, Misses, TimesOut
<1>9. CASE KillServer
  BY <1>0, <1>9 DEF KillServer, Reaches, Fails, Misses, TimesOut, TypeOK
<1>10. CASE Drop
  BY <1>0, <1>10 DEF Drop
<1> QED
  BY <1>1, <1>2, <1>3, <1>4, <1>5, <1>6, <1>7, <1>8, <1>9, <1>10 DEF CallStep

\* Time, the program and the server go on, whatever the call does.
LEMMA OthersKeepInv ==
  ASSUME Inv,
         CommandHangs \/ DeadlinePasses \/ StablePasses \/ Draw \/ ServerChanges \/ UNCHANGED vars
  PROVE  Ways' /\ Captures' /\ Looks' /\ Servers' /\ CacheIsCurrent' /\ AnswersHold'
<1>1. /\ UNCHANGED <<screen, raw, closed, pc, call, after, previous, answer, since, looks, killLost>>
      /\ frame' = frame \/ frame' = frame + 1
      /\ server \in {"absent", "gone"} => server' = server \/ (hung' /\ pc = "create")
      /\ hung' = hung \/ (hung' /\ pc \notin {"ready", "drop", "dropped"})
  BY DEF CommandHangs, DeadlinePasses, StablePasses, Draw, ServerChanges, vars, cache, waiting
<1>2. Captures'
  BY <1>1, FrameFacts DEF Inv, Captures, Fresh, InOrder
<1> QED
  BY <1>1, <1>2 DEF Inv, Ways, At, Looks, Servers, CacheIsCurrent, AnswersHold

LEMMA InvInductive ==
  ASSUME Inv, [Next]_vars
  PROVE  Inv'
BY TypesKept, CallBegins, RefreshKeepsInv, CallKeepsInv, OthersKeepInv DEF Inv, Next

\* Whatever the program draws and the server does, the invariant and with it the types
\* of the variables are kept.
THEOREM InvHolds == Spec => [](Inv /\ TypeOK)
<1>1. Inv => TypeOK
  BY DEF Inv
<1> QED
  BY <1>1, InitInv, InvInductive, PTL DEF Spec

\* What a caller finds in the cache is no older than its call, and the text on it is not
\* newer than the escapes.
THEOREM CacheAlwaysCurrent == Spec => []CacheIsCurrent
<1>1. Inv => CacheIsCurrent
  BY DEF Inv
<1> QED
  BY <1>1, InvHolds, PTL

\* A wait that answers true is right about the screen that its caller reads, although the
\* program may have drawn on since.
THEOREM AnswersAlwaysHold == Spec => []AnswersHold
<1>1. Inv => AnswersHold
  BY DEF Inv
<1> QED
  BY <1>1, InvHolds, PTL

\* A session that was let go of, however far it had come, leaves a server only if its
\* kill-server has failed.
THEOREM NoServerIsLeft == Spec => []NoServerLeft
<1>1. Inv => NoServerLeft
  BY DEF Inv, Servers, NoServerLeft
<1> QED
  BY <1>1, InvHolds, PTL

=============================================================================
