---------------------------- MODULE SessionDriver ----------------------------
(***************************************************************************)
(* SessionDriver of crates/termproof/src/terminal/driver.rs: it wraps a    *)
(* Box<dyn Session> and keeps a counter and one Option<DriverError>.       *)
(*                                                                         *)
(* A scenario may make any call in any order, and the session underneath   *)
(* may refuse any of them: "every call is fallible" is the contract of the *)
(* Session trait. Arguments, labels and timeouts are abstracted to the name *)
(* of the operation, the screen to whether it shows what is looked for.    *)
(***************************************************************************)
EXTENDS Naturals, Sequences

CONSTANTS
  Commands,    \* driving calls the session only accepts or refuses
  Waits,       \* driving calls whose condition may also never hold
  MaxDriving   \* bound on the driving calls of a scenario

VARIABLES
  driven,    \* driving calls issued
  failure,   \* Option<DriverError>
  owner,     \* "driver", or who has the session after the driver is gone
  reply,     \* what the last reading call returned
  seen,      \* the calls the session was given, by ordinal
  scenario, armed  \* history: every driving call, and where it was last cleared

driverVars == <<driven, failure, owner, reply, seen, scenario, armed>>

Ops == Commands \cup Waits \cup {"settle"}
Causes == {"session", "unsatisfied"}
Failure == [call : 1..MaxDriving, op : Ops, cause : Causes]
NoFailure == [call |-> 0]

Nothing == [answer |-> "none"]
Obtained == [answer |-> "value"]
Expectation == [answer |-> "expectation"]
Surfaced(f) == [answer |-> "failure", failure |-> f]

IsFailed == failure # NoFailure

DriverInit ==
  /\ driven = 0 /\ failure = NoFailure
  /\ owner = "driver" /\ reply = Nothing
  /\ seen = <<>> /\ scenario = <<>> /\ armed = 0

-----------------------------------------------------------------------------
(* Driving calls.                                                          *)

\* fail(): the first failure wins.
Fail(op, cause) ==
  failure' = IF IsFailed THEN failure
             ELSE [call |-> driven + 1, op |-> op, cause |-> cause]

\* A call made while a failure is pending is counted and does nothing else.
Drive(op, results) ==
  /\ owner = "driver" /\ driven < MaxDriving
  /\ driven' = driven + 1
  /\ \/ /\ IsFailed
        /\ scenario' = Append(scenario, [op |-> op, result |-> "skipped"])
        /\ UNCHANGED <<failure, seen>>
     \/ /\ ~IsFailed
        /\ seen' = Append(seen, driven + 1)
        /\ \E result \in results :
             /\ scenario' = Append(scenario, [op |-> op, result |-> result])
             /\ IF result = "ok" THEN UNCHANGED failure ELSE Fail(op, result)
  /\ UNCHANGED <<owner, reply, armed>>

\* send_text(), send_line(), press(), read_available() and close().
Command == \E op \in Commands : Drive(op, {"ok", "session"})

\* wait_for_idle(), wait_for_text() and wait_for_exit(): a condition that never
\* held fails the scenario; an exit without an exit code counts as such.
Wait == \E op \in Waits : Drive(op, {"ok", "unsatisfied", "session"})

\* settle(), the advisory wait: only the session refusing it is a failure.
Settle == Drive("settle", {"ok", "session"})

-----------------------------------------------------------------------------
(* Reading calls.                                                          *)

\* screen(), raw_output(), exit_code(), is_alive() and the explicit check().
Read ==
  /\ owner = "driver"
  /\ reply' = IF IsFailed THEN Surfaced(failure) ELSE Obtained
  /\ UNCHANGED <<driven, failure, owner, seen, scenario, armed>>

\* expect_screen_contains() and expect_screen_lacks(): a pending failure is
\* reported before the expectation is looked at.
Expect ==
  /\ owner = "driver"
  /\ \/ IsFailed /\ reply' = Surfaced(failure)
     \/ ~IsFailed /\ reply' \in {Obtained, Expectation}
  /\ UNCHANGED <<driven, failure, owner, seen, scenario, armed>>

\* Faulty: the counter starts over.
ClearAndRestart ==
  /\ owner = "driver"
  /\ reply' = IF IsFailed THEN Surfaced(failure) ELSE Nothing
  /\ failure' = NoFailure
  /\ armed' = Len(scenario)
  /\ driven' = 0
  /\ UNCHANGED <<owner, seen, scenario>>

ClearFailure ==
  /\ owner = "driver"
  /\ reply' = IF IsFailed THEN Surfaced(failure) ELSE Nothing
  /\ failure' = NoFailure
  /\ armed' = Len(scenario)
  /\ UNCHANGED <<driven, owner, seen, scenario>>

\* session() and session_mut(): the driver sees nothing of what happens there.
Bypass ==
  /\ owner = "driver"
  /\ reply' = Nothing
  /\ UNCHANGED <<driven, failure, owner, seen, scenario, armed>>

\* finish() consumes the driver: with a failure pending, the session is dropped.
Finish ==
  /\ owner = "driver"
  /\ \/ IsFailed /\ reply' = Surfaced(failure) /\ owner' = "dropped"
     \/ ~IsFailed /\ reply' = Obtained /\ owner' = "caller"
  /\ UNCHANGED <<driven, failure, seen, scenario, armed>>

IntoInner ==
  /\ owner = "driver"
  /\ owner' = "caller" /\ reply' = Nothing
  /\ UNCHANGED <<driven, failure, seen, scenario, armed>>

Driving == Command \/ Wait \/ Settle

DriverNext == Driving \/ Read \/ Expect \/ ClearFailure \/ Bypass \/ Finish \/ IntoInner

DriverSpec == DriverInit /\ [][DriverNext]_driverVars

-----------------------------------------------------------------------------
DrivingCall == [op : Ops, result : Causes \cup {"ok", "skipped"}]

\* Every variable stays in its range.
DriverTypeOK ==
  /\ driven \in 0..MaxDriving
  /\ failure \in Failure \cup {NoFailure}
  /\ owner \in {"driver", "caller", "dropped"}
  /\ reply \in {Nothing, Obtained, Expectation} \cup {Surfaced(f) : f \in Failure}
  /\ seen \in Seq(1..MaxDriving)
  /\ scenario \in Seq(DrivingCall)
  /\ armed \in 0..MaxDriving

\* The call a pending failure names is the last one the session was given: the
\* session still is in the state in which the scenario went wrong.
StoppedAtFailure ==
  IsFailed => Len(seen) > 0 /\ seen[Len(seen)] = failure.call

\* The counter and one Option are all of the script a caller can tell: the
\* driver implements the promise of its documentation, in which every answer
\* is the first failure of the whole script since it was last cleared.
Deferred == INSTANCE DeferredFailure WITH
  MaxCalls <- MaxDriving, script <- scenario,
  reply <- IF reply = Expectation THEN Nothing ELSE reply
ImplementsDeferredFailure == Deferred!Spec

=============================================================================
