------------------------------- MODULE MCPty -------------------------------
(* One child, a small stream: the pty session under every schedule.        *)
EXTENDS PtySession

\* Nothing the child or its descendants do holds up a call, but for input that nobody
\* reads, and the reader thread ends when nobody holds the tty any more.
SessionEnds == CallsReturn /\ ReaderEnds
=============================================================================
