---------------------------- MODULE SessionLoops -----------------------------
(***************************************************************************)
(* The shape of a session, without clocks, numbers and messages: which     *)
(* loop of Application::run comes after which, when each of them receives  *)
(* and when it takes messages from the parser, what may end the session    *)
(* where, and what the client may decide in one pass of the main loop.     *)
(*                                                                         *)
(* FixSession implements it with the messages, SessionTimers with the      *)
(* clocks: on this the two models of the one function agree.               *)
(*   src/src/application.cpp     run, read_next_business_message           *)
(*   src/src/fix_regression.cpp  run_file (its reads and its sends)        *)
(***************************************************************************)
EXTENDS Naturals

CONSTANT RxBound  \* bound: complete messages waiting in the parser

VARIABLES
  test_mode,
  phase,            \* logon, script, main, closed
  at,               \* point in the phase's loop; when closed, why
  rx,               \* complete messages in the parser's buffer
  scenarios_sent, logout_initiated, test_pending

flags == <<scenarios_sent, logout_initiated, test_pending>>
vars  == <<test_mode, phase, at, rx, flags>>

At(loop, point) == phase = loop /\ at = point

\* The parser is a local of run: what is left in it goes with it.
Close(why) == phase' = "closed" /\ at' = why /\ rx' = 0

\* A failed call, a failed handler or a failed scenario ends every loop.
Break == phase # "closed" /\ Close("broken") /\ UNCHANGED <<test_mode, flags>>

\* recv brings messages. A read of the regression script looks at its deadline
\* before it takes them, and leaves a pending TestRequest pending.
Receive ==
  /\ phase # "closed" /\ at = "recv"
  /\ rx' \in rx..RxBound
  /\ at' = IF phase = "script" THEN "top" ELSE "drain"
  /\ test_pending' = (phase = "script" /\ test_pending)
  /\ UNCHANGED <<test_mode, phase, scenarios_sent, logout_initiated>>

ReceiveTimeout ==
  /\ phase # "closed" /\ at = "recv"
  /\ at' = "top"
  /\ UNCHANGED <<test_mode, phase, rx, flags>>

\* A message leaves the parser. It may end a read of the script, the logon loop or
\* the session; a request to stop is lost on the script.
Message ==
  /\ phase # "closed" /\ at = "drain" /\ rx > 0
  /\ \/ rx' = rx - 1 /\ UNCHANGED <<phase, at>>
     \/ phase = "script" /\ at' = "command" /\ rx' = rx - 1 /\ UNCHANGED phase
     \/ phase = "logon" /\ phase' = "script" /\ at' = "command" /\ rx' = rx - 1
     \/ phase # "script" /\ Close("stopped")
  /\ UNCHANGED <<test_mode, flags>>

\* No message is left: only a read of the script goes on to recv from here.
BufferEmpty ==
  /\ phase # "closed" /\ at = "drain" /\ rx = 0
  /\ at' = IF phase = "script" THEN "recv" ELSE "top"
  /\ UNCHANGED <<test_mode, phase, rx, flags>>

Logon ==
  /\ At("logon", "top")
  /\ \/ at' = "recv" /\ UNCHANGED <<phase, rx>>
     \/ Close("no_logon")
  /\ UNCHANGED <<test_mode, flags>>

\* A line or a step is sent, a read begins (only a regression reads), a read gives up
\* or looks into the parser, the script is over.
Script ==
  /\ phase = "script"
  /\ \/ at = "command" /\ scenarios_sent' = TRUE /\ UNCHANGED <<phase, at>>
     \/ at = "command" /\ test_mode /\ at' = "top" /\ UNCHANGED <<phase, scenarios_sent>>
     \/ at = "top" /\ at' \in {"command", "drain"} /\ UNCHANGED <<phase, scenarios_sent>>
     \/ at = "command" /\ phase' = "main" /\ at' = "top" /\ UNCHANGED scenarios_sent
  /\ UNCHANGED <<test_mode, rx, logout_initiated, test_pending>>

\* At the top of a pass one thing is decided: the client's Logout, once; the end of
\* the wait for its answer; the end of the wait for a live counterparty; a
\* TestRequest. None of them follows another in the same pass: in the rest of it
\* nothing ends the session but a failure.
Decide ==
  /\ At("main", "top")
  /\ \/ /\ scenarios_sent /\ ~logout_initiated
        /\ logout_initiated' = TRUE
        /\ at' \in {"rest", "recv"}
        /\ UNCHANGED <<phase, rx, test_pending>>
     \/ logout_initiated /\ Close("logout_wait") /\ UNCHANGED <<logout_initiated, test_pending>>
     \/ /\ ~logout_initiated /\ test_pending
        /\ Close("dead_peer")
        /\ UNCHANGED <<logout_initiated, test_pending>>
     \/ /\ ~logout_initiated /\ ~test_pending
        /\ test_pending' = TRUE
        /\ at' = "rest"
        /\ UNCHANGED <<phase, rx, logout_initiated>>
     \/ at' = "rest" /\ UNCHANGED <<phase, rx, logout_initiated, test_pending>>
  /\ UNCHANGED <<test_mode, scenarios_sent>>

\* The pass ends in recv.
Wait ==
  /\ phase = "main" /\ at \in {"top", "rest"}
  /\ at' = "recv"
  /\ UNCHANGED <<test_mode, phase, rx, flags>>

Init ==
  /\ test_mode \in BOOLEAN
  /\ phase = "logon" /\ at = "top" /\ rx = 0
  /\ scenarios_sent = FALSE /\ logout_initiated = FALSE /\ test_pending = FALSE

Next ==
  \/ Break \/ Receive \/ ReceiveTimeout \/ Message \/ BufferEmpty
  \/ Logon \/ Script \/ Decide \/ Wait

Spec == Init /\ [][Next]_vars

=============================================================================
