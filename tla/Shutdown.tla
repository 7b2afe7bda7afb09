------------------------------ MODULE Shutdown ------------------------------
(***************************************************************************)
(* How the server of __main__.py stops.  Python runs a signal handler on   *)
(* the main thread between two of its bytecodes, and so, for a second      *)
(* signal, in the middle of the handler of the first: `handlers` is the    *)
(* stack of handlers on the main thread, each at its next statement, and   *)
(* the main thread's own code goes on only when it is empty.               *)
(*                                                                         *)
(* threading.Event is Python as well: set() takes a lock that is not       *)
(* reentrant, sets the flag, which is_set() reads without the lock, and    *)
(* gives the lock back.  A handler that waits for that lock is on the      *)
(* thread of the handler that has it, which does not go on meanwhile.      *)
(*                                                                         *)
(* The server is wsgiref's: serve_forever, on the main thread, serves one  *)
(* request at a time and looks in between at a flag that shutdown(), on    *)
(* another thread, sets before it waits for the event "is shut down".      *)
(***************************************************************************)
EXTENDS Naturals, Sequences

CONSTANT MaxSignals  \* bound on the signals that are delivered

VARIABLES
  main,       \* where main() is; "crashed": its finally clause raises before server_close
  handlers,   \* the signal handlers under way, the innermost one last
  stopEvent,  \* the flag of stop_event
  locked,     \* is the lock of stop_event held?
  results,    \* shutdown_threads, as the set of its members' types
  shutdowns,  \* where each graceful-shutdown thread is
  flag,       \* the server's __shutdown_request
  isDown,     \* the server's __is_shut_down
  signals,    \* how many signals were delivered
  nested      \* was one delivered while the handler of another ran?

shutdownVars ==
  <<main, handlers, stopEvent, locked, results, shutdowns, flag, isDown, signals, nested>>

Returned == {"thread", "False"}

ShutdownTypeOK ==
  /\ main \in {"listening", "select", "request", "left", "close", "ended", "crashed"}
  /\ handlers \in Seq({"stop", "test", "set", "inside", "leave", "start"} \cup Returned)
  /\ results \subseteq Returned
  /\ shutdowns \in Seq({"flag", "wait", "finished"})
  /\ {stopEvent, locked, flag, isDown, nested} \subseteq BOOLEAN
  /\ signals \in 0..MaxSignals

ShutdownInit ==
  /\ main = "listening"
  /\ handlers = <<>>
  /\ results = {} /\ shutdowns = <<>>
  /\ stopEvent = FALSE /\ locked = FALSE /\ flag = FALSE /\ isDown = FALSE /\ nested = FALSE
  /\ signals = 0

-----------------------------------------------------------------------------
(* The signal handler, `stop`, and request_shutdown(wait=False). *)

Deliver ==
  /\ main \notin {"ended", "crashed"} /\ signals < MaxSignals
  /\ signals' = signals + 1
  /\ nested' = (nested \/ handlers # <<>>)
  /\ handlers' = Append(handlers, "stop")
  /\ UNCHANGED <<main, stopEvent, locked, results, shutdowns, flag, isDown>>

At(p) == handlers # <<>> /\ handlers[Len(handlers)] = p

Then(p) == handlers' = [handlers EXCEPT ![Len(handlers)] = p]

Return == handlers' = SubSeq(handlers, 1, Len(handlers) - 1)

\* Mutant: relies on the test in request_shutdown.
StopAlways ==
  /\ At("stop") /\ Then("test")
  /\ UNCHANGED <<main, stopEvent, locked, results, shutdowns, flag, isDown, signals, nested>>

Stop ==
  /\ At("stop")
  /\ IF stopEvent THEN Return ELSE Then("test")
  /\ UNCHANGED <<main, stopEvent, locked, results, shutdowns, flag, isDown, signals, nested>>

Test ==
  /\ At("test")
  /\ Then(IF stopEvent THEN "False" ELSE "set")
  /\ UNCHANGED <<main, stopEvent, locked, results, shutdowns, flag, isDown, signals, nested>>

\* stop_event.set(), line 12: Acquire waits for the lock.
Acquire ==
  /\ At("set") /\ ~locked
  /\ locked' = TRUE
  /\ Then("inside")
  /\ UNCHANGED <<main, stopEvent, results, shutdowns, flag, isDown, signals, nested>>

SetFlag ==
  /\ At("inside")
  /\ stopEvent' = TRUE
  /\ Then("leave")
  /\ UNCHANGED <<main, locked, results, shutdowns, flag, isDown, signals, nested>>

Release ==
  /\ At("leave")
  /\ locked' = FALSE
  /\ Then("start")
  /\ UNCHANGED <<main, stopEvent, results, shutdowns, flag, isDown, signals, nested>>

\* Mutant: calls server.shutdown() itself, on the thread it has to wait for.
ShutdownHere ==
  /\ At("start")
  /\ flag' = TRUE
  /\ isDown /\ Then("thread")
  /\ UNCHANGED <<main, stopEvent, locked, results, shutdowns, isDown, signals, nested>>

Start ==
  /\ At("start")
  /\ shutdowns' = Append(shutdowns, "flag")
  /\ Then("thread")
  /\ UNCHANGED <<main, stopEvent, locked, results, flag, isDown, signals, nested>>

AppendResult ==
  /\ handlers # <<>> /\ handlers[Len(handlers)] \in Returned
  /\ results' = results \cup {handlers[Len(handlers)]}
  /\ Return
  /\ UNCHANGED <<main, stopEvent, locked, shutdowns, flag, isDown, signals, nested>>

Handle == Stop \/ Test \/ Acquire \/ SetFlag \/ Release \/ Start \/ AppendResult

-----------------------------------------------------------------------------
(* server.shutdown(), in a thread of its own. *)

Shutdown(t) ==
  /\ \/ /\ shutdowns[t] = "flag"
        /\ flag' = TRUE
        /\ shutdowns' = [shutdowns EXCEPT ![t] = "wait"]
     \/ /\ shutdowns[t] = "wait" /\ isDown
        /\ shutdowns' = [shutdowns EXCEPT ![t] = "finished"]
        /\ UNCHANGED flag
  /\ UNCHANGED <<main, handlers, stopEvent, locked, results, isDown, signals, nested>>

-----------------------------------------------------------------------------
(* main(): from the line that says it is listening. *)

MainGoes(from, to) ==
  /\ handlers = <<>> /\ main = from
  /\ main' = to
  /\ UNCHANGED <<handlers, stopEvent, locked, results, shutdowns, signals, nested>>

ServeForever == MainGoes("listening", "select") /\ isDown' = FALSE /\ UNCHANGED flag

\* A request came in, and none asked the server to stop.
HandleRequest == ~flag /\ MainGoes("select", "request") /\ UNCHANGED <<flag, isDown>>

RequestServed == MainGoes("request", "select") /\ UNCHANGED <<flag, isDown>>

LeaveLoop == flag /\ MainGoes("select", "left") /\ flag' = FALSE /\ isDown' = TRUE

\* thread.join(5): the thread has finished, or it takes longer than that; False
\* has no join.
JoinThreads ==
  MainGoes("left", IF "False" \in results THEN "crashed" ELSE "close")
    /\ UNCHANGED <<flag, isDown>>

ServerClose == MainGoes("close", "ended") /\ UNCHANGED <<flag, isDown>>

Main ==
  ServeForever \/ HandleRequest \/ RequestServed \/ LeaveLoop \/ JoinThreads \/ ServerClose

Threads == \E t \in DOMAIN shutdowns : Shutdown(t)

ShutdownNext == Deliver \/ Handle \/ Main \/ Threads

ShutdownSpec == ShutdownInit /\ [][ShutdownNext]_shutdownVars

-----------------------------------------------------------------------------

\* Signals that come one after the other, whenever they come, stop the server
\* once, and the socket is closed.  (One that comes between lines 33 and 12 of
\* another's handler may start a second thread, have False joined, or hang.)
StopsOnce == ~nested => Len(shutdowns) <= 1 /\ main # "crashed"

Stopped == main \in {"ended", "crashed"}

\* The innermost handler waits at line 12 for the lock that one below it holds, and
\* so for ever.
Hung == At("set") /\ locked

\* A signal stops the server: also one before serve_forever has begun, one during
\* a request, and one in the handler of another; the only way not to stop is to be
\* hung, which a signal inside the set() of another brings about.
Stops == (signals > 0) ~> (Stopped \/ Hung)

=============================================================================
