----------------------------- MODULE MCService -----------------------------
(***************************************************************************)
(* The parts of the service that do not share the reservation tables, each *)
(* on an instance of its own: Init chooses one, and the others stay as     *)
(* they are.                                                               *)
(***************************************************************************)
EXTENDS AdminConsole, Shutdown, LocalTime, SequencesExt

CONSTANT MaxTokens

VARIABLES part, statement, params, text, i, mode, out, ordered, outcome

\* In units of half an hour: Berlin's two offsets, and zones that change by as
\* much the other way round, by half an hour, or not at all.
HalfHourZones == [change : {<<8, 20>>, <<9, 17>>}, offset : [1..3 -> {2, 3, 4}]]
HalfHours == 0..30

ASSUME ZonesAssumption == ZonesSettle

-----------------------------------------------------------------------------
(* Tokens of SQL, each with a blank behind it or, to end a statement, without. *)

Letters == {"a", "_"}
Digits == {"1"}

Names == {<<"a">>, <<"a", "1">>}

Plain(t) == [text |-> t, name |-> <<>>]

Tokens ==
  {[text |-> <<":">> \o n \o end, name |-> n] : n \in Names, end \in {<<>>, <<" ">>}} \cup
  {[text |-> <<":", "a", ":", ":", "a", " ">>, name |-> <<"a">>]} \cup  \* :a::a
  {Plain(t) : t \in {
     <<":">>, <<"a", ":", ":", "a">>, <<"'", ":", "a", "'">>, <<"'", "'", "'", "'">>,
     <<"\"", ":", "a", "\"">>, <<"/", "*", "*", "/">>}} \cup
  {Plain(Append(t, " ")) : t \in {
     <<"a">>, <<"-">>, <<"/">>, <<"*">>, <<":", "1">>,  \* :1 is the bound of a slice
     <<"a", ":", ":", "a">>,
     <<"'", ":", "a", "'">>, <<"'", "'", "'", ":", "a", "'">>,
     <<"'", "-", "-", "'">>, <<"'", "/", "*", "'">>, <<"'", "\"", "'">>,
     <<"\"", ":", "a", "\"">>, <<"\"", "\"", "\"", ":", "a", "\"">>, <<"\"", "'", "\"">>,
     <<"-", "-", "'", ":", "a", "\n">>,
     <<"/", "*", "*", "/">>, <<"/", "*", "\"", ":", "a", "*", "/">>}}

Renderer == INSTANCE QueryRenderer

ASSUME TokensAssumption == Renderer!TokensAreSql

-----------------------------------------------------------------------------

rendererVars == <<statement, params, text, i, mode, out, ordered, outcome>>

vars == <<part, sessionVars, consoleVars, shutdownVars, localTimeVars, rendererVars>>

InCookies == part = "cookies"
InConsole == part = "console"
InServer == part = "server"
InClocks == part = "clocks"
InRenderer == part = "renderer"

\* A part that is not chosen.
NoClocks ==
  /\ parser = 0 /\ zone = 0 /\ value = 0 /\ fold = 0 /\ candidates = 0 /\ instant = Pending
NoRenderer ==
  /\ statement = 0 /\ params = 0 /\ text = 0 /\ i = 0 /\ mode = 0 /\ out = 0
  /\ ordered = 0 /\ outcome = 0

\* The console has clocks that agree, and the others leave it as it starts.
Init ==
  /\ ConsoleInit /\ ShutdownInit
  /\ InCookies \/ skew = [h \in Hosts |-> 0]
  /\ \/ (InCookies \/ InConsole \/ InServer) /\ NoClocks /\ NoRenderer
     \/ InClocks /\ LocalTimeInit /\ NoRenderer
     \/ InRenderer /\ Renderer!RendererInit /\ NoClocks

ServerRest == <<part, sessionVars, consoleVars, localTimeVars, rendererVars>>

\* Time passes for the cookies; the console has one moment, in which they hold.
Next ==
  \/ /\ InCookies /\ SessionsNext
     /\ UNCHANGED <<part, consoleVars, shutdownVars, localTimeVars, rendererVars>>
  \/ /\ InConsole /\ ConsoleNext
     /\ UNCHANGED <<part, clock, shutdownVars, localTimeVars, rendererVars>>
  \/ InServer /\ ShutdownNext /\ UNCHANGED ServerRest
  \/ /\ InClocks /\ LocalTimeNext
     /\ UNCHANGED <<part, sessionVars, consoleVars, shutdownVars, rendererVars>>
  \/ /\ InRenderer /\ Renderer!RendererNext
     /\ UNCHANGED <<part, sessionVars, consoleVars, shutdownVars, localTimeVars>>

\* The main thread, the handlers on it and the shutdown threads go on; a handler that
\* waits for a lock goes on when it is free.
ServerGoes(A) == InServer /\ A /\ UNCHANGED ServerRest

Spec ==
  /\ Init /\ [][Next]_vars
  /\ WF_vars(ServerGoes(Handle))
  /\ WF_vars(ServerGoes(Main))
  /\ WF_vars(ServerGoes(Threads))

-----------------------------------------------------------------------------

\* The types of the part.
TypeOK ==
  /\ ConsoleTypeOK
  /\ ShutdownTypeOK
  /\ InClocks => LocalTimeTypeOK
  /\ InRenderer => Renderer!RendererTypeOK

\* QueryRenderer: the values are those of the markers.
RendersMarkers == InRenderer => Renderer!RendersMarkers

\* QueryRenderer: nothing else is touched.
OnlyMarkersChange == InRenderer => Renderer!OnlyMarkersChange

=============================================================================
