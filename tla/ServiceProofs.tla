---------------------------- MODULE ServiceProofs ----------------------------
(***************************************************************************)
(* The parts of the service that share nothing.  Session cookies, shutdown *)
(* and local times have an invariant each; then MCService, which composes  *)
(* them with the console and the renderer, has the invariants of all.      *)
(***************************************************************************)
EXTENDS MCService, AdminConsoleProofs

-----------------------------------------------------------------------------
(* Sessions. *)

SessionsSpec == SessionsInit /\ [][SessionsNext]_sessionVars

\* A cookie carries the time of the host that signed it, no later than now.
SignedInTime ==
  /\ clock \in Nat
  /\ skew \in [Hosts -> 0..MaxSkew]
  /\ \A c \in issued :
       /\ c.at \in Nat /\ c.at <= clock
       /\ c.iat \in Int /\ c.at <= c.iat /\ c.iat <= c.at + MaxSkew
       /\ c # NoCookie

LEMMA SignedStarts == ASSUME MaxSkew \in Nat, SessionsInit PROVE SignedInTime
BY DEF SessionsInit, SignedInTime

LEMMA IssueKeeps ==
  ASSUME MaxSkew \in Nat, NoCookie \notin Cookies, SignedInTime,
         NEW u \in Users, NEW h \in Hosts, Issue(h, u)
  PROVE  SignedInTime'
<1>. DEFINE c == SignSession(h, u)
<1>1. skew[h] \in 0..MaxSkew /\ clock \in Nat
  BY DEF SignedInTime
<1>2. c \in Cookies /\ c.at = clock /\ c.iat = clock + skew[h]
  BY <1>1 DEF SignSession, HostTime, Cookies
<1>. HIDE DEF c
<1>3. issued' = issued \cup {c} /\ clock' = clock /\ skew' = skew
  BY DEF Issue, c
<1>. QED
  BY <1>1, <1>2, <1>3 DEF SignedInTime

LEMMA SignedStep ==
  ASSUME MaxSkew \in Nat, NoCookie \notin Cookies, SignedInTime, [SessionsNext]_sessionVars
  PROVE  SignedInTime'
<1>1. CASE UNCHANGED sessionVars
  BY <1>1 DEF SignedInTime, sessionVars
<1>2. CASE Tick
  BY <1>2 DEF SignedInTime, Tick
<1>3. ASSUME NEW u \in Users, SetAccount(u) PROVE SignedInTime'
  BY <1>3 DEF SignedInTime, SetAccount
<1>4. ASSUME NEW u \in Users, NEW h \in Hosts, Issue(h, u) PROVE SignedInTime'
  BY <1>4, IssueKeeps
<1>. QED
  BY <1>1, <1>2, <1>3, <1>4 DEF SessionsNext

LEMMA SignedLasts ==
  ASSUME MaxSkew \in Nat, MaxAge \in Nat, Tolerance \in Nat, SignedInTime
  PROVE  SessionLifetime
<1>. SUFFICES ASSUME NEW c \in issued, NEW h \in Hosts
              PROVE  /\ MaxSkew <= Tolerance /\ clock - c.at <= MaxAge - MaxSkew
                          => VerifySession(h, c)
                     /\ VerifySession(h, c) => clock - c.at <= MaxAge + MaxSkew
  BY DEF SessionLifetime
<1>1. /\ skew[h] \in 0..MaxSkew /\ clock \in Nat
      /\ c.at \in Nat /\ c.at <= clock
      /\ c.iat \in Int /\ c.at <= c.iat /\ c.iat <= c.at + MaxSkew
      /\ c # NoCookie
  BY DEF SignedInTime
<1>. QED
  BY <1>1 DEF VerifySession, HostTime

\* A cookie is good on every host until it is as old as settings.session_max_age,
\* and on none for longer, up to the skew of their clocks (security.py: the 60
\* seconds verify_session allows, and the age it compares).
THEOREM SessionsLast ==
  ASSUME MaxSkew \in Nat, MaxAge \in Nat, Tolerance \in Nat, NoCookie \notin Cookies
  PROVE  SessionsSpec => []SessionLifetime
<1>1. SessionsInit => SignedInTime
  BY SignedStarts
<1>2. SignedInTime /\ [SessionsNext]_sessionVars => SignedInTime'
  BY SignedStep
<1>3. SignedInTime => SessionLifetime
  BY SignedLasts
<1>. QED
  BY <1>1, <1>2, <1>3, PTL DEF SessionsSpec

-----------------------------------------------------------------------------
(* Shutdown. *)

\* While no signal has come in the handler of another there is at most one handler;
\* it has set the event exactly when what it has left is to start the one thread,
\* and none has been told that another was first.
Orderly ==
  /\ Len(handlers) <= 1
  /\ handlers # <<>> =>
       /\ handlers[1] \in {"test", "set", "inside"} => ~stopEvent
       /\ handlers[1] \in {"leave", "start"} => stopEvent /\ shutdowns = <<>>
       /\ handlers[1] # "False"
  /\ ~stopEvent => shutdowns = <<>>
  /\ Len(shutdowns) <= 1
  /\ results \subseteq {"thread"}
  /\ main # "crashed"

ShutdownInvariant == ShutdownTypeOK /\ (~nested => Orderly)

Points == {"stop", "test", "set", "inside", "leave", "start"} \cup Returned

\* What a statement of the innermost handler does to the stack.
LEMMA OneHandler ==
  ASSUME handlers \in Seq(Points), handlers # <<>>
  PROVE  /\ Len(handlers) \in Nat \ {0}
         /\ handlers[Len(handlers)] \in Points
         /\ \A p \in Points : Then(p) => /\ handlers' \in Seq(Points)
                                         /\ Len(handlers') = Len(handlers)
                                         /\ handlers'[Len(handlers)] = p
         /\ Return => /\ handlers' \in Seq(Points)
                      /\ Len(handlers') = Len(handlers) - 1
BY DEF Then, Return

\* A handler's own statement leaves at most it on the stack.
LEMMA HandlerStep ==
  ASSUME ShutdownInvariant, Handle
  PROVE  ShutdownInvariant'
<1>1. handlers \in Seq(Points) /\ handlers # <<>>
  BY DEF ShutdownInvariant, ShutdownTypeOK, Handle, Stop, Test, Acquire, SetFlag, Release, Start,
         AppendResult, At, Points
<1>2. /\ Len(handlers) \in Nat \ {0}
      /\ handlers[Len(handlers)] \in Points
      /\ \A p \in Points : Then(p) => /\ handlers' \in Seq(Points)
                                      /\ Len(handlers') = Len(handlers)
                                      /\ handlers'[Len(handlers)] = p
      /\ Return => handlers' \in Seq(Points) /\ Len(handlers') = Len(handlers) - 1
  BY <1>1, OneHandler
<1>3. Orderly => Len(handlers) = 1
  <2>1. Len(handlers) \in Nat /\ Len(handlers) # 0
    BY <1>1
  <2>. SUFFICES ASSUME Orderly PROVE Len(handlers) = 1
    OBVIOUS
  <2>2. Len(handlers) <= 1
    BY DEF Orderly
  <2>3. \A n \in Nat : n # 0 /\ n <= 1 => n = 1
    OBVIOUS
  <2>. QED
    BY <2>1, <2>2, <2>3, Zenon
<1>4. UNCHANGED <<main, isDown, flag, signals, nested>>
  BY DEF Handle, Stop, Test, Acquire, SetFlag, Release, Start, AppendResult
<1>5. shutdowns \in Seq({"flag", "wait", "finished"}) /\ results \subseteq Returned
  BY DEF ShutdownInvariant, ShutdownTypeOK
<1>6. /\ handlers' \in Seq(Points)
      /\ stopEvent' \in BOOLEAN /\ locked' \in BOOLEAN /\ results' \subseteq Returned
      /\ shutdowns' \in Seq({"flag", "wait", "finished"})
  <2>1. stopEvent \in BOOLEAN /\ locked \in BOOLEAN
    BY DEF ShutdownInvariant, ShutdownTypeOK
  <2>2. CASE Stop
    BY <1>2, <1>5, <2>1, <2>2 DEF Stop, Points
  <2>3. CASE Test
    BY <1>2, <1>5, <2>1, <2>3 DEF Test, Points, Returned
  <2>4. CASE Acquire
    BY <1>2, <1>5, <2>1, <2>4 DEF Acquire, Points
  <2>5. CASE SetFlag
    BY <1>2, <1>5, <2>1, <2>5 DEF SetFlag, Points
  <2>6. CASE Release
    BY <1>2, <1>5, <2>1, <2>6 DEF Release, Points
  <2>7. CASE Start
    BY <1>2, <1>5, <2>1, <2>7 DEF Start, Points, Returned
  <2>8. CASE AppendResult
    BY <1>2, <1>5, <2>1, <2>8 DEF AppendResult, Points
  <2>. QED
    BY <2>2, <2>3, <2>4, <2>5, <2>6, <2>7, <2>8 DEF Handle
<1>7. ShutdownTypeOK'
  BY <1>4, <1>6 DEF ShutdownInvariant, ShutdownTypeOK, Points
<1>8. ASSUME Orderly PROVE Orderly'
  <2>1. Len(handlers) = 1
    BY <1>3, <1>8
  <2>2. \A s \in Seq(Points) : Len(s) = 0 => s = <<>>
    OBVIOUS
  <2>3. CASE Stop
    <3>1. UNCHANGED <<stopEvent, results, shutdowns>>
      BY <2>3 DEF Stop
    <3>2. CASE stopEvent
      <4>1. handlers' = <<>>
        BY <1>2, <1>6, <2>1, <2>2, <2>3, <3>2 DEF Stop
      <4>. QED
        BY <1>4, <1>8, <3>1, <4>1 DEF Orderly
    <3>3. CASE ~stopEvent
      <4>1. handlers'[1] = "test" /\ Len(handlers') = 1
        BY <1>2, <2>1, <2>3, <3>3 DEF Stop, Points
      <4>. QED
        BY <1>4, <1>8, <3>1, <3>3, <4>1 DEF Orderly
    <3>. QED
      BY <3>2, <3>3
  <2>4. CASE Test
    BY <1>2, <1>4, <1>8, <2>1, <2>4 DEF Test, Orderly, Points, At, Returned
  <2>5. CASE Acquire
    <3>1. ~stopEvent /\ shutdowns = <<>>
      BY <1>8, <2>1, <2>5, <1>1 DEF Acquire, At, Orderly
    <3>2. UNCHANGED <<stopEvent, results, shutdowns>>
      BY <2>5 DEF Acquire
    <3>3. handlers'[1] = "inside" /\ Len(handlers') = 1
      BY <1>2, <2>1, <2>5 DEF Acquire, Points
    <3>. QED
      BY <1>4, <1>8, <3>1, <3>2, <3>3 DEF Orderly, Returned
  <2>6. CASE SetFlag
    <3>1. ~stopEvent /\ shutdowns = <<>>
      BY <1>8, <2>1, <2>6, <1>1 DEF SetFlag, At, Orderly
    <3>2. stopEvent' /\ UNCHANGED <<results, shutdowns>>
      BY <2>6 DEF SetFlag
    <3>3. handlers'[1] = "leave" /\ Len(handlers') = 1
      BY <1>2, <2>1, <2>6 DEF SetFlag, Points
    <3>. QED
      BY <1>4, <1>8, <3>1, <3>2, <3>3 DEF Orderly, Returned
  <2>7. CASE Release
    <3>1. stopEvent /\ shutdowns = <<>>
      BY <1>8, <2>1, <2>7, <1>1 DEF Release, At, Orderly
    <3>2. UNCHANGED <<stopEvent, results, shutdowns>>
      BY <2>7 DEF Release
    <3>3. handlers'[1] = "start" /\ Len(handlers') = 1
      BY <1>2, <2>1, <2>7 DEF Release, Points
    <3>. QED
      BY <1>4, <1>8, <3>1, <3>2, <3>3 DEF Orderly, Returned
  <2>8. CASE Start
    <3>1. stopEvent /\ shutdowns = <<>>
      BY <1>8, <2>1, <2>8, <1>1 DEF Start, At, Orderly
    <3>2. stopEvent' = stopEvent /\ results' = results /\ shutdowns' = <<"flag">>
      BY <2>8, <3>1 DEF Start
    <3>3. handlers'[1] = "thread" /\ Len(handlers') = 1
      BY <1>2, <2>1, <2>8 DEF Start, Points, Returned
    <3>4. Len(<<"flag">>) = 1
      OBVIOUS
    <3>. QED
      BY <1>4, <1>8, <3>1, <3>2, <3>3, <3>4 DEF Orderly
  <2>9. CASE AppendResult
    <3>1. handlers' = <<>>
      BY <1>2, <1>6, <2>1, <2>2, <2>9 DEF AppendResult
    <3>2. handlers[Len(handlers)] = "thread"
      BY <1>1, <1>8, <2>1, <2>9 DEF AppendResult, Returned, Orderly
    <3>. QED
      BY <1>4, <1>8, <2>9, <3>1, <3>2 DEF AppendResult, Orderly
  <2>. QED
    BY <2>3, <2>4, <2>5, <2>6, <2>7, <2>8, <2>9 DEF Handle
<1>. QED
  BY <1>4, <1>7, <1>8 DEF ShutdownInvariant

\* The server, a second signal and the threads start nothing.
LEMMA ShutdownStarts == ASSUME MaxSignals \in Nat PROVE ShutdownInit => ShutdownInvariant
<1>1. ShutdownInit => ShutdownTypeOK
  <2>1. <<>> \in Seq({"stop", "test", "set", "inside", "leave", "start"} \cup Returned)
    OBVIOUS
  <2>2. <<>> \in Seq({"flag", "wait", "finished"})
    OBVIOUS
  <2>3. 0 \in 0..MaxSignals
    OBVIOUS
  <2>. QED
    BY <2>1, <2>2, <2>3 DEF ShutdownInit, ShutdownTypeOK
<1>2. ShutdownInit => Orderly
  BY DEF ShutdownInit, Orderly
<1>. QED
  BY <1>1, <1>2 DEF ShutdownInvariant

LEMMA ShutdownStep ==
  ASSUME MaxSignals \in Nat, ShutdownInvariant, [ShutdownNext]_shutdownVars
  PROVE  ShutdownInvariant'
<1>0. handlers \in Seq(Points) /\ shutdowns \in Seq({"flag", "wait", "finished"})
  BY DEF ShutdownInvariant, ShutdownTypeOK, Points
<1>1. CASE UNCHANGED shutdownVars
  BY <1>1 DEF ShutdownInvariant, ShutdownTypeOK, Orderly, shutdownVars
<1>2. CASE Deliver
  <2>1. /\ handlers' = Append(handlers, "stop") /\ "stop" \in Points
        /\ nested' = (nested \/ handlers # <<>>)
        /\ UNCHANGED <<main, stopEvent, locked, results, shutdowns, flag, isDown>>
        /\ signals' \in 0..MaxSignals
    BY <1>2 DEF Deliver, Points, ShutdownInvariant, ShutdownTypeOK
  <2>2. handlers' \in Seq(Points)
    BY <1>0, <2>1
  <2>3. nested' \in BOOLEAN
    BY <2>1
  <2>4. ShutdownTypeOK'
    BY <2>1, <2>2, <2>3 DEF ShutdownInvariant, ShutdownTypeOK, Points
  <2>5. ASSUME ~nested' PROVE Orderly'
    <3>1. Orderly /\ handlers = <<>>
      BY <2>1, <2>5 DEF ShutdownInvariant
    <3>2. handlers' = <<"stop">>
      BY <2>1, <3>1
    <3>. QED
      BY <2>1, <3>1, <3>2 DEF Orderly
  <2>. QED
    BY <2>4, <2>5 DEF ShutdownInvariant
<1>3. CASE Handle
  BY <1>3, HandlerStep
<1>4. CASE Main
  <2>1. /\ handlers = <<>>
        /\ UNCHANGED <<handlers, stopEvent, locked, results, shutdowns, signals, nested>>
        /\ flag' \in BOOLEAN /\ isDown' \in BOOLEAN
        /\ main' \in {"select", "request", "left", "close", "ended", "crashed"}
    BY <1>4
       DEF Main, ServeForever, HandleRequest, RequestServed, LeaveLoop, JoinThreads, ServerClose,
           MainGoes, ShutdownInvariant, ShutdownTypeOK
  <2>2. Orderly => main' # "crashed"
    BY <1>4
       DEF Main, ServeForever, HandleRequest, RequestServed, LeaveLoop, JoinThreads, ServerClose,
           MainGoes, Orderly
  <2>3. ShutdownTypeOK'
    BY <2>1 DEF ShutdownInvariant, ShutdownTypeOK
  <2>. QED
    BY <2>1, <2>2, <2>3 DEF ShutdownInvariant, Orderly
<1>5. ASSUME NEW t \in DOMAIN shutdowns, Shutdown(t) PROVE ShutdownInvariant'
  <2>1. /\ UNCHANGED <<main, handlers, stopEvent, locked, results, isDown, signals, nested>>
        /\ flag' \in BOOLEAN
    BY <1>5 DEF Shutdown, ShutdownInvariant, ShutdownTypeOK
  <2>2. \E p \in {"wait", "finished"} : shutdowns' = [shutdowns EXCEPT ![t] = p]
    BY <1>5 DEF Shutdown
  <2>3. /\ shutdowns' \in Seq({"flag", "wait", "finished"})
        /\ Len(shutdowns') = Len(shutdowns) /\ shutdowns # <<>>
    BY <1>0, <2>2
  <2>4. ShutdownTypeOK'
    BY <2>1, <2>3 DEF ShutdownInvariant, ShutdownTypeOK
  <2>5. ASSUME Orderly PROVE Orderly'
    <3>1. handlers # <<>> => handlers[1] # "start"
      BY <2>3, <2>5 DEF Orderly
    <3>2. stopEvent
      BY <2>3, <2>5 DEF Orderly
    <3>. QED
      BY <2>1, <2>3, <2>5, <3>1, <3>2 DEF Orderly
  <2>. QED
    BY <2>1, <2>4, <2>5 DEF ShutdownInvariant
<1>. QED
  BY <1>1, <1>2, <1>3, <1>4, <1>5 DEF ShutdownNext, Threads

\* Signals that come one after the other start one shutdown thread, and leave
\* main() nothing to join that is not a thread (__main__.py: stop and the finally
\* clause).
THEOREM ServerStopsOnce ==
  ASSUME MaxSignals \in Nat
  PROVE  ShutdownSpec => []StopsOnce
<1>1. ShutdownInit => ShutdownInvariant
  BY ShutdownStarts
<1>2. ShutdownInvariant /\ [ShutdownNext]_shutdownVars => ShutdownInvariant'
  BY ShutdownStep
<1>3. ShutdownInvariant => StopsOnce
  BY DEF ShutdownInvariant, Orderly, StopsOnce
<1>. QED
  BY <1>1, <1>2, <1>3, PTL DEF ShutdownSpec

-----------------------------------------------------------------------------
(* Local times. *)

LocalTimeSpec == LocalTimeInit /\ [][LocalTimeNext]_localTimeVars

\* The offset among three that a clock is at, when it goes from one to the next at
\* first and at second.
ByThresholds(first, second, t) ==
  IF t < first THEN zone.offset[1] ELSE IF t < second THEN zone.offset[2] ELSE zone.offset[3]

Offsets == {zone.offset[k] : k \in 1..3}

\* The offsets that both parsers try, and those of them that give the time back.
Tried(wall) == {OffsetOf(wall, 0), OffsetOf(wall, 1)}

Valid(wall) == {o \in Tried(wall) : Display(wall - o) = wall}

LEMMA CountOfTwo ==
  ASSUME NEW S \in SUBSET (1..2)
  PROVE  /\ 1 \in S /\ 2 \in S => Cardinality(S) = 2
         /\ 1 \in S /\ 2 \notin S => Cardinality(S) = 1
         /\ 1 \notin S /\ 2 \in S => Cardinality(S) = 1
         /\ 1 \notin S /\ 2 \notin S => Cardinality(S) = 0
<1>1. Cardinality({}) = 0
  BY FS_EmptySet
<1>2. Cardinality({1}) = 1 /\ Cardinality({2}) = 1 /\ IsFiniteSet({1})
  BY FS_Singleton
<1>3. Cardinality({1} \cup {2}) = 2
  BY <1>2, FS_AddElement
<1>4. \A k \in S : k = 1 \/ k = 2
  OBVIOUS
<1>5. /\ 1 \in S /\ 2 \in S => S = {1} \cup {2}
      /\ 1 \in S /\ 2 \notin S => S = {1}
      /\ 1 \notin S /\ 2 \in S => S = {2}
      /\ 1 \notin S /\ 2 \notin S => S = {}
  BY <1>4
<1>. QED
  BY <1>1, <1>2, <1>3, <1>5

\* A zone of the tz database, as numbers.
LEMMA ZoneSettles ==
  ASSUME ZonesSettle, zone \in Zones
  PROVE  /\ zone.change[1] \in Int /\ zone.change[2] \in Int
         /\ zone.offset[1] \in Int /\ zone.offset[2] \in Int /\ zone.offset[3] \in Int
         /\ zone.change[1] <= zone.change[2]
         /\ \A j \in {1, 2}, k \in {2, 3} :
              zone.change[1] + zone.offset[j] <= zone.change[2] + zone.offset[k]
<1>1. /\ zone.change[1] \in Int /\ zone.change[2] \in Int
      /\ zone.offset[1] \in Int /\ zone.offset[2] \in Int /\ zone.offset[3] \in Int
  BY DEF ZonesSettle
<1>2. \A j \in {1, 2}, k \in {2, 3} :
        zone.change[1] + zone.offset[j] <= zone.change[2] + zone.offset[k]
  BY DEF ZonesSettle
<1>3. zone.change[1] + zone.offset[2] <= zone.change[2] + zone.offset[2]
  BY <1>2
<1>. QED
  BY <1>1, <1>2, <1>3

\* Counting the thresholds that are over is comparing with one after the other.
LEMMA CountedByThresholds ==
  ASSUME NEW first \in Int, NEW second \in Int, first <= second, NEW t \in Int,
         NEW S \in SUBSET (1..2),
         (1 \in S) <=> (first <= t), (2 \in S) <=> (second <= t)
  PROVE  zone.offset[Cardinality(S) + 1] = ByThresholds(first, second, t)
<1>1. CASE t < first
  <2>1. Cardinality(S) = 0
    BY <1>1, CountOfTwo
  <2>. QED
    BY <1>1, <2>1 DEF ByThresholds
<1>2. CASE ~(t < first) /\ t < second
  <2>1. Cardinality(S) = 1
    BY <1>2, CountOfTwo
  <2>. QED
    BY <1>2, <2>1 DEF ByThresholds
<1>3. CASE ~(t < first) /\ ~(t < second)
  <2>1. Cardinality(S) = 2
    BY <1>3, CountOfTwo
  <2>. QED
    BY <1>3, <2>1 DEF ByThresholds
<1>. QED
  BY <1>1, <1>2, <1>3

\* An instant is shown with the offset of its side of the changes.
LEMMA OffsetOfInstant ==
  ASSUME ZonesSettle, zone \in Zones, NEW t \in Int
  PROVE  OffsetAt(t) = ByThresholds(zone.change[1], zone.change[2], t)
<1>. DEFINE S == {k \in 1..2 : zone.change[k] <= t}
<1>1. S \in SUBSET (1..2) /\ ((1 \in S) <=> (zone.change[1] <= t))
                          /\ ((2 \in S) <=> (zone.change[2] <= t))
  OBVIOUS
<1>2. OffsetAt(t) = zone.offset[Cardinality(S) + 1]
  BY DEF OffsetAt, OffsetAfter
<1>. HIDE DEF S
<1>3. zone.change[1] \in Int /\ zone.change[2] \in Int /\ zone.change[1] <= zone.change[2]
  BY ZoneSettles
<1>. QED
  BY <1>1, <1>2, <1>3, CountedByThresholds

\* A local time is read, in either fold, with one of the zone's offsets, and the
\* thresholds of fold 0 are no earlier than those of fold 1.
LEMMA OffsetOfWall ==
  ASSUME ZonesSettle, zone \in Zones, NEW wall \in Int
  PROVE  \E l1, l2, h1, h2 \in Int :
           /\ OffsetOf(wall, 0) = ByThresholds(h1, h2, wall)
           /\ OffsetOf(wall, 1) = ByThresholds(l1, l2, wall)
           /\ h1 <= l2
           /\ \A k \in 1..2 : zone.change[1] + zone.offset[k] \in l1..h1
           /\ \A k \in 2..3 : zone.change[2] + zone.offset[k] \in l2..h2
<1>. DEFINE around(k) == {zone.offset[k], zone.offset[k + 1]}
            least(k) == CHOOSE o \in around(k) : \A p \in around(k) : o <= p
            most(k) == CHOOSE o \in around(k) : \A p \in around(k) : p <= o
            S(f) == {k \in 1..2 : zone.change[k] + (IF f = 0 THEN most(k) ELSE least(k)) <= wall}
<1>1. \A f : OffsetOf(wall, f) = zone.offset[Cardinality(S(f)) + 1]
  BY DEF OffsetOf, OffsetAfter
<1>2. /\ zone.change[1] \in Int /\ zone.change[2] \in Int
      /\ zone.offset[1] \in Int /\ zone.offset[2] \in Int /\ zone.offset[3] \in Int
      /\ \A j \in {1, 2}, k \in {2, 3} :
           zone.change[1] + zone.offset[j] <= zone.change[2] + zone.offset[k]
  BY ZoneSettles
<1>3. \A k \in 1..2 : around(k) = {zone.offset[k], zone.offset[k + 1]}
                      /\ zone.offset[k] \in Int /\ zone.offset[k + 1] \in Int
  BY <1>2
<1>4. \A a, b \in Int : /\ \E o \in {a, b} : \A p \in {a, b} : o <= p
                        /\ \E o \in {a, b} : \A p \in {a, b} : p <= o
  OBVIOUS
<1>5. \A k \in 1..2 : /\ least(k) \in around(k) /\ \A p \in around(k) : least(k) <= p
                      /\ most(k) \in around(k) /\ \A p \in around(k) : p <= most(k)
  <2>. TAKE k \in 1..2
  <2>1. /\ \E o \in around(k) : \A p \in around(k) : o <= p
        /\ \E o \in around(k) : \A p \in around(k) : p <= o
    BY <1>3, <1>4
  <2>. HIDE DEF around
  <2>. QED
    BY <2>1, Zenon
<1>. DEFINE l1 == zone.change[1] + least(1)
            l2 == zone.change[2] + least(2)
            h1 == zone.change[1] + most(1)
            h2 == zone.change[2] + most(2)
<1>6. /\ least(1) \in {zone.offset[1], zone.offset[2]} /\ most(1) \in {zone.offset[1], zone.offset[2]}
      /\ least(2) \in {zone.offset[2], zone.offset[3]} /\ most(2) \in {zone.offset[2], zone.offset[3]}
      /\ least(1) <= zone.offset[1] /\ least(1) <= zone.offset[2]
      /\ zone.offset[1] <= most(1) /\ zone.offset[2] <= most(1)
      /\ least(2) <= zone.offset[2] /\ least(2) <= zone.offset[3]
      /\ zone.offset[2] <= most(2) /\ zone.offset[3] <= most(2)
  <2>1. around(1) = {zone.offset[1], zone.offset[2]} /\ around(2) = {zone.offset[2], zone.offset[3]}
    OBVIOUS
  <2>. HIDE DEF around, least, most
  <2>. QED
    BY <1>5, <2>1
<1>7. /\ S(0) = {k \in 1..2 : zone.change[k] + most(k) <= wall}
      /\ S(1) = {k \in 1..2 : zone.change[k] + least(k) <= wall}
  OBVIOUS
<1>. HIDE DEF least, most, around
<1>8. /\ l1 \in Int /\ l2 \in Int /\ h1 \in Int /\ h2 \in Int
      /\ l1 <= h1 /\ h1 <= l2 /\ l2 <= h2
      /\ \A k \in 1..2 : zone.change[1] + zone.offset[k] \in l1..h1
      /\ \A k \in 2..3 : zone.change[2] + zone.offset[k] \in l2..h2
  BY <1>2, <1>6
<1>9. /\ S(0) \in SUBSET (1..2) /\ ((1 \in S(0)) <=> (h1 <= wall)) /\ ((2 \in S(0)) <=> (h2 <= wall))
      /\ S(1) \in SUBSET (1..2) /\ ((1 \in S(1)) <=> (l1 <= wall)) /\ ((2 \in S(1)) <=> (l2 <= wall))
  BY <1>7
<1>. HIDE DEF l1, l2, h1, h2, S
<1>10. OffsetOf(wall, 0) = ByThresholds(h1, h2, wall)
  BY <1>1, <1>8, <1>9, CountedByThresholds
<1>11. OffsetOf(wall, 1) = ByThresholds(l1, l2, wall)
  BY <1>1, <1>8, <1>9, CountedByThresholds
<1>. QED
  BY <1>8, <1>10, <1>11

\* Where a clock with the offset o shows the local time and has that offset, one of
\* the two folds finds o.
LEMMA FoldsFindOffset ==
  ASSUME ZonesSettle, zone \in Zones, NEW wall \in Int, NEW o \in Offsets,
         Display(wall - o) = wall
  PROVE  o \in Tried(wall)
<1>. DEFINE t == wall - o
<1>1. /\ zone.change[1] \in Int /\ zone.change[2] \in Int
      /\ zone.offset[1] \in Int /\ zone.offset[2] \in Int /\ zone.offset[3] \in Int
  BY ZoneSettles
<1>2. o \in Int /\ t \in Int
  BY <1>1 DEF Offsets
<1>3. ByThresholds(zone.change[1], zone.change[2], t) \in {zone.offset[1], zone.offset[2], zone.offset[3]}
  BY DEF ByThresholds
<1>4. o = ByThresholds(zone.change[1], zone.change[2], t)
  <2>1. OffsetAt(t) = ByThresholds(zone.change[1], zone.change[2], t)
    BY <1>2, OffsetOfInstant
  <2>2. (wall - o) + OffsetAt(t) = wall
    BY DEF Display
  <2>. QED
    BY <1>1, <1>2, <1>3, <2>1, <2>2
<1>5. PICK l1, l2, h1, h2 \in Int :
        /\ OffsetOf(wall, 0) = ByThresholds(h1, h2, wall)
        /\ OffsetOf(wall, 1) = ByThresholds(l1, l2, wall)
        /\ h1 <= l2
        /\ \A k \in 1..2 : zone.change[1] + zone.offset[k] \in l1..h1
        /\ \A k \in 2..3 : zone.change[2] + zone.offset[k] \in l2..h2
  BY OffsetOfWall
<1>6. /\ zone.change[1] + zone.offset[1] \in l1..h1
      /\ zone.change[1] + zone.offset[2] \in l1..h1
      /\ zone.change[2] + zone.offset[2] \in l2..h2
      /\ zone.change[2] + zone.offset[3] \in l2..h2
  BY <1>5
<1>7. wall = t + o
  BY <1>2
<1>. HIDE DEF t
<1>8. CASE t < zone.change[1]
  <2>1. o = zone.offset[1] /\ wall < h1
    BY <1>1, <1>2, <1>4, <1>5, <1>6, <1>7, <1>8 DEF ByThresholds
  <2>. QED
    BY <1>5, <2>1 DEF ByThresholds, Tried
<1>9. CASE ~(t < zone.change[1]) /\ t < zone.change[2]
  <2>1. o = zone.offset[2]
    BY <1>4, <1>9 DEF ByThresholds
  <2>2. ~(wall < l1) /\ wall < h2
    BY <1>1, <1>2, <1>5, <1>6, <1>7, <1>9, <2>1
  <2>3. wall < l2 \/ ~(wall < h1)
    BY <1>5
  <2>. QED
    BY <1>5, <2>1, <2>2, <2>3 DEF ByThresholds, Tried
<1>10. CASE ~(t < zone.change[1]) /\ ~(t < zone.change[2])
  <2>1. o = zone.offset[3]
    BY <1>4, <1>10 DEF ByThresholds
  <2>2. ~(wall < l1) /\ ~(wall < l2)
    BY <1>1, <1>2, <1>5, <1>6, <1>7, <1>10, <2>1
  <2>. QED
    BY <1>5, <2>1, <2>2 DEF ByThresholds, Tried
<1>. QED
  BY <1>8, <1>9, <1>10

\* The offsets that are left stand for the instants at which the time is shown.
LEMMA ValidAreHappenings ==
  ASSUME ZonesSettle, zone \in Zones, NEW wall \in Int
  PROVE  /\ Tried(wall) \subseteq Offsets /\ Offsets \subseteq Int
         /\ \A o \in Valid(wall) : wall - o \in Happens(wall)
         /\ \A t \in Happens(wall) : t \in Int /\ wall - t \in Valid(wall)
         /\ IsFiniteSet(Valid(wall)) /\ IsFiniteSet(Happens(wall))
<1>1. zone.offset[1] \in Int /\ zone.offset[2] \in Int /\ zone.offset[3] \in Int
  BY ZoneSettles
<1>2. Offsets = {zone.offset[1], zone.offset[2], zone.offset[3]}
  BY DEF Offsets
<1>3. Tried(wall) \subseteq Offsets
  BY <1>2, OffsetOfWall DEF Tried, ByThresholds
<1>4. Offsets \subseteq Int
  BY <1>1, <1>2
<1>5. Happens(wall) = {t \in {wall - o : o \in Offsets} : Display(t) = wall}
  BY DEF Happens, Offsets
<1>6. \A o \in Valid(wall) : wall - o \in Happens(wall)
  BY <1>3, <1>5 DEF Valid
<1>7. ASSUME NEW t \in Happens(wall) PROVE t \in Int /\ wall - t \in Valid(wall)
  <2>1. PICK o \in Offsets : t = wall - o
    BY <1>5
  <2>2. o \in Int /\ Display(wall - o) = wall
    BY <1>4, <1>5, <2>1
  <2>3. wall - t = o
    BY <2>1, <2>2
  <2>4. o \in Valid(wall)
    BY <2>2, FoldsFindOffset DEF Valid
  <2>. QED
    BY <2>1, <2>2, <2>3, <2>4
<1>8. IsFiniteSet(Offsets)
  <2>1. IsFiniteSet({zone.offset[1]})
    BY FS_Singleton
  <2>2. IsFiniteSet({zone.offset[1]} \cup {zone.offset[2]})
    BY <2>1, FS_AddElement
  <2>3. IsFiniteSet(({zone.offset[1]} \cup {zone.offset[2]}) \cup {zone.offset[3]})
    BY <2>2, FS_AddElement
  <2>4. Offsets = ({zone.offset[1]} \cup {zone.offset[2]}) \cup {zone.offset[3]}
    BY <1>2
  <2>. QED
    BY <2>3, <2>4
<1>9. IsFiniteSet(Valid(wall))
  <2>1. Valid(wall) \in SUBSET Offsets
    BY <1>3 DEF Valid
  <2>. QED
    BY <1>8, <2>1, FS_Subset
<1>10. IsFiniteSet(Happens(wall))
  <2>1. Happens(wall) \in SUBSET {wall - zone.offset[1], wall - zone.offset[2], wall - zone.offset[3]}
    BY <1>2, <1>5
  <2>2. {wall - zone.offset[1], wall - zone.offset[2], wall - zone.offset[3]}
          = ({wall - zone.offset[1]} \cup {wall - zone.offset[2]}) \cup {wall - zone.offset[3]}
    OBVIOUS
  <2>3. IsFiniteSet({wall - zone.offset[1]})
    BY FS_Singleton
  <2>4. IsFiniteSet({wall - zone.offset[1]} \cup {wall - zone.offset[2]})
    BY <2>3, FS_AddElement
  <2>5. IsFiniteSet(({wall - zone.offset[1]} \cup {wall - zone.offset[2]}) \cup {wall - zone.offset[3]})
    BY <2>4, FS_AddElement
  <2>. QED
    BY <2>1, <2>2, <2>5, FS_Subset
<1>. QED
  BY <1>3, <1>4, <1>6, <1>7, <1>9, <1>10

\* So one offset is left exactly when the time happens once, and it gives that instant.
LEMMA OneOffsetOneInstant ==
  ASSUME ZonesSettle, zone \in Zones, NEW wall \in Int
  PROVE  /\ Cardinality(Valid(wall)) = 1 <=> Cardinality(Happens(wall)) = 1
         /\ Cardinality(Valid(wall)) = 1 =>
              (wall - CHOOSE o \in Valid(wall) : TRUE) = CHOOSE t \in Happens(wall) : TRUE
<1>. DEFINE V == Valid(wall)
            H == Happens(wall)
<1>1. /\ V \subseteq Int
      /\ \A o \in V : wall - o \in H
      /\ \A t \in H : t \in Int /\ wall - t \in V
      /\ IsFiniteSet(V) /\ IsFiniteSet(H)
  BY ValidAreHappenings DEF Valid
<1>. HIDE DEF V, H
<1>2. /\ Cardinality(V) = 1 <=> \E o : V = {o}
      /\ Cardinality(H) = 1 <=> \E t : H = {t}
  BY <1>1, FS_Singleton
<1>3. ASSUME NEW o, V = {o} PROVE H = {wall - o} /\ o \in Int
  <2>1. o \in Int /\ wall - o \in H
    BY <1>1, <1>3
  <2>2. ASSUME NEW t \in H PROVE t = wall - o
    <3>1. t \in Int /\ wall - t = o
      BY <1>1, <1>3
    <3>. QED
      BY <2>1, <3>1
  <2>. QED
    BY <2>1, <2>2
<1>4. ASSUME NEW t, H = {t} PROVE V = {wall - t}
  <2>1. t \in Int /\ wall - t \in V
    BY <1>1, <1>4
  <2>2. ASSUME NEW o \in V PROVE o = wall - t
    <3>1. o \in Int /\ wall - o = t
      BY <1>1, <1>4
    <3>. QED
      BY <2>1, <3>1
  <2>. QED
    BY <2>1, <2>2
<1>5. Cardinality(V) = 1 <=> Cardinality(H) = 1
  BY <1>2, <1>3, <1>4
<1>6. ASSUME Cardinality(V) = 1
      PROVE  (wall - CHOOSE o \in V : TRUE) = CHOOSE t \in H : TRUE
  <2>1. PICK o : V = {o}
    BY <1>2, <1>6
  <2>2. H = {wall - o}
    BY <1>3, <2>1
  <2>3. (CHOOSE p \in {o} : TRUE) = o /\ (CHOOSE t \in {wall - o} : TRUE) = wall - o
    OBVIOUS
  <2>. QED
    BY <2>1, <2>2, <2>3
<1>. QED
  BY <1>5, <1>6 DEF V, H

\* The parser holds the offsets that the folds it has tried leave.
SoFar == {OffsetOf(value.wall, f) : f \in 0..(fold - 1)}

FoldsSoFar ==
  /\ zone \in Zones /\ value.wall \in Int /\ fold \in 0..2
  /\ value.offset = NoOffset =>
       candidates = {o \in SoFar : Display(value.wall - o) = value.wall}

LocalTimeInvariant == FoldsSoFar /\ AcceptsWhatHappensOnce

\* What the parser does leaves the zone, and the time as the zone shows it, alone.
LEMMA ZoneStays ==
  ASSUME UNCHANGED <<zone, value>>
  PROVE  /\ \A f : OffsetOf(value.wall, f)' = OffsetOf(value.wall, f)
         /\ \A t : Display(t)' = Display(t)
         /\ Happens(value.wall)' = Happens(value.wall)
<1>1. \A t : Display(t)' = Display(t)
  BY DEF Display, OffsetAt, OffsetAfter
<1>2. \A f : OffsetOf(value.wall, f)' = OffsetOf(value.wall, f)
  BY DEF OffsetOf, OffsetAfter
<1>3. Happens(value.wall)' = Happens(value.wall)
  BY <1>1 DEF Happens
<1>. QED
  BY <1>1, <1>2, <1>3

LEMMA LocalTimeStarts == ASSUME ZonesSettle, LocalTimeInit PROVE LocalTimeInvariant
<1>1. zone \in Zones /\ value.wall \in Int /\ fold = 0 /\ candidates = {} /\ instant = Pending
  BY DEF LocalTimeInit, Values, ZonesSettle
<1>2. SoFar = {}
  BY <1>1 DEF SoFar
<1>. QED
  BY <1>1, <1>2 DEF LocalTimeInvariant, FoldsSoFar, AcceptsWhatHappensOnce

LEMMA LocalTimeStep ==
  ASSUME ZonesSettle, LocalTimeInvariant, [LocalTimeNext]_localTimeVars
  PROVE  LocalTimeInvariant'
<1>1. UNCHANGED <<zone, value>>
  BY DEF LocalTimeNext, ParseAware, TryFold, Decide, localTimeVars
<1>2. /\ \A f : OffsetOf(value.wall, f)' = OffsetOf(value.wall, f)
      /\ \A t : Display(t)' = Display(t)
      /\ Happens(value.wall)' = Happens(value.wall)
  BY <1>1, ZoneStays
<1>3. ASSUME UNCHANGED <<fold, candidates>> PROVE FoldsSoFar'
  BY <1>1, <1>2, <1>3 DEF LocalTimeInvariant, FoldsSoFar, SoFar
<1>4. ASSUME UNCHANGED instant PROVE AcceptsWhatHappensOnce'
  BY <1>1, <1>2, <1>4 DEF LocalTimeInvariant, AcceptsWhatHappensOnce
<1>5. CASE UNCHANGED localTimeVars
  BY <1>3, <1>4, <1>5 DEF LocalTimeInvariant, localTimeVars
<1>6. CASE ParseAware
  BY <1>1, <1>3, <1>6 DEF LocalTimeInvariant, ParseAware, AcceptsWhatHappensOnce
<1>7. CASE TryFold
  <2>. DEFINE offset == OffsetOf(value.wall, fold)
  <2>1. /\ value.offset = NoOffset /\ fold' = fold + 1 /\ fold \in 0..1 /\ instant' = instant
        /\ candidates' = IF Display(value.wall - offset) = value.wall
                           THEN candidates \cup {offset} ELSE candidates
    BY <1>7 DEF TryFold, LocalTimeInvariant, FoldsSoFar
  <2>2. SoFar' = SoFar \cup {offset}
    <3>1. 0..(fold' - 1) = 0..(fold - 1) \cup {fold}
      BY <2>1
    <3>. QED
      BY <1>1, <1>2, <3>1 DEF SoFar
  <2>3. candidates = {o \in SoFar : Display(value.wall - o) = value.wall}
    BY <2>1 DEF LocalTimeInvariant, FoldsSoFar
  <2>. HIDE DEF offset
  <2>4. candidates' = {o \in SoFar' : Display(value.wall - o) = value.wall}
    BY <2>1, <2>2, <2>3
  <2>5. FoldsSoFar'
    BY <1>1, <1>2, <2>1, <2>4 DEF LocalTimeInvariant, FoldsSoFar
  <2>. QED
    BY <1>4, <2>1, <2>5 DEF LocalTimeInvariant
<1>8. CASE Decide
  <2>1. ASSUME value.offset = NoOffset
        PROVE  instant' = IF Cardinality(Happens(value.wall)) = 1
                            THEN CHOOSE t \in Happens(value.wall) : TRUE ELSE Rejected
    <3>1. fold = 2 /\ zone \in Zones /\ value.wall \in Int
      BY <1>8 DEF Decide, LocalTimeInvariant, FoldsSoFar
    <3>2. SoFar = Tried(value.wall)
      BY <3>1 DEF SoFar, Tried
    <3>3. candidates = Valid(value.wall)
      BY <2>1, <3>2 DEF LocalTimeInvariant, FoldsSoFar, Valid
    <3>4. instant' = IF Cardinality(Valid(value.wall)) = 1
                       THEN value.wall - CHOOSE o \in Valid(value.wall) : TRUE ELSE Rejected
      BY <1>8, <3>3 DEF Decide
    <3>. QED
      BY <3>1, <3>4, OneOffsetOneInstant
  <2>2. AcceptsWhatHappensOnce'
    BY <1>1, <1>2, <2>1 DEF AcceptsWhatHappensOnce
  <2>. QED
    BY <1>3, <1>8, <2>2 DEF LocalTimeInvariant, Decide
<1>. QED
  BY <1>5, <1>6, <1>7, <1>8 DEF LocalTimeNext

LEMMA LocalTimeTypesKept ==
  ASSUME ZonesSettle, LocalTimeInvariant, LocalTimeTypeOK, [LocalTimeNext]_localTimeVars
  PROVE  LocalTimeTypeOK'
<1>1. UNCHANGED <<parser, zone, value>>
  BY DEF LocalTimeNext, ParseAware, TryFold, Decide, localTimeVars
<1>2. fold' \in 0..2 /\ candidates' \subseteq Int
  <2>1. CASE TryFold
    <3>1. /\ fold \in 0..1 /\ zone \in Zones /\ value.wall \in Int /\ fold' = fold + 1
          /\ candidates' \subseteq candidates \cup {OffsetOf(value.wall, fold)}
      BY <2>1 DEF TryFold, LocalTimeInvariant, FoldsSoFar
    <3>2. OffsetOf(value.wall, 0) \in Int /\ OffsetOf(value.wall, 1) \in Int
      BY <3>1, OffsetOfWall, ZoneSettles DEF ByThresholds
    <3>3. fold = 0 \/ fold = 1
      BY <3>1
    <3>4. OffsetOf(value.wall, fold) \in Int
      BY <3>2, <3>3
    <3>. QED
      BY <3>1, <3>4 DEF LocalTimeTypeOK
  <2>2. CASE ~TryFold
    BY <2>2 DEF LocalTimeNext, ParseAware, Decide, localTimeVars, LocalTimeTypeOK
  <2>. QED
    BY <2>1, <2>2
<1>3. Values' = Values
  BY DEF Values
<1>. QED
  BY <1>1, <1>2, <1>3 DEF LocalTimeTypeOK

\* A time a user enters in a zone whose clock changes is accepted when the clock
\* shows it once, and means that instant (schemas.py and time_handling.py:
\* parse_local_datetime): of the instants at which it is shown none escapes the two
\* folds.
THEOREM LocalTimesMeanOneInstant ==
  ASSUME ZonesSettle
  PROVE  LocalTimeSpec => []AcceptsWhatHappensOnce
<1>1. LocalTimeInit => LocalTimeInvariant
  BY LocalTimeStarts
<1>2. LocalTimeInvariant /\ [LocalTimeNext]_localTimeVars => LocalTimeInvariant'
  BY LocalTimeStep
<1>3. LocalTimeInvariant => AcceptsWhatHappensOnce
  BY DEF LocalTimeInvariant
<1>. QED
  BY <1>1, <1>2, <1>3, PTL DEF LocalTimeSpec

-----------------------------------------------------------------------------
(* The renderer: what QueryRendererProofs says of it is said of MCService's. *)

Rendering == INSTANCE QueryRendererProofs

LEMMA SameRange == ASSUME NEW f PROVE Rendering!Range(f) = Renderer!Range(f)
BY DEF Rendering!Range, Renderer!Range

LEMMA SameFlatten == ASSUME NEW s PROVE Rendering!FlattenSeq(s) = Renderer!FlattenSeq(s)
BY DEF Rendering!FlattenSeq, Renderer!FlattenSeq

LEMMA SameTokens == Rendering!TokensAreSql <=> Renderer!TokensAreSql
<1>1. \A s, b : Rendering!PlainFrom(s, b) <=> Renderer!PlainFrom(s, b)
  BY DEF Rendering!PlainFrom, Renderer!PlainFrom, Rendering!Quotes, Renderer!Quotes
<1>2. \A s, n, b : Rendering!IsMarker(s, n, b) <=> Renderer!IsMarker(s, n, b)
  BY DEF Rendering!IsMarker, Renderer!IsMarker
<1>3. \A s, b : Rendering!IsLineComment(s, b) <=> Renderer!IsLineComment(s, b)
  BY DEF Rendering!IsLineComment, Renderer!IsLineComment
<1>4. \A s, b : Rendering!IsBlockComment(s, b) <=> Renderer!IsBlockComment(s, b)
  BY DEF Rendering!IsBlockComment, Renderer!IsBlockComment
<1>5. \A s, b, q, p : Rendering!IsLiteral(s, b, q, p) <=> Renderer!IsLiteral(s, b, q, p)
  BY DEF Rendering!IsLiteral, Renderer!IsLiteral
<1>6. \A s, n, b : Rendering!IsToken(s, n, b) <=> Renderer!IsToken(s, n, b)
  BY <1>1, <1>2, <1>3, <1>4, <1>5
     DEF Rendering!IsToken, Renderer!IsToken, Rendering!Quotes, Renderer!Quotes
<1>. QED
  BY <1>6, SameRange DEF Rendering!TokensAreSql, Renderer!TokensAreSql

LEMMA SameMeaning ==
  /\ (Rendering!RendersMarkers <=> Renderer!RendersMarkers)
  /\ (Rendering!RendererTypeOK <=> Renderer!RendererTypeOK)
<1>1. Rendering!Markers = Renderer!Markers
  BY SameFlatten DEF Rendering!Markers, Renderer!Markers, Rendering!Marked, Renderer!Marked
<1>2. Rendering!Meant = Renderer!Meant
  BY SameFlatten DEF Rendering!Meant, Renderer!Meant, Rendering!Meanings, Renderer!Meanings,
     Rendering!Rendered, Renderer!Rendered
<1>3. Rendering!HasBlockComment <=> Renderer!HasBlockComment
  BY DEF Rendering!HasBlockComment, Renderer!HasBlockComment
<1>4. Rendering!RendersMarkers <=> Renderer!RendersMarkers
  BY <1>1, <1>2, <1>3, SameRange DEF Rendering!RendersMarkers, Renderer!RendersMarkers
<1>5. Rendering!RendererTypeOK <=> Renderer!RendererTypeOK
  BY SameRange DEF Rendering!RendererTypeOK, Renderer!RendererTypeOK, Rendering!Modes,
     Renderer!Modes, Rendering!Quotes, Renderer!Quotes
<1>. QED
  BY <1>4, <1>5

LEMMA SameInit == Rendering!RendererInit <=> Renderer!RendererInit
<1>1. \A s : Rendering!Closed(s) <=> Renderer!Closed(s)
  BY DEF Rendering!Closed, Renderer!Closed, Rendering!Quotes, Renderer!Quotes
<1>. QED
  BY <1>1, SameFlatten
     DEF Rendering!RendererInit, Renderer!RendererInit, Rendering!Texts, Renderer!Texts

LEMMA SameNext == Rendering!RendererNext <=> Renderer!RendererNext
<1>1. \A m : Rendering!In(m) <=> Renderer!In(m)
  BY DEF Rendering!In, Renderer!In
<1>2. Rendering!ch = Renderer!ch /\ Rendering!next = Renderer!next
  BY DEF Rendering!ch, Renderer!ch, Rendering!next, Renderer!next
<1>3. \A n, s, m : Rendering!CopyAndSkip(n, s, m) <=> Renderer!CopyAndSkip(n, s, m)
  BY DEF Rendering!CopyAndSkip, Renderer!CopyAndSkip
<1>4. \A n, m : Rendering!Copy(n, m) <=> Renderer!Copy(n, m)
  BY <1>3 DEF Rendering!Copy, Renderer!Copy
<1>5. Rendering!StartsMarker <=> Renderer!StartsMarker
  BY <1>2 DEF Rendering!StartsMarker, Renderer!StartsMarker
<1>6. Rendering!EndOfName = Renderer!EndOfName
  BY DEF Rendering!EndOfName, Renderer!EndOfName
<1>7. Rendering!Quotes = Renderer!Quotes
  BY DEF Rendering!Quotes, Renderer!Quotes
<1>8. Rendering!Opens <=> Renderer!Opens
  BY <1>2, <1>7 DEF Rendering!Opens, Renderer!Opens
<1>9. Rendering!Marker <=> Renderer!Marker
  BY <1>1, <1>5, <1>6 DEF Rendering!Marker, Renderer!Marker
<1>10. Rendering!Open <=> Renderer!Open
  BY <1>1, <1>2, <1>4, <1>7 DEF Rendering!Open, Renderer!Open
<1>11. Rendering!Plain <=> Renderer!Plain
  BY <1>1, <1>4, <1>5, <1>8 DEF Rendering!Plain, Renderer!Plain
<1>12. Rendering!Quoted <=> Renderer!Quoted
  BY <1>1, <1>2, <1>4, <1>7 DEF Rendering!Quoted, Renderer!Quoted
<1>13. Rendering!LineComment <=> Renderer!LineComment
  BY <1>1, <1>2, <1>4 DEF Rendering!LineComment, Renderer!LineComment
<1>14. Rendering!BlockComment <=> Renderer!BlockComment
  BY <1>1, <1>2, <1>3, <1>4 DEF Rendering!BlockComment, Renderer!BlockComment
<1>15. Rendering!Finish <=> Renderer!Finish
  BY SameRange DEF Rendering!Finish, Renderer!Finish
<1>. QED
  BY <1>9, <1>10, <1>11, <1>12, <1>13, <1>14, <1>15 DEF Rendering!RendererNext, Renderer!RendererNext

-----------------------------------------------------------------------------
(* The service: each part on an instance of its own. *)

ServiceSizes ==
  /\ Sizes /\ MaxAge \in Nat /\ Tolerance \in Nat /\ MaxSignals \in Nat
  /\ NoCookie \notin Cookies

\* A console that is not the chosen part.
AtRest ==
  /\ CatalogueInit
  /\ writer = NoHost /\ work = Tables
  /\ pc = [h \in Hosts |-> "idle"] /\ req = [h \in Hosts |-> NoRequest]
  /\ user = [h \in Hosts |-> Nobody] /\ seen = [h \in Hosts |-> NoRow]

\* Every part keeps its own invariant, and the others stay as they are.
ServiceInvariant ==
  /\ SessionsTypeOK /\ SignedInTime
  /\ IF InConsole THEN ConsoleTypes ELSE AtRest
  /\ ShutdownInvariant
  /\ IF InClocks THEN LocalTimeTypeOK /\ LocalTimeInvariant ELSE instant = Pending
  /\ InRenderer => Rendering!RendererInvariant

LEMMA ServiceStarts == ASSUME ServiceSizes, Init PROVE ServiceInvariant
<1>1. ConsoleTypes /\ SessionsTypeOK
  BY TypesStart DEF Init, ServiceSizes, ConsoleTypes
<1>2. AtRest
  BY DEF Init, ConsoleInit, AtRest
<1>3. SignedInTime
  BY SignedStarts DEF Init, ConsoleInit, ServiceSizes, Sizes
<1>4. ShutdownInvariant
  BY ShutdownStarts DEF Init, ServiceSizes
<1>5. CASE InClocks
  <2>1. LocalTimeInit
    BY <1>5 DEF Init, InCookies, InConsole, InServer, InClocks, InRenderer
  <2>2. LocalTimeInvariant
    BY <2>1, LocalTimeStarts, ZonesAssumption
  <2>3. LocalTimeTypeOK
    BY <2>1 DEF LocalTimeInit, LocalTimeTypeOK
  <2>. QED
    BY <1>1, <1>2, <1>3, <1>4, <1>5, <2>2, <2>3 DEF ServiceInvariant, InClocks, InConsole, InRenderer
<1>6. CASE ~InClocks
  <2>1. instant = Pending
    BY <1>6 DEF Init, NoClocks
  <2>2. InRenderer => Rendering!RendererInvariant
    <3>1. InRenderer => Renderer!RendererInit
      BY DEF Init, InCookies, InConsole, InServer, InClocks, InRenderer
    <3>2. Rendering!TokensAreSql
      BY SameTokens, TokensAssumption
    <3>. QED
      BY <3>1, <3>2, SameInit, Rendering!RendererStarts
  <2>. QED
    BY <1>1, <1>2, <1>3, <1>4, <1>6, <2>1, <2>2 DEF ServiceInvariant
<1>. QED
  BY <1>5, <1>6

\* The console signs cookies for users, and otherwise leaves them alone.
LEMMA ConsoleKeepsSigned ==
  ASSUME ServiceSizes, ConsoleTypes, SignedInTime, ConsoleNext
  PROVE  SignedInTime'
<1>1. CASE UNCHANGED sessionVars
  BY <1>1 DEF SignedInTime, sessionVars
<1>2. ASSUME NEW h \in Hosts, Sign(h) PROVE SignedInTime'
  <2>1. user[h] \in Users /\ Issue(h, user[h])
    BY <1>2 DEF Sign, ConsoleTypes, ConsoleInvariant, Acting
  <2>. QED
    BY <2>1, IssueKeeps DEF ServiceSizes, Sizes
<1>3. CASE Tick \/ \E u \in Users : SetAccount(u)
  BY <1>3, SignedStep DEF SessionsNext, ServiceSizes, Sizes
<1>4. ASSUME NEW h \in Hosts, Step(h), ~Sign(h) PROVE UNCHANGED sessionVars
  BY <1>4
     DEF Step, Receive, ReadForLogin, ReadForLogout, ReadForCreate, ReadForEdit, WriteVisit,
         InsertResource, UpdateResource, Constraint, Busy, Audit, Commit, Fail, Answer, Proceed, Write
<1>. QED
  BY <1>1, <1>2, <1>3, <1>4 DEF ConsoleNext, Environment, StatusChanges

LEMMA SessionsTyped ==
  ASSUME ServiceSizes, SessionsTypeOK, [SessionsNext]_sessionVars
  PROVE  SessionsTypeOK'
<1>1. ASSUME NEW u \in Users, NEW h \in Hosts, Issue(h, u) PROVE SessionsTypeOK'
  <2>1. SignSession(h, u) \in Cookies
    BY DEF SignSession, HostTime, Cookies, SessionsTypeOK, ServiceSizes, Sizes
  <2>. QED
    BY <1>1, <2>1 DEF Issue, SessionsTypeOK
<1>2. CASE Tick \/ \E u \in Users : SetAccount(u)
  BY <1>2 DEF Tick, SetAccount, SessionsTypeOK, ServiceSizes, Sizes
<1>. QED
  BY <1>1, <1>2 DEF SessionsNext, sessionVars, SessionsTypeOK

\* What a part keeps while another takes its steps.
LEMMA OthersStay ==
  ASSUME ServiceInvariant, UNCHANGED part
  PROVE  /\ UNCHANGED sessionVars => (SessionsTypeOK /\ SignedInTime)'
         /\ UNCHANGED <<part, consoleVars>> /\ ~InConsole => AtRest'
         /\ UNCHANGED shutdownVars => ShutdownInvariant'
         /\ UNCHANGED localTimeVars =>
              (IF InClocks THEN LocalTimeTypeOK /\ LocalTimeInvariant ELSE instant = Pending)'
         /\ UNCHANGED rendererVars => (InRenderer => Rendering!RendererInvariant)'
<1>1. UNCHANGED sessionVars => (SessionsTypeOK /\ SignedInTime)'
  BY DEF ServiceInvariant, sessionVars, SessionsTypeOK, SignedInTime
<1>2. UNCHANGED consoleVars /\ ~InConsole => AtRest'
  BY DEF ServiceInvariant, consoleVars, AtRest, CatalogueInit, Tables
<1>3. UNCHANGED shutdownVars => ShutdownInvariant'
  BY DEF ServiceInvariant, shutdownVars, ShutdownInvariant, ShutdownTypeOK, Orderly
<1>4. UNCHANGED localTimeVars =>
        (IF InClocks THEN LocalTimeTypeOK /\ LocalTimeInvariant ELSE instant = Pending)'
  BY LocalTimeStep, LocalTimeTypesKept, ZonesAssumption
     DEF ServiceInvariant, localTimeVars, InClocks
<1>5. UNCHANGED rendererVars => (InRenderer => Rendering!RendererInvariant)'
  <2>1. Rendering!TokensAreSql
    BY SameTokens, TokensAssumption
  <2>2. UNCHANGED rendererVars => UNCHANGED Rendering!rendererVars
    BY DEF rendererVars, Rendering!rendererVars
  <2>. QED
    BY <2>1, <2>2, Rendering!RendererStep DEF ServiceInvariant, InRenderer
<1>. QED
  BY <1>1, <1>2, <1>3, <1>4, <1>5

LEMMA ServiceStep ==
  ASSUME ServiceSizes, ServiceInvariant, [Next]_vars
  PROVE  ServiceInvariant'
<1>0. /\ UNCHANGED part
      /\ (InCookies' <=> InCookies) /\ (InConsole' <=> InConsole) /\ (InServer' <=> InServer)
      /\ (InClocks' <=> InClocks) /\ (InRenderer' <=> InRenderer)
  BY DEF Next, ServerRest, vars, InCookies, InConsole, InServer, InClocks, InRenderer
<1>1. CASE /\ InCookies /\ SessionsNext
           /\ UNCHANGED <<part, consoleVars, shutdownVars, localTimeVars, rendererVars>>
  <2>1. SessionsTypeOK' /\ SignedInTime'
    BY <1>1, SessionsTyped, SignedStep DEF ServiceInvariant, ServiceSizes, Sizes
  <2>2. ~InConsole
    BY <1>1 DEF InCookies, InConsole
  <2>. QED
    BY <1>0, <1>1, <2>1, <2>2, OthersStay DEF ServiceInvariant
<1>2. CASE /\ InConsole /\ ConsoleNext
           /\ UNCHANGED <<part, clock, shutdownVars, localTimeVars, rendererVars>>
  <2>1. ConsoleTypes' /\ SignedInTime'
    BY <1>2, TypesKept, ConsoleKeepsSigned DEF ServiceInvariant, ServiceSizes
  <2>2. SessionsTypeOK'
    BY <2>1 DEF ConsoleTypes
  <2>. QED
    BY <1>0, <1>2, <2>1, <2>2, OthersStay DEF ServiceInvariant
<1>3. CASE InServer /\ ShutdownNext /\ UNCHANGED ServerRest
  <2>1. ShutdownInvariant'
    BY <1>3, ShutdownStep DEF ServiceInvariant, ServiceSizes
  <2>2. ~InConsole /\ UNCHANGED <<sessionVars, consoleVars, localTimeVars, rendererVars>>
    BY <1>3 DEF InServer, InConsole, ServerRest
  <2>. QED
    BY <1>0, <2>1, <2>2, OthersStay DEF ServiceInvariant
<1>4. CASE /\ InClocks /\ LocalTimeNext
           /\ UNCHANGED <<part, sessionVars, consoleVars, shutdownVars, rendererVars>>
  <2>1. LocalTimeTypeOK' /\ LocalTimeInvariant'
    BY <1>4, LocalTimeStep, LocalTimeTypesKept, ZonesAssumption DEF ServiceInvariant
  <2>2. ~InConsole
    BY <1>4 DEF InClocks, InConsole
  <2>. QED
    BY <1>0, <1>4, <2>1, <2>2, OthersStay DEF ServiceInvariant
<1>5. CASE /\ InRenderer /\ Renderer!RendererNext
           /\ UNCHANGED <<part, sessionVars, consoleVars, shutdownVars, localTimeVars>>
  <2>1. Rendering!RendererInvariant'
    <3>1. Rendering!TokensAreSql
      BY SameTokens, TokensAssumption
    <3>. QED
      BY <1>5, <3>1, SameNext, Rendering!RendererStep DEF ServiceInvariant
  <2>2. ~InConsole
    BY <1>5 DEF InRenderer, InConsole
  <2>. QED
    BY <1>0, <1>5, <2>1, <2>2, OthersStay DEF ServiceInvariant
<1>6. CASE UNCHANGED vars
  <2>1. UNCHANGED <<sessionVars, consoleVars, shutdownVars, localTimeVars, rendererVars>>
    BY <1>6 DEF vars
  <2>2. InConsole => ConsoleTypes'
    BY <2>1, TypesKept DEF ServiceInvariant, ServiceSizes
  <2>. QED
    BY <1>0, <2>1, <2>2, OthersStay DEF ServiceInvariant
<1>. QED
  BY <1>1, <1>2, <1>3, <1>4, <1>5, <1>6 DEF Next

LEMMA ServiceHolds == ASSUME ServiceSizes PROVE Spec => []ServiceInvariant
<1>1. Init => ServiceInvariant
  BY ServiceStarts
<1>2. ServiceInvariant /\ [Next]_vars => ServiceInvariant'
  BY ServiceStep
<1>. QED
  BY <1>1, <1>2, PTL DEF Spec

LEMMA ServiceIsTyped == ASSUME ServiceSizes, ServiceInvariant PROVE TypeOK
<1>1. ConsoleTypeOK
  <2>1. CASE InConsole
    BY <2>1, TypesOK DEF ServiceInvariant, ServiceSizes
  <2>2. CASE ~InConsole
    <3>1. AtRest /\ SessionsTypeOK
      BY <2>2 DEF ServiceInvariant
    <3>2. CatalogueTypeOK
      BY <3>1, CatalogueStarts DEF AtRest, CatalogueInvariant
    <3>3. Len(rows) = 1 /\ Len(audit) = 0
      BY <3>1 DEF AtRest, CatalogueInit
    <3>4. Len(rows) <= MaxRows /\ Len(audit) <= MaxAudit
      BY <3>3 DEF ServiceSizes, Sizes
    <3>. QED
      BY <3>1, <3>2, <3>4 DEF AtRest, ConsoleTypeOK
  <2>. QED
    BY <2>1, <2>2
<1>2. InRenderer => Renderer!RendererTypeOK
  BY SameTokens, TokensAssumption, SameMeaning, Rendering!InvariantRenders DEF ServiceInvariant
<1>. QED
  BY <1>1, <1>2 DEF ServiceInvariant, ShutdownInvariant, TypeOK

\* The types of every part, with any number of hosts, users, assets, signals, zones and
\* tokens.
THEOREM ServiceTypes == ASSUME ServiceSizes PROVE Spec => []TypeOK
<1>1. ServiceInvariant => TypeOK
  BY ServiceIsTyped
<1>. QED
  BY <1>1, ServiceHolds, PTL

\* The renderer, on the tokens of the run and statements of any number of them:
\* placeholders and values for the markers, and nothing else touched.
THEOREM ServiceRenders == ASSUME ServiceSizes PROVE Spec => []RendersMarkers
<1>1. ServiceInvariant => RendersMarkers
  BY SameTokens, TokensAssumption, SameMeaning, Rendering!InvariantRenders
     DEF ServiceInvariant, RendersMarkers
<1>. QED
  BY <1>1, ServiceHolds, PTL

=============================================================================
