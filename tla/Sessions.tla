------------------------------ MODULE Sessions ------------------------------
(***************************************************************************)
(* Signed session cookies: security.py issues and verifies them, and       *)
(* dependencies.current_user turns one into the account of a request.  The *)
(* server keeps no list of sessions.  A cookie is the user id and the time *)
(* at which the issuing host's clock put it; any host that knows the       *)
(* secret reads it against its own clock.  A cookie that is absent,        *)
(* malformed or signed with another secret is NoCookie: verify_session     *)
(* answers None to each of them.                                           *)
(***************************************************************************)
EXTENDS Integers, FiniteSets

CONSTANTS
  Users, Nobody,
  Hosts,      \* the machines that serve requests
  MaxAge,     \* settings.session_max_age
  Tolerance,  \* the 60 seconds verify_session allows a clock to be behind
  MaxSkew,    \* how far the clocks of two hosts are apart
  MaxTime,    \* bound on the clock
  MaxCookies, \* bound on the cookies; none has an effect on another
  NoCookie

VARIABLES
  clock,   \* the true time
  skew,    \* what each host's clock is ahead of it
  active,  \* the accounts with users.status = 'active'
  issued   \* the cookies signed so far, each with the true time, "at", of that

Cookies == [uid : Users, iat : Int, at : Nat]

SessionsTypeOK ==
  /\ clock \in 0..MaxTime
  /\ skew \in [Hosts -> 0..MaxSkew]
  /\ active \subseteq Users
  /\ issued \subseteq Cookies

SessionsInit ==
  /\ clock = 0
  /\ skew \in [Hosts -> 0..MaxSkew]
  /\ active = Users
  /\ issued = {}

HostTime(h) == clock + skew[h]

SignSession(h, u) == [uid |-> u, iat |-> HostTime(h), at |-> clock]

\* Mutant: nothing from a clock ahead is accepted.
VerifiesStrictly(h, c) ==
  c # NoCookie /\ c.iat <= HostTime(h) /\ HostTime(h) - c.iat <= MaxAge

VerifySession(h, c) ==
  /\ c # NoCookie
  /\ c.iat <= HostTime(h) + Tolerance
  /\ HostTime(h) - c.iat <= MaxAge

CurrentUser(h, c) ==
  IF VerifySession(h, c) /\ c.uid \in active THEN c.uid ELSE Nobody

Issue(h, u) ==
  /\ issued' = issued \cup {SignSession(h, u)}
  /\ UNCHANGED <<clock, skew, active>>

Tick ==
  /\ clock < MaxTime
  /\ clock' = clock + 1
  /\ UNCHANGED <<skew, active, issued>>

\* An operator suspends or reinstates an account, in SQL: no route does.
SetAccount(u) ==
  /\ active' = IF u \in active THEN active \ {u} ELSE active \cup {u}
  /\ UNCHANGED <<clock, skew, issued>>

\* A cookie at any time, for anyone; AdminConsole has the login that issues it.
SessionsNext ==
  \/ Tick
  \/ \E u \in Users : SetAccount(u)
  \/ Cardinality(issued) < MaxCookies /\ \E u \in Users, h \in Hosts : Issue(h, u)

-----------------------------------------------------------------------------

\* The clocks of two hosts may differ by what verify_session allows for: a cookie
\* is good on every host from the moment it is issued until it is as old as
\* settings.session_max_age, and on none for longer, but for the skew.
SessionLifetime ==
  \A c \in issued, h \in Hosts :
    /\ MaxSkew <= Tolerance /\ clock - c.at <= MaxAge - MaxSkew => VerifySession(h, c)
    /\ VerifySession(h, c) => clock - c.at <= MaxAge + MaxSkew

=============================================================================
