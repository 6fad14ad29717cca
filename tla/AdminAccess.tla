------------------------------ MODULE AdminAccess ------------------------------
(***************************************************************************)
(* The administrators' door of the telemetry service: login behind two rate *)
(* limiters, logins kept in the database, and logout.  The limiters live in *)
(* the memory of the process and are lost when it restarts; the logins are  *)
(* not.  The other routes only read, behind limiters of the same kind.      *)
(*                                                                         *)
(* The login handler awaits the body of the request after the limiters have *)
(* let it in.  Cookies are sent as the service set them; a login is known   *)
(* by its number instead of its token.                                      *)
(***************************************************************************)
EXTENDS Integers, FiniteSets, Functions

CONSTANTS
    Ips,                \* addresses, one browser behind each
    IpMax, GlobalMax,   \* requests a window admits
    Window,             \* length of a window
    AdminTtl,           \* life of a login
    MaxLogins, MaxRestarts,   \* bounds
    Horizon,            \* last tick of the clock
    NoEntry

ASSUME AdminAssumption ==
    /\ IsFiniteSet(Ips) /\ NoEntry \notin Ips \cup Nat
    /\ IpMax \in Nat /\ GlobalMax \in Nat /\ Window \in Nat \ {0}
    /\ AdminTtl \in Nat /\ MaxLogins \in Nat /\ MaxRestarts \in Nat /\ Horizon \in Nat
ASSUME NoEntryIsNoCounter == NoEntry \notin [count : Nat, resetAt : Nat]

Logins == 1..MaxLogins
Ticks == 0..Horizon
Limiters == {"adminLoginIp", "adminLoginGlobal"}
Admits == [adminLoginIp |-> IpMax, adminLoginGlobal |-> GlobalMax]

VARIABLES
    clock,
    hits,       \* of each limiter: key -> counter of its window
    waiting,    \* admitted login requests of each address whose body is not there yet
    logins,     \* table admin_sessions: number -> time of expiry
    cookie,     \* the cookie each browser holds
    restarts,   \* restarts so far
    issued,     \* history: when each login was granted
    ended,      \* history: the logins that were logged out
    passed,     \* history: per address and tick, the logins that passed its limiter
    admitted    \* history: those that passed both limiters; both since the last restart

adminVars == <<clock, hits, waiting, logins, cookie, restarts, issued, ended, passed, admitted>>

Keys == Ips \cup {"global"}
NoHits == [l \in Limiters |-> [k \in Keys |-> NoEntry]]
NoCount == [p \in Ips \X Ticks |-> 0]

AdminInit ==
    /\ clock = 0
    /\ hits = NoHits
    /\ waiting = [i \in Ips |-> 0]
    /\ logins = [n \in Logins |-> NoEntry]
    /\ cookie = [i \in Ips |-> NoEntry]
    /\ restarts = 0
    /\ issued = [n \in Logins |-> NoEntry] /\ ended = {}
    /\ passed = NoCount /\ admitted = NoCount

-----------------------------------------------------------------------------
\* allow(): the counter that a request leaves behind; a window starts with the
\* first request after the end of the last one.
Counted(limiter, key) ==
    LET rec == hits[limiter][key] IN
    IF rec = NoEntry \/ rec.resetAt <= clock
    THEN [count |-> 1, resetAt |-> clock + Window]
    ELSE [rec EXCEPT !.count = @ + 1]

Allowed(limiter, key) == Counted(limiter, key).count <= Admits[limiter]

\* Variant: both limiters count every attempt.
CountBoth(ip) ==
    hits' = [hits EXCEPT !.adminLoginIp[ip] = Counted("adminLoginIp", ip),
                         !.adminLoginGlobal["global"] = Counted("adminLoginGlobal", "global")]

\* The limiter of all addresses is asked only when that of the address allows.
CountLogin(ip) ==
    hits' = [hits EXCEPT
        !.adminLoginIp[ip] = Counted("adminLoginIp", ip),
        !.adminLoginGlobal["global"] =
            IF Allowed("adminLoginIp", ip) THEN Counted("adminLoginGlobal", "global") ELSE @]

Login(ip) ==
    LET byIp == Allowed("adminLoginIp", ip)
        byAll == byIp /\ Allowed("adminLoginGlobal", "global")
    IN
    /\ CountLogin(ip)
    /\ passed' = [passed EXCEPT ![<<ip, clock>>] = IF byIp THEN @ + 1 ELSE @]
    /\ admitted' = [admitted EXCEPT ![<<ip, clock>>] = IF byAll THEN @ + 1 ELSE @]
    /\ waiting' = [waiting EXCEPT ![ip] = IF byAll THEN @ + 1 ELSE @]
    /\ UNCHANGED <<clock, logins, cookie, restarts, issued, ended>>

HasAdmitted(ip) == waiting[ip] > 0

\* The body is there, with the right password or not (or the connection is lost).
LoginBody(ip) ==
    /\ HasAdmitted(ip)
    /\ waiting' = [waiting EXCEPT ![ip] = @ - 1]
    /\ \/ UNCHANGED <<logins, cookie, issued>>
       \/ \E n \in Logins :
            /\ \A k \in Logins : issued[k] = NoEntry <=> k >= n
            /\ logins' = [logins EXCEPT ![n] = clock + AdminTtl]
            /\ issued' = [issued EXCEPT ![n] = clock]
            /\ cookie' = [cookie EXCEPT ![ip] = n]
    /\ UNCHANGED <<clock, hits, restarts, ended, passed, admitted>>

GetAdminSession(n) == n # NoEntry /\ logins[n] # NoEntry /\ logins[n] >= clock

Logout(ip) ==
    /\ IF cookie[ip] = NoEntry THEN UNCHANGED <<logins, ended>>
       ELSE /\ logins' = [logins EXCEPT ![cookie[ip]] = NoEntry]
            /\ ended' = ended \cup {cookie[ip]}
    /\ cookie' = [cookie EXCEPT ![ip] = NoEntry]
    /\ UNCHANGED <<clock, hits, waiting, restarts, issued, passed, admitted>>

\* Max-Age is over.
CookieExpires(ip) ==
    /\ cookie[ip] # NoEntry
    /\ issued[cookie[ip]] + AdminTtl <= clock
    /\ cookie' = [cookie EXCEPT ![ip] = NoEntry]
    /\ UNCHANGED <<clock, hits, waiting, logins, restarts, issued, ended, passed, admitted>>

Sweep ==
    hits' = [l \in Limiters |-> [k \in Keys |->
        IF hits[l][k] # NoEntry /\ hits[l][k].resetAt <= clock THEN NoEntry ELSE hits[l][k]]]

\* Variant: a login is deleted at the very time it expires, which is still valid.
DeletedEarly(n) == logins[n] # NoEntry /\ logins[n] <= clock

Expired(n) == logins[n] # NoEntry /\ logins[n] < clock

\* cleanupExpiredSessions(): every five minutes and when the process starts.
CleanLogins ==
    /\ logins' = [n \in Logins |-> IF Expired(n) THEN NoEntry ELSE logins[n]]
    /\ Sweep
    /\ UNCHANGED <<clock, waiting, cookie, restarts, issued, ended, passed, admitted>>

Restart ==
    /\ restarts < MaxRestarts
    /\ restarts' = restarts + 1
    /\ hits' = NoHits
    /\ waiting' = [i \in Ips |-> 0]
    /\ logins' = [n \in Logins |-> IF Expired(n) THEN NoEntry ELSE logins[n]]
    /\ passed' = NoCount /\ admitted' = NoCount
    /\ UNCHANGED <<clock, cookie, issued, ended>>

AdminTick ==
    /\ clock < Horizon
    /\ clock' = clock + 1
    /\ UNCHANGED <<hits, waiting, logins, cookie, restarts, issued, ended, passed, admitted>>

\* Bound: an address sends one attempt more than its limiter admits in a window.
Busy(ip) == hits.adminLoginIp[ip] # NoEntry /\ hits.adminLoginIp[ip].count > IpMax

AdminNext ==
    \/ \E ip \in Ips :
        \/ ~Busy(ip) /\ Login(ip)
        \/ LoginBody(ip) \/ Logout(ip) \/ CookieExpires(ip)
    \/ CleanLogins \/ Restart \/ AdminTick

AdminSpec == AdminInit /\ [][AdminNext]_adminVars

-----------------------------------------------------------------------------
Counter == [count : Nat, resetAt : 0..Horizon + Window]

AdminTypeOK ==
    /\ clock \in Ticks /\ restarts \in 0..MaxRestarts
    /\ hits \in [Limiters -> [Keys -> Counter \cup {NoEntry}]]
    /\ waiting \in [Ips -> Nat]
    /\ logins \in [Logins -> (0..Horizon + AdminTtl) \cup {NoEntry}]
    /\ cookie \in [Ips -> Logins \cup {NoEntry}]
    /\ issued \in [Logins -> Ticks \cup {NoEntry}] /\ ended \subseteq Logins
    /\ passed \in [Ips \X Ticks -> Nat] /\ admitted \in [Ips \X Ticks -> Nat]

Stretch(first) == {t \in Ticks : first <= t /\ t < first + Window}
Within(logs, ips, first) == SumFunctionOnSet(logs, ips \X Stretch(first))

\* The windows start with their first request and do not slide, so that two may
\* meet inside any one stretch of a window's length: it admits twice the maximum
\* and no more, of each address and of all together, whenever counters are swept.
\* And no address alone can use up what all are allowed together: of the attempts
\* the common counter holds, an address has at most twice its own maximum.
LoginsAreLimited ==
    LET common == hits.adminLoginGlobal["global"] IN
    /\ \A t \in Ticks :
        /\ \A ip \in Ips : Within(passed, {ip}, t) <= 2 * IpMax
        /\ Within(admitted, Ips, t) <= 2 * GlobalMax
    /\ common # NoEntry =>
        \E some \in SUBSET Ips :
            /\ common.count <= 2 * IpMax * Cardinality(some)
            /\ \A ip \in some : \E t \in Ticks :
                t >= common.resetAt - Window /\ passed[<<ip, t>>] > 0

\* A login is good exactly until it is logged out or its life is over: neither the
\* clean-up nor a restart ends it early, and nothing revives it.
LoginLasts ==
    \A n \in Logins :
        issued[n] # NoEntry =>
            (GetAdminSession(n) <=> n \notin ended /\ issued[n] + AdminTtl >= clock)
===============================================================================
