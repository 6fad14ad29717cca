----------------------------- MODULE BackendProofs -----------------------------
(***************************************************************************)
(* Proofs about the rest of the backend, for any values of the constants:   *)
(* the administrators' door of AdminAccess, where a login lasts until it is *)
(* logged out or its life is over and the limiters hold whatever is swept   *)
(* or restarted; the charts of EventCharts, which count every row that is   *)
(* kept in exactly one bar; and the installation of the service in          *)
(* BackendDeploy, with deployments and rotations that fail, are cut off or  *)
(* overlap in any way the model allows.                                     *)
(***************************************************************************)
EXTENDS AdminAccess, EventCharts, BackendDeploy, DataLemmas, TLAPS

USE AdminAssumption

-----------------------------------------------------------------------------
(* AdminAccess: types. *)

LEMMA CountedType ==
    ASSUME AdminTypeOK, NEW limiter \in Limiters, NEW key \in Keys
    PROVE  Counted(limiter, key) \in Counter
  <1>. DEFINE rec == hits[limiter][key]
  <1>1. rec \in Counter \cup {NoEntry}
    BY DEF AdminTypeOK
  <1>2. clock \in 0..Horizon
    BY DEF AdminTypeOK, Ticks
  <1>3. CASE rec = NoEntry \/ rec.resetAt <= clock
    <2>1. clock + Window \in 0..Horizon + Window
      BY <1>2
    <2>2. Counted(limiter, key) = [count |-> 1, resetAt |-> clock + Window]
      BY <1>3 DEF Counted
    <2>. QED  BY <2>1, <2>2 DEF Counter
  <1>4. CASE ~ (rec = NoEntry \/ rec.resetAt <= clock)
    <2>1. Counted(limiter, key) = [rec EXCEPT !.count = rec.count + 1]
      BY <1>4 DEF Counted
    <2>2. rec \in Counter
      BY <1>1, <1>4
    <2>. HIDE DEF rec
    <2>3. [rec EXCEPT !.count = rec.count + 1] \in Counter
      BY <2>2 DEF Counter
    <2>. QED  BY <2>1, <2>3
  <1>. QED  BY <1>3, <1>4

LEMMA ExtendedHits ==
    ASSUME AdminTypeOK, NEW ip \in Ips, CountLogin(ip)
    PROVE  hits' \in [Limiters -> [Keys -> Counter \cup {NoEntry}]]
  <1>1. /\ "adminLoginIp" \in Limiters /\ "adminLoginGlobal" \in Limiters
        /\ ip \in Keys /\ "global" \in Keys
    BY DEF Limiters, Keys
  <1>2. PICK a \in Counter \cup {NoEntry}, b \in Counter \cup {NoEntry} :
          hits' = [hits EXCEPT !.adminLoginIp[ip] = a, !.adminLoginGlobal["global"] = b]
    <2>1. Counted("adminLoginIp", ip) \in Counter
      BY <1>1, CountedType
    <2>2. Counted("adminLoginGlobal", "global") \in Counter
      BY <1>1, CountedType
    <2>3. hits["adminLoginGlobal"]["global"] \in Counter \cup {NoEntry}
      BY <1>1 DEF AdminTypeOK
    <2>4. CASE Allowed("adminLoginIp", ip)
      BY <2>1, <2>2, <2>4 DEF CountLogin
    <2>5. CASE ~ Allowed("adminLoginIp", ip)
      <3>1. hits' = [hits EXCEPT
              !.adminLoginIp[ip] = Counted("adminLoginIp", ip),
              !.adminLoginGlobal["global"] = hits["adminLoginGlobal"]["global"]]
        BY <2>5, <1>1 DEF CountLogin, AdminTypeOK, Limiters
      <3>. QED  BY <2>1, <2>3, <3>1
    <2>. QED  BY <2>4, <2>5
  <1>. QED  BY <1>1, <1>2 DEF AdminTypeOK

LEMMA AdminTypeInit == AdminInit => AdminTypeOK
  <1>. SUFFICES ASSUME AdminInit PROVE AdminTypeOK
    OBVIOUS
  <1>. USE DEF AdminInit
  <1>1. clock \in Ticks /\ restarts \in 0..MaxRestarts
    BY DEF Ticks
  <1>2. hits \in [Limiters -> [Keys -> Counter \cup {NoEntry}]]
    BY DEF NoHits
  <1>3. passed \in [Ips \X Ticks -> Nat] /\ admitted \in [Ips \X Ticks -> Nat]
    BY DEF NoCount
  <1>4. logins \in [Logins -> (0..Horizon + AdminTtl) \cup {NoEntry}]
    OBVIOUS
  <1>5. issued \in [Logins -> Ticks \cup {NoEntry}]
    OBVIOUS
  <1>6. waiting \in [Ips -> Nat] /\ cookie \in [Ips -> Logins \cup {NoEntry}] /\ ended \subseteq Logins
    OBVIOUS
  <1>. QED  BY <1>1, <1>2, <1>3, <1>4, <1>5, <1>6 DEF AdminTypeOK

LEMMA LoginType ==
    ASSUME AdminTypeOK, NEW ip \in Ips, Login(ip)
    PROVE  AdminTypeOK'
  <1>1. hits' \in [Limiters -> [Keys -> Counter \cup {NoEntry}]]
    BY ExtendedHits DEF Login
  <1>2. ASSUME NEW f \in [Ips \X Ticks -> Nat], NEW more \in BOOLEAN
        PROVE  [f EXCEPT ![<<ip, clock>>] = IF more THEN @ + 1 ELSE @] \in [Ips \X Ticks -> Nat]
    <2>1. <<ip, clock>> \in Ips \X Ticks
      BY DEF AdminTypeOK
    <2>2. f[<<ip, clock>>] \in Nat
      BY <2>1
    <2>. QED  BY <2>1, <2>2
  <1>3. /\ Allowed("adminLoginIp", ip) \in BOOLEAN
        /\ (Allowed("adminLoginIp", ip) /\ Allowed("adminLoginGlobal", "global")) \in BOOLEAN
    BY DEF Allowed
  <1>4. passed' \in [Ips \X Ticks -> Nat]
    BY <1>2, <1>3 DEF Login, AdminTypeOK
  <1>5. admitted' \in [Ips \X Ticks -> Nat]
    BY <1>2, <1>3 DEF Login, AdminTypeOK
  <1>6. waiting' \in [Ips -> Nat]
    BY DEF Login, AdminTypeOK
  <1>. QED  BY <1>1, <1>4, <1>5, <1>6 DEF Login, AdminTypeOK

LEMMA LoginBodyType ==
    ASSUME AdminTypeOK, NEW ip \in Ips, LoginBody(ip)
    PROVE  AdminTypeOK'
  <1>1. waiting' \in [Ips -> Nat]
    BY DEF LoginBody, HasAdmitted, AdminTypeOK
  <1>2. UNCHANGED <<clock, hits, restarts, ended, passed, admitted>>
    BY DEF LoginBody
  <1>3. CASE UNCHANGED <<logins, cookie, issued>>
    BY <1>1, <1>2, <1>3 DEF AdminTypeOK
  <1>4. ASSUME NEW n \in Logins,
               logins' = [logins EXCEPT ![n] = clock + AdminTtl],
               issued' = [issued EXCEPT ![n] = clock],
               cookie' = [cookie EXCEPT ![ip] = n]
        PROVE  AdminTypeOK'
    <2>1. clock + AdminTtl \in 0..Horizon + AdminTtl /\ clock \in Ticks
      BY DEF AdminTypeOK, Ticks
    <2>. QED  BY <1>1, <1>2, <1>4, <2>1 DEF AdminTypeOK
  <1>. QED  BY <1>3, <1>4 DEF LoginBody

LEMMA LogoutType ==
    ASSUME AdminTypeOK, NEW ip \in Ips, Logout(ip)
    PROVE  AdminTypeOK'
  <1>1. cookie' \in [Ips -> Logins \cup {NoEntry}]
    BY DEF Logout, AdminTypeOK
  <1>2. UNCHANGED <<clock, hits, waiting, restarts, issued, passed, admitted>>
    BY DEF Logout
  <1>3. CASE cookie[ip] = NoEntry
    BY <1>1, <1>2, <1>3 DEF Logout, AdminTypeOK
  <1>4. CASE cookie[ip] # NoEntry
    <2>1. cookie[ip] \in Logins
      BY <1>4 DEF AdminTypeOK
    <2>. QED  BY <1>1, <1>2, <1>4, <2>1 DEF Logout, AdminTypeOK
  <1>. QED  BY <1>3, <1>4

\* What cleaning up and a restart leave of the logins.
Cleaned == [n \in Logins |-> IF Expired(n) THEN NoEntry ELSE logins[n]]

LEMMA CleanedType ==
    ASSUME AdminTypeOK
    PROVE  Cleaned \in [Logins -> (0..Horizon + AdminTtl) \cup {NoEntry}]
  BY DEF Cleaned, AdminTypeOK

LEMMA AdminTypeStep == AdminTypeOK /\ [AdminNext]_adminVars => AdminTypeOK'
  <1>. SUFFICES ASSUME AdminTypeOK, [AdminNext]_adminVars PROVE AdminTypeOK'
    OBVIOUS
  <1>1. ASSUME NEW ip \in Ips, CookieExpires(ip) PROVE AdminTypeOK'
    BY <1>1 DEF CookieExpires, AdminTypeOK
  <1>2. CASE CleanLogins
    <2>1. hits' \in [Limiters -> [Keys -> Counter \cup {NoEntry}]]
      BY <1>2 DEF CleanLogins, Sweep, AdminTypeOK
    <2>. QED  BY <1>2, <2>1, CleanedType DEF CleanLogins, Cleaned, AdminTypeOK
  <1>3. CASE Restart
    <2>1. hits' \in [Limiters -> [Keys -> Counter \cup {NoEntry}]]
      BY <1>3 DEF Restart, NoHits
    <2>2. restarts' \in 0..MaxRestarts
      BY <1>3 DEF Restart, AdminTypeOK
    <2>3. passed' \in [Ips \X Ticks -> Nat] /\ admitted' \in [Ips \X Ticks -> Nat]
      BY <1>3 DEF Restart, NoCount
    <2>. QED  BY <1>3, <2>1, <2>2, <2>3, CleanedType DEF Restart, Cleaned, AdminTypeOK
  <1>4. CASE AdminTick
    <2>1. clock' \in Ticks
      BY <1>4 DEF AdminTick, AdminTypeOK, Ticks
    <2>. QED  BY <1>4, <2>1 DEF AdminTick, AdminTypeOK
  <1>5. CASE UNCHANGED adminVars
    BY <1>5 DEF adminVars, AdminTypeOK
  <1>. QED  BY <1>1, <1>2, <1>3, <1>4, <1>5, LoginType, LoginBodyType, LogoutType DEF AdminNext

\* The service, its limiters and its table of logins are of their types.
THEOREM AdminIsTyped == AdminSpec => []AdminTypeOK
  BY AdminTypeInit, AdminTypeStep, PTL DEF AdminSpec

-----------------------------------------------------------------------------
(* Logins.  LoginLasts says which rows of the table are good and why; it is  *)
(* kept because a row was put there when the login was granted and says when *)
(* its life ends, and a row that is missing was logged out or had expired.   *)

RowsAreGranted ==
    \A n \in Logins : logins[n] # NoEntry =>
        issued[n] # NoEntry /\ logins[n] = issued[n] + AdminTtl /\ n \notin ended

MissingRowsAreOver ==
    \A n \in Logins : issued[n] # NoEntry /\ logins[n] = NoEntry =>
        n \in ended \/ issued[n] + AdminTtl < clock

OnlyGrantedEnd == \A n \in ended : issued[n] # NoEntry

CookiesAreGranted == \A i \in Ips : cookie[i] # NoEntry => issued[cookie[i]] # NoEntry

LoginInv == RowsAreGranted /\ MissingRowsAreOver /\ OnlyGrantedEnd /\ CookiesAreGranted

LEMMA LoginInvInit == AdminInit => LoginInv
  BY DEF AdminInit, LoginInv, RowsAreGranted, MissingRowsAreOver, OnlyGrantedEnd, CookiesAreGranted

LEMMA LoginBodyKeeps ==
    ASSUME AdminTypeOK, LoginInv, NEW ip \in Ips, LoginBody(ip)
    PROVE  LoginInv'
  <1>. USE DEF LoginInv, RowsAreGranted, MissingRowsAreOver, OnlyGrantedEnd, CookiesAreGranted
  <1>1. UNCHANGED <<clock, ended>>
    BY DEF LoginBody
  <1>2. CASE UNCHANGED <<logins, cookie, issued>>
    BY <1>1, <1>2
  <1>3. ASSUME NEW n \in Logins,
               issued[n] = NoEntry,
               logins' = [logins EXCEPT ![n] = clock + AdminTtl],
               issued' = [issued EXCEPT ![n] = clock],
               cookie' = [cookie EXCEPT ![ip] = n]
        PROVE  LoginInv'
    <2>1. clock \in Nat /\ clock # NoEntry /\ clock + AdminTtl # NoEntry
      BY DEF AdminTypeOK, Ticks
    <2>2. n \notin ended
      BY <1>3
    <2>3. logins'[n] = clock + AdminTtl /\ issued'[n] = clock
      BY <1>3 DEF AdminTypeOK
    <2>4. \A k \in Logins : k # n => logins'[k] = logins[k] /\ issued'[k] = issued[k]
      BY <1>3 DEF AdminTypeOK
    <2>5. \A i \in Ips : cookie'[i] = n \/ cookie'[i] = cookie[i]
      BY <1>3 DEF AdminTypeOK
    <2>6. RowsAreGranted'
      BY <1>1, <2>1, <2>2, <2>3, <2>4
    <2>7. MissingRowsAreOver'
      BY <1>1, <2>1, <2>3, <2>4
    <2>8. OnlyGrantedEnd'
      BY <1>1, <2>2, <2>4 DEF AdminTypeOK
    <2>9. CookiesAreGranted'
      <3>. SUFFICES ASSUME NEW i \in Ips, cookie'[i] # NoEntry PROVE issued'[cookie'[i]] # NoEntry
        OBVIOUS
      <3>1. CASE cookie'[i] = n
        BY <2>1, <2>3, <3>1
      <3>2. CASE cookie'[i] # n
        <4>1. cookie'[i] = cookie[i] /\ cookie[i] \in Logins /\ cookie[i] # n
          BY <2>5, <3>2 DEF AdminTypeOK
        <4>. QED  BY <2>4, <4>1
      <3>. QED  BY <3>1, <3>2
    <2>. QED  BY <2>6, <2>7, <2>8, <2>9
  <1>4. ASSUME NEW n \in Logins, \A k \in Logins : issued[k] = NoEntry <=> k >= n
        PROVE  issued[n] = NoEntry
    BY <1>4 DEF Logins
  <1>. QED  BY <1>2, <1>3, <1>4 DEF LoginBody

LEMMA LogoutKeeps ==
    ASSUME AdminTypeOK, LoginInv, NEW ip \in Ips, Logout(ip)
    PROVE  LoginInv'
  <1>. USE DEF LoginInv, RowsAreGranted, MissingRowsAreOver, OnlyGrantedEnd, CookiesAreGranted
  <1>1. UNCHANGED <<clock, issued>> /\ cookie' = [cookie EXCEPT ![ip] = NoEntry]
    BY DEF Logout
  <1>2. CookiesAreGranted'
    BY <1>1 DEF AdminTypeOK
  <1>3. CASE cookie[ip] = NoEntry
    <2>1. UNCHANGED <<logins, ended>>
      BY <1>3 DEF Logout
    <2>. QED  BY <1>1, <1>2, <2>1
  <1>4. CASE cookie[ip] # NoEntry
    <2>. DEFINE n == cookie[ip]
    <2>1. n \in Logins /\ issued[n] # NoEntry
      BY <1>4 DEF AdminTypeOK
    <2>2. logins' = [logins EXCEPT ![n] = NoEntry] /\ ended' = ended \cup {n}
      BY <1>4 DEF Logout
    <2>. QED  BY <1>1, <1>2, <2>1, <2>2 DEF AdminTypeOK
  <1>. QED  BY <1>3, <1>4

\* An expired row may go: its life was over before the clock's time.
LEMMA CleaningKeeps ==
    ASSUME AdminTypeOK, LoginInv, logins' = Cleaned, UNCHANGED <<clock, cookie, issued, ended>>
    PROVE  LoginInv'
  <1>1. \A n \in Logins : logins'[n] = logins[n] \/ (logins'[n] = NoEntry /\ Expired(n))
    BY DEF Cleaned
  <1>2. MissingRowsAreOver'
    BY <1>1 DEF LoginInv, RowsAreGranted, MissingRowsAreOver, Expired
  <1>3. RowsAreGranted'
    BY <1>1 DEF LoginInv, RowsAreGranted
  <1>. QED  BY <1>2, <1>3 DEF LoginInv, OnlyGrantedEnd, CookiesAreGranted

LEMMA LoginInvStep == AdminTypeOK /\ LoginInv /\ [AdminNext]_adminVars => LoginInv'
  <1>. SUFFICES ASSUME AdminTypeOK, LoginInv, [AdminNext]_adminVars PROVE LoginInv'
    OBVIOUS
  <1>1. ASSUME UNCHANGED <<clock, logins, cookie, issued, ended>> PROVE LoginInv'
    BY <1>1 DEF LoginInv, RowsAreGranted, MissingRowsAreOver, OnlyGrantedEnd, CookiesAreGranted
  <1>2. ASSUME NEW ip \in Ips, Login(ip) PROVE LoginInv'
    BY <1>1, <1>2 DEF Login
  <1>3. ASSUME NEW ip \in Ips, CookieExpires(ip) PROVE LoginInv'
    BY <1>3 DEF CookieExpires, AdminTypeOK, LoginInv, RowsAreGranted, MissingRowsAreOver,
                OnlyGrantedEnd, CookiesAreGranted
  <1>4. CASE CleanLogins
    BY <1>4, CleaningKeeps DEF CleanLogins, Cleaned
  <1>5. CASE Restart
    BY <1>5, CleaningKeeps DEF Restart, Cleaned
  <1>6. CASE AdminTick
    <2>1. clock' = clock + 1 /\ UNCHANGED <<logins, cookie, issued, ended>>
      BY <1>6 DEF AdminTick
    <2>2. \A n \in Logins : issued[n] # NoEntry => issued[n] + AdminTtl \in Nat
      BY DEF AdminTypeOK, Ticks
    <2>3. clock \in Nat
      BY DEF AdminTypeOK, Ticks
    <2>4. MissingRowsAreOver'
      BY <2>1, <2>2, <2>3 DEF LoginInv, MissingRowsAreOver
    <2>. QED  BY <2>1, <2>4 DEF LoginInv, RowsAreGranted, OnlyGrantedEnd, CookiesAreGranted
  <1>7. CASE UNCHANGED adminVars
    BY <1>1, <1>7 DEF adminVars
  <1>. QED  BY <1>2, <1>3, <1>4, <1>5, <1>6, <1>7, LoginBodyKeeps, LogoutKeeps DEF AdminNext

\* A login is good exactly until it is logged out or its life is over: cleaning up
\* and restarts of the service end none early, and nothing revives one.
THEOREM LoginsLastTheirTime == AdminSpec => []LoginLasts
  <1>1. AdminTypeOK /\ LoginInv => LoginLasts
    <2>. SUFFICES ASSUME AdminTypeOK, LoginInv, NEW n \in Logins, issued[n] # NoEntry
                  PROVE  GetAdminSession(n) <=> n \notin ended /\ issued[n] + AdminTtl >= clock
      BY DEF LoginLasts
    <2>1. n # NoEntry
      BY DEF Logins
    <2>2. issued[n] \in Nat /\ clock \in Nat
      BY DEF AdminTypeOK, Ticks
    <2>3. CASE logins[n] # NoEntry
      BY <2>1, <2>2, <2>3 DEF GetAdminSession, LoginInv, RowsAreGranted
    <2>4. CASE logins[n] = NoEntry
      BY <2>2, <2>4 DEF GetAdminSession, LoginInv, MissingRowsAreOver
    <2>. QED  BY <2>3, <2>4
  <1>. QED  BY <1>1, AdminTypeInit, AdminTypeStep, LoginInvInit, LoginInvStep, PTL DEF AdminSpec

-----------------------------------------------------------------------------
(***************************************************************************)
(* The limiters.  A limiter is followed by what it let in: while a window   *)
(* is open, the requests since it opened are no more than it counted, and   *)
(* those of the window's length before are what one earlier window let in;  *)
(* with no window open, nothing came in now and one window let in all that  *)
(* came in lately.  Any stretch of a window's length that reaches the       *)
(* present lies inside two such parts.                                      *)
(***************************************************************************)
Logs == [Ips \X Ticks -> Nat]

Total(n, group, ticks) == SumFunctionOnSet(n, group \X ticks)

From(first) == {t \in Ticks : first <= t}
LastBefore(first) == {t \in Ticks : first - Window < t /\ t < first}

Opened(rec) == rec.resetAt - Window
IsOpen(rec, now) == rec # NoEntry /\ rec.resetAt > now

NothingLater(n, group, now) == \A i \in group, t \in Ticks : t > now => n[<<i, t>>] = 0

StretchesHold(n, group, max) == \A t \in Ticks : Within(n, group, t) <= 2 * max

WindowHolds(rec, n, group, max, now) ==
    /\ Opened(rec) \in Ticks /\ Opened(rec) <= now
    /\ Total(n, group, From(Opened(rec))) <= max
    /\ Total(n, group, From(Opened(rec))) <= rec.count
    /\ Total(n, group, LastBefore(Opened(rec))) <= max

PauseHolds(n, group, max, now) ==
    /\ \A i \in group : n[<<i, now>>] = 0
    /\ Total(n, group, From(now - Window + 1)) <= max

LimiterInv(rec, n, group, max, now) ==
    /\ NothingLater(n, group, now)
    /\ StretchesHold(n, group, max)
    /\ IsOpen(rec, now) => WindowHolds(rec, n, group, max, now)
    /\ ~ IsOpen(rec, now) => PauseHolds(n, group, max, now)

\* Whoever the common limiter counted was let in by that of the address.
CommonIsCounted ==
    LET common == hits["adminLoginGlobal"]["global"] IN
    common # NoEntry =>
        /\ Opened(common) \in Ticks
        /\ common.count <= Within(passed, Ips, Opened(common))

LimitersInv ==
    /\ \A ip \in Ips : LimiterInv(hits["adminLoginIp"][ip], passed, {ip}, IpMax, clock)
    /\ LimiterInv(hits["adminLoginGlobal"]["global"], admitted, Ips, GlobalMax, clock)
    /\ CommonIsCounted

LEMMA TotalType ==
    ASSUME NEW n \in Logs, NEW group \in SUBSET Ips, NEW ticks \in SUBSET Ticks
    PROVE  /\ Total(n, group, ticks) \in Nat
           /\ IsFiniteSet(group) /\ IsFiniteSet(ticks) /\ IsFiniteSet(group \X ticks)
           /\ \A p \in group \X ticks : n[p] \in Nat
  <1>1. IsFiniteSet(Ticks)
    BY FS_Interval DEF Ticks
  <1>2. IsFiniteSet(group) /\ IsFiniteSet(ticks)
    BY <1>1, FS_Subset
  <1>3. IsFiniteSet(group \X ticks)
    BY <1>2, FS_Product
  <1>4. \A p \in group \X ticks : n[p] \in Nat
    BY DEF Logs
  <1>5. Total(n, group, ticks) \in Nat
    BY <1>3, <1>4, SumType DEF Total
  <1>. QED  BY <1>2, <1>3, <1>4, <1>5

LEMMA TotalGrows ==
    ASSUME NEW n \in Logs, NEW group \in SUBSET Ips,
           NEW more \in SUBSET Ticks, NEW fewer \in SUBSET more
    PROVE  Total(n, group, fewer) <= Total(n, group, more)
  <1>1. IsFiniteSet(group \X more) /\ \A p \in group \X more : n[p] \in Nat
    BY TotalType
  <1>2. group \X fewer \in SUBSET (group \X more)
    OBVIOUS
  <1>. QED  BY <1>1, <1>2, SumOfSubset DEF Total

LEMMA TotalOfTwo ==
    ASSUME NEW n \in Logs, NEW group \in SUBSET Ips,
           NEW early \in SUBSET Ticks, NEW late \in SUBSET Ticks, early \cap late = {},
           NEW ticks \in SUBSET (early \cup late)
    PROVE  Total(n, group, ticks) <= Total(n, group, early) + Total(n, group, late)
  <1>. DEFINE a == group \X early
              b == group \X late
  <1>1. IsFiniteSet(a) /\ IsFiniteSet(b)
    BY TotalType
  <1>2. a \cap b = {} /\ a \cup b = group \X (early \cup late)
    OBVIOUS
  <1>3. \A p \in a \cup b : n[p] \in Nat
    BY DEF Logs
  <1>. HIDE DEF a, b
  <1>4. SumFunctionOnSet(n, a \cup b) = SumFunctionOnSet(n, a) + SumFunctionOnSet(n, b)
    BY <1>1, <1>2, <1>3, SumOfUnion
  <1>5. Total(n, group, early \cup late) = Total(n, group, early) + Total(n, group, late)
    BY <1>2, <1>4 DEF Total, a, b
  <1>6. early \cup late \in SUBSET Ticks
    OBVIOUS
  <1>7. Total(n, group, ticks) <= Total(n, group, early \cup late)
    BY <1>6, TotalGrows
  <1>. QED  BY <1>5, <1>7, Zenon

LEMMA TotalSame ==
    ASSUME NEW n \in Logs, NEW m \in Logs,
           NEW group \in SUBSET Ips, NEW ticks \in SUBSET Ticks,
           \A i \in group, t \in ticks : m[<<i, t>>] = n[<<i, t>>]
    PROVE  Total(m, group, ticks) = Total(n, group, ticks)
  <1>1. IsFiniteSet(group \X ticks) /\ \A p \in group \X ticks : n[p] \in Nat
    BY TotalType
  <1>2. \A p \in group \X ticks : m[p] = n[p]
    OBVIOUS
  <1>. QED  BY <1>1, <1>2, SumSame DEF Total

\* One more request of one of the group's addresses.
OneMore(n, m, ip, now) ==
    /\ m[<<ip, now>>] = n[<<ip, now>>] + 1
    /\ \A i \in Ips, t \in Ticks : <<i, t>> # <<ip, now>> => m[<<i, t>>] = n[<<i, t>>]

LEMMA TotalAdds ==
    ASSUME NEW n \in Logs, NEW m \in Logs,
           NEW group \in SUBSET Ips, NEW ticks \in SUBSET Ticks,
           NEW ip \in group, NEW now \in ticks, OneMore(n, m, ip, now)
    PROVE  Total(m, group, ticks) = Total(n, group, ticks) + 1
  <1>. DEFINE S == group \X ticks
              e == <<ip, now>>
  <1>1. IsFiniteSet(S) /\ \A p \in S : n[p] \in Nat
    BY TotalType
  <1>2. \A p \in S : m[p] \in Nat
    BY TotalType
  <1>3. e \in S /\ m[e] = n[e] + 1
    BY DEF OneMore
  <1>4. \A p \in S \ {e} : m[p] = n[p]
    BY DEF OneMore
  <1>. HIDE DEF S, e
  <1>5. SumFunctionOnSet(m, S) = SumFunctionOnSet(n, S) - n[e] + m[e]
    <2>1. \A p \in S : n[p] \in Nat /\ m[p] \in Nat
      BY <1>1, <1>2
    <2>2. IsFiniteSet(S) /\ e \in S
      BY <1>1, <1>3
    <2>. QED  BY <1>4, <2>1, <2>2, SumChanged
  <1>6. SumFunctionOnSet(n, S) \in Nat /\ n[e] \in Nat
    BY <1>1, <1>3, SumType
  <1>7. SumFunctionOnSet(m, S) = SumFunctionOnSet(n, S) + 1
    BY <1>3, <1>5, <1>6
  <1>. QED  BY <1>7 DEF Total, S

LEMMA TotalOfZeros ==
    ASSUME NEW n \in Logs, NEW group \in SUBSET Ips, NEW ticks \in SUBSET Ticks,
           \A i \in group, t \in ticks : n[<<i, t>>] = 0
    PROVE  Total(n, group, ticks) = 0
  <1>1. IsFiniteSet(group \X ticks)
    BY TotalType
  <1>2. \A p \in group \X ticks : n[p] = 0
    OBVIOUS
  <1>. QED  BY <1>1, <1>2, SumOfZeros DEF Total

\* What a limiter does with a request: it opens a window or counts in the open one,
\* and lets the request in if the window admits that many.
LEMMA LimiterCounts ==
    ASSUME NEW n \in Logs, NEW m \in Logs,
           NEW group \in SUBSET Ips, NEW ip \in group, NEW max \in Nat, NEW now \in Ticks,
           NEW rec \in Counter \cup {NoEntry}, NEW new \in Counter, new # NoEntry,
           LimiterInv(rec, n, group, max, now),
           IsOpen(rec, now) => new.resetAt = rec.resetAt /\ new.count = rec.count + 1,
           ~ IsOpen(rec, now) => new.resetAt = now + Window /\ new.count = 1,
           m = n \/ (OneMore(n, m, ip, now) /\ new.count <= max)
    PROVE  LimiterInv(new, m, group, max, now)
  <1>. DEFINE o == Opened(new)
  <1>1. now \in Nat /\ Window \in Nat /\ Window > 0
    BY DEF Ticks
  <1>2. \A i \in Ips, t \in Ticks : t # now => m[<<i, t>>] = n[<<i, t>>]
    BY DEF OneMore
  <1>3. \A ticks \in SUBSET Ticks : now \notin ticks => Total(m, group, ticks) = Total(n, group, ticks)
    <2>. SUFFICES ASSUME NEW ticks \in SUBSET Ticks, now \notin ticks
                  PROVE  Total(m, group, ticks) = Total(n, group, ticks)
      OBVIOUS
    <2>1. \A i \in group, t \in ticks : m[<<i, t>>] = n[<<i, t>>]
      BY <1>2
    <2>. QED  BY <2>1, TotalSame
  <1>4. \A first : /\ From(first) \in SUBSET Ticks /\ LastBefore(first) \in SUBSET Ticks
                   /\ Stretch(first) \in SUBSET Ticks
    BY DEF From, LastBefore, Stretch
  <1>5. \A ticks \in SUBSET Ticks : Total(n, group, ticks) \in Nat /\ Total(m, group, ticks) \in Nat
    BY TotalType
  <1>6. \A ticks \in SUBSET Ticks : now \in ticks =>
          \/ Total(m, group, ticks) = Total(n, group, ticks)
          \/ Total(m, group, ticks) = Total(n, group, ticks) + 1 /\ new.count <= max
    <2>. SUFFICES ASSUME NEW ticks \in SUBSET Ticks, now \in ticks, OneMore(n, m, ip, now)
                  PROVE  Total(m, group, ticks) = Total(n, group, ticks) + 1
      OBVIOUS
    <2>. QED  BY TotalAdds
  <1>7. IsOpen(new, now)
    <2>1. CASE IsOpen(rec, now)
      BY <2>1 DEF IsOpen
    <2>2. CASE ~ IsOpen(rec, now)
      BY <1>1, <2>2 DEF IsOpen
    <2>. QED  BY <2>1, <2>2
  <1>8. WindowHolds(new, m, group, max, now)
    <2>1. CASE IsOpen(rec, now)
      <3>1. WindowHolds(rec, n, group, max, now) /\ o = Opened(rec)
        BY <2>1 DEF LimiterInv, Opened
      <3>2. o \in Ticks /\ o <= now /\ o \in Nat
        BY <3>1 DEF WindowHolds, Ticks
      <3>3. now \in From(o) /\ now \notin LastBefore(o)
        BY <1>1, <3>2 DEF From, LastBefore
      <3>4. /\ Total(n, group, From(o)) <= max
            /\ Total(n, group, From(o)) <= rec.count
            /\ Total(m, group, LastBefore(o)) <= max
        BY <1>3, <1>4, <3>1, <3>3 DEF WindowHolds
      <3>5. rec \in Counter
        BY <2>1 DEF IsOpen
      <3>6. rec.count \in Nat /\ new.count = rec.count + 1
        BY <2>1, <3>5 DEF Counter
      <3>7. /\ Total(n, group, From(o)) \in Nat
            /\ \/ Total(m, group, From(o)) = Total(n, group, From(o))
               \/ Total(m, group, From(o)) = Total(n, group, From(o)) + 1 /\ new.count <= max
        BY <1>4, <1>5, <1>6, <3>3
      <3>8. /\ Total(m, group, From(o)) <= max
            /\ Total(m, group, From(o)) <= new.count
        BY <3>4, <3>6, <3>7
      <3>. QED  BY <3>2, <3>4, <3>8 DEF WindowHolds
    <2>2. CASE ~ IsOpen(rec, now)
      <3>1. o = now /\ PauseHolds(n, group, max, now) /\ NothingLater(n, group, now)
        BY <1>1, <2>2 DEF LimiterInv, Opened
      <3>2. now \in From(now) /\ now \notin LastBefore(now)
        BY <1>1 DEF From, LastBefore
      <3>3. \A i \in group, t \in From(now) : n[<<i, t>>] = 0
        <4>. SUFFICES ASSUME NEW i \in group, NEW t \in From(now) PROVE n[<<i, t>>] = 0
          OBVIOUS
        <4>1. t \in Ticks /\ t \in Nat /\ now <= t
          BY DEF From, Ticks
        <4>2. t = now \/ t > now
          BY <1>1, <4>1
        <4>. QED  BY <3>1, <4>1, <4>2 DEF PauseHolds, NothingLater
      <3>4. Total(n, group, From(now)) = 0
        BY <1>4, <3>3, TotalOfZeros
      <3>5. Total(m, group, From(now)) <= max /\ Total(m, group, From(now)) <= new.count
        <4>1. \/ Total(m, group, From(now)) = Total(n, group, From(now))
              \/ Total(m, group, From(now)) = Total(n, group, From(now)) + 1 /\ new.count <= max
          BY <1>4, <1>6, <3>2
        <4>2. new.count = 1
          BY <2>2
        <4>. QED  BY <3>4, <4>1, <4>2
      <3>6. Total(m, group, LastBefore(now)) <= max
        <4>1. LastBefore(now) \in SUBSET From(now - Window + 1)
          BY <1>1 DEF LastBefore, From, Ticks
        <4>2. Total(n, group, LastBefore(now)) <= Total(n, group, From(now - Window + 1))
          BY <1>4, <4>1, TotalGrows
        <4>3. Total(m, group, LastBefore(now)) = Total(n, group, LastBefore(now))
          BY <1>3, <1>4, <3>2
        <4>4. Total(n, group, From(now - Window + 1)) <= max
          BY <3>1 DEF PauseHolds
        <4>5. Total(n, group, LastBefore(now)) \in Nat /\ Total(n, group, From(now - Window + 1)) \in Nat
          BY <1>4, <1>5
        <4>. QED  BY <4>2, <4>3, <4>4, <4>5
      <3>. QED  BY <1>1, <3>1, <3>5, <3>6 DEF WindowHolds
    <2>. QED  BY <2>1, <2>2
  <1>9. NothingLater(m, group, now)
    BY <1>1, <1>2 DEF LimiterInv, NothingLater
  <1>10. StretchesHold(m, group, max)
    <2>. SUFFICES ASSUME NEW t \in Ticks PROVE Total(m, group, Stretch(t)) <= 2 * max
      BY DEF StretchesHold, Within, Total
    <2>1. t \in Nat
      BY DEF Ticks
    <2>2. CASE now \notin Stretch(t)
      <3>1. Total(n, group, Stretch(t)) <= 2 * max
        BY DEF LimiterInv, StretchesHold, Within, Total
      <3>. QED  BY <1>3, <1>4, <2>2, <3>1
    <2>3. CASE now \in Stretch(t)
      <3>1. o \in Nat /\ o <= now
        BY <1>8 DEF WindowHolds, Ticks
      <3>2. now < t + Window
        BY <2>3 DEF Stretch
      <3>3. Stretch(t) \in SUBSET (LastBefore(o) \cup From(o))
        BY <1>1, <2>1, <3>1, <3>2 DEF Stretch, LastBefore, From, Ticks
      <3>4. LastBefore(o) \cap From(o) = {}
        BY <3>1 DEF LastBefore, From, Ticks
      <3>5. Total(m, group, Stretch(t)) <= Total(m, group, LastBefore(o)) + Total(m, group, From(o))
        BY <1>4, <3>3, <3>4, TotalOfTwo
      <3>6. Total(m, group, LastBefore(o)) <= max /\ Total(m, group, From(o)) <= max
        BY <1>8 DEF WindowHolds
      <3>7. /\ Total(m, group, LastBefore(o)) \in Nat /\ Total(m, group, From(o)) \in Nat
            /\ Total(m, group, Stretch(t)) \in Nat
        BY <1>4, <1>5
      <3>. QED  BY <3>5, <3>6, <3>7
    <2>. QED  BY <2>2, <2>3
  <1>. QED  BY <1>7, <1>8, <1>9, <1>10 DEF LimiterInv

\* Requests of other addresses are nothing to the limiter of a group.
LEMMA LimiterIgnores ==
    ASSUME NEW n \in Logs, NEW m \in Logs,
           NEW group \in SUBSET Ips, NEW max \in Nat, NEW now \in Ticks, NEW rec,
           LimiterInv(rec, n, group, max, now),
           \A i \in group, t \in Ticks : m[<<i, t>>] = n[<<i, t>>]
    PROVE  LimiterInv(rec, m, group, max, now)
  <1>1. \A ticks \in SUBSET Ticks : Total(m, group, ticks) = Total(n, group, ticks)
    BY TotalSame
  <1>2. \A first : /\ From(first) \in SUBSET Ticks /\ LastBefore(first) \in SUBSET Ticks
                   /\ Stretch(first) \in SUBSET Ticks
    BY DEF From, LastBefore, Stretch
  <1>3. NothingLater(m, group, now)
    BY DEF LimiterInv, NothingLater
  <1>4. StretchesHold(m, group, max)
    BY <1>1, <1>2 DEF LimiterInv, StretchesHold, Within, Total
  <1>5. IsOpen(rec, now) => WindowHolds(rec, m, group, max, now)
    BY <1>1, <1>2 DEF LimiterInv, WindowHolds
  <1>6. ~ IsOpen(rec, now) => PauseHolds(m, group, max, now)
    BY <1>1, <1>2 DEF LimiterInv, PauseHolds
  <1>. QED  BY <1>3, <1>4, <1>5, <1>6 DEF LimiterInv

\* Time passes: a window that is over let in no more than its maximum lately.
LEMMA LimiterTicks ==
    ASSUME NEW n \in Logs, NEW group \in SUBSET Ips, NEW max \in Nat,
           NEW now \in Ticks, NEW later \in Ticks, later = now + 1,
           NEW rec \in Counter \cup {NoEntry},
           LimiterInv(rec, n, group, max, now)
    PROVE  LimiterInv(rec, n, group, max, later)
  <1>1. now \in Nat /\ later \in Nat /\ Window \in Nat /\ Window > 0
    BY DEF Ticks
  <1>2. \A first : From(first) \in SUBSET Ticks
    BY DEF From
  <1>3. \A first : Total(n, group, From(first)) \in Nat
    BY <1>2, TotalType
  <1>4. NothingLater(n, group, later)
    BY <1>1 DEF LimiterInv, NothingLater, Ticks
  <1>5. StretchesHold(n, group, max)
    BY DEF LimiterInv
  <1>6. ASSUME IsOpen(rec, later)
        PROVE  WindowHolds(rec, n, group, max, later)
    <2>1. rec \in Counter
      BY <1>6 DEF IsOpen
    <2>2. rec.resetAt \in Nat /\ rec.resetAt > later
      BY <1>6, <2>1 DEF IsOpen, Counter
    <2>3. IsOpen(rec, now)
      BY <1>1, <1>6, <2>2 DEF IsOpen
    <2>4. WindowHolds(rec, n, group, max, now)
      BY <2>3 DEF LimiterInv
    <2>5. Opened(rec) <= later
      BY <1>1, <2>4 DEF WindowHolds, Ticks
    <2>. QED  BY <2>4, <2>5 DEF WindowHolds
  <1>7. ASSUME ~ IsOpen(rec, later)
        PROVE  PauseHolds(n, group, max, later)
    <2>1. \A i \in group : n[<<i, later>>] = 0
      BY <1>1 DEF LimiterInv, NothingLater
    <2>2. PICK first \in Int : first <= later - Window + 1 /\ Total(n, group, From(first)) <= max
      <3>1. CASE IsOpen(rec, now)
        <4>1. rec \in Counter /\ rec # NoEntry /\ WindowHolds(rec, n, group, max, now)
          BY <3>1 DEF IsOpen, LimiterInv
        <4>2. rec.resetAt \in Nat
          BY <4>1 DEF Counter
        <4>3. rec.resetAt <= later
          BY <1>1, <1>7, <4>1, <4>2 DEF IsOpen
        <4>4. Opened(rec) \in Int /\ Opened(rec) <= later - Window + 1
          BY <1>1, <4>2, <4>3 DEF Opened
        <4>. QED  BY <4>1, <4>4 DEF WindowHolds
      <3>2. CASE ~ IsOpen(rec, now)
        <4>1. Total(n, group, From(now - Window + 1)) <= max
          BY <3>2 DEF LimiterInv, PauseHolds
        <4>2. now - Window + 1 \in Int /\ now - Window + 1 <= later - Window + 1
          BY <1>1
        <4>. QED  BY <4>1, <4>2
      <3>. QED  BY <3>1, <3>2
    <2>3. From(later - Window + 1) \in SUBSET From(first)
      BY <1>1, <2>2 DEF From, Ticks
    <2>4. Total(n, group, From(later - Window + 1)) <= Total(n, group, From(first))
      BY <1>2, <2>3, TotalGrows
    <2>5. Total(n, group, From(later - Window + 1)) <= max
      BY <1>3, <2>2, <2>4
    <2>. QED  BY <2>1, <2>5 DEF PauseHolds
  <1>. QED  BY <1>4, <1>5, <1>6, <1>7 DEF LimiterInv

\* A counter whose window is over may be swept.
LEMMA LimiterSwept ==
    ASSUME NEW rec, NEW n, NEW group, NEW max, NEW now, LimiterInv(rec, n, group, max, now),
           ~ IsOpen(rec, now)
    PROVE  LimiterInv(NoEntry, n, group, max, now)
  BY DEF LimiterInv, IsOpen

LEMMA LimiterFresh ==
    ASSUME NEW group \in SUBSET Ips, NEW max \in Nat, NEW now \in Ticks
    PROVE  LimiterInv(NoEntry, NoCount, group, max, now)
  <1>1. NoCount \in Logs
    BY DEF NoCount, Logs
  <1>2. \A i \in group, t \in Ticks : NoCount[<<i, t>>] = 0
    BY DEF NoCount
  <1>3. \A ticks \in SUBSET Ticks : Total(NoCount, group, ticks) = 0
    <2>. SUFFICES ASSUME NEW ticks \in SUBSET Ticks PROVE Total(NoCount, group, ticks) = 0
      OBVIOUS
    <2>1. \A i \in group, t \in ticks : NoCount[<<i, t>>] = 0
      BY <1>2
    <2>. QED  BY <1>1, <2>1, TotalOfZeros
  <1>4. \A first : From(first) \in SUBSET Ticks /\ Stretch(first) \in SUBSET Ticks
    BY DEF From, Stretch
  <1>5. StretchesHold(NoCount, group, max)
    BY <1>3, <1>4 DEF StretchesHold, Within, Total
  <1>6. PauseHolds(NoCount, group, max, now)
    BY <1>2, <1>3, <1>4 DEF PauseHolds
  <1>7. NothingLater(NoCount, group, now)
    BY <1>2 DEF NothingLater
  <1>. QED  BY <1>5, <1>6, <1>7 DEF LimiterInv, IsOpen

\* The counter a request leaves behind, and the logs of a login attempt.
LEMMA CountedIs ==
    ASSUME AdminTypeOK, NEW limiter \in Limiters, NEW key \in Keys
    PROVE  LET rec == hits[limiter][key]
               new == Counted(limiter, key)
           IN  /\ rec \in Counter \cup {NoEntry} /\ new \in Counter /\ new # NoEntry
               /\ IsOpen(rec, clock) => new.resetAt = rec.resetAt /\ new.count = rec.count + 1
               /\ ~ IsOpen(rec, clock) => new.resetAt = clock + Window /\ new.count = 1
  <1>. DEFINE rec == hits[limiter][key]
              new == Counted(limiter, key)
  <1>1. rec \in Counter \cup {NoEntry}
    BY DEF AdminTypeOK
  <1>2. new \in Counter
    BY CountedType
  <1>3. new # NoEntry
    <2>1. \A c \in Counter : c \in [count : Nat, resetAt : Nat]
      BY DEF Counter
    <2>. QED  BY <1>2, <2>1, NoEntryIsNoCounter
  <1>4. clock \in Nat
    BY DEF AdminTypeOK, Ticks
  <1>5. ASSUME IsOpen(rec, clock)
        PROVE  new.resetAt = rec.resetAt /\ new.count = rec.count + 1
    <2>1. rec \in Counter
      BY <1>1, <1>5 DEF IsOpen
    <2>2. rec.resetAt \in Nat
      BY <2>1 DEF Counter
    <2>3. new = [rec EXCEPT !.count = rec.count + 1]
      BY <1>4, <1>5, <2>2 DEF Counted, IsOpen
    <2>. HIDE DEF rec, new
    <2>. QED  BY <2>1, <2>3 DEF Counter
  <1>6. ASSUME ~ IsOpen(rec, clock)
        PROVE  new.resetAt = clock + Window /\ new.count = 1
    <2>1. rec = NoEntry \/ rec.resetAt <= clock
      <3>1. CASE rec \in Counter
        <4>1. rec.resetAt \in Nat
          BY <3>1 DEF Counter
        <4>. QED  BY <1>4, <1>6, <4>1 DEF IsOpen
      <3>. QED  BY <1>1, <3>1
    <2>2. new = [count |-> 1, resetAt |-> clock + Window]
      BY <2>1 DEF Counted
    <2>. QED  BY <2>2
  <1>. QED  BY <1>1, <1>2, <1>3, <1>5, <1>6

LEMMA CountedHits ==
    ASSUME AdminTypeOK, NEW ip \in Ips, CountLogin(ip)
    PROVE  /\ hits'["adminLoginIp"][ip] = Counted("adminLoginIp", ip)
           /\ \A i \in Ips : i # ip => hits'["adminLoginIp"][i] = hits["adminLoginIp"][i]
           /\ hits'["adminLoginGlobal"]["global"] =
                IF Allowed("adminLoginIp", ip) THEN Counted("adminLoginGlobal", "global")
                ELSE hits["adminLoginGlobal"]["global"]
  <1>. DEFINE X == Counted("adminLoginIp", ip)
              Y == IF Allowed("adminLoginIp", ip) THEN Counted("adminLoginGlobal", "global")
                   ELSE hits["adminLoginGlobal"]["global"]
  <1>1. hits' = [hits EXCEPT !.adminLoginIp[ip] = X, !.adminLoginGlobal["global"] = Y]
    <2>1. CASE Allowed("adminLoginIp", ip)
      BY <2>1 DEF CountLogin
    <2>2. CASE ~ Allowed("adminLoginIp", ip)
      BY <2>2 DEF CountLogin, AdminTypeOK, Limiters
    <2>. QED  BY <2>1, <2>2
  <1>. HIDE DEF X, Y
  <1>2. \A i \in Ips : i \in Keys
    BY DEF Keys
  <1>3. "global" \in Keys /\ "adminLoginIp" \in Limiters /\ "adminLoginGlobal" \in Limiters
    BY DEF Keys, Limiters
  <1>4. hits \in [Limiters -> [Keys -> Counter \cup {NoEntry}]]
    BY DEF AdminTypeOK
  <1>5. /\ hits'["adminLoginIp"][ip] = X /\ hits'["adminLoginGlobal"]["global"] = Y
        /\ \A i \in Ips : i # ip => hits'["adminLoginIp"][i] = hits["adminLoginIp"][i]
    BY <1>1, <1>2, <1>3, <1>4
  <1>. QED  BY <1>5 DEF X, Y

Logged(n, ip, now) == [n EXCEPT ![<<ip, now>>] = @ + 1]

LEMMA LoggedMore ==
    ASSUME NEW n \in Logs, NEW ip \in Ips, NEW now \in Ticks
    PROVE  /\ Logged(n, ip, now) \in Logs
           /\ OneMore(n, Logged(n, ip, now), ip, now)
           /\ [n EXCEPT ![<<ip, now>>] = @] = n
  <1>. DEFINE e == <<ip, now>>
              m == Logged(n, ip, now)
              Pairs == Ips \X Ticks
  <1>1. e \in Pairs /\ \A i \in Ips, t \in Ticks : <<i, t>> \in Pairs
    OBVIOUS
  <1>2. n \in [Pairs -> Nat]
    BY DEF Logs
  <1>3. m = [n EXCEPT ![e] = n[e] + 1]
    BY DEF Logged
  <1>. HIDE DEF e, m, Pairs
  <1>4. n[e] \in Nat
    BY <1>1, <1>2
  <1>5. m \in [Pairs -> Nat] /\ m[e] = n[e] + 1 /\ \A p \in Pairs : p # e => m[p] = n[p]
    BY <1>1, <1>2, <1>3, <1>4
  <1>6. OneMore(n, m, ip, now)
    BY <1>1, <1>5 DEF OneMore, e
  <1>7. [n EXCEPT ![e] = n[e]] = n
    BY <1>1, <1>2
  <1>. QED  BY <1>5, <1>6, <1>7 DEF Logs, Pairs, m, e

LEMMA AdminTypes ==
    ASSUME AdminTypeOK
    PROVE  /\ passed \in Logs /\ admitted \in Logs /\ clock \in Ticks
           /\ \A i \in Ips : hits["adminLoginIp"][i] \in Counter \cup {NoEntry}
           /\ hits["adminLoginGlobal"]["global"] \in Counter \cup {NoEntry}
  BY DEF AdminTypeOK, Logs, Limiters, Keys

LEMMA LimitersInit == AdminInit => LimitersInv
  <1>. SUFFICES ASSUME AdminInit PROVE LimitersInv
    OBVIOUS
  <1>1. passed = NoCount /\ admitted = NoCount /\ clock \in Ticks
    BY DEF AdminInit, Ticks
  <1>2. /\ \A i \in Ips : hits["adminLoginIp"][i] = NoEntry
        /\ hits["adminLoginGlobal"]["global"] = NoEntry
    BY DEF AdminInit, NoHits, Limiters, Keys
  <1>3. \A i \in Ips : {i} \in SUBSET Ips
    OBVIOUS
  <1>. QED  BY <1>1, <1>2, <1>3, LimiterFresh DEF LimitersInv, CommonIsCounted

\* What the limiters keep does not depend on how often they are swept, or on whether
\* the service restarts.
LEMMA LimitersSwept ==
    ASSUME AdminTypeOK, LimitersInv, Sweep, UNCHANGED <<clock, passed, admitted>>
    PROVE  LimitersInv'
  <1>1. ASSUME NEW l \in Limiters, NEW k \in Keys
        PROVE  hits'[l][k] = hits[l][k] \/ (hits'[l][k] = NoEntry /\ ~ IsOpen(hits[l][k], clock))
    <2>. DEFINE rec == hits[l][k]
    <2>1. hits'[l][k] = IF rec # NoEntry /\ rec.resetAt <= clock THEN NoEntry ELSE rec
      BY <1>1 DEF Sweep
    <2>2. rec \in Counter \cup {NoEntry}
      BY <1>1 DEF AdminTypeOK
    <2>3. clock \in Nat
      BY DEF AdminTypeOK, Ticks
    <2>. HIDE DEF rec
    <2>4. rec # NoEntry => rec.resetAt \in Nat
      BY <2>2 DEF Counter
    <2>. QED  BY <2>1, <2>3, <2>4 DEF IsOpen, rec
  <1>2. ASSUME NEW i \in Ips
        PROVE  LimiterInv(hits'["adminLoginIp"][i], passed, {i}, IpMax, clock)
    <2>1. "adminLoginIp" \in Limiters /\ i \in Keys
      BY <1>2 DEF Limiters, Keys
    <2>2. LimiterInv(hits["adminLoginIp"][i], passed, {i}, IpMax, clock)
      BY <1>2 DEF LimitersInv
    <2>. QED  BY <1>1, <2>1, <2>2, LimiterSwept
  <1>3. "adminLoginGlobal" \in Limiters /\ "global" \in Keys
    BY DEF Limiters, Keys
  <1>4. LimiterInv(hits'["adminLoginGlobal"]["global"], admitted, Ips, GlobalMax, clock)
    <2>1. LimiterInv(hits["adminLoginGlobal"]["global"], admitted, Ips, GlobalMax, clock)
      BY DEF LimitersInv
    <2>. QED  BY <1>1, <1>3, <2>1, LimiterSwept
  <1>5. CommonIsCounted'
    BY <1>1, <1>3 DEF LimitersInv, CommonIsCounted, Within
  <1>. QED  BY <1>2, <1>4, <1>5 DEF LimitersInv

LEMMA LimitersRestart ==
    ASSUME AdminTypeOK, Restart
    PROVE  LimitersInv'
  <1>1. passed' = NoCount /\ admitted' = NoCount /\ clock' = clock /\ clock \in Ticks
    BY DEF Restart, AdminTypeOK
  <1>2. /\ \A i \in Ips : hits'["adminLoginIp"][i] = NoEntry
        /\ hits'["adminLoginGlobal"]["global"] = NoEntry
    BY DEF Restart, NoHits, Limiters, Keys
  <1>3. \A i \in Ips : {i} \in SUBSET Ips
    OBVIOUS
  <1>4. /\ \A i \in Ips : LimiterInv(hits'["adminLoginIp"][i], passed', {i}, IpMax, clock')
        /\ LimiterInv(hits'["adminLoginGlobal"]["global"], admitted', Ips, GlobalMax, clock')
    BY <1>1, <1>2, <1>3, LimiterFresh
  <1>5. CommonIsCounted'
    BY <1>2 DEF CommonIsCounted
  <1>. QED  BY <1>4, <1>5 DEF LimitersInv

LEMMA LimitersTick ==
    ASSUME AdminTypeOK, LimitersInv, AdminTick
    PROVE  LimitersInv'
  <1>1. clock' = clock + 1 /\ clock \in Ticks /\ clock' \in Ticks /\ UNCHANGED <<hits, passed, admitted>>
    BY DEF AdminTick, AdminTypeOK, Ticks
  <1>2. \A i \in Ips : {i} \in SUBSET Ips
    OBVIOUS
  <1>3. ASSUME NEW i \in Ips
        PROVE  LimiterInv(hits["adminLoginIp"][i], passed, {i}, IpMax, clock')
    <2>1. LimiterInv(hits["adminLoginIp"][i], passed, {i}, IpMax, clock)
      BY <1>3 DEF LimitersInv
    <2>. QED  BY <1>1, <1>2, <1>3, <2>1, AdminTypes, LimiterTicks
  <1>4. LimiterInv(hits["adminLoginGlobal"]["global"], admitted, Ips, GlobalMax, clock')
    <2>1. LimiterInv(hits["adminLoginGlobal"]["global"], admitted, Ips, GlobalMax, clock)
      BY DEF LimitersInv
    <2>. QED  BY <1>1, <2>1, AdminTypes, LimiterTicks
  <1>5. CommonIsCounted'
    BY <1>1 DEF LimitersInv, CommonIsCounted, Within
  <1>. QED  BY <1>1, <1>3, <1>4, <1>5 DEF LimitersInv

LEMMA LimitersLogin ==
    ASSUME AdminTypeOK, LimitersInv, NEW ip \in Ips, Login(ip)
    PROVE  LimitersInv'
  <1>. DEFINE byIp == Allowed("adminLoginIp", ip)
              byAll == byIp /\ Allowed("adminLoginGlobal", "global")
              mine == Counted("adminLoginIp", ip)
              ours == Counted("adminLoginGlobal", "global")
              common == hits["adminLoginGlobal"]["global"]
  <1>1. /\ "adminLoginIp" \in Limiters /\ "adminLoginGlobal" \in Limiters
        /\ ip \in Keys /\ "global" \in Keys
    BY DEF Limiters, Keys
  <1>2. /\ hits'["adminLoginIp"][ip] = mine
        /\ \A i \in Ips : i # ip => hits'["adminLoginIp"][i] = hits["adminLoginIp"][i]
        /\ hits'["adminLoginGlobal"]["global"] = IF byIp THEN ours ELSE common
    BY CountedHits DEF Login
  <1>3. /\ byIp \in BOOLEAN /\ byIp => mine.count <= IpMax
        /\ byAll \in BOOLEAN /\ byAll => ours.count <= GlobalMax
    BY DEF Allowed, Admits
  <1>4. /\ passed' = [passed EXCEPT ![<<ip, clock>>] = IF byIp THEN @ + 1 ELSE @]
        /\ admitted' = [admitted EXCEPT ![<<ip, clock>>] = IF byAll THEN @ + 1 ELSE @]
        /\ clock' = clock
    BY DEF Login
  <1>5. passed \in Logs /\ admitted \in Logs /\ clock \in Ticks
    BY AdminTypes
  <1>6. /\ mine \in Counter /\ mine # NoEntry /\ ours \in Counter /\ ours # NoEntry
        /\ IsOpen(hits["adminLoginIp"][ip], clock) =>
             mine.resetAt = hits["adminLoginIp"][ip].resetAt /\ mine.count = hits["adminLoginIp"][ip].count + 1
        /\ ~ IsOpen(hits["adminLoginIp"][ip], clock) => mine.resetAt = clock + Window /\ mine.count = 1
        /\ IsOpen(common, clock) => ours.resetAt = common.resetAt /\ ours.count = common.count + 1
        /\ ~ IsOpen(common, clock) => ours.resetAt = clock + Window /\ ours.count = 1
    BY <1>1, CountedIs
  <1>. HIDE DEF byIp, byAll, mine, ours, common
  <1>7. /\ byIp => passed' = Logged(passed, ip, clock)
        /\ ~ byIp => passed' = passed
        /\ byAll => admitted' = Logged(admitted, ip, clock)
        /\ ~ byAll => admitted' = admitted
    <2>1. /\ [passed EXCEPT ![<<ip, clock>>] = @] = passed
          /\ [admitted EXCEPT ![<<ip, clock>>] = @] = admitted
      BY <1>5, LoggedMore
    <2>2. ASSUME byIp PROVE passed' = Logged(passed, ip, clock)
      BY <1>4, <2>2 DEF Logged
    <2>3. ASSUME ~ byIp PROVE passed' = passed
      <3>1. passed' = [passed EXCEPT ![<<ip, clock>>] = @]
        BY <1>4, <2>3
      <3>. QED  BY <2>1, <3>1
    <2>4. ASSUME byAll PROVE admitted' = Logged(admitted, ip, clock)
      BY <1>4, <2>4 DEF Logged
    <2>5. ASSUME ~ byAll PROVE admitted' = admitted
      <3>1. admitted' = [admitted EXCEPT ![<<ip, clock>>] = @]
        BY <1>4, <2>5
      <3>. QED  BY <2>1, <3>1
    <2>. QED  BY <2>2, <2>3, <2>4, <2>5
  <1>8. /\ passed' \in Logs /\ admitted' \in Logs
        /\ byIp => OneMore(passed, passed', ip, clock)
        /\ byAll => OneMore(admitted, admitted', ip, clock)
    <2>1. /\ Logged(passed, ip, clock) \in Logs /\ Logged(admitted, ip, clock) \in Logs
          /\ OneMore(passed, Logged(passed, ip, clock), ip, clock)
          /\ OneMore(admitted, Logged(admitted, ip, clock), ip, clock)
      BY <1>5, LoggedMore
    <2>2. ASSUME byIp PROVE passed' \in Logs /\ OneMore(passed, passed', ip, clock)
      BY <1>7, <2>1, <2>2
    <2>3. ASSUME byAll PROVE admitted' \in Logs /\ OneMore(admitted, admitted', ip, clock)
      BY <1>7, <2>1, <2>3
    <2>4. ASSUME ~ byIp PROVE passed' \in Logs
      BY <1>5, <1>7, <2>4
    <2>5. ASSUME ~ byAll PROVE admitted' \in Logs
      BY <1>5, <1>7, <2>5
    <2>. QED  BY <2>2, <2>3, <2>4, <2>5
  <1>9. ASSUME NEW i \in Ips
        PROVE  LimiterInv(hits'["adminLoginIp"][i], passed', {i}, IpMax, clock)
    <2>. DEFINE rec == hits["adminLoginIp"][i]
    <2>1. {i} \in SUBSET Ips /\ i \in {i} /\ IpMax \in Nat
      BY <1>9
    <2>2. LimiterInv(rec, passed, {i}, IpMax, clock) /\ rec \in Counter \cup {NoEntry}
      BY <1>9, AdminTypes DEF LimitersInv
    <2>3. CASE i = ip
      <3>. HIDE DEF rec
      <3>1. /\ IsOpen(rec, clock) => mine.resetAt = rec.resetAt /\ mine.count = rec.count + 1
            /\ ~ IsOpen(rec, clock) => mine.resetAt = clock + Window /\ mine.count = 1
        BY <1>6, <2>3 DEF rec
      <3>2. passed' = passed \/ (OneMore(passed, passed', i, clock) /\ mine.count <= IpMax)
        BY <1>3, <1>7, <1>8, <2>3
      <3>3. LimiterInv(mine, passed', {i}, IpMax, clock)
        BY <1>5, <1>6, <1>8, <2>1, <2>2, <3>1, <3>2, LimiterCounts
      <3>. QED  BY <1>2, <2>3, <3>3
    <2>4. CASE i # ip
      <3>1. \A k \in {i}, t \in Ticks : passed'[<<k, t>>] = passed[<<k, t>>]
        <4>1. byIp => \A t \in Ticks : passed'[<<i, t>>] = passed[<<i, t>>]
          <5>1. \A t \in Ticks : <<i, t>> # <<ip, clock>>
            BY <2>4
          <5>. QED  BY <1>8, <1>9, <5>1 DEF OneMore
        <4>. QED  BY <1>7, <4>1
      <3>2. hits'["adminLoginIp"][i] = rec
        BY <1>2, <1>9, <2>4
      <3>. HIDE DEF rec
      <3>3. LimiterInv(rec, passed', {i}, IpMax, clock)
        BY <1>5, <1>8, <2>1, <2>2, <3>1, LimiterIgnores
      <3>. QED  BY <3>2, <3>3
    <2>. QED  BY <2>3, <2>4
  <1>10. LimiterInv(hits'["adminLoginGlobal"]["global"], admitted', Ips, GlobalMax, clock)
    <2>1. LimiterInv(common, admitted, Ips, GlobalMax, clock) /\ common \in Counter \cup {NoEntry}
      BY AdminTypes DEF LimitersInv, common
    <2>2. CASE byIp
      <3>1. admitted' = admitted \/ (OneMore(admitted, admitted', ip, clock) /\ ours.count <= GlobalMax)
        BY <1>3, <1>7, <1>8
      <3>2. Ips \in SUBSET Ips /\ GlobalMax \in Nat
        OBVIOUS
      <3>3. LimiterInv(ours, admitted', Ips, GlobalMax, clock)
        BY <1>5, <1>6, <1>8, <2>1, <3>1, <3>2, LimiterCounts
      <3>. QED  BY <1>2, <2>2, <3>3
    <2>3. CASE ~ byIp
      <3>1. admitted' = admitted
        BY <1>7, <2>3 DEF byAll
      <3>. QED  BY <1>2, <2>1, <2>3, <3>1
    <2>. QED  BY <2>2, <2>3
  <1>11. CommonIsCounted'
    <2>1. CASE ~ byIp
      BY <1>2, <1>7, <2>1 DEF LimitersInv, CommonIsCounted, common
    <2>2. CASE byIp
      <3>. DEFINE o == Opened(ours)
      <3>1. o \in Ticks /\ o <= clock /\ clock < o + Window
        <4>1. CASE IsOpen(common, clock)
          <5>1. common # NoEntry /\ common \in Counter /\ common.resetAt > clock
            BY <4>1, AdminTypes DEF IsOpen, common
          <5>2. WindowHolds(common, admitted, Ips, GlobalMax, clock)
            BY <4>1 DEF LimitersInv, LimiterInv, common
          <5>3. common.resetAt \in Nat
            BY <5>1 DEF Counter
          <5>4. o = Opened(common) /\ o + Window = common.resetAt
            BY <1>6, <4>1, <5>3 DEF Opened
          <5>. QED  BY <5>1, <5>2, <5>4 DEF WindowHolds
        <4>2. CASE ~ IsOpen(common, clock)
          <5>1. o = clock
            BY <1>5, <1>6, <4>2 DEF Opened, Ticks
          <5>. QED  BY <1>5, <5>1 DEF Ticks
        <4>. QED  BY <4>1, <4>2
      <3>2. clock \in Stretch(o) /\ Stretch(o) \in SUBSET Ticks
        BY <1>5, <3>1 DEF Stretch
      <3>3. Total(passed', Ips, Stretch(o)) = Total(passed, Ips, Stretch(o)) + 1
        BY <1>5, <1>8, <2>2, <3>2, TotalAdds
      <3>4. Total(passed, Ips, Stretch(o)) \in Nat
        BY <1>5, <3>2, TotalType
      <3>5. ours.count <= Total(passed, Ips, Stretch(o)) + 1
        <4>1. CASE IsOpen(common, clock)
          <5>1. common # NoEntry /\ common \in Counter
            BY <4>1, AdminTypes DEF IsOpen, common
          <5>2. common.count <= Total(passed, Ips, Stretch(Opened(common)))
            BY <5>1 DEF LimitersInv, CommonIsCounted, common, Within, Total
          <5>3. Opened(common) = o /\ ours.count = common.count + 1
            BY <1>6, <4>1 DEF Opened
          <5>4. common.count \in Nat
            BY <5>1 DEF Counter
          <5>. QED  BY <3>4, <5>2, <5>3, <5>4
        <4>2. CASE ~ IsOpen(common, clock)
          BY <1>6, <3>4, <4>2
        <4>. QED  BY <4>1, <4>2
      <3>6. ours.count <= Total(passed', Ips, Stretch(o))
        BY <3>3, <3>5
      <3>. QED  BY <1>2, <2>2, <3>1, <3>6 DEF CommonIsCounted, Within, Total
    <2>. QED  BY <2>1, <2>2
  <1>. QED  BY <1>4, <1>9, <1>10, <1>11 DEF LimitersInv

LEMMA LimitersStep == AdminTypeOK /\ LimitersInv /\ [AdminNext]_adminVars => LimitersInv'
  <1>. SUFFICES ASSUME AdminTypeOK, LimitersInv, [AdminNext]_adminVars PROVE LimitersInv'
    OBVIOUS
  <1>1. ASSUME UNCHANGED <<clock, hits, passed, admitted>> PROVE LimitersInv'
    BY <1>1 DEF LimitersInv, CommonIsCounted, Within
  <1>2. ASSUME NEW ip \in Ips, LoginBody(ip) \/ Logout(ip) \/ CookieExpires(ip) PROVE LimitersInv'
    BY <1>1, <1>2 DEF LoginBody, Logout, CookieExpires
  <1>3. CASE CleanLogins
    BY <1>3, LimitersSwept DEF CleanLogins
  <1>4. CASE UNCHANGED adminVars
    BY <1>1, <1>4 DEF adminVars
  <1>. QED  BY <1>2, <1>3, <1>4, LimitersLogin, LimitersRestart, LimitersTick DEF AdminNext

\* What the common limiter holds was let in by the limiters of the addresses, each of
\* which lets in twice its maximum at most: it takes several addresses to fill it.
LEMMA SeveralFillIt ==
    ASSUME AdminTypeOK, LimitersInv, NEW first \in Ticks
    PROVE  LET some == {i \in Ips : Within(passed, {i}, first) > 0}
           IN  /\ Within(passed, Ips, first) <= 2 * IpMax * Cardinality(some)
               /\ \A i \in some : \E t \in Ticks : t >= first /\ passed[<<i, t>>] > 0
  <1>. DEFINE rows == [i \in Ips |-> Within(passed, {i}, first)]
              some == {i \in Ips : Within(passed, {i}, first) > 0}
  <1>1. passed \in Logs /\ Stretch(first) \in SUBSET Ticks
    BY AdminTypes DEF Stretch
  <1>2. \A i \in Ips : {i} \in SUBSET Ips
    OBVIOUS
  <1>3. \A i \in Ips : Within(passed, {i}, first) \in Nat
    BY <1>1, <1>2, TotalType DEF Within, Total
  <1>4. \A i \in Ips : Within(passed, {i}, first) <= 2 * IpMax
    BY DEF LimitersInv, LimiterInv, StretchesHold
  <1>5. \A p \in Ips \X Stretch(first) : passed[p] \in Nat
    BY <1>1, TotalType
  <1>6. IsFiniteSet(Ips) /\ IsFiniteSet(Stretch(first))
    BY <1>1, TotalType
  <1>7. \A i \in Ips : rows[i] = SumOfPairs(passed, {i}, Stretch(first))
    BY DEF Within, SumOfPairs
  <1>8. \A i \in Ips : rows[i] \in Nat /\ rows[i] <= 2 * IpMax
    BY <1>3, <1>4
  <1>9. {i \in Ips : rows[i] > 0} = some
    OBVIOUS
  <1>. HIDE DEF rows, some
  <1>10. SumOfPairs(passed, Ips, Stretch(first)) = SumFunctionOnSet(rows, Ips)
    BY <1>5, <1>6, <1>7, SumOfRows
  <1>11. 2 * IpMax \in Nat
    OBVIOUS
  <1>12. SumFunctionOnSet(rows, Ips) <= (2 * IpMax) * Cardinality({i \in Ips : rows[i] > 0})
    BY <1>6, <1>8, <1>11, SumBounded
  <1>13. Within(passed, Ips, first) <= 2 * IpMax * Cardinality(some)
    BY <1>9, <1>10, <1>12 DEF Within, SumOfPairs
  <1>14. ASSUME NEW i \in some
         PROVE  \E t \in Ticks : t >= first /\ passed[<<i, t>>] > 0
    <2>. SUFFICES ASSUME \A t \in Stretch(first) : ~(passed[<<i, t>>] > 0) PROVE FALSE
      BY DEF Stretch
    <2>1. i \in Ips /\ Within(passed, {i}, first) > 0
      BY <1>14 DEF some
    <2>2. \A k \in {i}, t \in Stretch(first) : passed[<<k, t>>] = 0
      <3>1. \A t \in Stretch(first) : passed[<<i, t>>] \in Nat
        BY <1>5, <2>1
      <3>. QED  BY <3>1
    <2>3. Total(passed, {i}, Stretch(first)) = 0
      BY <1>1, <1>2, <2>1, <2>2, TotalOfZeros
    <2>. QED  BY <2>1, <2>3 DEF Within, Total
  <1>. QED  BY <1>13, <1>14 DEF some

\* Any stretch of a window's length lets in twice the maximum at most, of each address
\* and of all together, although windows do not slide and counters are swept; and no
\* address alone can use up what all are allowed together.
THEOREM LoginsStayLimited == AdminSpec => []LoginsAreLimited
  <1>1. AdminTypeOK /\ LimitersInv => LoginsAreLimited
    <2>. SUFFICES ASSUME AdminTypeOK, LimitersInv PROVE LoginsAreLimited
      OBVIOUS
    <2>. DEFINE common == hits["adminLoginGlobal"]["global"]
    <2>1. \A t \in Ticks : /\ \A ip \in Ips : Within(passed, {ip}, t) <= 2 * IpMax
                           /\ Within(admitted, Ips, t) <= 2 * GlobalMax
      BY DEF LimitersInv, LimiterInv, StretchesHold
    <2>2. ASSUME common # NoEntry
          PROVE  \E some \in SUBSET Ips :
                   /\ common.count <= 2 * IpMax * Cardinality(some)
                   /\ \A ip \in some : \E t \in Ticks :
                        t >= common.resetAt - Window /\ passed[<<ip, t>>] > 0
      <3>. DEFINE first == common.resetAt - Window
                  some == {i \in Ips : Within(passed, {i}, first) > 0}
      <3>1. first \in Ticks /\ common.count <= Within(passed, Ips, first)
        BY <2>2 DEF LimitersInv, CommonIsCounted, Opened
      <3>2. common \in Counter
        BY <2>2, AdminTypes
      <3>3. common.count \in Nat
        BY <3>2 DEF Counter
      <3>. HIDE DEF common, first
      <3>4. /\ Within(passed, Ips, first) <= 2 * IpMax * Cardinality(some)
            /\ \A i \in some : \E t \in Ticks : t >= first /\ passed[<<i, t>>] > 0
        BY <3>1, SeveralFillIt
      <3>5. IsFiniteSet(some)
        BY FS_Subset
      <3>. DEFINE total == Within(passed, Ips, first)
                  most == 2 * IpMax * Cardinality(some)
      <3>6. total \in Nat /\ most \in Int
        <4>1. Stretch(first) \in SUBSET Ticks /\ passed \in Logs /\ Ips \in SUBSET Ips
          BY AdminTypes DEF Stretch
        <4>2. total \in Nat
          BY <4>1, TotalType DEF Within, Total
        <4>3. Cardinality(some) \in Nat
          BY <3>5, FS_CardinalityType
        <4>. HIDE DEF some
        <4>. QED  BY <4>2, <4>3
      <3>7. common.count <= most
        <4>. HIDE DEF total, most
        <4>1. common.count <= total /\ total <= most
          BY <3>1, <3>4 DEF total, most
        <4>. QED  BY <3>3, <3>6, <4>1
      <3>8. some \in SUBSET Ips
        OBVIOUS
      <3>. HIDE DEF some
      <3>. QED  BY <3>4, <3>7, <3>8 DEF first
    <2>. QED  BY <2>1, <2>2 DEF LoginsAreLimited
  <1>. QED  BY <1>1, AdminTypeInit, AdminTypeStep, LimitersInit, LimitersStep, PTL DEF AdminSpec

-----------------------------------------------------------------------------
USE ServerAssumption

-----------------------------------------------------------------------------
(* BackendDeploy: types. *)

LEMMA TypeInit == ServerInit => ServerTypeOK
  BY DEF ServerInit, ServerTypeOK, Env, Early, Late, Everything, NothingToUndo,
     Installations

LEMMA TypeNext ==
    ASSUME ServerTypeOK, [ServerNext]_serverVars
    PROVE  ServerTypeOK'
  <1>. USE DEF ServerTypeOK, Early, Late, Everything, Installations, Launched, Launches,
     OldTarget
  <1>1. CASE \E r \in Releases : BeginDeploy(r)
    BY <1>1 DEF BeginDeploy, NothingToUndo, OnDisk, filesOnDisk, deployment,
       rotation, known, targets
  <1>2. CASE Build
    BY <1>2 DEF Build, Proceed, filesOnDisk, targets, rotation, known
  <1>3. CASE WriteEnv
    BY <1>3 DEF WriteEnv, Proceed, rotation, Env
  <1>4. CASE InstallUnit
    BY <1>4 DEF InstallUnit, Proceed, targets, rotation, known
  <1>5. CASE Reload
    BY <1>5 DEF Reload, Proceed, filesOnDisk, targets, rotation, known
  <1>6. CASE Enable
    BY <1>6 DEF Enable, Proceed, targets, rotation, known
  <1>7. CASE MoveIn
    BY <1>7 DEF MoveIn, Proceed, targets, rotation, known
  <1>8. CASE Link
    BY <1>8 DEF Link, Proceed, targets, rotation, known
  <1>9. CASE RestartService
    BY <1>9 DEF RestartService, Proceed, filesOnDisk, targets, rotation, known
  <1>10. CASE IsActive
    BY <1>10 DEF IsActive, Proceed, filesOnDisk, targets, rotation, known
  <1>11. CASE KeepPrevious
    BY <1>11 DEF KeepPrevious, Proceed, targets, rotation, known
  <1>12. CASE Commit
    <2>1. env \in Env /\ adminPassword \in Nat \cup {Missing}
      BY <1>12 DEF Commit
    <2>2. env.secret \in Nat
      BY <2>1 DEF Env
    <2>3. shownHashes' \subseteq Nat /\ agreedSecret' \in Nat \cup {Missing}
      BY <1>12, <2>1, <2>2 DEF Commit
    <2>4. env' \in Env /\ trouble' \subseteq Everything
      BY <1>12, <2>1 DEF Commit, filesOnDisk
    <2>5. undo' \in [current : Installations \cup {Missing, Keep},
                     unit : Installations \cup {Missing, Keep}, env : Env \cup {Missing, Keep}]
      BY <1>12 DEF Commit, DeployForgotten, NothingToUndo
    <2>. QED
      BY <1>12, <2>3, <2>4, <2>5 DEF Commit, DeployForgotten, filesOnDisk, rotation
  <1>13. CASE DeployFails
    BY <1>13 DEF DeployFails, filesOnDisk, targets, rotation, known
  <1>14. CASE DeployInterrupted
    BY <1>14 DEF DeployInterrupted, filesOnDisk, targets, rotation, known
  <1>15. CASE DeployKilled
    BY <1>15 DEF DeployKilled, DeployForgotten, filesOnDisk, rotation, known,
       NothingToUndo
  <1>16. CASE Restore
    BY <1>16 DEF Restore, Undone, targets, rotation, known
  <1>17. CASE RemoveRelease
    BY <1>17 DEF RemoveRelease, DeployForgotten, RestartedWithOld, Unwanted,
       rotation, known, NothingToUndo
  <1>18. CASE LeaveAsIs
    BY <1>18 DEF LeaveAsIs, DeployForgotten, filesOnDisk, rotation, known, NothingToUndo
  <1>19. CASE BeginRotation
    BY <1>19 DEF BeginRotation, filesOnDisk, deployment, targets
  <1>20. CASE ReplaceEnv
    <2>1. rotateBackup \in Env /\ rotateHash \in Nat
      BY <1>20 DEF ReplaceEnv
    <2>2. env' \in Env
      BY <1>20, <2>1 DEF ReplaceEnv, Env
    <2>. QED
      BY <1>20, <2>2 DEF ReplaceEnv, deployment, known, targets
  <1>21. CASE RotationEnds
    <2>1. trouble' \subseteq Everything
      BY <1>21 DEF RotationEnds
    <2>2. serving' \in Installations \cup {Missing} /\ shownHashes' \subseteq Nat
      BY <1>21 DEF RotationEnds
    <2>. QED
      BY <1>21, <2>1, <2>2 DEF RotationEnds, RotationForgotten, filesOnDisk, deployment,
        targets
  <1>22. CASE RotationFails
    BY <1>22 DEF RotationFails, RotationForgotten, deployment, known, targets
  <1>23. CASE RotationStops
    <2>1. trouble' \subseteq Everything
      BY <1>23 DEF RotationStops
    <2>2. env' = env \/ env' \in Env
      BY <1>23 DEF RotationStops
    <2>. QED
      BY <1>23, <2>1, <2>2 DEF RotationStops, RotationForgotten, deployment,
         known, targets
  <1>24. CASE UNCHANGED serverVars
    BY <1>24 DEF serverVars, deployment, rotation, known, targets, filesOnDisk
  <1>. QED  BY <1>1, <1>2, <1>3, <1>4, <1>5, <1>6, <1>7, <1>8, <1>9, <1>10, <1>11, <1>12,
     <1>13, <1>14, <1>15, <1>16, <1>17, <1>18, <1>19, <1>20, <1>21, <1>22, <1>23, <1>24
     DEF ServerNext

(* Files, links, the scripts' variables and the ghosts keep their types.       *)
THEOREM ServerIsTyped == ServerSpec => []ServerTypeOK
  BY TypeInit, TypeNext, PTL DEF ServerSpec

-----------------------------------------------------------------------------
(* What the links name. *)

(* The old release of a deployment under way is there, the undo goes back to   *)
(* it or to none, the new one is in place before it is linked, and only one    *)
(* whose id is given again can be the release kept for a rollback.  A unit     *)
(* from before there were releases belongs to an installation that is there.   *)
OldReleaseIsThere ==
    IF deployStep = "off" THEN previousTarget = Missing
    ELSE previousTarget # Missing => previousTarget \in releases
UndoIsOld == undo.current \in {Keep, previousTarget}
OldIsLinked ==
    deployStep \in Early \cup {"unit", "reload", "enable", "move", "link"}
        => previousTarget = OldTarget
NewReleaseIsThere == deployStep = "link" => newRelease \in releases
UndoSoFar ==
    /\ deployStep \in Early \cup {"off"} => undo.env = Keep
    /\ deployStep \in Early \cup {"off", "unit"} => undo.unit = Keep
    /\ deployStep \in Early \cup {"off", "unit", "reload", "enable", "move", "link"}
          => undo.current = Keep
    /\ deployStep \in Late \ {"unit"} => undo.unit # Keep
    /\ deployStep \in {"restart", "health", "previous", "commit"} => undo.current # Keep
NewIsNotPrevious == deployStep # "off" /\ newRelease \notin reused => previousLink # newRelease
OlderUnit == Unversioned \in {unit, loaded, undo.unit} => Unversioned \in releases

LinkInv ==
    /\ LinkedIsComplete /\ OldReleaseIsThere /\ UndoIsOld /\ OlderUnit
    /\ UndoSoFar /\ OldIsLinked /\ NewReleaseIsThere /\ NewIsNotPrevious

LEMMA LinkInit == ServerInit => LinkInv
  BY DEF ServerInit, LinkInv, LinkedIsComplete, OldReleaseIsThere, UndoIsOld,
    UndoSoFar, OldIsLinked, Early, Late, NewReleaseIsThere, NewIsNotPrevious, NothingToUndo,
    OlderUnit, OldTarget, Installations

LEMMA LinkNext ==
    ASSUME ServerTypeOK, LinkInv, [ServerNext]_serverVars
    PROVE  LinkInv'
  <1>. USE DEF LinkInv, LinkedIsComplete, OldReleaseIsThere, UndoIsOld, UndoSoFar,
     OldIsLinked, Early, Late, NewReleaseIsThere, NewIsNotPrevious, ServerTypeOK,
     OlderUnit, OldTarget, Installations
  <1>1. CASE \E r \in Releases : BeginDeploy(r)
    BY <1>1 DEF BeginDeploy, NothingToUndo, OnDisk, filesOnDisk, deployment,
       rotation, known, targets
  <1>2. CASE Build
    BY <1>2 DEF Build, Proceed, filesOnDisk, targets, rotation, known
  <1>3. CASE WriteEnv
    BY <1>3 DEF WriteEnv, Proceed, rotation
  <1>4. CASE InstallUnit
    BY <1>4 DEF InstallUnit, Proceed, targets, rotation, known
  <1>5. CASE Reload
    BY <1>5 DEF Reload, Proceed, filesOnDisk, targets, rotation, known
  <1>6. CASE Enable
    BY <1>6 DEF Enable, Proceed, targets, rotation, known
  <1>7. CASE MoveIn
    BY <1>7 DEF MoveIn, Proceed, targets, rotation, known
  <1>8. CASE Link
    BY <1>8 DEF Link, Proceed, targets, rotation, known
  <1>9. CASE RestartService
    BY <1>9 DEF RestartService, Proceed, filesOnDisk, targets, rotation, known
  <1>10. CASE IsActive
    BY <1>10 DEF IsActive, Proceed, filesOnDisk, targets, rotation, known
  <1>11. CASE KeepPrevious
    BY <1>11 DEF KeepPrevious, Proceed, targets, rotation, known
  <1>12. CASE Commit
    BY <1>12 DEF Commit, DeployForgotten, filesOnDisk, rotation, NothingToUndo
  <1>13. CASE DeployFails
    BY <1>13 DEF DeployFails, filesOnDisk, targets, rotation, known
  <1>14. CASE DeployInterrupted
    BY <1>14 DEF DeployInterrupted, filesOnDisk, targets, rotation, known
  <1>15. CASE DeployKilled
    BY <1>15 DEF DeployKilled, DeployForgotten, filesOnDisk, rotation, known,
       NothingToUndo
  <1>16. CASE Restore
    BY <1>16 DEF Restore, Undone, targets, rotation, known
  <1>17. CASE RemoveRelease
    BY <1>17 DEF RemoveRelease, DeployForgotten, RestartedWithOld, Unwanted,
       rotation, known, NothingToUndo
  <1>18. CASE LeaveAsIs
    BY <1>18 DEF LeaveAsIs, DeployForgotten, filesOnDisk, rotation, known, NothingToUndo
  <1>19. CASE BeginRotation
    BY <1>19 DEF BeginRotation, filesOnDisk, deployment, targets
  <1>20. CASE ReplaceEnv
    BY <1>20 DEF ReplaceEnv, deployment, known, targets
  <1>21. CASE RotationEnds
    BY <1>21 DEF RotationEnds, RotationForgotten, filesOnDisk, deployment, targets
  <1>22. CASE RotationFails
    BY <1>22 DEF RotationFails, RotationForgotten, deployment, known, targets
  <1>23. CASE RotationStops
    BY <1>23 DEF RotationStops, RotationForgotten, deployment, known, targets
  <1>24. CASE UNCHANGED serverVars
    BY <1>24 DEF serverVars, deployment, rotation, known, targets, filesOnDisk
  <1>. QED  BY <1>1, <1>2, <1>3, <1>4, <1>5, <1>6, <1>7, <1>8, <1>9, <1>10, <1>11, <1>12,
     <1>13, <1>14, <1>15, <1>16, <1>17, <1>18, <1>19, <1>20, <1>21, <1>22, <1>23, <1>24
     DEF ServerNext

(* Whatever is interrupted, killed or overlaps: "current" names a complete     *)
(* release and "previous" one, unless its id was given again.                  *)
THEOREM LinksNameCompleteReleases == ServerSpec => []LinkedIsComplete
  <1>1. LinkInv => LinkedIsComplete
    BY DEF LinkInv
  <1>. QED  BY <1>1, ServerIsTyped, LinkInit, LinkNext, PTL DEF ServerSpec

-----------------------------------------------------------------------------
(* What runs at the same time. *)

\* Everything counts as spoilt while a rotation and a deployment overlap.
OverlapIsMarked == deployStep # "off" /\ rotateStep # "off" => trouble = Everything

LEMMA OverlapInit == ServerInit => OverlapIsMarked
  BY DEF ServerInit, OverlapIsMarked

LEMMA OverlapNext ==
    ASSUME ServerTypeOK, OverlapIsMarked, [ServerNext]_serverVars
    PROVE  OverlapIsMarked'
  <1>. USE DEF OverlapIsMarked, ServerTypeOK, Everything
  <1>1. CASE \E r \in Releases : BeginDeploy(r)
    BY <1>1 DEF BeginDeploy, NothingToUndo, OnDisk, filesOnDisk, deployment,
       rotation, known, targets
  <1>2. CASE Build
    BY <1>2 DEF Build, Proceed, filesOnDisk, targets, rotation, known
  <1>3. CASE WriteEnv
    BY <1>3 DEF WriteEnv, Proceed, rotation
  <1>4. CASE InstallUnit
    BY <1>4 DEF InstallUnit, Proceed, targets, rotation, known
  <1>5. CASE Reload
    BY <1>5 DEF Reload, Proceed, filesOnDisk, targets, rotation, known
  <1>6. CASE Enable
    BY <1>6 DEF Enable, Proceed, targets, rotation, known
  <1>7. CASE MoveIn
    BY <1>7 DEF MoveIn, Proceed, targets, rotation, known
  <1>8. CASE Link
    BY <1>8 DEF Link, Proceed, targets, rotation, known
  <1>9. CASE RestartService
    BY <1>9 DEF RestartService, Proceed, filesOnDisk, targets, rotation, known
  <1>10. CASE IsActive
    BY <1>10 DEF IsActive, Proceed, filesOnDisk, targets, rotation, known
  <1>11. CASE KeepPrevious
    BY <1>11 DEF KeepPrevious, Proceed, targets, rotation, known
  <1>12. CASE Commit
    BY <1>12 DEF Commit, DeployForgotten, filesOnDisk, rotation, NothingToUndo
  <1>13. CASE DeployFails
    BY <1>13 DEF DeployFails, filesOnDisk, targets, rotation, known
  <1>14. CASE DeployInterrupted
    BY <1>14 DEF DeployInterrupted, filesOnDisk, targets, rotation, known
  <1>15. CASE DeployKilled
    BY <1>15 DEF DeployKilled, DeployForgotten, filesOnDisk, rotation, known,
       NothingToUndo
  <1>16. CASE Restore
    BY <1>16 DEF Restore, Undone, targets, rotation, known
  <1>17. CASE RemoveRelease
    BY <1>17 DEF RemoveRelease, DeployForgotten, RestartedWithOld, Unwanted,
       rotation, known, NothingToUndo
  <1>18. CASE LeaveAsIs
    BY <1>18 DEF LeaveAsIs, DeployForgotten, filesOnDisk, rotation, known, NothingToUndo
  <1>19. CASE BeginRotation
    BY <1>19 DEF BeginRotation, filesOnDisk, deployment, targets
  <1>20. CASE ReplaceEnv
    BY <1>20 DEF ReplaceEnv, deployment, known, targets
  <1>21. CASE RotationEnds
    BY <1>21 DEF RotationEnds, RotationForgotten, filesOnDisk, deployment, targets
  <1>22. CASE RotationFails
    BY <1>22 DEF RotationFails, RotationForgotten, deployment, known, targets
  <1>23. CASE RotationStops
    BY <1>23 DEF RotationStops, RotationForgotten, deployment, known, targets
  <1>24. CASE UNCHANGED serverVars
    BY <1>24 DEF serverVars, deployment, rotation, known, targets, filesOnDisk
  <1>. QED  BY <1>1, <1>2, <1>3, <1>4, <1>5, <1>6, <1>7, <1>8, <1>9, <1>10, <1>11, <1>12,
     <1>13, <1>14, <1>15, <1>16, <1>17, <1>18, <1>19, <1>20, <1>21, <1>22, <1>23, <1>24
     DEF ServerNext
-----------------------------------------------------------------------------
(* What a failed deployment leaves. *)

Undisturbed == deployStep # "off" /\ "deployment" \notin trouble /\ newRelease \notin reused

(* A deployment that nothing disturbs knows at every step what it found: the   *)
(* undo of what it has done so far leads back to it, the new release is the    *)
(* only one it has added, and after the undo everything is as it was, but for  *)
(* a link to an older installation and a unit that was not enabled.            *)
FoundReleases ==
    Undisturbed =>
        /\ before.releases = releases \ {newRelease} /\ newRelease \notin before.releases
        /\ deployStep \in Early => newRelease \notin releases
FoundLinks ==
    Undisturbed =>
        /\ previousTarget = IF before.current = Missing /\ Unversioned \in before.releases
                            THEN Unversioned ELSE before.current
        /\ before.current # newRelease
        /\ deployStep # "commit" => previousLink = before.previous
UndoLeadsBack ==
    Undisturbed =>
        IF deployStep = "remove"
        THEN /\ currentLink \in {before.current, previousTarget}
             /\ unit = before.unit /\ env = before.env
        ELSE /\ IF undo.current = Keep THEN currentLink = before.current
                ELSE undo.current = previousTarget
             /\ Undone(undo.unit, unit) = before.unit
             /\ Undone(undo.env, env) = before.env
EnabledIsKnown ==
    Undisturbed /\ enabled # before.enabled => enabled /\ undo.unit # Keep

TraceInv ==
    FoundReleases /\ FoundLinks /\ UndoLeadsBack /\ EnabledIsKnown

LEMMA TraceInit == ServerInit => TraceInv
  BY DEF ServerInit, TraceInv, FoundReleases, FoundLinks, UndoLeadsBack, Undisturbed,
    EnabledIsKnown

LEMMA TraceNext ==
    ASSUME ServerTypeOK, LinkInv, OverlapIsMarked, TraceInv, [ServerNext]_serverVars
    PROVE  TraceInv'
  <1>. USE DEF TraceInv, FoundReleases, FoundLinks, UndoLeadsBack,
     Undisturbed, Undone, ServerTypeOK, OverlapIsMarked, Everything, LinkInv,
     LinkedIsComplete, UndoSoFar, UndoIsOld, OldIsLinked, OldTarget, Installations,
     EnabledIsKnown, Early, Late
  <1>1. CASE \E r \in Releases : BeginDeploy(r)
    BY <1>1 DEF BeginDeploy, NothingToUndo, OnDisk, filesOnDisk, deployment,
       rotation, known, targets
  <1>2. CASE Build
    BY <1>2 DEF Build, Proceed, filesOnDisk, targets, rotation, known
  <1>3. CASE WriteEnv
    BY <1>3 DEF WriteEnv, Proceed, rotation
  <1>4. CASE InstallUnit
    BY <1>4 DEF InstallUnit, Proceed, targets, rotation, known
  <1>5. CASE Reload
    BY <1>5 DEF Reload, Proceed, filesOnDisk, targets, rotation, known
  <1>6. CASE Enable
    BY <1>6 DEF Enable, Proceed, targets, rotation, known
  <1>7. CASE MoveIn
    BY <1>7 DEF MoveIn, Proceed, targets, rotation, known
  <1>8. CASE Link
    BY <1>8 DEF Link, Proceed, targets, rotation, known
  <1>9. CASE RestartService
    BY <1>9 DEF RestartService, Proceed, filesOnDisk, targets, rotation, known
  <1>10. CASE IsActive
    BY <1>10 DEF IsActive, Proceed, filesOnDisk, targets, rotation, known
  <1>11. CASE KeepPrevious
    BY <1>11 DEF KeepPrevious, Proceed, targets, rotation, known
  <1>12. CASE Commit
    BY <1>12 DEF Commit, DeployForgotten, filesOnDisk, rotation, NothingToUndo
  <1>13. CASE DeployFails
    BY <1>13 DEF DeployFails, filesOnDisk, targets, rotation, known
  <1>14. CASE DeployInterrupted
    BY <1>14 DEF DeployInterrupted, filesOnDisk, targets, rotation, known
  <1>15. CASE DeployKilled
    BY <1>15 DEF DeployKilled, DeployForgotten, filesOnDisk, rotation, known,
       NothingToUndo
  <1>16. CASE Restore
    BY <1>16 DEF Restore, Undone, targets, rotation, known
  <1>17. CASE RemoveRelease
    BY <1>17 DEF RemoveRelease, DeployForgotten, RestartedWithOld, Unwanted,
       rotation, known, NothingToUndo
  <1>18. CASE LeaveAsIs
    BY <1>18 DEF LeaveAsIs, DeployForgotten, filesOnDisk, rotation, known, NothingToUndo
  <1>19. CASE BeginRotation
    BY <1>19 DEF BeginRotation, filesOnDisk, deployment, targets
  <1>20. CASE ReplaceEnv
    BY <1>20 DEF ReplaceEnv, deployment, known, targets
  <1>21. CASE RotationEnds
    BY <1>21 DEF RotationEnds, RotationForgotten, filesOnDisk, deployment, targets
  <1>22. CASE RotationFails
    BY <1>22 DEF RotationFails, RotationForgotten, deployment, known, targets
  <1>23. CASE RotationStops
    BY <1>23 DEF RotationStops, RotationForgotten, deployment, known, targets
  <1>24. CASE UNCHANGED serverVars
    BY <1>24 DEF serverVars, deployment, rotation, known, targets, filesOnDisk
  <1>. QED  BY <1>1, <1>2, <1>3, <1>4, <1>5, <1>6, <1>7, <1>8, <1>9, <1>10, <1>11, <1>12,
     <1>13, <1>14, <1>15, <1>16, <1>17, <1>18, <1>19, <1>20, <1>21, <1>22, <1>23, <1>24
     DEF ServerNext

(* A deployment that fails and undoes its work leaves unit, environment file   *)
(* and releases as it found them, whichever of its commands it was, and the    *)
(* links too, but for "current" to an older installation and the link that     *)
(* starts the unit at boot.                                                    *)
THEOREM FailedDeploymentsAreUndone == ServerSpec => FailureIsUndone
  <1>. DEFINE Fails == RemoveRelease /\ "deployment" \notin trouble /\ newRelease \notin reused
              Rest == /\ releases' = before.releases /\ previousLink' = before.previous
                      /\ unit' = before.unit /\ env' = before.env
              Links == currentLink' # before.current =>
                         before.current = Missing /\ currentLink' = Unversioned
                         /\ Unversioned \in before.releases
              Boot == enabled' # before.enabled => enabled' /\ undo.unit # Keep
  <1>1. ASSUME ServerTypeOK, LinkInv, TraceInv, Fails
        PROVE  Rest /\ Links /\ Boot
    <2>1. Undisturbed /\ deployStep = "remove"
      BY <1>1 DEF RemoveRelease, Undisturbed
    <2>2. Links /\ currentLink # newRelease
      BY <1>1, <2>1
        DEF RemoveRelease, TraceInv, FoundLinks, UndoLeadsBack, ServerTypeOK
    <2>3. releases' = before.releases
      BY <1>1, <2>1, <2>2 DEF RemoveRelease, Unwanted, TraceInv, FoundReleases
    <2>4. unit' = before.unit /\ env' = before.env
      BY <1>1, <2>1 DEF RemoveRelease, TraceInv, UndoLeadsBack
    <2>5. previousLink' = before.previous
      BY <1>1, <2>1 DEF RemoveRelease, TraceInv, FoundLinks
    <2>6. Boot
      BY <1>1, <2>1 DEF RemoveRelease, TraceInv, EnabledIsKnown
    <2>. QED  BY <2>2, <2>3, <2>4, <2>5, <2>6
  <1>2. ServerTypeOK /\ LinkInv /\ TraceInv /\ [ServerNext]_serverVars
        => [Fails => Rest /\ Links /\ Boot]_serverVars
    BY <1>1
  <1>. QED
    BY <1>2, ServerIsTyped, LinkInit, LinkNext, OverlapInit, OverlapNext, TraceInit,
      TraceNext, PTL DEF ServerSpec, FailureIsUndone

-----------------------------------------------------------------------------
(* What the service runs. *)

Runs(r) == serving \in {r, Missing}

(* Until it is linked the new release changes nothing of what is served, and   *)
(* from its start it is served; a failure before the link finds the old        *)
(* release served, and one after it starts the old one again, where there is   *)
(* one, or finds nothing served.  systemd has the unit on disk, except while   *)
(* one of the two has just been changed.                                       *)
CurrentIsServed ==
    /\ deployStep \in {"health", "previous", "commit"} => Runs(currentLink)
    /\ "service" \notin trouble /\ deployStep \notin {"restart", "restore", "remove"}
          => Runs(Launches(IF deployStep \in {"health", "previous", "commit"} THEN unit
                           ELSE Undone(undo.unit, unit), currentLink))
LoadedIsOnDisk ==
    /\ deployStep \in Late \ {"unit", "reload"} => loaded = unit
    /\ deployStep \in Late \ {"unit"} => unit = newRelease
    /\ "service" \notin trouble /\ deployStep \notin {"reload", "restore"} => loaded = unit
FailedIsServed ==
    "service" \notin trouble =>
        /\ deployStep = "restart" /\ undo.current = Missing => serving = Missing
        /\ deployStep = "restore" =>
              /\ status = 1 /\ (undo.unit = Keep => loaded = unit)
              /\ undo.current = Keep => Runs(Launches(Undone(undo.unit, unit), currentLink))
              /\ undo.current = Missing => serving = Missing
        /\ deployStep = "remove" /\ undo.current \in {Keep, Missing} => Runs(Launched)

ServeInv == CurrentIsServed /\ LoadedIsOnDisk /\ FailedIsServed

LEMMA ServeInit == ServerInit => ServeInv
  BY DEF ServerInit, ServeInv, CurrentIsServed, LoadedIsOnDisk, FailedIsServed, Runs, Late,
    Launched, Launches, Undone, NothingToUndo

LEMMA ServeNext ==
    ASSUME ServerTypeOK, LinkInv, OverlapIsMarked, ServeInv, [ServerNext]_serverVars
    PROVE  ServeInv'
  <1>. USE DEF ServeInv, CurrentIsServed, LoadedIsOnDisk, FailedIsServed, Runs,
     ServerTypeOK, OverlapIsMarked, Everything, LinkInv, UndoIsOld, UndoSoFar,
     OldIsLinked, OldTarget, OldReleaseIsThere, OlderUnit, NewReleaseIsThere, Launched,
     Launches, Undone, Installations, Early, Late
  <1>1. CASE \E r \in Releases : BeginDeploy(r)
    BY <1>1 DEF BeginDeploy, NothingToUndo, OnDisk, filesOnDisk, deployment,
       rotation, known, targets
  <1>2. CASE Build
    BY <1>2 DEF Build, Proceed, filesOnDisk, targets, rotation, known
  <1>3. CASE WriteEnv
    BY <1>3 DEF WriteEnv, Proceed, rotation
  <1>4. CASE InstallUnit
    BY <1>4 DEF InstallUnit, Proceed, targets, rotation, known
  <1>5. CASE Reload
    BY <1>5 DEF Reload, Proceed, filesOnDisk, targets, rotation, known
  <1>6. CASE Enable
    BY <1>6 DEF Enable, Proceed, targets, rotation, known
  <1>7. CASE MoveIn
    BY <1>7 DEF MoveIn, Proceed, targets, rotation, known
  <1>8. CASE Link
    BY <1>8 DEF Link, Proceed, targets, rotation, known
  <1>9. CASE RestartService
    BY <1>9 DEF RestartService, Proceed, filesOnDisk, targets, rotation, known
  <1>10. CASE IsActive
    BY <1>10 DEF IsActive, Proceed, filesOnDisk, targets, rotation, known
  <1>11. CASE KeepPrevious
    BY <1>11 DEF KeepPrevious, Proceed, targets, rotation, known
  <1>12. CASE Commit
    BY <1>12 DEF Commit, DeployForgotten, filesOnDisk, rotation, NothingToUndo
  <1>13. CASE DeployFails
    BY <1>13 DEF DeployFails, filesOnDisk, targets, rotation, known
  <1>14. CASE DeployInterrupted
    BY <1>14 DEF DeployInterrupted, filesOnDisk, targets, rotation, known
  <1>15. CASE DeployKilled
    BY <1>15 DEF DeployKilled, DeployForgotten, filesOnDisk, rotation, known,
       NothingToUndo
  <1>16. CASE Restore
    BY <1>16 DEF Restore, Undone, targets, rotation, known
  <1>17. CASE RemoveRelease
    BY <1>17 DEF RemoveRelease, DeployForgotten, RestartedWithOld, Unwanted,
       rotation, known, NothingToUndo
  <1>18. CASE LeaveAsIs
    BY <1>18 DEF LeaveAsIs, DeployForgotten, filesOnDisk, rotation, known, NothingToUndo
  <1>19. CASE BeginRotation
    BY <1>19 DEF BeginRotation, filesOnDisk, deployment, targets
  <1>20. CASE ReplaceEnv
    BY <1>20 DEF ReplaceEnv, deployment, known, targets
  <1>21. CASE RotationEnds
    BY <1>21 DEF RotationEnds, RotationForgotten, filesOnDisk, deployment, targets
  <1>22. CASE RotationFails
    BY <1>22 DEF RotationFails, RotationForgotten, deployment, known, targets
  <1>23. CASE RotationStops
    BY <1>23 DEF RotationStops, RotationForgotten, deployment, known, targets
  <1>24. CASE UNCHANGED serverVars
    BY <1>24 DEF serverVars, deployment, rotation, known, targets, filesOnDisk
  <1>. QED  BY <1>1, <1>2, <1>3, <1>4, <1>5, <1>6, <1>7, <1>8, <1>9, <1>10, <1>11, <1>12,
     <1>13, <1>14, <1>15, <1>16, <1>17, <1>18, <1>19, <1>20, <1>21, <1>22, <1>23, <1>24
     DEF ServerNext

(* Between the scripts the service runs the current release under the unit on  *)
(* disk, after a rollback too, and again from the first deployment that        *)
(* completes after one was cut off.                                            *)
THEOREM ServiceRunsCurrent == ServerSpec => []ServesCurrent
  <1>1. LinkInv /\ ServeInv => ServesCurrent
    BY DEF ServeInv, ServesCurrent, AtRest, LinkInv, UndoSoFar, CurrentIsServed, LoadedIsOnDisk,
      Runs, Launched, Launches, Undone
  <1>. QED
    BY <1>1, ServerIsTyped, LinkInit, LinkNext, OverlapInit, OverlapNext, ServeInit,
      ServeNext, PTL DEF ServerSpec

-----------------------------------------------------------------------------
(* Secrets and passwords. *)

(* The secret is the agreed one in the environment file and in every copy that *)
(* may be put back.                                                            *)
SecretInv ==
    "overlap" \notin trouble /\ agreedSecret # Missing =>
        /\ env # Missing /\ env.secret = agreedSecret
        /\ undo.env # Keep => undo.env # Missing /\ undo.env.secret = agreedSecret
        /\ rotateStep # "off" => rotateBackup.secret = agreedSecret

LEMMA SecretInit == ServerInit => SecretInv
  BY DEF ServerInit, SecretInv, NothingToUndo

LEMMA SecretNext ==
    ASSUME ServerTypeOK, OverlapIsMarked, SecretInv, [ServerNext]_serverVars
    PROVE  SecretInv'
  <1>. USE DEF SecretInv, ServerTypeOK, OverlapIsMarked, Everything, Env, Early, Late
  <1>1. CASE \E r \in Releases : BeginDeploy(r)
    BY <1>1 DEF BeginDeploy, NothingToUndo, OnDisk, filesOnDisk, deployment,
       rotation, known, targets
  <1>2. CASE Build
    BY <1>2 DEF Build, Proceed, filesOnDisk, targets, rotation, known
  <1>3. CASE WriteEnv
    BY <1>3 DEF WriteEnv, Proceed, rotation
  <1>4. CASE InstallUnit
    BY <1>4 DEF InstallUnit, Proceed, targets, rotation, known
  <1>5. CASE Reload
    BY <1>5 DEF Reload, Proceed, filesOnDisk, targets, rotation, known
  <1>6. CASE Enable
    BY <1>6 DEF Enable, Proceed, targets, rotation, known
  <1>7. CASE MoveIn
    BY <1>7 DEF MoveIn, Proceed, targets, rotation, known
  <1>8. CASE Link
    BY <1>8 DEF Link, Proceed, targets, rotation, known
  <1>9. CASE RestartService
    BY <1>9 DEF RestartService, Proceed, filesOnDisk, targets, rotation, known
  <1>10. CASE IsActive
    BY <1>10 DEF IsActive, Proceed, filesOnDisk, targets, rotation, known
  <1>11. CASE KeepPrevious
    BY <1>11 DEF KeepPrevious, Proceed, targets, rotation, known
  <1>12. CASE Commit
    BY <1>12 DEF Commit, DeployForgotten, filesOnDisk, rotation, NothingToUndo
  <1>13. CASE DeployFails
    BY <1>13 DEF DeployFails, filesOnDisk, targets, rotation, known
  <1>14. CASE DeployInterrupted
    BY <1>14 DEF DeployInterrupted, filesOnDisk, targets, rotation, known
  <1>15. CASE DeployKilled
    BY <1>15 DEF DeployKilled, DeployForgotten, filesOnDisk, rotation, known,
       NothingToUndo
  <1>16. CASE Restore
    BY <1>16 DEF Restore, Undone, targets, rotation, known
  <1>17. CASE RemoveRelease
    BY <1>17 DEF RemoveRelease, DeployForgotten, RestartedWithOld, Unwanted,
       rotation, known, NothingToUndo
  <1>18. CASE LeaveAsIs
    BY <1>18 DEF LeaveAsIs, DeployForgotten, filesOnDisk, rotation, known, NothingToUndo
  <1>19. CASE BeginRotation
    BY <1>19 DEF BeginRotation, filesOnDisk, deployment, targets
  <1>20. CASE ReplaceEnv
    BY <1>20 DEF ReplaceEnv, deployment, known, targets
  <1>21. CASE RotationEnds
    BY <1>21 DEF RotationEnds, RotationForgotten, filesOnDisk, deployment, targets
  <1>22. CASE RotationFails
    BY <1>22 DEF RotationFails, RotationForgotten, deployment, known, targets
  <1>23. CASE RotationStops
    BY <1>23 DEF RotationStops, RotationForgotten, deployment, known, targets
  <1>24. CASE UNCHANGED serverVars
    BY <1>24 DEF serverVars, deployment, rotation, known, targets, filesOnDisk
  <1>. QED  BY <1>1, <1>2, <1>3, <1>4, <1>5, <1>6, <1>7, <1>8, <1>9, <1>10, <1>11, <1>12,
     <1>13, <1>14, <1>15, <1>16, <1>17, <1>18, <1>19, <1>20, <1>21, <1>22, <1>23, <1>24
     DEF ServerNext
Known(h) == h \in shownHashes \cup {Missing}

(* A password nobody has been shown is in force only while a script is under   *)
(* way that will show it, or put back a file whose password is known.          *)
InForceIsKnown ==
    /\ env # Missing /\ rotateStep # "restart"
          /\ (deployStep \in Early \cup {"off"} \/ undo.env = Keep) => Known(env.hash)
    /\ deployStep \in Late /\ rotateStep = "off"
          => Known(env.hash) \/ env.hash = adminPassword
    /\ deployStep = "remove" /\ env # Missing => Known(env.hash)
CopiesAreKnown ==
    /\ undo.env \notin {Keep, Missing} => Known(undo.env.hash)
    /\ rotateStep # "off" => Known(rotateBackup.hash)
ScriptsGoOn ==
    /\ rotateStep = "restart" => env.hash = rotateHash
    /\ deployStep = "restore" => status = 1

PasswordInv == "password" \notin trouble => InForceIsKnown /\ CopiesAreKnown /\ ScriptsGoOn

LEMMA PasswordInit == ServerInit => PasswordInv
  BY DEF ServerInit, PasswordInv, InForceIsKnown, CopiesAreKnown, ScriptsGoOn, Known, Late,
    NothingToUndo

LEMMA PasswordNext ==
    ASSUME ServerTypeOK, LinkInv, OverlapIsMarked, PasswordInv, [ServerNext]_serverVars
    PROVE  PasswordInv'
  <1>. USE DEF PasswordInv, InForceIsKnown, CopiesAreKnown, ScriptsGoOn, Known,
     ServerTypeOK, LinkInv, UndoSoFar, OverlapIsMarked, Everything, Env, Early, Late
  <1>1. CASE \E r \in Releases : BeginDeploy(r)
    BY <1>1 DEF BeginDeploy, NothingToUndo, OnDisk, filesOnDisk, deployment,
       rotation, known, targets
  <1>2. CASE Build
    BY <1>2 DEF Build, Proceed, filesOnDisk, targets, rotation, known
  <1>3. CASE WriteEnv
    BY <1>3 DEF WriteEnv, Proceed, rotation
  <1>4. CASE InstallUnit
    BY <1>4 DEF InstallUnit, Proceed, targets, rotation, known
  <1>5. CASE Reload
    BY <1>5 DEF Reload, Proceed, filesOnDisk, targets, rotation, known
  <1>6. CASE Enable
    BY <1>6 DEF Enable, Proceed, targets, rotation, known
  <1>7. CASE MoveIn
    BY <1>7 DEF MoveIn, Proceed, targets, rotation, known
  <1>8. CASE Link
    BY <1>8 DEF Link, Proceed, targets, rotation, known
  <1>9. CASE RestartService
    BY <1>9 DEF RestartService, Proceed, filesOnDisk, targets, rotation, known
  <1>10. CASE IsActive
    BY <1>10 DEF IsActive, Proceed, filesOnDisk, targets, rotation, known
  <1>11. CASE KeepPrevious
    BY <1>11 DEF KeepPrevious, Proceed, targets, rotation, known
  <1>12. CASE Commit
    BY <1>12 DEF Commit, DeployForgotten, filesOnDisk, rotation, NothingToUndo
  <1>13. CASE DeployFails
    BY <1>13 DEF DeployFails, filesOnDisk, targets, rotation, known
  <1>14. CASE DeployInterrupted
    BY <1>14 DEF DeployInterrupted, filesOnDisk, targets, rotation, known
  <1>15. CASE DeployKilled
    BY <1>15 DEF DeployKilled, DeployForgotten, filesOnDisk, rotation, known,
       NothingToUndo
  <1>16. CASE Restore
    BY <1>16 DEF Restore, Undone, targets, rotation, known
  <1>17. CASE RemoveRelease
    BY <1>17 DEF RemoveRelease, DeployForgotten, RestartedWithOld, Unwanted,
       rotation, known, NothingToUndo
  <1>18. CASE LeaveAsIs
    BY <1>18 DEF LeaveAsIs, DeployForgotten, filesOnDisk, rotation, known, NothingToUndo
  <1>19. CASE BeginRotation
    BY <1>19 DEF BeginRotation, filesOnDisk, deployment, targets
  <1>20. CASE ReplaceEnv
    BY <1>20 DEF ReplaceEnv, deployment, known, targets
  <1>21. CASE RotationEnds
    BY <1>21 DEF RotationEnds, RotationForgotten, filesOnDisk, deployment, targets
  <1>22. CASE RotationFails
    BY <1>22 DEF RotationFails, RotationForgotten, deployment, known, targets
  <1>23. CASE RotationStops
    BY <1>23 DEF RotationStops, RotationForgotten, deployment, known, targets
  <1>24. CASE UNCHANGED serverVars
    BY <1>24 DEF serverVars, deployment, rotation, known, targets, filesOnDisk
  <1>. QED  BY <1>1, <1>2, <1>3, <1>4, <1>5, <1>6, <1>7, <1>8, <1>9, <1>10, <1>11, <1>12,
     <1>13, <1>14, <1>15, <1>16, <1>17, <1>18, <1>19, <1>20, <1>21, <1>22, <1>23, <1>24
     DEF ServerNext

(* Between the scripts the secret the edge functions share is still the        *)
(* backend's, if no two scripts overlapped, and the administrators' password   *)
(* has been shown, unless the script that made it was cut off.                 *)
THEOREM SecretsStayKnown == ServerSpec => []SecretsAreKnown
  <1>1. LinkInv /\ SecretInv /\ PasswordInv => SecretsAreKnown
    BY DEF LinkInv, UndoSoFar, SecretInv, PasswordInv, InForceIsKnown, Known,
      SecretsAreKnown, AtRest
  <1>. QED
    BY <1>1, ServerIsTyped, LinkInit, LinkNext, OverlapInit, OverlapNext, SecretInit,
      SecretNext, PasswordInit, PasswordNext, PTL DEF ServerSpec

-----------------------------------------------------------------------------
(***************************************************************************)
(* The charts: a row that a purge deleted is older than every bar, so the  *)
(* bars count the rows of the log as if none had been deleted; and the     *)
(* groups a bar adds up share no row.                                      *)
(***************************************************************************)
RowsAreOf(rows) ==
    /\ IsFiniteSet(rows)
    /\ \A row \in rows : row.ts \in Nat

ChartInv ==
    /\ time \in Nat
    /\ RowsAreOf(logged)
    /\ eventLog \subseteq logged
    /\ \A row \in logged \ eventLog : row.ts < time - Retention * DayLength

LEMMA ChartInvHolds == ChartSpec => []ChartInv
  <1>1. ChartInit => ChartInv
    BY FS_EmptySet DEF ChartInit, ChartInv, RowsAreOf
  <1>2. ChartInv /\ [ChartNext]_chartVars => ChartInv'
    <2> SUFFICES ASSUME ChartInv, [ChartNext]_chartVars PROVE ChartInv'
      OBVIOUS
    <2> DEFINE keep == Retention * DayLength
    <2>1. keep \in Nat
      BY ChartAssumption
    <2> HIDE DEF keep
    <2>2. /\ time \in Nat /\ IsFiniteSet(logged) /\ \A row \in logged : row.ts \in Nat
          /\ eventLog \subseteq logged
          /\ \A row \in logged \ eventLog : row.ts < time - keep
      BY DEF ChartInv, RowsAreOf, keep
    <2>3. SUFFICES /\ time' \in Nat /\ IsFiniteSet(logged') /\ \A row \in logged' : row.ts \in Nat
                   /\ eventLog' \subseteq logged'
                   /\ \A row \in logged' \ eventLog' : row.ts < time' - keep
      BY DEF ChartInv, RowsAreOf, keep
    <2>4. ASSUME NEW type \in LogTypes, LogEvent(type)
          PROVE  /\ time' \in Nat /\ IsFiniteSet(logged') /\ \A row \in logged' : row.ts \in Nat
                 /\ eventLog' \subseteq logged'
                 /\ \A row \in logged' \ eventLog' : row.ts < time' - keep
      <3> DEFINE row == [id |-> Cardinality(logged) + 1, type |-> type, ts |-> time]
      <3>1. /\ eventLog' = eventLog \cup {row} /\ logged' = logged \cup {row}
            /\ time' = time /\ row.ts = time
        BY <2>4 DEF LogEvent
      <3> HIDE DEF row
      <3>2. IsFiniteSet(logged')
        BY <2>2, <3>1, FS_AddElement
      <3> QED
        BY <2>2, <3>1, <3>2
    <2>5. CASE CleanLog
      <3>1. /\ eventLog' = {row \in eventLog : row.ts >= time - keep}
            /\ time' = time /\ logged' = logged
        BY <2>5 DEF CleanLog, Purge, keep
      <3> QED
        BY <2>1, <2>2, <3>1
    <2>6. CASE ClockTicks
      <3>1. time' = time + 1 /\ eventLog' = eventLog /\ logged' = logged
        BY <2>6 DEF ClockTicks
      <3> QED
        BY <2>1, <2>2, <3>1
    <2>7. CASE UNCHANGED chartVars
      BY <2>2, <2>7 DEF chartVars
    <2> QED
      BY <2>4, <2>5, <2>6, <2>7 DEF ChartNext
  <1> QED
    BY <1>1, <1>2, PTL DEF ChartSpec

\* Days are whole stretches of DayLength.
LEMMA DayFacts ==
  ASSUME NEW t \in Nat
  PROVE  \E q \in Nat : Day(t) = q * DayLength /\ q * DayLength <= t /\ t < q * DayLength + DayLength
  <1>1. DayLength \in Nat \ {0}
    BY ChartAssumption
  <1>2. t = (t \div DayLength) * DayLength + (t % DayLength)
    BY <1>1
  <1>3. t % DayLength \in 0..DayLength - 1 /\ t \div DayLength \in Nat
    BY <1>1
  <1> DEFINE q == t \div DayLength
             r == t % DayLength
  <1> HIDE DEF q, r
  <1>4. t = q * DayLength + r /\ r \in 0..DayLength - 1 /\ q \in Nat /\ Day(t) = t - r
    BY <1>2, <1>3 DEF q, r, Day
  <1>5. q * DayLength \in Nat
    BY <1>1, <1>4
  <1> QED
    BY <1>1, <1>4, <1>5

LEMMA SameStretch ==
  ASSUME NEW p \in Int, NEW q \in Int, NEW t \in Int, NEW d \in Nat \ {0},
         q * d <= t, t < q * d + d
  PROVE  q * d = p * d <=> t \in p * d .. p * d + d - 1
  <1>1. q * d \in Int /\ p * d \in Int
    OBVIOUS
  <1>2. CASE p = q
    BY <1>1, <1>2
  <1>3. CASE p >= q + 1
    <2>1. (p - q - 1) * d >= 0
      BY <1>3
    <2>2. p * d = q * d + d + (p - q - 1) * d
      OBVIOUS
    <2> QED
      BY <1>1, <2>1, <2>2
  <1>4. CASE q >= p + 1
    <2>1. (q - p - 1) * d >= 0
      BY <1>4
    <2>2. q * d = p * d + d + (q - p - 1) * d
      OBVIOUS
    <2> QED
      BY <1>1, <2>1, <2>2
  <1> QED
    BY <1>2, <1>3, <1>4

\* The bar of a day stands for the rows of that stretch, none of them purged.
LEMMA BarOfDay ==
  ASSUME ChartInv, NEW d \in 0..Days - 1, NEW row \in logged
  PROVE  LET bar == Cutoff + d * DayLength
             first == Day(time) - (Days - 1 - d) * DayLength
         IN  /\ bar = first
             /\ Day(row.ts) = bar <=> row.ts \in first..first + DayLength - 1
             /\ Day(row.ts) = bar => row \in eventLog /\ row.ts >= Cutoff
  <1>1. time \in Nat /\ row.ts \in Nat /\ DayLength \in Nat \ {0} /\ Days \in Nat \ {0}
        /\ Retention \in Nat /\ Days <= Retention
    BY ChartAssumption DEF ChartInv, RowsAreOf
  <1>2. PICK p \in Nat : /\ Day(time) = p * DayLength /\ p * DayLength <= time
                         /\ time < p * DayLength + DayLength
    BY <1>1, DayFacts
  <1>3. PICK q \in Nat : /\ Day(row.ts) = q * DayLength /\ q * DayLength <= row.ts
                         /\ row.ts < q * DayLength + DayLength
    BY <1>1, DayFacts
  <1> DEFINE m == p - (Days - 1 - d)
             bar == Cutoff + d * DayLength
             first == Day(time) - (Days - 1 - d) * DayLength
  <1>4. m \in Int
    BY <1>1
  <1>5. first = m * DayLength /\ bar = m * DayLength
    <2>1. first = p * DayLength - (Days - 1 - d) * DayLength
      BY <1>2
    <2>2. bar = p * DayLength - (Days - 1) * DayLength + d * DayLength
      BY <1>2 DEF Cutoff
    <2>3. m * DayLength = p * DayLength - (Days - 1 - d) * DayLength
      BY <1>1
    <2>4. m * DayLength = p * DayLength - (Days - 1) * DayLength + d * DayLength
      BY <1>1
    <2> QED
      BY <2>1, <2>2, <2>3, <2>4
  <1>6. Cutoff = p * DayLength - (Days - 1) * DayLength
    BY <1>2 DEF Cutoff
  <1>7. Cutoff <= bar /\ Cutoff > time - Retention * DayLength /\ Cutoff \in Int
    <2>1. d * DayLength >= 0 /\ d * DayLength \in Int
      BY <1>1
    <2>2. Retention * DayLength >= (Days - 1) * DayLength + DayLength
      <3>1. (Retention - Days) * DayLength >= 0
        BY <1>1
      <3>2. Retention * DayLength
              = (Days - 1) * DayLength + DayLength + (Retention - Days) * DayLength
        BY <1>1
      <3>3. (Days - 1) * DayLength \in Int /\ (Retention - Days) * DayLength \in Int
        BY <1>1
      <3> QED
        BY <1>1, <3>1, <3>2, <3>3
    <2>3. /\ p * DayLength \in Int /\ (Days - 1) * DayLength \in Int
          /\ Retention * DayLength \in Int
      BY <1>1
    <2> QED
      BY <1>1, <1>2, <1>6, <2>1, <2>2, <2>3
  <1> HIDE DEF m, bar, first
  <1>8. Day(row.ts) = bar <=> row.ts \in first..first + DayLength - 1
    BY <1>1, <1>3, <1>4, <1>5, SameStretch
  <1>9. Day(row.ts) = bar => row.ts >= Cutoff
    <2>1. q * DayLength \in Int /\ bar \in Int
      BY <1>1, <1>4, <1>5
    <2> QED
      BY <1>1, <1>3, <1>7, <2>1
  <1>10. row.ts >= Cutoff => row \in eventLog
    <2>1. Retention * DayLength \in Int
      BY <1>1
    <2> QED
      BY <1>1, <1>7, <2>1 DEF ChartInv
  <1> QED
    BY <1>5, <1>8, <1>9, <1>10 DEF bar, first

\* Every bar counts exactly the events of its kind that the day saw: neither a
\* purge nor the grouping by type loses one or counts it twice.
THEOREM ChartsCountEverything == ChartSpec => []ChartsAreComplete
  <1>1. ChartInv => ChartsAreComplete
    <2> SUFFICES ASSUME ChartInv, NEW d \in 0..Days - 1, NEW type \in ShownTypes
                 PROVE  LET first == Day(time) - (Days - 1 - d) * DayLength
                        IN  Timeseries[d][type] =
                              Cardinality({row \in logged :
                                             /\ row.ts \in first..first + DayLength - 1
                                             /\ ShownAs[row.type] = type})
      BY DEF ChartsAreComplete
    <2> DEFINE bar == Cutoff + d * DayLength
               first == Day(time) - (Days - 1 - d) * DayLength
               recent == {row \in eventLog : row.ts >= Cutoff}
               like(row) == {r \in recent : Day(r.ts) = Day(row.ts) /\ r.type = row.type}
               group(row) == [day |-> Day(row.ts), type |-> row.type,
                              count |-> Cardinality(like(row))]
               seen == {row \in logged : /\ row.ts \in first..first + DayLength - 1
                                         /\ ShownAs[row.type] = type}
               groups == {g \in DailyRows : g.day = bar /\ ShownAs[g.type] = type}
               key == [row \in seen |-> group(row)]
               counts == [g \in groups |-> g.count]
    <2>1. IsFiniteSet(logged) /\ eventLog \subseteq logged
      BY DEF ChartInv, RowsAreOf
    <2>2. seen = {row \in recent : Day(row.ts) = bar /\ ShownAs[row.type] = type}
      BY <2>1, BarOfDay
    <2>3. DailyRows = {group(row) : row \in recent}
      BY DEF DailyRows
    <2>4. groups = {group(row) : row \in seen}
      <3> HIDE DEF like, recent, bar, seen
      <3>1. \A row : group(row).day = Day(row.ts) /\ group(row).type = row.type
        OBVIOUS
      <3> HIDE DEF group
      <3> QED
        BY <2>2, <2>3, <3>1
    <2>5. IsFiniteSet(seen)
      BY <2>1, FS_Subset
    <2>6. key \in [seen -> groups] /\ key \in Surjection(seen, groups)
      <3> HIDE DEF group, seen, groups
      <3> QED
        BY <2>4 DEF Surjection
    <2>7. IsFiniteSet(groups)
      <3> HIDE DEF key, seen, groups
      <3> QED
        BY <2>5, <2>6, FS_Surjection
    <2>8. ASSUME NEW g \in groups
          PROVE  counts[g] = Cardinality({row \in seen : key[row] = g})
      <3>1. PICK x \in seen : g = group(x)
        BY <2>4
      <3>2. counts[g] = Cardinality(like(x))
        BY <3>1
      <3>3. ASSUME NEW row \in seen
            PROVE  group(row) = g <=> Day(row.ts) = Day(x.ts) /\ row.type = x.type
        <4>1. Day(row.ts) = Day(x.ts) /\ row.type = x.type => like(row) = like(x)
          OBVIOUS
        <4> HIDE DEF like, seen
        <4>2. group(row).day = Day(row.ts) /\ group(row).type = row.type
          OBVIOUS
        <4>3. group(x).day = Day(x.ts) /\ group(x).type = x.type
          OBVIOUS
        <4> QED
          BY <3>1, <4>1, <4>2, <4>3
      <3>4. like(x) \subseteq seen
        <4> HIDE DEF bar, seen
        <4> QED
          BY <2>2
      <3> HIDE DEF group
      <3>5. {row \in seen : key[row] = g} = {row \in seen : Day(row.ts) = Day(x.ts) /\ row.type = x.type}
        <4> HIDE DEF seen
        <4> QED
          BY <3>3
      <3>6. {row \in seen : Day(row.ts) = Day(x.ts) /\ row.type = x.type} = like(x)
        <4> HIDE DEF seen, bar
        <4> QED
          BY <2>2, <3>4
      <3> HIDE DEF counts, like, key, seen
      <3> QED
        BY <3>2, <3>5, <3>6
    <2>9. Timeseries[d][type] = SumFunctionOnSet(counts, groups)
      BY DEF Timeseries, AddedBar
    <2> HIDE DEF counts, groups, key, seen
    <2>10. key \in [seen -> groups]
      BY <2>6
    <2>11. \A g \in groups : counts[g] = Cardinality({row \in seen : key[row] = g})
      BY <2>8
    <2>12. SumFunctionOnSet(counts, groups) = Cardinality(seen)
      BY ONLY <2>5, <2>7, <2>10, <2>11, SumOfFibers
    <2> QED
      BY <2>9, <2>12 DEF seen
  <1> QED
    BY <1>1, ChartInvHolds, PTL
===============================================================================
