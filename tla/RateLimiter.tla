---------------------------- MODULE RateLimiter ----------------------------
(***************************************************************************)
(* IPRateLimiter of the Go backend: one counter and one window per client  *)
(* address. A request reads the clock before it takes the mutex, so it may *)
(* be judged by a time that has passed, and after requests that came later.*)
(***************************************************************************)
EXTENDS Naturals, FiniteSets, Functions

CONSTANTS
  Requests,  \* requests that reach the middleware
  IPs,       \* client addresses
  Limit,     \* requests allowed in one window
  Window,    \* length of a window
  MaxLag,    \* bound on the time between reading the clock and the mutex
  MaxTime    \* bound on the clock

ASSUME RateAssumption ==
  /\ IsFiniteSet(Requests)
  /\ Limit \in Nat \ {0} /\ Window \in Nat \ {0} /\ MaxTime \in Nat
  /\ MaxLag \in 0..Window

VARIABLES
  clock,
  entries,  \* rl.entries: address -> [count, windowStart]
  pc,       \* "idle", "waiting" for the mutex, "passed" or "rejected"
  ip,       \* the address of each request
  now,      \* the time each request read
  window    \* history: the start of the window a passed request is counted in

vars == <<clock, entries, pc, ip, now, window>>

Init ==
  /\ clock = 0 /\ entries = <<>>
  /\ pc = [r \in Requests |-> "idle"]
  /\ ip \in [Requests -> IPs]
  /\ now = [r \in Requests |-> 0] /\ window = [r \in Requests |-> 0]

(* now := time.Now(), before rl.mu.Lock().                                  *)
Arrive(r) ==
  /\ pc[r] = "idle"
  /\ pc' = [pc EXCEPT ![r] = "waiting"]
  /\ now' = [now EXCEPT ![r] = clock]
  /\ UNCHANGED <<clock, entries, ip, window>>

KnownAddress(r) == ip[r] \in DOMAIN entries  \* mutant: a window never ends

(* exists and now.Sub(entry.windowStart) <= rl.window                       *)
InWindow(r) ==
  /\ ip[r] \in DOMAIN entries
  /\ now[r] <= entries[ip[r]].windowStart + Window

OpenWindow(r) ==
  /\ pc[r] = "waiting" /\ ~InWindow(r)
  /\ entries' = [a \in DOMAIN entries \cup {ip[r]} |->
       IF a = ip[r] THEN [count |-> 1, windowStart |-> now[r]] ELSE entries[a]]
  /\ pc' = [pc EXCEPT ![r] = "passed"]
  /\ window' = [window EXCEPT ![r] = now[r]]
  /\ UNCHANGED <<clock, ip, now>>

Reject(r) ==
  /\ pc[r] = "waiting" /\ InWindow(r) /\ entries[ip[r]].count >= Limit
  /\ pc' = [pc EXCEPT ![r] = "rejected"]
  /\ UNCHANGED <<clock, entries, ip, now, window>>

CountOneMore(r) ==  \* mutant: the limit is compared after the increment
  /\ pc[r] = "waiting" /\ InWindow(r) /\ entries[ip[r]].count <= Limit
  /\ entries' = [entries EXCEPT ![ip[r]].count = @ + 1]
  /\ pc' = [pc EXCEPT ![r] = "passed"]
  /\ window' = [window EXCEPT ![r] = entries[ip[r]].windowStart]
  /\ UNCHANGED <<clock, ip, now>>

Count(r) ==
  /\ pc[r] = "waiting" /\ InWindow(r) /\ entries[ip[r]].count < Limit
  /\ entries' = [entries EXCEPT ![ip[r]].count = @ + 1]
  /\ pc' = [pc EXCEPT ![r] = "passed"]
  /\ window' = [window EXCEPT ![r] = entries[ip[r]].windowStart]
  /\ UNCHANGED <<clock, ip, now>>

EagerCleanup ==  \* mutant: the cleanup does not spare the current window
  /\ entries' = Restrict(entries, {a \in DOMAIN entries :
                                     clock <= entries[a].windowStart})
  /\ UNCHANGED <<clock, pc, ip, now, window>>

(* The ticker goroutine of NewIPRateLimiter, which may run at any time.     *)
Cleanup ==
  /\ entries' = Restrict(entries, {a \in DOMAIN entries :
                                     clock <= entries[a].windowStart + 2 * Window})
  /\ UNCHANGED <<clock, pc, ip, now, window>>

Tick ==
  /\ clock < MaxTime
  /\ \A r \in Requests : pc[r] = "waiting" => clock < now[r] + MaxLag
  /\ clock' = clock + 1
  /\ UNCHANGED <<entries, pc, ip, now, window>>

Middleware(r) == Arrive(r) \/ OpenWindow(r) \/ Reject(r) \/ Count(r)

Next == Tick \/ Cleanup \/ \E r \in Requests : Middleware(r)

Spec == Init /\ [][Next]_vars

-----------------------------------------------------------------------------
(* Properties.                                                              *)

(* The values the limiter's variables can take; a counter never passes the  *)
(* limit and a window never starts in the future.                           *)
TypeOK ==
  /\ clock \in Nat
  /\ DOMAIN entries \subseteq IPs
  /\ \A a \in DOMAIN entries :
       entries[a] \in [count : 1..Limit, windowStart : 0..clock]
  /\ pc \in [Requests -> {"idle", "waiting", "passed", "rejected"}]
  /\ ip \in [Requests -> IPs]
  /\ now \in [Requests -> Nat] /\ window \in [Requests -> Nat]

Passed(a) == {r \in Requests : pc[r] = "passed" /\ ip[r] = a}

PassedWithin(a, from, span) ==
  {r \in Passed(a) : from <= now[r] /\ now[r] <= from + span}

(* Fixed windows let one address pass at most twice the limit in any        *)
(* stretch of a window's length, less the time a request may wait for the   *)
(* mutex; the cleanup and requests judged late do not change that.          *)
AtMostTwice ==
  \A a \in IPs : \A from \in 0..MaxTime :
    Cardinality(PassedWithin(a, from, Window - MaxLag)) <= 2 * Limit

(* A request is turned away only if its own address passed Limit requests   *)
(* about a window's length around it: no lockout once a window is over, no  *)
(* counting of rejected requests, no counting of other addresses.           *)
RejectedOnlyWhenFull ==
  \A r \in Requests : pc[r] = "rejected" =>
    Limit <= Cardinality({q \in Passed(ip[r]) :
               /\ now[q] <= now[r] + Window + MaxLag
               /\ now[r] <= now[q] + Window + MaxLag})

=============================================================================
