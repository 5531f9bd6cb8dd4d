------------------------- MODULE RateLimiterProofs -------------------------
(***************************************************************************)
(* Proofs about RateLimiter, for any number of requests and addresses and  *)
(* any limit, window and lag (the lag no longer than the window).          *)
(***************************************************************************)
EXTENDS RateLimiter, FiniteSetTheorems, TLAPS

(* The requests counted in one window of an address.                        *)
CountedIn(a, start) == {r \in Passed(a) : window[r] = start}

(* A request is judged, and counted, about when it arrived.                 *)
Timely ==
  \A r \in Requests :
    /\ pc[r] = "waiting" => now[r] <= clock /\ clock <= now[r] + MaxLag
    /\ pc[r] = "passed" => /\ window[r] <= now[r] + MaxLag
                           /\ now[r] <= window[r] + Window

(* Two windows of one address start more than a window's length apart.      *)
Spaced ==
  \A a \in IPs : \A q, r \in Passed(a) :
    \/ window[q] = window[r]
    \/ window[q] + Window < window[r]
    \/ window[r] + Window < window[q]

(* The entry of an address is its latest window, its count exact.           *)
Current ==
  \A a \in DOMAIN entries :
    /\ Cardinality(CountedIn(a, entries[a].windowStart)) = entries[a].count
    /\ \A q \in Passed(a) : \/ window[q] = entries[a].windowStart
                            \/ window[q] + Window < entries[a].windowStart

(* What the cleanup has forgotten is long over.                             *)
Forgotten ==
  \A a \in IPs \ DOMAIN entries : \A q \in Passed(a) :
    window[q] + 2 * Window < clock

Capped == \A a \in IPs : \A start \in Nat : Cardinality(CountedIn(a, start)) <= Limit

RateInv == TypeOK /\ Timely /\ Spaced /\ Current /\ Forgotten /\ Capped

-----------------------------------------------------------------------------
(* Facts about the history.                                                 *)

LEMMA PassedFinite ==
  ASSUME NEW a
  PROVE  /\ IsFiniteSet(Passed(a)) /\ Cardinality(Passed(a)) \in Nat
         /\ \A S \in SUBSET Passed(a) : IsFiniteSet(S) /\ Cardinality(S) \in Nat
<1>1. IsFiniteSet(Passed(a))
  BY RateAssumption, FS_Subset DEF Passed
<1>2. \A S \in SUBSET Passed(a) : IsFiniteSet(S)
  BY <1>1, FS_Subset
<1> QED BY <1>1, <1>2, FS_CardinalityType

(* A step that lets nobody pass leaves the history of passed requests.      *)
LEMMA NobodyPasses ==
  ASSUME TypeOK, UNCHANGED <<ip, window>>,
         \A r \in Requests : pc'[r] = "passed" <=> pc[r] = "passed"
  PROVE  \A a : Passed(a)' = Passed(a) /\ \A s : CountedIn(a, s)' = CountedIn(a, s)
BY DEF TypeOK, Passed, CountedIn

-----------------------------------------------------------------------------
(* The invariant.                                                           *)

LEMMA RateInit == Init => RateInv
<1> SUFFICES ASSUME Init PROVE RateInv
  OBVIOUS
<1>1. \A a : Passed(a) = {} /\ \A s : CountedIn(a, s) = {}
  BY DEF Init, Passed, CountedIn
<1>2. DOMAIN entries = {}
  BY DEF Init
<1>3. Cardinality({}) = 0 /\ Limit \in Nat
  BY FS_EmptySet, RateAssumption
<1>4. Capped
  BY <1>1, <1>3 DEF Capped
<1> QED BY <1>1, <1>2, <1>4 DEF Init, RateInv, TypeOK, Timely, Spaced, Current, Forgotten

(* A request that finds no window, or one that is over, starts the next.    *)
LEMMA OpenWindowKeeps ==
  ASSUME RateInv, NEW r \in Requests, OpenWindow(r),
         NEW a, a = ip[r], NEW start, start = now[r]
  PROVE  RateInv'
<1> USE RateAssumption
<1>1. /\ TypeOK /\ pc[r] = "waiting" /\ a \in IPs /\ start \in Nat /\ clock \in Nat
      /\ start <= clock /\ clock <= start + MaxLag
  BY DEF RateInv, TypeOK, Timely, OpenWindow
<1>2. /\ r \notin Passed(a) /\ Passed(a)' = Passed(a) \cup {r}
      /\ \A b : b # a => Passed(b)' = Passed(b)
      /\ CountedIn(a, start)' = CountedIn(a, start) \cup {r}
      /\ \A b, t : b # a \/ t # start => CountedIn(b, t)' = CountedIn(b, t)
      /\ window'[r] = start /\ \A q \in Requests \ {r} : window'[q] = window[q]
  <2>1. /\ pc' = [pc EXCEPT ![r] = "passed"] /\ ip' = ip
        /\ window' = [window EXCEPT ![r] = start]
    BY DEF OpenWindow
  <2>2. \A q \in Requests : /\ pc'[q] = IF q = r THEN "passed" ELSE pc[q]
                            /\ window'[q] = IF q = r THEN start ELSE window[q]
    BY <1>1, <2>1 DEF TypeOK
  <2> QED BY <1>1, <2>1, <2>2 DEF Passed, CountedIn
<1>3. /\ \A b : Passed(b) \subseteq Requests
      /\ \A q \in Requests : window[q] \in Nat /\ now[q] \in Nat
  BY <1>1 DEF Passed, TypeOK
<1>4. \A q \in Passed(a) : window[q] + Window < start
  <2>1. CASE a \in DOMAIN entries
    <3>1. /\ entries[a].windowStart \in Nat
          /\ start > entries[a].windowStart + Window
      BY <1>1, <2>1 DEF TypeOK, OpenWindow, InWindow
    <3>2. \A q \in Passed(a) : \/ window[q] = entries[a].windowStart
                               \/ window[q] + Window < entries[a].windowStart
      BY <2>1 DEF RateInv, Current
    <3> QED BY <1>1, <1>3, <3>1, <3>2
  <2>2. CASE a \notin DOMAIN entries
    <3>1. \A q \in Passed(a) : window[q] + 2 * Window < clock
      BY <1>1, <2>2 DEF RateInv, Forgotten
    <3> QED BY <1>1, <1>3, <3>1
  <2> QED BY <2>1, <2>2
<1>5. CountedIn(a, start) = {}
  BY <1>1, <1>3, <1>4 DEF CountedIn
<1>6. Cardinality(CountedIn(a, start)') = 1
  <2>1. CountedIn(a, start)' = {r}
    BY <1>2, <1>5
  <2>2. Cardinality({r}) = 1
    BY FS_Singleton
  <2> QED BY <2>1, <2>2
<1>7. /\ DOMAIN entries' = DOMAIN entries \cup {a}
      /\ entries'[a] = [count |-> 1, windowStart |-> start]
      /\ \A b \in DOMAIN entries : b # a => entries'[b] = entries[b]
      /\ clock' = clock /\ ip' = ip /\ now' = now
  BY DEF OpenWindow
<1>8. TypeOK'
  BY <1>1, <1>7 DEF TypeOK, OpenWindow
<1>9. Timely'
  BY <1>1, <1>2, <1>3, <1>7 DEF RateInv, TypeOK, Timely, OpenWindow
<1>10. Spaced'
  <2> SUFFICES ASSUME NEW b \in IPs, NEW p \in Passed(b)', NEW q \in Passed(b)'
               PROVE  \/ window'[p] = window'[q]
                      \/ window'[p] + Window < window'[q]
                      \/ window'[q] + Window < window'[p]
    BY <1>7 DEF Spaced
  <2>1. CASE p # r /\ q # r
    BY <1>2, <1>3, <2>1 DEF RateInv, Spaced
  <2>2. CASE p = r \/ q = r
    <3>1. b = a
      BY <1>1, <1>7, <2>2 DEF Passed
    <3> QED BY <1>2, <1>3, <1>4, <2>2, <3>1
  <2> QED BY <2>1, <2>2
<1>11. Current'
  <2> SUFFICES ASSUME NEW b \in DOMAIN entries', NEW t, t = entries'[b].windowStart
               PROVE  /\ Cardinality(CountedIn(b, t)') = entries'[b].count
                      /\ \A q \in Passed(b)' : window'[q] = t \/ window'[q] + Window < t
    BY DEF Current, CountedIn
  <2>1. CASE b = a
    <3>1. t = start /\ entries'[b].count = 1
      BY <1>7, <2>1
    <3>2. \A q \in Passed(b)' : window'[q] = t \/ window'[q] + Window < t
      BY <1>2, <1>4, <2>1, <3>1, <1>3
    <3> QED BY <1>6, <2>1, <3>1, <3>2
  <2>2. CASE b # a
    <3>1. b \in DOMAIN entries /\ entries'[b] = entries[b]
      BY <1>7, <2>2
    <3>2. /\ Cardinality(CountedIn(b, t)) = entries[b].count
          /\ \A q \in Passed(b) : window[q] = t \/ window[q] + Window < t
      BY <3>1 DEF RateInv, Current
    <3>3. \A q \in Passed(b) : q # r
      BY <2>2 DEF Passed
    <3> QED BY <1>2, <1>3, <2>2, <3>1, <3>2, <3>3
  <2> QED BY <2>1, <2>2
<1>12. Forgotten'
  <2> SUFFICES ASSUME NEW b \in IPs, b \notin DOMAIN entries', NEW q \in Passed(b)'
               PROVE  window'[q] + 2 * Window < clock'
    BY DEF Forgotten
  <2>1. b # a /\ b \notin DOMAIN entries /\ q \in Passed(b) /\ q # r
    BY <1>2, <1>7 DEF Passed
  <2> QED BY <1>2, <1>3, <1>7, <2>1 DEF RateInv, Forgotten
<1>13. Capped'
  BY <1>2, <1>6 DEF RateInv, Capped
<1> QED BY <1>8, <1>9, <1>10, <1>11, <1>12, <1>13 DEF RateInv

(* A request that finds room in the current window of its address.          *)
LEMMA CountKeeps ==
  ASSUME RateInv, NEW r \in Requests, Count(r),
         NEW a, a = ip[r], NEW start, start = entries[a].windowStart
  PROVE  RateInv'
<1> USE RateAssumption
<1>1. /\ TypeOK /\ pc[r] = "waiting" /\ a \in IPs /\ a \in DOMAIN entries
      /\ start \in Nat /\ clock \in Nat /\ start <= clock
      /\ entries[a].count \in Nat /\ entries[a].count < Limit
      /\ now[r] \in Nat /\ now[r] <= start + Window /\ start <= now[r] + MaxLag
  BY DEF RateInv, TypeOK, Timely, Count, InWindow
<1>2. /\ r \notin Passed(a) /\ Passed(a)' = Passed(a) \cup {r}
      /\ \A b : b # a => Passed(b)' = Passed(b)
      /\ CountedIn(a, start)' = CountedIn(a, start) \cup {r}
      /\ \A b, t : b # a \/ t # start => CountedIn(b, t)' = CountedIn(b, t)
      /\ window'[r] = start /\ \A q \in Requests \ {r} : window'[q] = window[q]
  <2>1. /\ pc' = [pc EXCEPT ![r] = "passed"] /\ ip' = ip
        /\ window' = [window EXCEPT ![r] = start]
    BY DEF Count
  <2>2. \A q \in Requests : /\ pc'[q] = IF q = r THEN "passed" ELSE pc[q]
                            /\ window'[q] = IF q = r THEN start ELSE window[q]
    BY <1>1, <2>1 DEF TypeOK
  <2> QED BY <1>1, <2>1, <2>2 DEF Passed, CountedIn
<1>3. /\ \A b : Passed(b) \subseteq Requests
      /\ \A q \in Requests : window[q] \in Nat /\ now[q] \in Nat
  BY <1>1 DEF Passed, TypeOK
<1>4. \A q \in Passed(a) : window[q] = start \/ window[q] + Window < start
  BY <1>1 DEF RateInv, Current
<1>5. Cardinality(CountedIn(a, start)) = entries[a].count
  BY <1>1 DEF RateInv, Current
<1>6. Cardinality(CountedIn(a, start)') = entries[a].count + 1
  <2>1. IsFiniteSet(CountedIn(a, start)) /\ r \notin CountedIn(a, start)
    BY <1>2, PassedFinite DEF CountedIn
  <2>2. Cardinality(CountedIn(a, start) \cup {r}) = Cardinality(CountedIn(a, start)) + 1
    BY <2>1, FS_AddElement
  <2> QED BY <1>2, <1>5, <2>2
<1>7. /\ DOMAIN entries' = DOMAIN entries
      /\ entries'[a] = [count |-> entries[a].count + 1, windowStart |-> start]
      /\ \A b \in DOMAIN entries : b # a => entries'[b] = entries[b]
      /\ clock' = clock /\ ip' = ip /\ now' = now
  BY <1>1 DEF Count, TypeOK
<1>8. TypeOK'
  BY <1>1, <1>7 DEF TypeOK, Count
<1>9. Timely'
  BY <1>1, <1>2, <1>3, <1>7 DEF RateInv, TypeOK, Timely, Count
<1>10. Spaced'
  <2> SUFFICES ASSUME NEW b \in IPs, NEW p \in Passed(b)', NEW q \in Passed(b)'
               PROVE  \/ window'[p] = window'[q]
                      \/ window'[p] + Window < window'[q]
                      \/ window'[q] + Window < window'[p]
    BY <1>7 DEF Spaced
  <2>1. CASE p # r /\ q # r
    BY <1>2, <1>3, <2>1 DEF RateInv, Spaced
  <2>2. CASE p = r \/ q = r
    <3>1. b = a
      BY <1>1, <1>7, <2>2 DEF Passed
    <3> QED BY <1>2, <1>3, <1>4, <2>2, <3>1
  <2> QED BY <2>1, <2>2
<1>11. Current'
  <2> SUFFICES ASSUME NEW b \in DOMAIN entries', NEW t, t = entries'[b].windowStart
               PROVE  /\ Cardinality(CountedIn(b, t)') = entries'[b].count
                      /\ \A q \in Passed(b)' : window'[q] = t \/ window'[q] + Window < t
    BY DEF Current, CountedIn
  <2>1. CASE b = a
    <3>1. t = start /\ entries'[b].count = entries[a].count + 1
      BY <1>7, <2>1
    <3>2. \A q \in Passed(b)' : window'[q] = t \/ window'[q] + Window < t
      BY <1>2, <1>4, <2>1, <3>1, <1>3
    <3> QED BY <1>6, <2>1, <3>1, <3>2
  <2>2. CASE b # a
    <3>1. b \in DOMAIN entries /\ entries'[b] = entries[b]
      BY <1>7, <2>2
    <3>2. /\ Cardinality(CountedIn(b, t)) = entries[b].count
          /\ \A q \in Passed(b) : window[q] = t \/ window[q] + Window < t
      BY <3>1 DEF RateInv, Current
    <3>3. \A q \in Passed(b) : q # r
      BY <2>2 DEF Passed
    <3> QED BY <1>2, <1>3, <2>2, <3>1, <3>2, <3>3
  <2> QED BY <2>1, <2>2
<1>12. Forgotten'
  <2> SUFFICES ASSUME NEW b \in IPs, b \notin DOMAIN entries', NEW q \in Passed(b)'
               PROVE  window'[q] + 2 * Window < clock'
    BY DEF Forgotten
  <2>1. b # a /\ b \notin DOMAIN entries /\ q \in Passed(b) /\ q # r
    BY <1>1, <1>2, <1>7 DEF Passed
  <2> QED BY <1>2, <1>3, <1>7, <2>1 DEF RateInv, Forgotten
<1>13. Capped'
  <2> SUFFICES ASSUME NEW b \in IPs, NEW t \in Nat
               PROVE  Cardinality(CountedIn(b, t)') <= Limit
    BY DEF Capped
  <2>1. CASE b = a /\ t = start
    BY <1>1, <1>6, <2>1
  <2>2. CASE b # a \/ t # start
    BY <1>2, <2>2 DEF RateInv, Capped
  <2> QED BY <2>1, <2>2
<1> QED BY <1>8, <1>9, <1>10, <1>11, <1>12, <1>13 DEF RateInv

(* The cleanup forgets entries whose window ended a window ago, or longer.  *)
LEMMA CleanupKeeps ==
  ASSUME RateInv, Cleanup
  PROVE  RateInv'
<1> USE RateAssumption
<1>1. /\ DOMAIN entries' = {a \in DOMAIN entries :
                            clock <= entries[a].windowStart + 2 * Window}
      /\ \A a \in DOMAIN entries' : entries'[a] = entries[a]
      /\ UNCHANGED <<clock, pc, ip, now, window>>
  BY DEF Cleanup, Restrict
<1>2. \A a : Passed(a)' = Passed(a) /\ \A s : CountedIn(a, s)' = CountedIn(a, s)
  BY <1>1, NobodyPasses DEF RateInv
<1>3. /\ \A b : Passed(b) \subseteq Requests /\ clock \in Nat
      /\ \A q \in Requests : window[q] \in Nat
      /\ \A a \in DOMAIN entries : entries[a].windowStart \in Nat
  BY DEF Passed, RateInv, TypeOK
<1>4. TypeOK'
  BY <1>1 DEF RateInv, TypeOK
<1>5. Timely' /\ Spaced' /\ Capped'
  BY <1>1, <1>2 DEF RateInv, Timely, Spaced, Capped
<1>6. Current'
  <2> SUFFICES ASSUME NEW b \in DOMAIN entries', NEW t, t = entries'[b].windowStart
               PROVE  /\ Cardinality(CountedIn(b, t)') = entries'[b].count
                      /\ \A q \in Passed(b)' : window'[q] = t \/ window'[q] + Window < t
    BY DEF Current, CountedIn
  <2> QED BY <1>1, <1>2 DEF RateInv, Current
<1>7. Forgotten'
  <2> SUFFICES ASSUME NEW b \in IPs, b \notin DOMAIN entries', NEW q \in Passed(b)'
               PROVE  window'[q] + 2 * Window < clock'
    BY DEF Forgotten
  <2>1. q \in Passed(b)
    BY <1>2
  <2>2. CASE b \in DOMAIN entries
    <3>1. \/ window[q] = entries[b].windowStart
          \/ window[q] + Window < entries[b].windowStart
      BY <2>1, <2>2 DEF RateInv, Current
    <3>2. clock > entries[b].windowStart + 2 * Window
      BY <1>1, <1>3, <2>2
    <3> QED BY <1>1, <1>3, <2>1, <2>2, <3>1, <3>2
  <2>3. CASE b \notin DOMAIN entries
    BY <1>1, <2>1, <2>3 DEF RateInv, Forgotten
  <2> QED BY <2>2, <2>3
<1> QED BY <1>4, <1>5, <1>6, <1>7 DEF RateInv

(* Arrivals, rejections and the clock let nobody pass and keep the entries. *)
LEMMA OthersKeep ==
  ASSUME RateInv, Tick \/ \E r \in Requests : Arrive(r) \/ Reject(r)
  PROVE  RateInv'
<1> USE RateAssumption
<1>1. /\ UNCHANGED <<entries, ip, window>> /\ clock' \in Nat /\ clock <= clock'
      /\ clock \in Nat
  BY DEF RateInv, TypeOK, Tick, Arrive, Reject
<1>2. \A q \in Requests : pc'[q] = "passed" <=> pc[q] = "passed"
  BY DEF RateInv, TypeOK, Tick, Arrive, Reject
<1>3. \A a : Passed(a)' = Passed(a) /\ \A s : CountedIn(a, s)' = CountedIn(a, s)
  BY <1>1, <1>2, NobodyPasses DEF RateInv
<1>4. TypeOK'
  BY <1>1 DEF RateInv, TypeOK, Tick, Arrive, Reject
<1>5. Timely'
  <2>1. CASE Tick
    BY <2>1 DEF RateInv, TypeOK, Timely, Tick
  <2>2. CASE \E r \in Requests : Arrive(r) \/ Reject(r)
    BY <2>2 DEF RateInv, TypeOK, Timely, Arrive, Reject
  <2> QED BY <2>1, <2>2
<1>6. Spaced' /\ Capped'
  BY <1>1, <1>3 DEF RateInv, Spaced, Capped
<1>7. Current'
  <2> SUFFICES ASSUME NEW b \in DOMAIN entries', NEW t, t = entries'[b].windowStart
               PROVE  /\ Cardinality(CountedIn(b, t)') = entries'[b].count
                      /\ \A q \in Passed(b)' : window'[q] = t \/ window'[q] + Window < t
    BY DEF Current, CountedIn
  <2> QED BY <1>1, <1>3 DEF RateInv, Current
<1>8. Forgotten'
  <2> SUFFICES ASSUME NEW b \in IPs, b \notin DOMAIN entries', NEW q \in Passed(b)'
               PROVE  window'[q] + 2 * Window < clock'
    BY DEF Forgotten
  <2>1. q \in Requests /\ window[q] \in Nat /\ window[q] + 2 * Window < clock
    BY <1>1, <1>3 DEF RateInv, TypeOK, Forgotten, Passed
  <2> QED BY <1>1, <2>1
<1> QED BY <1>4, <1>5, <1>6, <1>7, <1>8 DEF RateInv

LEMMA RateInvStep == RateInv /\ [Next]_vars => RateInv'
<1> SUFFICES ASSUME RateInv, [Next]_vars PROVE RateInv'
  OBVIOUS
<1>1. ASSUME NEW r \in Requests, OpenWindow(r) PROVE RateInv'
  BY <1>1, OpenWindowKeeps
<1>2. ASSUME NEW r \in Requests, Count(r) PROVE RateInv'
  BY <1>2, CountKeeps
<1>3. CASE UNCHANGED vars
  BY <1>3 DEF vars, RateInv, TypeOK, Timely, Spaced, Current, Forgotten, Capped,
     Passed, CountedIn
<1> QED
  BY <1>1, <1>2, <1>3, CleanupKeeps, OthersKeep DEF Next, Middleware

-----------------------------------------------------------------------------
(* Theorems.                                                                *)

(* In every reachable state the history of an address is a sequence of      *)
(* windows, more than Window apart, of at most Limit requests each, and its *)
(* entry is the last of them with an exact count.                           *)
THEOREM WindowsAreSeparate == Spec => []RateInv
<1> QED BY RateInit, RateInvStep, PTL DEF Spec

(* Every reachable state of the limiter is well typed; no counter passes the *)
(* limit and no window starts in the future.                                *)
THEOREM RateTypeCorrect == Spec => []TypeOK
<1>1. RateInv => TypeOK
  BY DEF RateInv
<1> QED BY <1>1, WindowsAreSeparate, PTL

(* Of three requests of one address within Window - MaxLag, two were        *)
(* counted in the same window.                                              *)
LEMMA TwoWindowsAtMost ==
  ASSUME RateInv, NEW a \in IPs, NEW from \in Nat,
         NEW p \in PassedWithin(a, from, Window - MaxLag),
         NEW q \in PassedWithin(a, from, Window - MaxLag),
         NEW r \in PassedWithin(a, from, Window - MaxLag)
  PROVE  window[p] = window[q] \/ window[q] = window[r] \/ window[p] = window[r]
<1>1. \A x \in {p, q, r} :
        /\ x \in Passed(a) /\ window[x] \in Nat /\ now[x] \in Nat
        /\ window[x] <= now[x] + MaxLag /\ now[x] <= window[x] + Window
        /\ from <= now[x] /\ now[x] <= from + (Window - MaxLag)
  BY DEF RateInv, TypeOK, Timely, PassedWithin, Passed
<1>2. \A x, y \in {p, q, r} : \/ window[x] = window[y]
                              \/ window[x] + Window < window[y]
                              \/ window[y] + Window < window[x]
  BY <1>1 DEF RateInv, Spaced
<1>3. Window \in Nat /\ MaxLag \in Nat
  BY RateAssumption
<1> QED BY <1>1, <1>2, <1>3

LEMMA AtMostTwiceHolds == RateInv => AtMostTwice
<1> SUFFICES ASSUME RateInv, NEW a \in IPs, NEW from \in 0..MaxTime
             PROVE  Cardinality(PassedWithin(a, from, Window - MaxLag)) <= 2 * Limit
  BY DEF AtMostTwice
<1> DEFINE S == PassedWithin(a, from, Window - MaxLag)
<1>1. from \in Nat /\ Limit \in Nat
  BY RateAssumption
<1>2. S \subseteq Passed(a) /\ IsFiniteSet(S) /\ Cardinality(S) \in Nat
  BY PassedFinite DEF PassedWithin
<1>3. \A x \in S : window[x] \in Nat
  BY DEF RateInv, TypeOK, PassedWithin, Passed
<1>4. \A t : /\ IsFiniteSet(CountedIn(a, t)) /\ Cardinality(CountedIn(a, t)) \in Nat
  BY PassedFinite DEF CountedIn
<1>5. \A t \in Nat : Cardinality(CountedIn(a, t)) <= Limit
  BY DEF RateInv, Capped
<1>6. \E s, t \in Nat : S \subseteq CountedIn(a, s) \cup CountedIn(a, t)
  <2>1. CASE S = {}
    BY <2>1
  <2>2. CASE S # {}
    <3>1. PICK p \in S : TRUE
      BY <2>2
    <3>2. CASE \A x \in S : window[x] = window[p]
      BY <1>2, <1>3, <3>1, <3>2 DEF CountedIn
    <3>3. CASE \E x \in S : window[x] # window[p]
      <4>1. PICK q \in S : window[q] # window[p]
        BY <3>3
      <4>2. \A x \in S : window[x] = window[p] \/ window[x] = window[q]
        BY <1>1, <3>1, <4>1, TwoWindowsAtMost
      <4>3. S \subseteq CountedIn(a, window[p]) \cup CountedIn(a, window[q])
        BY <1>2, <4>2 DEF CountedIn
      <4> QED BY <1>3, <3>1, <4>3
    <3> QED BY <3>2, <3>3
  <2> QED BY <2>1, <2>2
<1>7. PICK s \in Nat, t \in Nat : S \subseteq CountedIn(a, s) \cup CountedIn(a, t)
  BY <1>6
<1> DEFINE A == CountedIn(a, s)
           B == CountedIn(a, t)
<1>8. IsFiniteSet(A) /\ IsFiniteSet(B) /\ Cardinality(A) \in Nat /\ Cardinality(B) \in Nat
      /\ Cardinality(A) <= Limit /\ Cardinality(B) <= Limit
  BY <1>4, <1>5
<1> HIDE DEF A, B
<1>9. /\ IsFiniteSet(A \cup B)
      /\ Cardinality(A \cup B)
           = Cardinality(A) + Cardinality(B) - Cardinality(A \cap B)
  BY <1>8, FS_Union
<1>10. Cardinality(A \cap B) \in Nat
  BY <1>8, FS_Intersection, FS_CardinalityType
<1>11. Cardinality(S) <= Cardinality(A \cup B)
  BY <1>7, <1>9, FS_Subset DEF A, B
<1> QED BY <1>1, <1>2, <1>8, <1>9, <1>10, <1>11

(* An address never passes more than twice its limit in a window's length,  *)
(* less the lag.                                                            *)
THEOREM AtMostTwiceTheLimit == Spec => []AtMostTwice
BY WindowsAreSeparate, AtMostTwiceHolds, PTL

-----------------------------------------------------------------------------

(* The requests around r that the limiter has let pass for its address.     *)
Around(r) == {q \in Passed(ip[r]) : /\ now[q] <= now[r] + Window + MaxLag
                                    /\ now[r] <= now[q] + Window + MaxLag}

LEMMA RejectionStep ==
  RateInv /\ RejectedOnlyWhenFull /\ [Next]_vars => RejectedOnlyWhenFull'
<1> SUFFICES ASSUME RateInv, RejectedOnlyWhenFull, [Next]_vars,
                    NEW r \in Requests, pc'[r] = "rejected"
             PROVE  Limit <= Cardinality(Around(r)')
  BY DEF RejectedOnlyWhenFull, Around
<1>1. TypeOK /\ Limit \in Nat /\ Window \in Nat /\ MaxLag \in Nat
  BY RateAssumption DEF RateInv
<1>2. IsFiniteSet(Around(r)) /\ Cardinality(Around(r)) \in Nat
  BY PassedFinite DEF Around
<1>3. IsFiniteSet(Around(r)') /\ Cardinality(Around(r)') \in Nat
  <2>1. Around(r)' \in SUBSET Requests
    BY DEF Around, Passed
  <2> QED BY <2>1, RateAssumption, FS_Subset, FS_CardinalityType
<1>4. CASE pc[r] = "rejected"
  <2>1. \A q \in Requests : pc[q] = "passed" => pc'[q] = "passed" /\ now'[q] = now[q]
    BY <1>1 DEF TypeOK, Next, vars, Middleware, Tick, Cleanup, Arrive, OpenWindow,
       Reject, Count
  <2>2. now'[r] = now[r] /\ ip' = ip
    BY <1>1, <1>4 DEF TypeOK, Next, vars, Middleware, Tick, Cleanup, Arrive, OpenWindow,
       Reject, Count
  <2>3. Around(r) \subseteq Around(r)'
    BY <2>1, <2>2 DEF Around, Passed
  <2>4. Limit <= Cardinality(Around(r))
    BY <1>4 DEF RejectedOnlyWhenFull, Around
  <2>5. Cardinality(Around(r)) <= Cardinality(Around(r)')
    BY <1>3, <2>3, FS_Subset
  <2> QED BY <1>1, <1>2, <1>3, <2>4, <2>5
<1>5. CASE pc[r] # "rejected"
  <2>1. Reject(r)
    BY <1>1, <1>5 DEF TypeOK, Next, vars, Middleware, Tick, Cleanup, Arrive, OpenWindow,
       Reject, Count
  <2>2. PICK start \in Nat : start = entries[ip[r]].windowStart
    BY <1>1, <2>1 DEF TypeOK, Reject, InWindow
  <2>3. /\ now[r] <= start + Window /\ start <= now[r] + MaxLag
        /\ Limit <= entries[ip[r]].count
        /\ Cardinality(CountedIn(ip[r], start)) = entries[ip[r]].count
        /\ entries[ip[r]].count \in Nat /\ now[r] \in Nat
    BY <1>1, <2>1, <2>2, RateAssumption DEF RateInv, TypeOK, Timely, Current, Reject, InWindow
  <2>4. \A q \in CountedIn(ip[r], start) :
          /\ q \in Passed(ip[r]) /\ now[q] \in Nat
          /\ start <= now[q] + MaxLag /\ now[q] <= start + Window
    BY DEF RateInv, TypeOK, Timely, CountedIn, Passed
  <2>5. CountedIn(ip[r], start) \subseteq Around(r)
    BY <1>1, <2>2, <2>3, <2>4 DEF Around
  <2>6. Around(r) = Around(r)'
    BY <1>1, <2>1 DEF Reject, Around, Passed, TypeOK
  <2>7. Cardinality(CountedIn(ip[r], start)) <= Cardinality(Around(r))
    BY <1>2, <2>5, FS_Subset
  <2> QED BY <1>1, <1>2, <2>3, <2>6, <2>7
<1> QED BY <1>4, <1>5

(* Nobody is turned away whose own address did not use up a window.         *)
THEOREM RejectionsAreDue == Spec => []RejectedOnlyWhenFull
<1>1. Init => RejectedOnlyWhenFull
  BY DEF Init, RejectedOnlyWhenFull
<1> QED BY <1>1, RejectionStep, WindowsAreSeparate, PTL DEF Spec

=============================================================================
