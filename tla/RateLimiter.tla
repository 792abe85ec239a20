------------------------------ MODULE RateLimiter ------------------------------
(***************************************************************************)
(* The bounded fixed-window limiter of the core, the wallet and the control *)
(* plane (rate-limiter/in-memory.ts, wallet lib/rate-limit.ts): a map from  *)
(* keys to the start of a window and the requests counted in it.            *)
(***************************************************************************)
EXTENDS Integers, FiniteSets

\* windowS, limit and maxKeys of one limiter.
Limiter(window, limit, maxKeys) == [window |-> window, limit |-> limit, maxKeys |-> maxKeys]
NoWindows == [key \in {} |-> 0]

Expired(limiter, windows, key, now) == now - windows[key].windowStart >= limiter.window
\* A request under this key opens a window, and is allowed.
Opens(limiter, windows, key, now) ==
  key \notin DOMAIN windows \/ Expired(limiter, windows, key, now)

Keep(windows, keys) == [k \in keys |-> windows[k]]

\* evict: expired windows go first; if the map is still at its cap, so does an
\* oldest one (one is enough, the map never grows past the cap).
Evictions(limiter, windows, now) ==
  LET live == {k \in DOMAIN windows : ~Expired(limiter, windows, k, now)}
      oldest == {k \in live : \A j \in live : windows[k].windowStart <= windows[j].windowStart}
  IN  IF Cardinality(live) < limiter.maxKeys
        THEN {Keep(windows, live)}
        ELSE {Keep(windows, live \ {k}) : k \in oldest}

\* Mutant of Counted: a new key is set whatever the size of the map.
CountedUnbounded(limiter, windows, key, now) ==
  IF ~Opens(limiter, windows, key, now)
    THEN {[windows EXCEPT ![key].count = @ + 1]}
    ELSE {[k \in DOMAIN windows \cup {key} |->
             IF k = key THEN [windowStart |-> now, count |-> 1] ELSE windows[k]]}

\* What the map may be once a request under key was counted.
Counted(limiter, windows, key, now) ==
  IF ~Opens(limiter, windows, key, now)
    THEN {[windows EXCEPT ![key].count = @ + 1]}
    ELSE LET full == key \notin DOMAIN windows /\ Cardinality(DOMAIN windows) >= limiter.maxKeys
             kept == IF full THEN Evictions(limiter, windows, now) ELSE {windows}
         IN  {[k \in DOMAIN w \cup {key} |->
                 IF k = key THEN [windowStart |-> now, count |-> 1] ELSE w[k]] : w \in kept}

Allowed(limiter, windows, key, now) ==
  Opens(limiter, windows, key, now) \/ windows[key].count + 1 <= limiter.limit

===============================================================================
