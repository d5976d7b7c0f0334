----------------------------- MODULE SelfCheck -----------------------------
(***************************************************************************)
(* internal/tools/ops.go: self_check, which logs in for real but at most   *)
(* once per account and selfCheckMinInterval, and gives everybody else the *)
(* result of that attempt.                                                 *)
(*                                                                         *)
(* A call resolves its account, joins or leads the account's flight, reads *)
(* the cache, looks at the clock, waits for the account's login lock, logs *)
(* in, stores the result and returns it to the whole flight.  The lock is  *)
(* shared with the ordinary logins of ClientPool, which appear here as     *)
(* another holder that comes and goes.                                     *)
(***************************************************************************)
EXTENDS Integers

CONSTANTS
  Callers,    \* calls of self_check
  Accounts,   \* account keys
  AccountOf,  \* what ResolveAccountKey finds for each call
  NoAccount,  \* ResolveAccountKey fails
  Interval,   \* selfCheckMinInterval, in ticks
  MaxClock,   \* bound on the clock
  Outcomes,   \* bound: the outcomes of Login that an instance tries
  Nobody,     \* no leader, no holder
  Other,      \* buildAndLogin of the client pool, holding a login lock
  NoResult    \* no cache entry, no result yet

\* What Login may come to.  A cancelled context is that of the leader's own
\* request: probe(ctx, id) runs under no other.
Errors == {"nil", "invalid credentials", "two-factor invalid", "unreachable",
           "context cancelled"}
NotBuilt == "no client"  \* what NewClient may come to

ASSUME SelfCheckAssumption ==
  /\ AccountOf \in [Callers -> Accounts \cup {NoAccount}]
  /\ NoAccount \notin Accounts
  /\ Interval \in Nat \ {0}
  /\ MaxClock \in Nat
  /\ Outcomes \subseteq Errors
  /\ Nobody \notin Callers /\ Other \notin Callers /\ Nobody # Other
  /\ NoResult \notin [overall : {"ok", "degraded", "down"}, at : Nat,
                      cached : BOOLEAN]

VARIABLES
  clock,     \* time.Now()
  stage,     \* where each call stands
  flight,    \* selfCheckGroup: the leader of each account's flight
  joined,    \* the leader whose flight each call waits for
  entry,     \* selfCheckCache.byAccount
  seen,      \* the cache entry each leader read
  now,       \* the time each leader took
  lock,      \* loginLock of each account: who holds it
  result,    \* each leader's result, each answered call's answer
  attempts,  \* history: real logins begun at each account
  made       \* history: the errors and times of each account's attempts

vars == <<clock, stage, flight, joined, entry, seen, now, lock, result,
          attempts, made>>

Stages == {"idle", "waiting", "reading", "deciding", "locking", "locked",
           "login", "storing", "returning", "answered", "refused"}

Overall == {"ok", "degraded", "down"}
Results == [overall : Overall, at : Nat, cached : BOOLEAN]

classifySelfCheckOutcome(err) ==
  CASE err = "nil" -> "ok"
    [] err \in {"invalid credentials", "two-factor invalid"} -> "degraded"
    [] OTHER -> "down"

GoTo(c, s) == stage' = [stage EXCEPT ![c] = s]

-----------------------------------------------------------------------------
Init ==
  /\ clock = 0
  /\ stage = [c \in Callers |-> "idle"]
  /\ flight = [a \in Accounts |-> Nobody]
  /\ joined = [c \in Callers |-> Nobody]
  /\ entry = [a \in Accounts |-> NoResult]
  /\ seen = [c \in Callers |-> NoResult]
  /\ now = [c \in Callers |-> 0]
  /\ lock = [a \in Accounts |-> Nobody]
  /\ result = [c \in Callers |-> NoResult]
  /\ attempts = [a \in Accounts |-> 0]
  /\ made = [a \in Accounts |-> {}]

\* ResolveAccountKey finds no account: no flight, no login, an error.
Refuse(c) ==
  /\ stage[c] = "idle"
  /\ AccountOf[c] = NoAccount
  /\ GoTo(c, "refused")
  /\ UNCHANGED <<clock, flight, joined, entry, seen, now, lock, result,
                 attempts, made>>

\* Variant: without selfCheckGroup, every call for itself.
DoAlone(c) ==
  LET a == AccountOf[c] IN
  /\ stage[c] = "idle"
  /\ a # NoAccount
  /\ GoTo(c, "reading")
  /\ joined' = [joined EXCEPT ![c] = c]
  /\ flight' = [flight EXCEPT ![a] = c]
  /\ UNCHANGED <<clock, entry, seen, now, lock, result, attempts, made>>

\* Variant: one flight for all accounts.
DoTogether(c) ==
  LET a    == AccountOf[c]
      busy == {flight[b] : b \in Accounts} \ {Nobody}
      lead == IF busy = {} THEN c ELSE CHOOSE l \in busy : TRUE
  IN
  /\ stage[c] = "idle"
  /\ a # NoAccount
  /\ GoTo(c, IF lead = c THEN "reading" ELSE "waiting")
  /\ flight' = IF lead = c THEN [flight EXCEPT ![a] = c] ELSE flight
  /\ joined' = [joined EXCEPT ![c] = lead]
  /\ UNCHANGED <<clock, entry, seen, now, lock, result, attempts, made>>

\* selfCheckGroup.Do: lead the account's flight or wait for its leader.
Do(c) ==
  LET a == AccountOf[c] IN
  /\ stage[c] = "idle"
  /\ a # NoAccount
  /\ \/ /\ flight[a] = Nobody
        /\ flight' = [flight EXCEPT ![a] = c]
        /\ joined' = [joined EXCEPT ![c] = c]
        /\ GoTo(c, "reading")
     \/ /\ flight[a] # Nobody
        /\ joined' = [joined EXCEPT ![c] = flight[a]]
        /\ GoTo(c, "waiting")
        /\ UNCHANGED flight
  /\ UNCHANGED <<clock, entry, seen, now, lock, result, attempts, made>>

\* The entry is read under selfCheckCache.mu.
ReadCache(c) ==
  /\ stage[c] = "reading"
  /\ seen' = [seen EXCEPT ![c] = entry[AccountOf[c]]]
  /\ GoTo(c, "deciding")
  /\ UNCHANGED <<clock, flight, joined, entry, now, lock, result, attempts,
                 made>>

\* The entry read is less than the interval old.
Young(c) == seen[c] # NoResult /\ clock - seen[c].at < Interval

\* Variant: the entry itself is marked as cached, not a copy of it.
DecideInPlace(c) ==
  /\ stage[c] = "deciding"
  /\ now' = [now EXCEPT ![c] = clock]
  /\ \/ /\ Young(c)
        /\ entry' = [entry EXCEPT ![AccountOf[c]].cached = TRUE]
        /\ result' = [result EXCEPT ![c] = entry'[AccountOf[c]]]
        /\ GoTo(c, "returning")
     \/ /\ ~Young(c)
        /\ GoTo(c, "locking")
        /\ UNCHANGED <<entry, result>>
  /\ UNCHANGED <<clock, flight, joined, seen, lock, attempts, made>>

\* The clock is read and the entry, if young enough, is the answer.
Decide(c) ==
  /\ stage[c] = "deciding"
  /\ now' = [now EXCEPT ![c] = clock]
  /\ \/ /\ Young(c)
        /\ result' = [result EXCEPT ![c] = [seen[c] EXCEPT !.cached = TRUE]]
        /\ GoTo(c, "returning")
     \/ /\ ~Young(c)
        /\ GoTo(c, "locking")
        /\ UNCHANGED result
  /\ UNCHANGED <<clock, flight, joined, entry, seen, lock, attempts, made>>

\* ProbeLogin waits for the account's login lock.
LockLogin(c) ==
  LET a == AccountOf[c] IN
  /\ stage[c] = "locking"
  /\ lock[a] = Nobody
  /\ lock' = [lock EXCEPT ![a] = c]
  /\ GoTo(c, "locked")
  /\ UNCHANGED <<clock, flight, joined, entry, seen, now, result, attempts,
                 made>>

\* The throwaway client is built and its login begins.
BeginLogin(c) ==
  LET a == AccountOf[c] IN
  /\ stage[c] = "locked"
  /\ attempts' = [attempts EXCEPT ![a] = @ + 1]
  /\ GoTo(c, "login")
  /\ UNCHANGED <<clock, flight, joined, entry, seen, now, lock, result, made>>

\* ProbeLogin returns err and gives the lock back; its verdict is kept.
Ends(c, err) ==
  LET a == AccountOf[c]
      r == [overall |-> classifySelfCheckOutcome(err), at |-> now[c],
            cached |-> FALSE]
  IN
  /\ lock' = [lock EXCEPT ![a] = Nobody]
  /\ result' = [result EXCEPT ![c] = r]
  /\ made' = [made EXCEPT ![a] = @ \cup {<<err, r.at>>}]
  /\ GoTo(c, "storing")
  /\ UNCHANGED <<clock, flight, joined, entry, seen, now, attempts>>

\* NewClient fails: ProbeLogin ends without having logged in.
BuildFails(c) == stage[c] = "locked" /\ Ends(c, NotBuilt)

\* Login returns, with any result.
LoginReturns(c) == stage[c] = "login" /\ \E err \in Outcomes : Ends(c, err)

\* Variant: only a valid login is worth caching.
StoreOk(c) ==
  /\ stage[c] = "storing"
  /\ entry' = IF result[c].overall = "ok"
              THEN [entry EXCEPT ![AccountOf[c]] = result[c]] ELSE entry
  /\ GoTo(c, "returning")
  /\ UNCHANGED <<clock, flight, joined, seen, now, lock, result, attempts,
                 made>>

\* The result goes into the cache under selfCheckCache.mu.
Store(c) ==
  /\ stage[c] = "storing"
  /\ entry' = [entry EXCEPT ![AccountOf[c]] = result[c]]
  /\ GoTo(c, "returning")
  /\ UNCHANGED <<clock, flight, joined, seen, now, lock, result, attempts,
                 made>>

\* The flight lands: the leader and all who wait for it have the result.
Return(c) ==
  LET landed == {d \in Callers : stage[d] = "waiting" /\ joined[d] = c} \cup {c}
  IN
  /\ stage[c] = "returning"
  /\ flight' = [flight EXCEPT ![AccountOf[c]] = Nobody]
  /\ stage' = [d \in Callers |-> IF d \in landed THEN "answered" ELSE stage[d]]
  /\ result' = [d \in Callers |-> IF d \in landed THEN result[c] ELSE result[d]]
  /\ UNCHANGED <<clock, joined, entry, seen, now, lock, attempts, made>>

\* An ordinary login takes the lock, and gives it back.
OtherLocks(a) ==
  /\ lock[a] = Nobody
  /\ lock' = [lock EXCEPT ![a] = Other]
  /\ UNCHANGED <<clock, stage, flight, joined, entry, seen, now, result,
                 attempts, made>>

OtherUnlocks(a) ==
  /\ lock[a] = Other
  /\ lock' = [lock EXCEPT ![a] = Nobody]
  /\ UNCHANGED <<clock, stage, flight, joined, entry, seen, now, result,
                 attempts, made>>

Tick ==
  /\ clock < MaxClock
  /\ clock' = clock + 1
  /\ UNCHANGED <<stage, flight, joined, entry, seen, now, lock, result,
                 attempts, made>>

Step(c) ==
  \/ Refuse(c) \/ Do(c) \/ ReadCache(c) \/ Decide(c) \/ LockLogin(c)
  \/ BeginLogin(c) \/ BuildFails(c) \/ LoginReturns(c) \/ Store(c) \/ Return(c)

Next ==
  \/ \E c \in Callers : Step(c)
  \/ \E a \in Accounts : OtherLocks(a) \/ OtherUnlocks(a)
  \/ Tick

Spec == Init /\ [][Next]_vars

-----------------------------------------------------------------------------
\* The cache holds real results only, never one already served from it.
SelfCheckTypeOK ==
  /\ clock \in Nat
  /\ stage \in [Callers -> Stages]
  /\ flight \in [Accounts -> Callers \cup {Nobody}]
  /\ joined \in [Callers -> Callers \cup {Nobody}]
  /\ entry \in [Accounts -> {r \in Results : ~r.cached} \cup {NoResult}]
  /\ seen \in [Callers -> Results \cup {NoResult}]
  /\ now \in [Callers -> Nat]
  /\ lock \in [Accounts -> Callers \cup {Nobody, Other}]
  /\ result \in [Callers -> Results \cup {NoResult}]
  /\ attempts \in [Accounts -> Nat]
  /\ made \in [Accounts -> SUBSET ((Errors \cup {NotBuilt}) \X Nat)]

\* Every answer, cached, shared or fresh, is the verdict of a real attempt
\* at the asking call's own account, with the time that attempt has.
AnswersFromOwnAttempts ==
  \A c \in Callers : stage[c] = "answered" =>
    /\ result[c] # NoResult
    /\ \E m \in made[AccountOf[c]] :
         /\ result[c].overall = classifySelfCheckOutcome(m[1])
         /\ result[c].at = m[2]

\* A newer result replaces an older one by at least the interval, however
\* many calls race: no attempt overtakes another and none comes too soon.
CacheAdvances ==
  [][\A a \in Accounts : entry[a] # NoResult /\ entry'[a] # entry[a] =>
       entry'[a].at - entry[a].at >= Interval]_vars

\* Over any stretch from the start an account sees no more real logins than
\* one plus one per interval gone by.
AttemptsBounded ==
  \A a \in Accounts : (attempts[a] - 1) * Interval <= clock

\* What the tool's description and the comment on classifySelfCheckOutcome
\* say of "down": a call that goes by another call's attempt hears it only
\* of an attempt that could not reach Fileee, not of one whose own caller
\* went away.
DownMeansUnreachable ==
  \A c \in Callers :
    /\ stage[c] = "answered"
    /\ result[c].overall = "down"
    /\ joined[c] # c \/ result[c].cached
    => <<"context cancelled", result[c].at>> \notin made[AccountOf[c]]
=============================================================================
