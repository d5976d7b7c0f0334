-------------------------- MODULE SelfCheckProofs ---------------------------
(***************************************************************************)
(* Proofs about SelfCheck, for any number of calls and accounts, any       *)
(* interval and any outcomes of the logins.                                *)
(*                                                                         *)
(* The argument: an account has at most one leader, so nobody but that     *)
(* leader replaces the entry it read, which is still an interval old when  *)
(* its login begins.  Every attempt is therefore an interval later than    *)
(* the one before it.                                                      *)
(***************************************************************************)
EXTENDS SelfCheck, TLAPS

Leading == {"reading", "deciding", "locking", "locked", "login", "storing",
            "returning"}
Settled == {"locking", "locked", "login", "storing"}

\* A verdict on one of these attempts, on one that was made at the account.
VerdictOn(r, ms) ==
  /\ r \in Results
  /\ \E m \in ms : r.overall = classifySelfCheckOutcome(m[1]) /\ r.at = m[2]
Genuine(r, a) == VerdictOn(r, made[a])

\* As many attempts as there may be until then.
Fits(n, t) == (n - 1) * Interval <= t

FlightsAreLed ==
  /\ \A c \in Callers : stage[c] \in Leading =>
       AccountOf[c] \in Accounts /\ flight[AccountOf[c]] = c
  /\ \A c \in Callers : stage[c] = "waiting" =>
       /\ AccountOf[c] \in Accounts /\ joined[c] \in Callers
       /\ AccountOf[joined[c]] = AccountOf[c]
  /\ \A a \in Accounts : flight[a] # Nobody => AccountOf[flight[a]] = a

ResultsAreGenuine ==
  /\ \A c \in Callers : stage[c] \in {"storing", "returning", "answered"} =>
       AccountOf[c] \in Accounts /\ Genuine(result[c], AccountOf[c])
  /\ \A c \in Callers : stage[c] = "storing" =>
       ~result[c].cached /\ result[c].at = now[c]
  /\ \A a \in Accounts : entry[a] # NoResult => Genuine(entry[a], a)

\* The entry at a is an interval old at time t.
Aged(a, t) == entry[a] # NoResult => t - entry[a].at >= Interval

ReadsAreCurrent ==
  /\ \A c \in Callers : stage[c] \in Settled \cup {"deciding"} =>
       seen[c] = entry[AccountOf[c]]
  /\ \A c \in Callers : stage[c] \in Settled =>
       now[c] <= clock /\ Aged(AccountOf[c], now[c])
  /\ \A a \in Accounts : entry[a] # NoResult => entry[a].at <= clock

AttemptsFit ==
  \A a \in Accounts :
    \/ attempts[a] = 0
    \/ entry[a] # NoResult /\ Fits(attempts[a], entry[a].at)
    \/ /\ flight[a] # Nobody /\ stage[flight[a]] \in {"login", "storing"}
       /\ Fits(attempts[a], now[flight[a]])

IInv == /\ SelfCheckTypeOK /\ FlightsAreLed /\ ResultsAreGenuine
        /\ ReadsAreCurrent /\ AttemptsFit

USE SelfCheckAssumption

-----------------------------------------------------------------------------
\* classifySelfCheckOutcome knows three verdicts.
LEMMA Verdicts == \A err : classifySelfCheckOutcome(err) \in Overall
  BY DEF classifySelfCheckOutcome, Overall

\* A verdict stays one whatever further attempts there are, and whether it is
\* marked as cached or not.
LEMMA VerdictsStand ==
  ASSUME NEW r, NEW ms, NEW more, VerdictOn(r, ms), ms \subseteq more
  PROVE  VerdictOn(r, more)
  BY DEF VerdictOn

LEMMA VerdictsStandCached ==
  ASSUME NEW r, NEW ms, VerdictOn(r, ms)
  PROVE  VerdictOn([r EXCEPT !.cached = TRUE], ms)
  BY DEF VerdictOn, Results

\* One more attempt fits an interval later.
LEMMA OneMoreFits ==
  ASSUME NEW n \in Nat, NEW t \in Nat, NEW u \in Nat, Fits(n, t),
         u - t >= Interval
  PROVE  Fits(n + 1, u)
  <1>1. ((n + 1) - 1) * Interval = (n - 1) * Interval + Interval
    OBVIOUS
  <1> QED BY <1>1 DEF Fits

-----------------------------------------------------------------------------
\* The initial states.
LEMMA Starts == Init => IInv
  BY DEF Init, IInv, SelfCheckTypeOK, Stages, FlightsAreLed, ResultsAreGenuine,
     ReadsAreCurrent, AttemptsFit, Leading, Settled

-----------------------------------------------------------------------------
\* Types.  An entry is stored uncached, which ResultsAreGenuine says.
LEMMA TypesKept == IInv /\ [Next]_vars => SelfCheckTypeOK'
  <1> SUFFICES ASSUME IInv, [Next]_vars PROVE SelfCheckTypeOK'
    OBVIOUS
  <1> USE DEF IInv, SelfCheckTypeOK, Stages, GoTo
  <1>1. ASSUME NEW c \in Callers, Refuse(c) PROVE SelfCheckTypeOK'
    BY <1>1 DEF Refuse
  <1>2. ASSUME NEW c \in Callers, Do(c) PROVE SelfCheckTypeOK'
    BY <1>2 DEF Do
  <1>3. ASSUME NEW c \in Callers, ReadCache(c) PROVE SelfCheckTypeOK'
    BY <1>3 DEF ReadCache, FlightsAreLed, Leading
  <1>4. ASSUME NEW c \in Callers, Decide(c) PROVE SelfCheckTypeOK'
    <2>1. now' \in [Callers -> Nat] /\ stage' \in [Callers -> Stages]
      BY <1>4 DEF Decide
    <2>2. CASE Young(c)
      <3>1. ASSUME NEW r \in Results PROVE [r EXCEPT !.cached = TRUE] \in Results
        BY DEF Results
      <3>2. seen[c] \in Results
        BY <2>2 DEF Young
      <3>3. result' \in [Callers -> Results \cup {NoResult}]
        BY <1>4, <2>2, <3>1, <3>2 DEF Decide
      <3> QED BY <1>4, <2>1, <3>3 DEF Decide
    <2>3. CASE ~Young(c)
      BY <1>4, <2>1, <2>3 DEF Decide
    <2> QED BY <2>2, <2>3
  <1>5. ASSUME NEW c \in Callers, LockLogin(c) PROVE SelfCheckTypeOK'
    BY <1>5 DEF LockLogin
  <1>6. ASSUME NEW c \in Callers, BeginLogin(c) PROVE SelfCheckTypeOK'
    <2>1. AccountOf[c] \in Accounts
      BY <1>6 DEF BeginLogin, FlightsAreLed, Leading
    <2> QED BY <1>6, <2>1 DEF BeginLogin
  <1>7. ASSUME NEW c \in Callers, NEW err \in Errors \cup {NotBuilt},
               stage[c] \in {"locked", "login"}, Ends(c, err)
        PROVE SelfCheckTypeOK'
    <2>1. AccountOf[c] \in Accounts
      BY <1>7 DEF FlightsAreLed, Leading
    <2> DEFINE r == [overall |-> classifySelfCheckOutcome(err),
                     at |-> now[c], cached |-> FALSE]
    <2>2. r \in Results
      BY Verdicts DEF Results
    <2>3. <<err, r.at>> \in (Errors \cup {NotBuilt}) \X Nat
      BY <2>2 DEF Results
    <2> HIDE DEF r
    <2>4. result' = [result EXCEPT ![c] = r]
          /\ made' = [made EXCEPT ![AccountOf[c]] = @ \cup {<<err, r.at>>}]
      BY <1>7 DEF Ends, r
    <2>5. made' \in [Accounts -> SUBSET ((Errors \cup {NotBuilt}) \X Nat)]
      BY <2>1, <2>3, <2>4
    <2>6. result' \in [Callers -> Results \cup {NoResult}]
      BY <2>2, <2>4
    <2>7. /\ stage' \in [Callers -> Stages]
          /\ lock' \in [Accounts -> Callers \cup {Nobody, Other}]
      BY <1>7 DEF Ends
    <2>8. UNCHANGED <<clock, flight, joined, entry, seen, now, attempts>>
      BY <1>7 DEF Ends
    <2> QED BY <2>5, <2>6, <2>7, <2>8
  <1>8. ASSUME NEW c \in Callers, Store(c) PROVE SelfCheckTypeOK'
    BY <1>8 DEF Store, ResultsAreGenuine, Genuine, VerdictOn
  <1>9. ASSUME NEW c \in Callers, Return(c) PROVE SelfCheckTypeOK'
    BY <1>9 DEF Return
  <1>10. ASSUME NEW a \in Accounts, OtherLocks(a) \/ OtherUnlocks(a)
         PROVE SelfCheckTypeOK'
    BY <1>10 DEF OtherLocks, OtherUnlocks
  <1>11. ASSUME Tick PROVE SelfCheckTypeOK'
    BY <1>11 DEF Tick
  <1>12. ASSUME UNCHANGED vars PROVE SelfCheckTypeOK'
    BY <1>12 DEF vars
  <1> QED
    BY <1>1, <1>2, <1>3, <1>4, <1>5, <1>6, <1>7, <1>8, <1>9, <1>10, <1>11,
       <1>12
    DEF Next, Step, BuildFails, LoginReturns

-----------------------------------------------------------------------------
\* One leader at a time: a flight begins only when there is none.
LEMMA FlightsKept == IInv /\ [Next]_vars => FlightsAreLed'
  <1> SUFFICES ASSUME IInv, [Next]_vars PROVE FlightsAreLed'
    OBVIOUS
  <1> USE DEF IInv, SelfCheckTypeOK, Stages, FlightsAreLed, Leading, GoTo
  <1>1. ASSUME NEW c \in Callers, Refuse(c) PROVE FlightsAreLed'
    BY <1>1 DEF Refuse
  <1>2. ASSUME NEW c \in Callers, Do(c) PROVE FlightsAreLed'
    <2>1. AccountOf[c] \in Accounts
      BY <1>2 DEF Do
    <2>2. CASE flight[AccountOf[c]] = Nobody
      BY <1>2, <2>1, <2>2 DEF Do
    <2>3. CASE flight[AccountOf[c]] # Nobody
      BY <1>2, <2>1, <2>3 DEF Do
    <2> QED BY <2>2, <2>3
  <1>3. ASSUME NEW c \in Callers, ReadCache(c) PROVE FlightsAreLed'
    BY <1>3 DEF ReadCache
  <1>4. ASSUME NEW c \in Callers, Decide(c) PROVE FlightsAreLed'
    BY <1>4 DEF Decide
  <1>5. ASSUME NEW c \in Callers, LockLogin(c) PROVE FlightsAreLed'
    BY <1>5 DEF LockLogin
  <1>6. ASSUME NEW c \in Callers, BeginLogin(c) PROVE FlightsAreLed'
    BY <1>6 DEF BeginLogin
  <1>7. ASSUME NEW c \in Callers, NEW err, stage[c] \in {"locked", "login"},
               Ends(c, err)
        PROVE FlightsAreLed'
    BY <1>7 DEF Ends
  <1>8. ASSUME NEW c \in Callers, Store(c) PROVE FlightsAreLed'
    BY <1>8 DEF Store
  <1>9. ASSUME NEW c \in Callers, Return(c) PROVE FlightsAreLed'
    <2>1. \A d \in Callers : stage'[d] # "answered" => stage'[d] = stage[d]
      BY <1>9 DEF Return
    <2>2. stage'[c] = "answered" /\ AccountOf[c] \in Accounts
      BY <1>9 DEF Return
    <2> QED BY <1>9, <2>1, <2>2 DEF Return
  <1>10. ASSUME NEW a \in Accounts, OtherLocks(a) \/ OtherUnlocks(a)
         PROVE FlightsAreLed'
    BY <1>10 DEF OtherLocks, OtherUnlocks
  <1>11. ASSUME Tick \/ UNCHANGED vars PROVE FlightsAreLed'
    BY <1>11 DEF Tick, vars
  <1> QED
    BY <1>1, <1>2, <1>3, <1>4, <1>5, <1>6, <1>7, <1>8, <1>9, <1>10, <1>11
    DEF Next, Step, BuildFails, LoginReturns

-----------------------------------------------------------------------------
\* Results and entries are verdicts on real attempts.
LEMMA ResultsKept == IInv /\ [Next]_vars => ResultsAreGenuine'
  <1> SUFFICES ASSUME IInv, [Next]_vars PROVE ResultsAreGenuine'
    OBVIOUS
  <1> USE DEF IInv, SelfCheckTypeOK, Stages, GoTo
  <1>0. ASSUME UNCHANGED <<result, entry, made>>,
               \A c \in Callers :
                 stage'[c] \in {"storing", "returning", "answered"} =>
                   stage'[c] = stage[c] /\ now'[c] = now[c]
        PROVE ResultsAreGenuine'
    BY <1>0 DEF ResultsAreGenuine, Genuine
  <1>1. ASSUME NEW c \in Callers,
               Refuse(c) \/ Do(c) \/ ReadCache(c) \/ LockLogin(c) \/ BeginLogin(c)
        PROVE ResultsAreGenuine'
    BY <1>0, <1>1 DEF Refuse, Do, ReadCache, LockLogin, BeginLogin
  <1>2. ASSUME NEW c \in Callers, Decide(c), ~Young(c)
        PROVE ResultsAreGenuine'
    BY <1>0, <1>2 DEF Decide
  <1>3. ASSUME NEW c \in Callers, Decide(c), Young(c)
        PROVE ResultsAreGenuine'
    <2>1. AccountOf[c] \in Accounts
      BY <1>3 DEF Decide, FlightsAreLed, Leading
    <2>2. Genuine(seen[c], AccountOf[c])
      BY <1>3, <2>1
      DEF Decide, Young, ReadsAreCurrent, ResultsAreGenuine, Settled
    <2>3. VerdictOn([seen[c] EXCEPT !.cached = TRUE], made[AccountOf[c]])
      BY <2>2, VerdictsStandCached DEF Genuine
    <2>4. /\ result' = [result EXCEPT ![c] = [seen[c] EXCEPT !.cached = TRUE]]
          /\ stage' = [stage EXCEPT ![c] = "returning"]
          /\ UNCHANGED <<entry, made>>
          /\ \A d \in Callers : d # c => now'[d] = now[d]
      BY <1>3 DEF Decide
    <2> HIDE DEF GoTo
    <2> QED BY <2>1, <2>3, <2>4 DEF ResultsAreGenuine, Genuine
  <1>4. ASSUME NEW c \in Callers, NEW err, stage[c] \in {"locked", "login"},
               Ends(c, err)
        PROVE ResultsAreGenuine'
    <2> DEFINE a == AccountOf[c]
               r == [overall |-> classifySelfCheckOutcome(err),
                     at |-> now[c], cached |-> FALSE]
    <2>1. a \in Accounts
      BY <1>4 DEF FlightsAreLed, Leading
    <2>2. /\ result' = [result EXCEPT ![c] = r]
          /\ stage' = [stage EXCEPT ![c] = "storing"]
          /\ made' = [made EXCEPT ![a] = @ \cup {<<err, r.at>>}]
          /\ UNCHANGED <<entry, now>>
      BY <1>4 DEF Ends
    <2>3. VerdictOn(r, made'[a])
      <3>1. r \in Results
        BY Verdicts DEF Results
      <3>2. <<err, r.at>> \in made'[a]
        BY <2>1, <2>2
      <3>3. r.overall = classifySelfCheckOutcome(<<err, r.at>>[1])
            /\ r.at = <<err, r.at>>[2]
        OBVIOUS
      <3> HIDE DEF r
      <3> QED BY <3>1, <3>2, <3>3 DEF VerdictOn
    <2>4. ~r.cached /\ r.at = now[c]
      OBVIOUS
    <2>5. \A b \in Accounts : made[b] \subseteq made'[b]
      BY <2>1, <2>2
    <2>6. ASSUME NEW b \in Accounts, NEW q, Genuine(q, b)
          PROVE  VerdictOn(q, made'[b])
      BY <2>5, <2>6, VerdictsStand DEF Genuine
    <2> HIDE DEF r
    <2>7. ASSUME NEW d \in Callers,
                 stage'[d] \in {"storing", "returning", "answered"}
          PROVE /\ AccountOf[d] \in Accounts
                /\ VerdictOn(result'[d], made'[AccountOf[d]])
      <3>1. CASE d = c
        BY <2>1, <2>2, <2>3, <3>1
      <3>2. CASE d # c
        <4>1. stage'[d] = stage[d] /\ result'[d] = result[d]
          BY <2>2, <3>2
        <4> QED BY <2>6, <2>7, <4>1 DEF ResultsAreGenuine
      <3> QED BY <3>1, <3>2
    <2>8. ASSUME NEW d \in Callers, stage'[d] = "storing"
          PROVE  ~result'[d].cached /\ result'[d].at = now'[d]
      BY <2>2, <2>4, <2>8 DEF ResultsAreGenuine
    <2>9. ASSUME NEW b \in Accounts, entry'[b] # NoResult
          PROVE  VerdictOn(entry'[b], made'[b])
      BY <2>2, <2>6, <2>9 DEF ResultsAreGenuine
    <2> QED BY <2>7, <2>8, <2>9 DEF ResultsAreGenuine, Genuine
  <1>5. ASSUME NEW c \in Callers, Store(c) PROVE ResultsAreGenuine'
    <2>1. Genuine(result[c], AccountOf[c])
      BY <1>5 DEF Store, ResultsAreGenuine
    <2> QED BY <1>5, <2>1 DEF Store, ResultsAreGenuine, Genuine
  <1>6. ASSUME NEW c \in Callers, Return(c) PROVE ResultsAreGenuine'
    <2>1. AccountOf[c] \in Accounts /\ VerdictOn(result[c], made[AccountOf[c]])
      BY <1>6 DEF Return, ResultsAreGenuine, Genuine
    <2>2. ASSUME NEW d \in Callers,
                 stage'[d] \in {"storing", "returning", "answered"}
          PROVE /\ AccountOf[d] \in Accounts
                /\ VerdictOn(result'[d], made[AccountOf[d]])
      <3>1. CASE d = c \/ (stage[d] = "waiting" /\ joined[d] = c)
        <4>1. result'[d] = result[c]
          BY <1>6, <3>1 DEF Return
        <4>2. AccountOf[d] = AccountOf[c]
          BY <3>1 DEF FlightsAreLed
        <4> QED BY <2>1, <4>1, <4>2
      <3>2. CASE ~(d = c \/ (stage[d] = "waiting" /\ joined[d] = c))
        <4>1. stage'[d] = stage[d] /\ result'[d] = result[d]
          BY <1>6, <3>2 DEF Return
        <4> QED BY <2>2, <4>1 DEF ResultsAreGenuine, Genuine
      <3> QED BY <3>1, <3>2
    <2>3. ASSUME NEW d \in Callers, stage'[d] = "storing"
          PROVE  ~result'[d].cached /\ result'[d].at = now'[d]
      BY <1>6, <2>3 DEF Return, ResultsAreGenuine
    <2> QED BY <1>6, <2>2, <2>3 DEF Return, ResultsAreGenuine, Genuine
  <1>7. ASSUME NEW a \in Accounts, OtherLocks(a) \/ OtherUnlocks(a)
        PROVE ResultsAreGenuine'
    BY <1>0, <1>7 DEF OtherLocks, OtherUnlocks
  <1>8. ASSUME Tick \/ UNCHANGED vars PROVE ResultsAreGenuine'
    BY <1>0, <1>8 DEF Tick, vars
  <1> QED
    BY <1>1, <1>2, <1>3, <1>4, <1>5, <1>6, <1>7, <1>8
    DEF Next, Step, BuildFails, LoginReturns

-----------------------------------------------------------------------------
\* The entry a leader decided by is still there, and old enough.  Only a
\* leader that stores replaces an entry, and it is the only one there.
LEMMA OneLeader ==
  ASSUME FlightsAreLed, NEW c \in Callers, NEW d \in Callers,
         stage[c] \in Leading, stage[d] \in Leading,
         AccountOf[c] = AccountOf[d]
  PROVE  c = d
  BY DEF FlightsAreLed

LEMMA ReadsKept == IInv /\ [Next]_vars => ReadsAreCurrent'
  <1> SUFFICES ASSUME IInv, [Next]_vars PROVE ReadsAreCurrent'
    OBVIOUS
  <1> USE DEF IInv, SelfCheckTypeOK, Stages, GoTo, Settled
  <1>0. ASSUME UNCHANGED <<entry, clock>>,
               \A c \in Callers : stage'[c] \in Settled \cup {"deciding"} =>
                 /\ seen'[c] = seen[c] /\ now'[c] = now[c]
                 /\ stage[c] \in Settled \cup {"deciding"}
                 /\ stage'[c] \in Settled => stage[c] \in Settled
        PROVE ReadsAreCurrent'
    BY <1>0 DEF ReadsAreCurrent, Aged
  <1>1. ASSUME NEW c \in Callers,
               Refuse(c) \/ Do(c) \/ LockLogin(c) \/ BeginLogin(c)
        PROVE ReadsAreCurrent'
    BY <1>0, <1>1 DEF Refuse, Do, LockLogin, BeginLogin
  <1>2. ASSUME NEW c \in Callers, ReadCache(c) PROVE ReadsAreCurrent'
    BY <1>2 DEF ReadCache, ReadsAreCurrent, Aged
  <1>3. ASSUME NEW c \in Callers, Decide(c) PROVE ReadsAreCurrent'
    <2>1. CASE Young(c)
      BY <1>0, <1>3, <2>1 DEF Decide
    <2>2. CASE ~Young(c)
      <3>1. /\ AccountOf[c] \in Accounts /\ stage[c] = "deciding"
            /\ UNCHANGED <<entry, seen, clock>>
            /\ now' = [now EXCEPT ![c] = clock]
            /\ stage' = [stage EXCEPT ![c] = "locking"]
        BY <1>3, <2>2 DEF Decide, FlightsAreLed, Leading
      <3>2. seen[c] = entry[AccountOf[c]]
        BY <3>1 DEF ReadsAreCurrent
      <3>3. Aged(AccountOf[c], clock)
        <4>1. SUFFICES ASSUME entry[AccountOf[c]] # NoResult
                       PROVE  clock - entry[AccountOf[c]].at >= Interval
          BY DEF Aged
        <4>2. entry[AccountOf[c]].at \in Nat
          BY <3>1, <4>1 DEF Results
        <4> QED BY <2>2, <3>2, <4>1, <4>2 DEF Young
      <3>4. ASSUME NEW d \in Callers, stage'[d] \in Settled
            PROVE  now'[d] <= clock /\ Aged(AccountOf[d], now'[d])
        BY <3>1, <3>3, <3>4 DEF ReadsAreCurrent
      <3>5. ASSUME NEW d \in Callers, stage'[d] \in Settled \cup {"deciding"}
            PROVE  seen[d] = entry[AccountOf[d]]
        BY <3>1, <3>2, <3>5 DEF ReadsAreCurrent
      <3> QED BY <3>1, <3>4, <3>5 DEF ReadsAreCurrent, Aged
    <2> QED BY <2>1, <2>2
  <1>4. ASSUME NEW c \in Callers, NEW err, stage[c] \in {"locked", "login"},
               Ends(c, err)
        PROVE ReadsAreCurrent'
    BY <1>0, <1>4 DEF Ends
  <1>5. ASSUME NEW c \in Callers, Store(c) PROVE ReadsAreCurrent'
    <2> DEFINE a == AccountOf[c]
    <2>1. /\ a \in Accounts /\ stage[c] = "storing"
          /\ UNCHANGED <<seen, clock, now>>
          /\ entry' = [entry EXCEPT ![a] = result[c]]
          /\ stage' = [stage EXCEPT ![c] = "returning"]
          /\ result[c].at = now[c] /\ now[c] <= clock
      BY <1>5 DEF Store, FlightsAreLed, Leading, ResultsAreGenuine,
         ReadsAreCurrent
    <2>2. ASSUME NEW d \in Callers, stage'[d] \in Settled \cup {"deciding"}
          PROVE  stage[d] = stage'[d] /\ entry'[AccountOf[d]] = entry[AccountOf[d]]
      <3>1. d # c /\ stage[d] = stage'[d]
        BY <2>1, <2>2
      <3>2. AccountOf[d] # a
        BY <2>1, <2>2, <3>1, OneLeader DEF Leading
      <3> QED BY <2>1, <3>1, <3>2
    <2>3. ASSUME NEW b \in Accounts, entry'[b] # NoResult
          PROVE  entry'[b].at <= clock
      BY <2>1, <2>3 DEF ReadsAreCurrent
    <2> QED BY <2>1, <2>2, <2>3 DEF ReadsAreCurrent, Aged
  <1>6. ASSUME NEW c \in Callers, Return(c) PROVE ReadsAreCurrent'
    BY <1>0, <1>6 DEF Return
  <1>7. ASSUME NEW a \in Accounts, OtherLocks(a) \/ OtherUnlocks(a)
        PROVE ReadsAreCurrent'
    BY <1>0, <1>7 DEF OtherLocks, OtherUnlocks
  <1>8. ASSUME Tick PROVE ReadsAreCurrent'
    <2>1. \A a \in Accounts : entry[a] # NoResult => entry[a].at \in Nat
      BY DEF Results
    <2> QED BY <1>8, <2>1 DEF Tick, ReadsAreCurrent, Aged
  <1>9. ASSUME UNCHANGED vars PROVE ReadsAreCurrent'
    BY <1>0, <1>9 DEF vars
  <1> QED
    BY <1>1, <1>2, <1>3, <1>4, <1>5, <1>6, <1>7, <1>8, <1>9
    DEF Next, Step, BuildFails, LoginReturns

-----------------------------------------------------------------------------
\* Every attempt fits: it begins an interval after the entry before it.
LEMMA AttemptsKept == IInv /\ [Next]_vars => AttemptsFit'
  <1> SUFFICES ASSUME IInv, [Next]_vars PROVE AttemptsFit'
    OBVIOUS
  <1> USE DEF IInv, SelfCheckTypeOK, Stages, GoTo
  <1>0. ASSUME UNCHANGED <<entry, attempts>>,
               \A c \in Callers : stage[c] \in {"login", "storing"} =>
                 /\ stage'[c] \in {"login", "storing"} /\ now'[c] = now[c]
                 /\ flight'[AccountOf[c]] = flight[AccountOf[c]]
        PROVE AttemptsFit'
    BY <1>0 DEF AttemptsFit, Fits, FlightsAreLed, Leading
  <1>1. ASSUME NEW c \in Callers,
               Refuse(c) \/ ReadCache(c) \/ Decide(c) \/ LockLogin(c)
        PROVE AttemptsFit'
    BY <1>0, <1>1 DEF Refuse, ReadCache, Decide, LockLogin
  <1>2. ASSUME NEW c \in Callers, Do(c) PROVE AttemptsFit'
    <2>1. ASSUME NEW d \in Callers, stage[d] \in {"login", "storing"}
          PROVE /\ stage'[d] = stage[d] /\ UNCHANGED now
                /\ flight'[AccountOf[d]] = flight[AccountOf[d]]
      BY <1>2, <2>1 DEF Do, FlightsAreLed, Leading
    <2> QED BY <1>0, <1>2, <2>1 DEF Do
  <1>3. ASSUME NEW c \in Callers, BeginLogin(c) PROVE AttemptsFit'
    <2> DEFINE a == AccountOf[c]
    <2>1. /\ a \in Accounts /\ flight[a] = c /\ stage[c] = "locked"
          /\ attempts' = [attempts EXCEPT ![a] = @ + 1]
          /\ stage' = [stage EXCEPT ![c] = "login"]
          /\ UNCHANGED <<entry, flight, now>>
      BY <1>3 DEF BeginLogin, FlightsAreLed, Leading
    <2>2. Fits(attempts[a] + 1, now[c])
      <3>1. CASE attempts[a] = 0
        BY <2>1, <3>1 DEF Fits
      <3>2. CASE attempts[a] # 0
        <4>1. entry[a] # NoResult /\ Fits(attempts[a], entry[a].at)
          BY <2>1, <3>2 DEF AttemptsFit
        <4>2. entry[a].at \in Nat
          BY <2>1, <4>1 DEF Results
        <4>3. now[c] - entry[a].at >= Interval
          BY <2>1, <4>1 DEF ReadsAreCurrent, Settled, Aged
        <4>4. attempts[a] \in Nat /\ now[c] \in Nat
          BY <2>1
        <4> QED BY <4>1, <4>2, <4>3, <4>4, OneMoreFits
      <3> QED BY <3>1, <3>2
    <2>3. ASSUME NEW b \in Accounts, b # a
          PROVE  /\ attempts'[b] = attempts[b]
                 /\ flight[b] # Nobody => stage'[flight[b]] = stage[flight[b]]
      BY <2>1, <2>3 DEF FlightsAreLed
    <2>4. ASSUME NEW b \in Accounts
          PROVE  \/ attempts'[b] = 0
                 \/ entry'[b] # NoResult /\ Fits(attempts'[b], entry'[b].at)
                 \/ /\ flight'[b] # Nobody
                    /\ stage'[flight'[b]] \in {"login", "storing"}
                    /\ Fits(attempts'[b], now'[flight'[b]])
      <3>1. CASE b = a
        BY <2>1, <2>2, <3>1
      <3>2. CASE b # a
        BY <2>1, <2>3, <3>2 DEF AttemptsFit
      <3> QED BY <3>1, <3>2
    <2> QED BY <2>4 DEF AttemptsFit, Fits
  <1>4. ASSUME NEW c \in Callers, NEW err, stage[c] \in {"locked", "login"},
               Ends(c, err)
        PROVE AttemptsFit'
    BY <1>0, <1>4 DEF Ends
  <1>5. ASSUME NEW c \in Callers, Store(c) PROVE AttemptsFit'
    <2> DEFINE a == AccountOf[c]
    <2>1. /\ a \in Accounts /\ flight[a] = c /\ stage[c] = "storing"
          /\ entry' = [entry EXCEPT ![a] = result[c]]
          /\ stage' = [stage EXCEPT ![c] = "returning"]
          /\ UNCHANGED <<flight, now, attempts>>
          /\ result[c] # NoResult /\ result[c].at = now[c]
      BY <1>5 DEF Store, FlightsAreLed, Leading, ResultsAreGenuine, Genuine,
         VerdictOn, Results, Overall
    <2>2. attempts[a] = 0 \/ Fits(attempts[a], now[c])
      <3>1. CASE entry[a] # NoResult /\ Fits(attempts[a], entry[a].at)
        <4>1. entry[a].at \in Nat /\ now[c] - entry[a].at >= Interval
          BY <2>1, <3>1 DEF Results, ReadsAreCurrent, Settled, Aged
        <4>2. Fits(attempts[a] + 1, now[c])
          BY <2>1, <3>1, <4>1, OneMoreFits
        <4>3. (attempts[a] + 1) - 1 = attempts[a]
              /\ attempts[a] * Interval = (attempts[a] - 1) * Interval + Interval
          BY <2>1
        <4>4. (attempts[a] - 1) * Interval \in Int
          BY <2>1
        <4> QED BY <2>1, <4>2, <4>3, <4>4 DEF Fits
      <3> QED BY <2>1, <3>1 DEF AttemptsFit
    <2>3. ASSUME NEW b \in Accounts, b # a
          PROVE  /\ entry'[b] = entry[b]
                 /\ flight[b] # Nobody => stage'[flight[b]] = stage[flight[b]]
      BY <2>1, <2>3 DEF FlightsAreLed
    <2>4. ASSUME NEW b \in Accounts
          PROVE  \/ attempts'[b] = 0
                 \/ entry'[b] # NoResult /\ Fits(attempts'[b], entry'[b].at)
                 \/ /\ flight'[b] # Nobody
                    /\ stage'[flight'[b]] \in {"login", "storing"}
                    /\ Fits(attempts'[b], now'[flight'[b]])
      <3>1. CASE b = a
        BY <2>1, <2>2, <3>1
      <3>2. CASE b # a
        BY <2>1, <2>3, <3>2 DEF AttemptsFit
      <3> QED BY <3>1, <3>2
    <2> QED BY <2>4 DEF AttemptsFit, Fits
  <1>6. ASSUME NEW c \in Callers, Return(c) PROVE AttemptsFit'
    <2>1. ASSUME NEW d \in Callers, stage[d] \in {"login", "storing"}
          PROVE  /\ stage'[d] = stage[d] /\ UNCHANGED now
                 /\ flight'[AccountOf[d]] = flight[AccountOf[d]]
      BY <1>6, <2>1 DEF Return, FlightsAreLed, Leading
    <2> QED BY <1>0, <1>6, <2>1 DEF Return
  <1>7. ASSUME NEW a \in Accounts, OtherLocks(a) \/ OtherUnlocks(a)
        PROVE AttemptsFit'
    BY <1>0, <1>7 DEF OtherLocks, OtherUnlocks
  <1>8. ASSUME Tick \/ UNCHANGED vars PROVE AttemptsFit'
    BY <1>0, <1>8 DEF Tick, vars
  <1> QED
    BY <1>1, <1>2, <1>3, <1>4, <1>5, <1>6, <1>7, <1>8
    DEF Next, Step, BuildFails, LoginReturns

-----------------------------------------------------------------------------
\* The invariant is inductive.
THEOREM SelfCheckInvariant == Spec => []IInv
  <1>1. IInv /\ [Next]_vars => IInv'
    BY TypesKept, FlightsKept, ResultsKept, ReadsKept, AttemptsKept DEF IInv
  <1> QED BY Starts, <1>1, PTL DEF Spec

\* Type correctness of self_check: above all, the cache never holds a result
\* that was itself served from the cache.
THEOREM SelfCheckTypes == Spec => []SelfCheckTypeOK
  <1>1. IInv => SelfCheckTypeOK
    BY DEF IInv
  <1> QED BY SelfCheckInvariant, <1>1, PTL

\* Whoever asks hears the verdict of a real attempt at its own account
\* (ops.go:518-543), fresh, shared or cached.
THEOREM AnswersAreGenuine == Spec => []AnswersFromOwnAttempts
  <1>1. IInv => AnswersFromOwnAttempts
    BY DEF IInv, ResultsAreGenuine, Genuine, VerdictOn, Results, Overall,
       AnswersFromOwnAttempts
  <1> QED BY SelfCheckInvariant, <1>1, PTL

\* However many calls race, an account sees one login per interval
\* (selfCheckMinInterval, ops.go:494-516).
THEOREM AttemptsAreBounded == Spec => []AttemptsBounded
  <1>1. ASSUME IInv, NEW a \in Accounts
        PROVE  (attempts[a] - 1) * Interval <= clock
    <2> USE <1>1 DEF IInv, SelfCheckTypeOK
    <2>1. CASE attempts[a] = 0
      BY <2>1
    <2>2. CASE entry[a] # NoResult /\ Fits(attempts[a], entry[a].at)
      <3>1. entry[a].at \in Nat /\ entry[a].at <= clock
        BY <2>2 DEF Results, ReadsAreCurrent
      <3>2. (attempts[a] - 1) * Interval \in Int
        OBVIOUS
      <3> QED BY <2>2, <3>1, <3>2 DEF Fits
    <2>3. CASE /\ flight[a] # Nobody
               /\ stage[flight[a]] \in {"login", "storing"}
               /\ Fits(attempts[a], now[flight[a]])
      <3>1. now[flight[a]] \in Nat /\ now[flight[a]] <= clock
        BY <2>3 DEF ReadsAreCurrent, Settled
      <3>2. (attempts[a] - 1) * Interval \in Int
        OBVIOUS
      <3> QED BY <2>3, <3>1, <3>2 DEF Fits
    <2> QED BY <2>1, <2>2, <2>3 DEF AttemptsFit
  <1>2. IInv => AttemptsBounded
    BY <1>1 DEF AttemptsBounded
  <1> QED BY SelfCheckInvariant, <1>2, PTL

\* A result is replaced by one an interval younger, never by an older one
\* that took longer.
THEOREM CacheOnlyAdvances == Spec => CacheAdvances
  <1> DEFINE Advances ==
        \A a \in Accounts : entry[a] # NoResult /\ entry'[a] # entry[a] =>
          entry'[a].at - entry[a].at >= Interval
  <1>1. ASSUME IInv, Next PROVE Advances
    <2> USE <1>1 DEF IInv, SelfCheckTypeOK
    <2>1. ASSUME NEW c \in Callers, Store(c) PROVE Advances
      <3>1. /\ AccountOf[c] \in Accounts /\ stage[c] = "storing"
            /\ entry' = [entry EXCEPT ![AccountOf[c]] = result[c]]
            /\ result[c].at = now[c]
            /\ Aged(AccountOf[c], now[c])
        BY <2>1 DEF Store, FlightsAreLed, Leading, ResultsAreGenuine,
           ReadsAreCurrent, Settled
      <3> QED BY <3>1 DEF Aged
    <2>2. ASSUME UNCHANGED entry PROVE Advances
      BY <2>2
    <2> QED
      BY <2>1, <2>2
      DEF Next, Step, Refuse, Do, ReadCache, Decide, LockLogin, BeginLogin,
          BuildFails, LoginReturns, Ends, Return, OtherLocks, OtherUnlocks, Tick
  <1>2. IInv /\ [Next]_vars => [Advances]_vars
    BY <1>1
  <1> QED BY SelfCheckInvariant, <1>2, PTL DEF Spec, CacheAdvances
=============================================================================
