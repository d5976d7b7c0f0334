-------------------------- MODULE ClientPoolProofs --------------------------
(***************************************************************************)
(* Proofs about ClientPool for every set of callers, closers, subjects and *)
(* accounts and every assignment of accounts to subjects.                  *)
(***************************************************************************)
EXTENDS ClientPoolInv, TLAPS

\* The four kinds of results are told apart, and a pooled one determines
\* its client.
LEMMA ResultKinds ==
  /\ NoClient \notin Pooled /\ Ok \notin Pooled /\ Failed \notin Pooled
  /\ Denied \notin Pooled
  /\ Failed # NoClient /\ Ok # NoClient /\ Denied # NoClient
  /\ Failed # Denied /\ Ok # Denied
  /\ \A x \in Client : Got(x) \in Pooled /\ Got(x).client = x
  /\ \A r \in Pooled : r.client \in Client /\ r = Got(r.client)
  BY DEF NoClient, Ok, Failed, Denied, Got, Pooled

\* The first client of an account is one that can be pooled.
LEMMA FirstClientPooled ==
  \A a \in Accounts : /\ FirstClient(a) \in Pooled
                      /\ FirstClient(a).client \in Client
                      /\ FirstClient(a).client.account = a
                      /\ FirstClient(a) = Got(FirstClient(a).client)
  BY DEF FirstClient, Got, Pooled, Client

\* The pool starts well-typed.
LEMMA TypeInit == Init => PoolTypeOK
  <1> SUFFICES ASSUME Init PROVE PoolTypeOK OBVIOUS
  <1> USE PoolAssumption DEF Init
  <1>1. pc \in [Callers -> States] BY DEF States
  <1>2. req \in [Callers -> Subjects \cup {NoSubject}] OBVIOUS
  <1>3. res \in [Callers -> Result] BY DEF Result
  <1>4. bySubject \in [Subjects -> Callers \cup {Nobody}] OBVIOUS
  <1>5. /\ byAccount \in [Accounts -> Callers \cup {Nobody}]
        /\ loginLock \in [Accounts -> Callers \cup {Nobody}]
    OBVIOUS
  <1>6. clients \in [Accounts -> {NoClient} \cup Pooled] OBVIOUS
  <1>7. /\ closed \in BOOLEAN
        /\ sessions \in [Accounts -> Nat]
    OBVIOUS
  <1>8. keepalives \in SUBSET Client /\ stopping \in [Closers -> SUBSET Client]
    OBVIOUS
  <1> QED BY <1>1, <1>2, <1>3, <1>4, <1>5, <1>6, <1>7, <1>8 DEF PoolTypeOK

\* Every step keeps the types.
LEMMA TypeStep == PoolInv /\ [Next]_vars => PoolTypeOK'
  <1> SUFFICES ASSUME PoolInv, [Next]_vars PROVE PoolTypeOK' OBVIOUS
  <1> USE PoolAssumption, ResultKinds, FirstClientPooled
      DEF PoolInv, PoolTypeOK, Acct, Goto, Yield, flights, pool, alive,
          States, SubjectLeader,
          AccountLeader, BuildStates, ProbeStates
  <1>1. ASSUME NEW c \in Callers, Start(c) PROVE PoolTypeOK'
    BY <1>1 DEF Start, Refuse, For, Probe, Result
  <1>2. ASSUME NEW c \in Callers, Login(c) PROVE PoolTypeOK'
    BY <1>2 DEF Login, SessionEstablished, SessionFailed, ProbeAnswered,
                Result, Client, CallsResolved, Resolved
  <1>3. ASSUME NEW c \in Callers, Acquire(c) PROVE PoolTypeOK'
    BY <1>3 DEF Acquire, LockAndBuild, ProbeLockAndBuild, Result
  <1>4. ASSUME NEW c \in Callers, Progress(c) PROVE PoolTypeOK'
    <2>1. CASE Lookup(c) BY <2>1 DEF Lookup, Result
    <2>2. CASE JoinAccount(c) BY <2>2 DEF JoinAccount
    <2>3. CASE Recheck(c) BY <2>3 DEF Recheck, Result, CallsResolved, Resolved
    <2>4. CASE StartKeepAlive(c)
      BY <2>4 DEF StartKeepAlive, BuildersHold, CallsResolved, Resolved
    <2>5. CASE Publish(c)
      BY <2>5 DEF Publish, BuildersHold, CallsResolved, Resolved
    <2>6. CASE StopLate(c) BY <2>6 DEF StopLate
    <2>7. CASE Unlock(c) BY <2>7 DEF Unlock
    <2>8. CASE FinishAccount(c) BY <2>8 DEF FinishAccount
    <2>9. CASE FinishSubject(c) BY <2>9 DEF FinishSubject
    <2>10. CASE Return(c) BY <2>10 DEF Return, Result
    <2>11. CASE ProbeResolve(c) BY <2>11 DEF ProbeResolve, Result
    <2>12. CASE ProbeUnlock(c) BY <2>12 DEF ProbeUnlock
    <2> QED BY <1>4, <2>1, <2>2, <2>3, <2>4, <2>5, <2>6, <2>7, <2>8, <2>9,
               <2>10, <2>11, <2>12 DEF Progress
  <1>5. ASSUME NEW k \in Closers, CloserStep(k) PROVE PoolTypeOK'
    <2>1. CASE Close(k)
      <3>1. \A a \in Accounts :
              clients[a] # NoClient => clients[a].client \in Client
        OBVIOUS
      <3> QED BY <2>1, <3>1 DEF Close
    <2>2. CASE CloseStop(k) BY <2>2 DEF CloseStop
    <2> QED BY <1>5, <2>1, <2>2 DEF CloserStep
  <1>6. CASE UNCHANGED vars BY <1>6 DEF vars
  <1> QED BY <1>1, <1>2, <1>3, <1>4, <1>5, <1>6 DEF Next, CallerStep

\* Every step keeps this part: a call past the resolver has an account.
LEMMA CallsResolvedStep == PoolInv /\ [Next]_vars => CallsResolved'
  <1> SUFFICES ASSUME PoolInv, [Next]_vars PROVE CallsResolved' OBVIOUS
  <1> USE PoolAssumption, ResultKinds, FirstClientPooled
      DEF PoolInv, PoolTypeOK, Acct, Goto, Yield, flights, pool, alive,
          CallsResolved, Resolved,
          SubjectGroups, SubjectLeader, AccountLeader, BuildStates, ProbeStates
  <1>1. ASSUME NEW c \in Callers, Start(c) PROVE CallsResolved'
    BY <1>1 DEF Start, Refuse, For, Probe
  <1>2. ASSUME NEW c \in Callers, Login(c) PROVE CallsResolved'
    BY <1>2 DEF Login, SessionEstablished, SessionFailed, ProbeAnswered
  <1>3. ASSUME NEW c \in Callers, Acquire(c) PROVE CallsResolved'
    BY <1>3 DEF Acquire, LockAndBuild, ProbeLockAndBuild
  <1>4. ASSUME NEW c \in Callers, Progress(c) PROVE CallsResolved'
    <2>1. CASE Lookup(c) BY <2>1 DEF Lookup
    <2>2. CASE JoinAccount(c) BY <2>2 DEF JoinAccount
    <2>3. CASE Recheck(c) BY <2>3 DEF Recheck
    <2>4. CASE StartKeepAlive(c) BY <2>4 DEF StartKeepAlive
    <2>5. CASE Publish(c) BY <2>5 DEF Publish
    <2>6. CASE StopLate(c) BY <2>6 DEF StopLate
    <2>7. CASE Unlock(c) BY <2>7 DEF Unlock
    <2>8. CASE FinishAccount(c) BY <2>8 DEF FinishAccount
    <2>9. CASE FinishSubject(c) BY <2>9 DEF FinishSubject
    <2>10. CASE Return(c) BY <2>10 DEF Return
    <2>11. CASE ProbeResolve(c) BY <2>11 DEF ProbeResolve
    <2>12. CASE ProbeUnlock(c) BY <2>12 DEF ProbeUnlock
    <2> QED BY <1>4, <2>1, <2>2, <2>3, <2>4, <2>5, <2>6, <2>7, <2>8, <2>9,
               <2>10, <2>11, <2>12 DEF Progress
  <1>5. ASSUME NEW k \in Closers, CloserStep(k) PROVE CallsResolved'
    BY <1>5 DEF CloserStep, Close, CloseStop
  <1>6. CASE UNCHANGED vars BY <1>6 DEF vars
  <1> QED BY <1>1, <1>2, <1>3, <1>4, <1>5, <1>6 DEF Next, CallerStep

\* Every step keeps this part: the bySubject group and its leader know each other.
LEMMA SubjectGroupsStep == PoolInv /\ [Next]_vars => SubjectGroups'
  <1> SUFFICES ASSUME PoolInv, [Next]_vars PROVE SubjectGroups' OBVIOUS
  <1> USE PoolAssumption, ResultKinds, FirstClientPooled
      DEF PoolInv, PoolTypeOK, Acct, Goto, Yield, flights, pool, alive,
          CallsResolved, SubjectGroups,
          SubjectLeader, AccountLeader, BuildStates, ProbeStates
  <1>1. ASSUME NEW c \in Callers, Start(c) PROVE SubjectGroups'
    BY <1>1 DEF Start, Refuse, For, Probe
  <1>2. ASSUME NEW c \in Callers, Login(c) PROVE SubjectGroups'
    BY <1>2 DEF Login, SessionEstablished, SessionFailed, ProbeAnswered
  <1>3. ASSUME NEW c \in Callers, Acquire(c) PROVE SubjectGroups'
    BY <1>3 DEF Acquire, LockAndBuild, ProbeLockAndBuild
  <1>4. ASSUME NEW c \in Callers, Progress(c) PROVE SubjectGroups'
    <2>1. CASE Lookup(c) BY <2>1 DEF Lookup
    <2>2. CASE JoinAccount(c) BY <2>2 DEF JoinAccount
    <2>3. CASE Recheck(c) BY <2>3 DEF Recheck
    <2>4. CASE StartKeepAlive(c) BY <2>4 DEF StartKeepAlive
    <2>5. CASE Publish(c) BY <2>5 DEF Publish
    <2>6. CASE StopLate(c) BY <2>6 DEF StopLate
    <2>7. CASE Unlock(c) BY <2>7 DEF Unlock
    <2>8. CASE FinishAccount(c) BY <2>8 DEF FinishAccount
    <2>9. CASE FinishSubject(c) BY <2>9 DEF FinishSubject
    <2>10. CASE Return(c) BY <2>10 DEF Return
    <2>11. CASE ProbeResolve(c) BY <2>11 DEF ProbeResolve
    <2>12. CASE ProbeUnlock(c) BY <2>12 DEF ProbeUnlock
    <2> QED BY <1>4, <2>1, <2>2, <2>3, <2>4, <2>5, <2>6, <2>7, <2>8, <2>9,
               <2>10, <2>11, <2>12 DEF Progress
  <1>5. ASSUME NEW k \in Closers, CloserStep(k) PROVE SubjectGroups'
    BY <1>5 DEF CloserStep, Close, CloseStop
  <1>6. CASE UNCHANGED vars BY <1>6 DEF vars
  <1> QED BY <1>1, <1>2, <1>3, <1>4, <1>5, <1>6 DEF Next, CallerStep

\* Every step keeps this part: the byAccount group and its leader know each other.
LEMMA AccountGroupsStep == PoolInv /\ [Next]_vars => AccountGroups'
  <1> SUFFICES ASSUME PoolInv, [Next]_vars PROVE AccountGroups' OBVIOUS
  <1> USE PoolAssumption, ResultKinds, FirstClientPooled
      DEF PoolInv, PoolTypeOK, Acct, Goto, Yield, flights, pool, alive,
          CallsResolved, Resolved,
          AccountGroups, SubjectLeader, AccountLeader, BuildStates, ProbeStates
  <1>1. ASSUME NEW c \in Callers, Start(c) PROVE AccountGroups'
    BY <1>1 DEF Start, Refuse, For, Probe
  <1>2. ASSUME NEW c \in Callers, Login(c) PROVE AccountGroups'
    BY <1>2 DEF Login, SessionEstablished, SessionFailed, ProbeAnswered
  <1>3. ASSUME NEW c \in Callers, Acquire(c) PROVE AccountGroups'
    BY <1>3 DEF Acquire, LockAndBuild, ProbeLockAndBuild
  <1>4. ASSUME NEW c \in Callers, Progress(c) PROVE AccountGroups'
    <2>1. CASE Lookup(c) BY <2>1 DEF Lookup
    <2>2. CASE JoinAccount(c) BY <2>2 DEF JoinAccount
    <2>3. CASE Recheck(c) BY <2>3 DEF Recheck
    <2>4. CASE StartKeepAlive(c) BY <2>4 DEF StartKeepAlive
    <2>5. CASE Publish(c) BY <2>5 DEF Publish
    <2>6. CASE StopLate(c) BY <2>6 DEF StopLate
    <2>7. CASE Unlock(c) BY <2>7 DEF Unlock
    <2>8. CASE FinishAccount(c) BY <2>8 DEF FinishAccount
    <2>9. CASE FinishSubject(c) BY <2>9 DEF FinishSubject
    <2>10. CASE Return(c) BY <2>10 DEF Return
    <2>11. CASE ProbeResolve(c) BY <2>11 DEF ProbeResolve
    <2>12. CASE ProbeUnlock(c) BY <2>12 DEF ProbeUnlock
    <2> QED BY <1>4, <2>1, <2>2, <2>3, <2>4, <2>5, <2>6, <2>7, <2>8, <2>9,
               <2>10, <2>11, <2>12 DEF Progress
  <1>5. ASSUME NEW k \in Closers, CloserStep(k) PROVE AccountGroups'
    BY <1>5 DEF CloserStep, Close, CloseStop
  <1>6. CASE UNCHANGED vars BY <1>6 DEF vars
  <1> QED BY <1>1, <1>2, <1>3, <1>4, <1>5, <1>6 DEF Next, CallerStep

\* Every step keeps this part: whoever is past the lock holds it.
LEMMA LockHoldersStep == PoolInv /\ [Next]_vars => LockHolders'
  <1> SUFFICES ASSUME PoolInv, [Next]_vars PROVE LockHolders' OBVIOUS
  <1> USE PoolAssumption, ResultKinds, FirstClientPooled
      DEF PoolInv, PoolTypeOK, Acct, Goto, Yield, flights, pool, alive,
          CallsResolved, Resolved,
          LockHolders, SubjectLeader, AccountLeader, BuildStates, ProbeStates
  <1>1. ASSUME NEW c \in Callers, Start(c) PROVE LockHolders'
    BY <1>1 DEF Start, Refuse, For, Probe
  <1>2. ASSUME NEW c \in Callers, Login(c) PROVE LockHolders'
    BY <1>2 DEF Login, SessionEstablished, SessionFailed, ProbeAnswered
  <1>3. ASSUME NEW c \in Callers, Acquire(c) PROVE LockHolders'
    BY <1>3 DEF Acquire, LockAndBuild, ProbeLockAndBuild
  <1>4. ASSUME NEW c \in Callers, Progress(c) PROVE LockHolders'
    <2>1. CASE Lookup(c) BY <2>1 DEF Lookup
    <2>2. CASE JoinAccount(c) BY <2>2 DEF JoinAccount
    <2>3. CASE Recheck(c) BY <2>3 DEF Recheck
    <2>4. CASE StartKeepAlive(c) BY <2>4 DEF StartKeepAlive
    <2>5. CASE Publish(c) BY <2>5 DEF Publish
    <2>6. CASE StopLate(c) BY <2>6 DEF StopLate
    <2>7. CASE Unlock(c) BY <2>7 DEF Unlock
    <2>8. CASE FinishAccount(c) BY <2>8 DEF FinishAccount
    <2>9. CASE FinishSubject(c) BY <2>9 DEF FinishSubject
    <2>10. CASE Return(c) BY <2>10 DEF Return
    <2>11. CASE ProbeResolve(c) BY <2>11 DEF ProbeResolve
    <2>12. CASE ProbeUnlock(c) BY <2>12 DEF ProbeUnlock
    <2> QED BY <1>4, <2>1, <2>2, <2>3, <2>4, <2>5, <2>6, <2>7, <2>8, <2>9,
               <2>10, <2>11, <2>12 DEF Progress
  <1>5. ASSUME NEW k \in Closers, CloserStep(k) PROVE LockHolders'
    BY <1>5 DEF CloserStep, Close, CloseStop
  <1>6. CASE UNCHANGED vars BY <1>6 DEF vars
  <1> QED BY <1>1, <1>2, <1>3, <1>4, <1>5, <1>6 DEF Next, CallerStep

\* Every step keeps this part: an account's session is pooled or about to be.
LEMMA SessionsStep == PoolInv /\ [Next]_vars => SessionsAccounted'
  <1> SUFFICES ASSUME PoolInv, [Next]_vars PROVE SessionsAccounted' OBVIOUS
  <1> USE PoolAssumption, ResultKinds, FirstClientPooled
      DEF PoolInv, PoolTypeOK, Acct, Goto, Yield, flights, pool, alive,
          CallsResolved, Resolved,
          AccountGroups, SessionsAccounted, BuildersHold, SubjectLeader,
          AccountLeader, BuildStates, ProbeStates
  <1>1. ASSUME NEW c \in Callers, Start(c) PROVE SessionsAccounted'
    BY <1>1 DEF Start, Refuse, For, Probe
  <1>2. ASSUME NEW c \in Callers, Login(c) PROVE SessionsAccounted'
    BY <1>2 DEF Login, SessionEstablished, SessionFailed, ProbeAnswered
  <1>3. ASSUME NEW c \in Callers, Acquire(c) PROVE SessionsAccounted'
    BY <1>3 DEF Acquire, LockAndBuild, ProbeLockAndBuild
  <1>4. ASSUME NEW c \in Callers, Progress(c) PROVE SessionsAccounted'
    <2>1. CASE Lookup(c) BY <2>1 DEF Lookup
    <2>2. CASE JoinAccount(c) BY <2>2 DEF JoinAccount
    <2>3. CASE Recheck(c) BY <2>3 DEF Recheck
    <2>4. CASE StartKeepAlive(c) BY <2>4 DEF StartKeepAlive
    <2>5. CASE Publish(c) BY <2>5 DEF Publish
    <2>6. CASE StopLate(c) BY <2>6 DEF StopLate
    <2>7. CASE Unlock(c) BY <2>7 DEF Unlock
    <2>8. CASE FinishAccount(c) BY <2>8 DEF FinishAccount
    <2>9. CASE FinishSubject(c) BY <2>9 DEF FinishSubject
    <2>10. CASE Return(c) BY <2>10 DEF Return
    <2>11. CASE ProbeResolve(c) BY <2>11 DEF ProbeResolve
    <2>12. CASE ProbeUnlock(c) BY <2>12 DEF ProbeUnlock
    <2> QED BY <1>4, <2>1, <2>2, <2>3, <2>4, <2>5, <2>6, <2>7, <2>8, <2>9,
               <2>10, <2>11, <2>12 DEF Progress
  <1>5. ASSUME NEW k \in Closers, CloserStep(k) PROVE SessionsAccounted'
    BY <1>5 DEF CloserStep, Close, CloseStop
  <1>6. CASE UNCHANGED vars BY <1>6 DEF vars
  <1> QED BY <1>1, <1>2, <1>3, <1>4, <1>5, <1>6 DEF Next, CallerStep

\* Every step keeps this part: a builder carries the first client of its account.
LEMMA BuildersStep == PoolInv /\ [Next]_vars => BuildersHold'
  <1> SUFFICES ASSUME PoolInv, [Next]_vars PROVE BuildersHold' OBVIOUS
  <1> USE PoolAssumption, ResultKinds, FirstClientPooled
      DEF PoolInv, PoolTypeOK, Acct, Goto, Yield, flights, pool, alive,
          CallsResolved, Resolved,
          AccountGroups, SessionsAccounted, BuildersHold, ResultsHeld,
          Undecided, FirstClient, SubjectLeader, AccountLeader, BuildStates,
          ProbeStates
  <1>1. ASSUME NEW c \in Callers, Start(c) PROVE BuildersHold'
    BY <1>1 DEF Start, Refuse, For, Probe
  <1>2. ASSUME NEW c \in Callers, Login(c) PROVE BuildersHold'
    BY <1>2 DEF Login, SessionEstablished, SessionFailed, ProbeAnswered
  <1>3. ASSUME NEW c \in Callers, Acquire(c) PROVE BuildersHold'
    BY <1>3 DEF Acquire, LockAndBuild, ProbeLockAndBuild
  <1>4. ASSUME NEW c \in Callers, Progress(c) PROVE BuildersHold'
    <2>1. CASE Lookup(c) BY <2>1 DEF Lookup
    <2>2. CASE JoinAccount(c) BY <2>2 DEF JoinAccount
    <2>3. CASE Recheck(c) BY <2>3 DEF Recheck
    <2>4. CASE StartKeepAlive(c) BY <2>4 DEF StartKeepAlive
    <2>5. CASE Publish(c) BY <2>5 DEF Publish
    <2>6. CASE StopLate(c) BY <2>6 DEF StopLate
    <2>7. CASE Unlock(c) BY <2>7 DEF Unlock
    <2>8. CASE FinishAccount(c) BY <2>8 DEF FinishAccount
    <2>9. CASE FinishSubject(c) BY <2>9 DEF FinishSubject
    <2>10. CASE Return(c) BY <2>10 DEF Return
    <2>11. CASE ProbeResolve(c) BY <2>11 DEF ProbeResolve
    <2>12. CASE ProbeUnlock(c) BY <2>12 DEF ProbeUnlock
    <2> QED BY <1>4, <2>1, <2>2, <2>3, <2>4, <2>5, <2>6, <2>7, <2>8, <2>9,
               <2>10, <2>11, <2>12 DEF Progress
  <1>5. ASSUME NEW k \in Closers, CloserStep(k) PROVE BuildersHold'
    BY <1>5 DEF CloserStep, Close, CloseStop
  <1>6. CASE UNCHANGED vars BY <1>6 DEF vars
  <1> QED BY <1>1, <1>2, <1>3, <1>4, <1>5, <1>6 DEF Next, CallerStep

\* Every step keeps this part: a result is the right one for its call.
LEMMA ResultsStep == PoolInv /\ [Next]_vars => ResultsHeld'
  <1> SUFFICES ASSUME PoolInv, [Next]_vars PROVE ResultsHeld' OBVIOUS
  <1> USE PoolAssumption, ResultKinds, FirstClientPooled
      DEF PoolInv, PoolTypeOK, Acct, Goto, Yield, flights, pool, alive,
          CallsResolved, Resolved,
          AccountGroups, SubjectGroups, BuildersHold, ResultsHeld, Undecided,
          Decided, Result, SubjectLeader, AccountLeader, BuildStates,
          ProbeStates
  <1>1. ASSUME NEW c \in Callers, Start(c) PROVE ResultsHeld'
    BY <1>1 DEF Start, Refuse, For, Probe
  <1>2. ASSUME NEW c \in Callers, Login(c) PROVE ResultsHeld'
    BY <1>2 DEF Login, SessionEstablished, SessionFailed, ProbeAnswered
  <1>3. ASSUME NEW c \in Callers, Acquire(c) PROVE ResultsHeld'
    BY <1>3 DEF Acquire, LockAndBuild, ProbeLockAndBuild
  <1>4. ASSUME NEW c \in Callers, Progress(c) PROVE ResultsHeld'
    <2>1. CASE Lookup(c) BY <2>1 DEF Lookup
    <2>2. CASE JoinAccount(c) BY <2>2 DEF JoinAccount
    <2>3. CASE Recheck(c) BY <2>3 DEF Recheck
    <2>4. CASE StartKeepAlive(c) BY <2>4 DEF StartKeepAlive
    <2>5. CASE Publish(c) BY <2>5 DEF Publish
    <2>6. CASE StopLate(c) BY <2>6 DEF StopLate
    <2>7. CASE Unlock(c) BY <2>7 DEF Unlock
    <2>8. CASE FinishAccount(c) BY <2>8 DEF FinishAccount
    <2>9. CASE FinishSubject(c) BY <2>9 DEF FinishSubject
    <2>10. CASE Return(c) BY <2>10 DEF Return
    <2>11. CASE ProbeResolve(c) BY <2>11 DEF ProbeResolve
    <2>12. CASE ProbeUnlock(c) BY <2>12 DEF ProbeUnlock
    <2> QED BY <1>4, <2>1, <2>2, <2>3, <2>4, <2>5, <2>6, <2>7, <2>8, <2>9,
               <2>10, <2>11, <2>12 DEF Progress
  <1>5. ASSUME NEW k \in Closers, CloserStep(k) PROVE ResultsHeld'
    BY <1>5 DEF CloserStep, Close, CloseStop
  <1>6. CASE UNCHANGED vars BY <1>6 DEF vars
  <1> QED BY <1>1, <1>2, <1>3, <1>4, <1>5, <1>6 DEF Next, CallerStep

\* Every step keeps this part: a keepalive belongs to a client or its builder.
LEMMA KeepalivesStep == PoolInv /\ [Next]_vars => KeepalivesOwned'
  <1> SUFFICES ASSUME PoolInv, [Next]_vars PROVE KeepalivesOwned' OBVIOUS
  <1> USE PoolAssumption, ResultKinds, FirstClientPooled
      DEF PoolInv, PoolTypeOK, Acct, Goto, Yield, flights, pool, alive,
          CallsResolved, Resolved,
          AccountGroups, BuildersHold, KeepalivesOwned,
          SessionsAccounted, SubjectLeader, AccountLeader, BuildStates,
          ProbeStates
  <1>1. ASSUME NEW c \in Callers, Start(c) PROVE KeepalivesOwned'
    BY <1>1 DEF Start, Refuse, For, Probe
  <1>2. ASSUME NEW c \in Callers, Login(c) PROVE KeepalivesOwned'
    <2>1. /\ UNCHANGED <<clients, keepalives>>
          /\ pc[c] \in {"login", "probeLogin"}
          /\ \A d \in Callers \ {c} : pc'[d] = pc[d] /\ res'[d] = res[d]
      BY <1>2 DEF Login, SessionEstablished, SessionFailed, ProbeAnswered
    <2> QED BY <2>1
  <1>3. ASSUME NEW c \in Callers, Acquire(c) PROVE KeepalivesOwned'
    BY <1>3 DEF Acquire, LockAndBuild, ProbeLockAndBuild
  <1>4. ASSUME NEW c \in Callers, Progress(c) PROVE KeepalivesOwned'
    <2>1. CASE Lookup(c) BY <2>1 DEF Lookup
    <2>2. CASE JoinAccount(c) BY <2>2 DEF JoinAccount
    <2>3. CASE Recheck(c) BY <2>3 DEF Recheck
    <2>4. CASE StartKeepAlive(c) BY <2>4 DEF StartKeepAlive
    <2>5. CASE Publish(c) BY <2>5 DEF Publish
    <2>6. CASE StopLate(c) BY <2>6 DEF StopLate
    <2>7. CASE Unlock(c) BY <2>7 DEF Unlock
    <2>8. CASE FinishAccount(c) BY <2>8 DEF FinishAccount
    <2>9. CASE FinishSubject(c) BY <2>9 DEF FinishSubject
    <2>10. CASE Return(c) BY <2>10 DEF Return
    <2>11. CASE ProbeResolve(c) BY <2>11 DEF ProbeResolve
    <2>12. CASE ProbeUnlock(c) BY <2>12 DEF ProbeUnlock
    <2> QED BY <1>4, <2>1, <2>2, <2>3, <2>4, <2>5, <2>6, <2>7, <2>8, <2>9,
               <2>10, <2>11, <2>12 DEF Progress
  <1>5. ASSUME NEW k \in Closers, CloserStep(k) PROVE KeepalivesOwned'
    BY <1>5 DEF CloserStep, Close, CloseStop
  <1>6. CASE UNCHANGED vars BY <1>6 DEF vars
  <1> QED BY <1>1, <1>2, <1>3, <1>4, <1>5, <1>6 DEF Next, CallerStep

\* Every step keeps this part: after Close every keepalive has somebody to stop it.
LEMMA NoOrphanStep == PoolInv /\ [Next]_vars => NoOrphanKeepalive'
  <1> SUFFICES ASSUME PoolInv, [Next]_vars PROVE NoOrphanKeepalive' OBVIOUS
  <1> USE PoolAssumption, ResultKinds, FirstClientPooled
      DEF PoolInv, PoolTypeOK, Goto, Yield, flights, pool, alive,
          NoOrphanKeepalive
  <1>1. ASSUME NEW c \in Callers, Start(c) PROVE NoOrphanKeepalive'
    <2>1. /\ UNCHANGED <<closed, keepalives, stopping>>
          /\ pc[c] = "idle"
          /\ \A d \in Callers \ {c} : pc'[d] = pc[d] /\ res'[d] = res[d]
      BY <1>1 DEF Start, Refuse, For, Probe
    <2> QED BY <2>1
  <1>2. ASSUME NEW c \in Callers, Login(c) PROVE NoOrphanKeepalive'
    BY <1>2 DEF Login, SessionEstablished, SessionFailed, ProbeAnswered
  <1>3. ASSUME NEW c \in Callers, Acquire(c) PROVE NoOrphanKeepalive'
    BY <1>3 DEF Acquire, LockAndBuild, ProbeLockAndBuild
  <1>4. ASSUME NEW c \in Callers, Progress(c) PROVE NoOrphanKeepalive'
    <2>1. CASE Lookup(c) BY <2>1 DEF Lookup
    <2>2. CASE JoinAccount(c) BY <2>2 DEF JoinAccount
    <2>3. CASE Recheck(c) BY <2>3 DEF Recheck
    <2>4. CASE StartKeepAlive(c) BY <2>4
      DEF StartKeepAlive, BuildersHold, CallsResolved, Resolved, Acct,
          AccountLeader, BuildStates
    <2>5. CASE Publish(c) BY <2>5 DEF Publish
    <2>6. CASE StopLate(c) BY <2>6 DEF StopLate
    <2>7. CASE Unlock(c) BY <2>7 DEF Unlock
    <2>8. CASE FinishAccount(c) BY <2>8 DEF FinishAccount
    <2>9. CASE FinishSubject(c) BY <2>9 DEF FinishSubject
    <2>10. CASE Return(c) BY <2>10 DEF Return
    <2>11. CASE ProbeResolve(c) BY <2>11 DEF ProbeResolve
    <2>12. CASE ProbeUnlock(c) BY <2>12 DEF ProbeUnlock
    <2> QED BY <1>4, <2>1, <2>2, <2>3, <2>4, <2>5, <2>6, <2>7, <2>8, <2>9,
               <2>10, <2>11, <2>12 DEF Progress
  <1>5. ASSUME NEW k \in Closers, CloserStep(k) PROVE NoOrphanKeepalive'
    <2>1. CASE Close(k)
      <3>1. \A x \in keepalives :
              \/ x \in stopping'[k]
              \/ \E c \in Callers : /\ pc[c] \in {"publish", "stopLate"}
                                  /\ res[c] = Got(x)
        BY <2>1 DEF Close, KeepalivesOwned
      <3> QED BY <2>1, <3>1 DEF Close
    <2>2. CASE CloseStop(k) BY <2>2 DEF CloseStop
    <2> QED BY <1>5, <2>1, <2>2 DEF CloserStep
  <1>6. CASE UNCHANGED vars BY <1>6 DEF vars
  <1> QED BY <1>1, <1>2, <1>3, <1>4, <1>5, <1>6 DEF Next, CallerStep

\* Every step keeps this part: who waits has a leader to wait for.
LEMMA WaitersStep == PoolInv /\ [Next]_vars => WaitersHaveALeader'
  <1> SUFFICES ASSUME PoolInv, [Next]_vars PROVE WaitersHaveALeader' OBVIOUS
  <1> USE PoolAssumption, ResultKinds, FirstClientPooled
      DEF PoolInv, PoolTypeOK, Acct, Goto, Yield, flights, pool, alive,
          CallsResolved, Resolved,
          SubjectGroups, AccountGroups, WaitersHaveALeader, SubjectLeader,
          AccountLeader, BuildStates, ProbeStates
  <1>1. ASSUME NEW c \in Callers, Start(c) PROVE WaitersHaveALeader'
    BY <1>1 DEF Start, Refuse, For, Probe
  <1>2. ASSUME NEW c \in Callers, Login(c) PROVE WaitersHaveALeader'
    BY <1>2 DEF Login, SessionEstablished, SessionFailed, ProbeAnswered
  <1>3. ASSUME NEW c \in Callers, Acquire(c) PROVE WaitersHaveALeader'
    BY <1>3 DEF Acquire, LockAndBuild, ProbeLockAndBuild
  <1>4. ASSUME NEW c \in Callers, Progress(c) PROVE WaitersHaveALeader'
    <2>1. CASE Lookup(c) BY <2>1 DEF Lookup
    <2>2. CASE JoinAccount(c) BY <2>2 DEF JoinAccount
    <2>3. CASE Recheck(c) BY <2>3 DEF Recheck
    <2>4. CASE StartKeepAlive(c) BY <2>4 DEF StartKeepAlive
    <2>5. CASE Publish(c) BY <2>5 DEF Publish
    <2>6. CASE StopLate(c) BY <2>6 DEF StopLate
    <2>7. CASE Unlock(c) BY <2>7 DEF Unlock
    <2>8. CASE FinishAccount(c) BY <2>8 DEF FinishAccount
    <2>9. CASE FinishSubject(c) BY <2>9 DEF FinishSubject
    <2>10. CASE Return(c) BY <2>10 DEF Return
    <2>11. CASE ProbeResolve(c) BY <2>11 DEF ProbeResolve
    <2>12. CASE ProbeUnlock(c) BY <2>12 DEF ProbeUnlock
    <2> QED BY <1>4, <2>1, <2>2, <2>3, <2>4, <2>5, <2>6, <2>7, <2>8, <2>9,
               <2>10, <2>11, <2>12 DEF Progress
  <1>5. ASSUME NEW k \in Closers, CloserStep(k) PROVE WaitersHaveALeader'
    BY <1>5 DEF CloserStep, Close, CloseStop
  <1>6. CASE UNCHANGED vars BY <1>6 DEF vars
  <1> QED BY <1>1, <1>2, <1>3, <1>4, <1>5, <1>6 DEF Next, CallerStep

\* The invariant holds at first.
LEMMA PoolInvInit == Init => PoolInv
  <1> SUFFICES ASSUME Init PROVE PoolInv OBVIOUS
  <1>1. PoolTypeOK BY TypeInit
  <1>2. /\ CallsResolved /\ SubjectGroups /\ AccountGroups /\ LockHolders
        /\ SessionsAccounted /\ BuildersHold /\ KeepalivesOwned
    BY PoolAssumption
    DEF Init, CallsResolved, SubjectGroups, AccountGroups, LockHolders,
        SessionsAccounted, BuildersHold, KeepalivesOwned, SubjectLeader,
        AccountLeader, BuildStates, ProbeStates, Resolved
  <1>3. ResultsHeld BY DEF Init, ResultsHeld, Undecided, Decided
  <1>4. NoOrphanKeepalive /\ WaitersHaveALeader
    BY DEF Init, NoOrphanKeepalive, WaitersHaveALeader
  <1> QED BY <1>1, <1>2, <1>3, <1>4 DEF PoolInv

\* Every step keeps all of its parts.
LEMMA PoolInvStep == PoolInv /\ [Next]_vars => PoolInv'
  BY TypeStep, CallsResolvedStep, SubjectGroupsStep, AccountGroupsStep,
     LockHoldersStep, SessionsStep, BuildersStep, ResultsStep, KeepalivesStep,
     NoOrphanStep, WaitersStep
  DEF PoolInv

\* The strengthened invariant holds in every reachable state of the pool.
THEOREM PoolInvariant == Spec => []PoolInv
  BY PoolInvInit, PoolInvStep, PTL DEF Spec

\* Every variable keeps its type, for any number of goroutines.
THEOREM TypeCorrect == Spec => []PoolTypeOK
  <1>1. PoolInv => PoolTypeOK BY DEF PoolInv
  <1> QED BY <1>1, PoolInvariant, PTL

\* No two goroutines are ever inside a login against the same account: each
\* one that is holds the account's login mutex.
THEOREM LoginsExclude == Spec => []LoginExclusion
  <1>1. PoolInv => LoginExclusion
    BY DEF PoolInv, LockHolders, LoginExclusion, LoggingIn, BuildStates,
           ProbeStates
  <1> QED BY <1>1, PoolInvariant, PTL

\* An account's pooled session is established at most once, whatever failed
\* before and however the callers interleave.
THEOREM SessionsOnce == Spec => []OneSessionPerAccount
  <1>1. PoolInv => OneSessionPerAccount
    BY DEF PoolInv, SessionsAccounted, OneSessionPerAccount
  <1> QED BY <1>1, PoolInvariant, PTL

\* For answers with the pooled client of the caller's own account, and with
\* ErrNoAccount exactly when there is no account.
THEOREM AnswersOwn == Spec => []AnswerIsOwnPooledClient
  <1>1. PoolInv => AnswerIsOwnPooledClient
    BY FirstClientPooled, ResultKinds
    DEF PoolInv, PoolTypeOK, ResultsHeld, Decided, SessionsAccounted,
        AnswerIsOwnPooledClient
  <1> QED BY <1>1, PoolInvariant, PTL

\* After Close every keepalive still running is about to be stopped.
THEOREM KeepalivesHaveAStopper == Spec => []NoOrphanKeepalive
  <1>1. PoolInv => NoOrphanKeepalive BY DEF PoolInv
  <1> QED BY <1>1, PoolInvariant, PTL

\* A pooled client stays the account's client for ever.
THEOREM ClientsStay == Spec => ClientNeverReplaced
  <1>1. PoolInv /\ [Next]_vars =>
          [\A a \in Accounts : clients[a] # NoClient
                                 => clients'[a] = clients[a]]_vars
    <2> SUFFICES ASSUME PoolInv, Next, NEW a \in Accounts,
                        clients[a] # NoClient
                 PROVE  clients'[a] = clients[a]
      BY DEF vars
    <2>1. ASSUME NEW c \in Callers, Publish(c) PROVE clients'[a] = clients[a]
      BY <2>1 DEF Publish, PoolInv, PoolTypeOK, BuildersHold
    <2>2. ASSUME UNCHANGED clients PROVE clients'[a] = clients[a]
      BY <2>2
    <2> QED
      BY <2>1, <2>2
      DEF Next, CallerStep, CloserStep, Start, Login, Acquire, Progress,
          Refuse, For, Probe, SessionEstablished, SessionFailed,
          ProbeAnswered, LockAndBuild, ProbeLockAndBuild, Lookup,
          JoinAccount, Recheck, StartKeepAlive, StopLate, Unlock,
          FinishAccount, FinishSubject, Return, ProbeResolve, ProbeUnlock,
          Close, CloseStop, pool
  <1> QED BY <1>1, PoolInvariant, PTL DEF Spec, ClientNeverReplaced

-----------------------------------------------------------------------------
(* The pool implements LoginService *)

\* The pool starts as the service does.
LEMMA RefinementInit == Init => Service!Init
  BY DEF Init, Service!Init, stageBar, answerBar, attemptsBar

\* Steps that no user of the pool can see.
LEMMA RefinementStutters ==
  ASSUME PoolInv, NEW c \in Callers,
         \/ Lookup(c) \/ JoinAccount(c) \/ Recheck(c) \/ StartKeepAlive(c)
         \/ StopLate(c) \/ Unlock(c) \/ FinishAccount(c)
  PROVE  UNCHANGED Service!svars
  <1> USE DEF PoolInv, PoolTypeOK, Goto, Yield, flights, pool, alive, Acct
  <1>1. /\ UNCHANGED <<req, sessions, clients>>
        /\ pc[c] \notin {"idle", "return", "login", "probeLogin"}
        /\ pc'[c] \notin {"idle", "return", "login", "probeLogin"}
        /\ \A d \in Callers : pc'[d] # pc[d] =>
             /\ pc[d] \notin {"idle", "return", "login", "probeLogin"}
             /\ pc'[d] \notin {"idle", "return", "login", "probeLogin"}
        /\ \A d \in Callers : pc[d] = "return" => res'[d] = res[d]
    BY DEF Lookup, JoinAccount, Recheck, StartKeepAlive, StopLate, Unlock,
           FinishAccount
  <1>2. stageBar' = stageBar BY <1>1 DEF stageBar
  <1>3. answerBar' = answerBar BY <1>1 DEF answerBar
  <1>4. attemptsBar' = attemptsBar BY <1>1 DEF attemptsBar
  <1> QED BY <1>1, <1>2, <1>3, <1>4 DEF Service!svars

\* A call begins, or is refused for want of an identity.
LEMMA RefinementStart ==
  ASSUME PoolInv, NEW c \in Callers, Start(c)
  PROVE  Service!Next
  <1> USE DEF PoolInv, PoolTypeOK, Goto, Yield, flights, pool, alive, Acct
  <1>1. CASE Refuse(c)
    <2>1. /\ stageBar[c] = "idle"
          /\ stageBar' = [stageBar EXCEPT ![c] = "answered"]
      BY <1>1 DEF Refuse, stageBar
    <2>2. answerBar' = [answerBar EXCEPT ![c] = Failed]
      BY <1>1 DEF Refuse, answerBar
    <2>3. UNCHANGED <<req, attemptsBar, sessions, clients>>
      BY <1>1 DEF Refuse, attemptsBar
    <2> QED BY <2>1, <2>2, <2>3 DEF Service!Next, Service!RefuseUnverified
  <1>2. ASSUME NEW s \in Subjects, For(c, s) \/ Probe(c, s)
        PROVE  Service!Next
    <2>1. /\ stageBar[c] = "idle"
          /\ stageBar' = [stageBar EXCEPT ![c] = "called"]
      BY <1>2 DEF For, Probe, stageBar
    <2>2. answerBar' = answerBar
      BY <1>2 DEF For, Probe, answerBar
    <2>3. attemptsBar' = attemptsBar
      BY <1>2 DEF For, Probe, attemptsBar
    <2>4. /\ req' = [req EXCEPT ![c] = s]
          /\ UNCHANGED <<sessions, clients>>
      BY <1>2 DEF For, Probe
    <2> QED BY <2>1, <2>2, <2>3, <2>4 DEF Service!Next, Service!Call
  <1> QED BY <1>1, <1>2 DEF Start

\* An attempt begins when the mutex is free, hence when nobody is attempting.
LEMMA RefinementAcquire ==
  ASSUME PoolInv, NEW c \in Callers, Acquire(c)
  PROVE  Service!Next \/ UNCHANGED Service!svars
  <1> USE PoolAssumption
      DEF PoolInv, PoolTypeOK, Goto, Yield, flights, pool, alive, Acct
  <1>1. /\ pc[c] \in {"lock", "probeLock"}
        /\ loginLock[Acct(c)] = Nobody
        /\ pc' \in {[pc EXCEPT ![c] = s] :
                     s \in {"login", "probeLogin", "unlock", "probeUnlock"}}
        /\ \A d \in Callers \ {c} : res'[d] = res[d]
        /\ UNCHANGED <<req, sessions, clients>>
    BY DEF Acquire, LockAndBuild, ProbeLockAndBuild
  <1>2. Acct(c) \in Accounts
    BY <1>1 DEF CallsResolved, Resolved, AccountLeader
  <1>3. stageBar[c] = "called" /\ stageBar' = stageBar
    BY <1>1 DEF stageBar
  <1>4. answerBar' = answerBar
    BY <1>1 DEF answerBar
  <1>5. CASE pc'[c] \in {"login", "probeLogin"}
    <2>1. attemptsBar[Acct(c)] = {}
      BY <1>1, <1>2
      DEF attemptsBar, LockHolders, BuildStates, ProbeStates
    <2>2. attemptsBar' = [attemptsBar EXCEPT ![Acct(c)] = {c}]
      <3>1. \A a \in Accounts \ {Acct(c)} : attemptsBar'[a] = attemptsBar[a]
        BY <1>1 DEF attemptsBar
      <3>2. attemptsBar'[Acct(c)] = {c}
        BY <1>1, <1>2, <1>5, <2>1 DEF attemptsBar
      <3>3. /\ attemptsBar = [a \in Accounts |-> attemptsBar[a]]
            /\ attemptsBar' = [a \in Accounts |-> attemptsBar'[a]]
        BY DEF attemptsBar
      <3> QED BY <3>1, <3>2, <3>3
    <2> QED
      BY <1>1, <1>2, <1>3, <1>4, <2>1, <2>2
      DEF Service!Next, Service!Attempt
  <1>6. CASE pc'[c] \in {"unlock", "probeUnlock"}
    <2>1. attemptsBar' = attemptsBar
      BY <1>1, <1>6 DEF attemptsBar
    <2> QED BY <1>1, <1>3, <1>4, <2>1 DEF Service!svars
  <1> QED BY <1>1, <1>5, <1>6

\* An attempt ends, the first successful build opening the session.
LEMMA RefinementLogin ==
  ASSUME PoolInv, NEW c \in Callers, Login(c)
  PROVE  Service!Next
  <1> USE PoolAssumption
      DEF PoolInv, PoolTypeOK, Goto, Yield, flights, pool, alive, Acct
  <1>1. /\ pc[c] \in {"login", "probeLogin"}
        /\ pc' \in {[pc EXCEPT ![c] = s] :
                     s \in {"keepalive", "unlock", "probeUnlock"}}
        /\ \A d \in Callers \ {c} : res'[d] = res[d]
        /\ UNCHANGED <<req, clients>>
    BY DEF Login, SessionEstablished, SessionFailed, ProbeAnswered
  <1>2. Acct(c) \in Accounts
    BY <1>1 DEF CallsResolved, Resolved, AccountLeader, BuildStates,
                ProbeStates
  <1>3. stageBar[c] = "called" /\ stageBar' = stageBar
    BY <1>1 DEF stageBar
  <1>4. answerBar' = answerBar
    BY <1>1 DEF answerBar
  <1>5. attemptsBar[Acct(c)] = {c}
    BY <1>1, <1>2 DEF attemptsBar, LockHolders, BuildStates, ProbeStates
  <1>6. attemptsBar' = [attemptsBar EXCEPT ![Acct(c)] = {}]
    <2>1. \A a \in Accounts \ {Acct(c)} : attemptsBar'[a] = attemptsBar[a]
      BY <1>1 DEF attemptsBar
    <2>2. attemptsBar'[Acct(c)] = {}
      <3>1. \A d \in Callers : pc[d] \in {"login", "probeLogin"}
                              /\ Acct(d) = Acct(c) => d = c
        BY <1>1, <1>2, <1>5 DEF attemptsBar
      <3>2. \A d \in Callers : ~(/\ pc'[d] \in {"login", "probeLogin"}
                                 /\ AccountOf[req[d]] = Acct(c))
        BY <1>1, <3>1
      <3>3. attemptsBar'[Acct(c)] =
              {d \in Callers : /\ pc'[d] \in {"login", "probeLogin"}
                               /\ AccountOf[req[d]] = Acct(c)}
        BY <1>1, <1>2 DEF attemptsBar
      <3> QED BY <3>2, <3>3
    <2>3. /\ attemptsBar = [a \in Accounts |-> attemptsBar[a]]
          /\ attemptsBar' = [a \in Accounts |-> attemptsBar'[a]]
      BY DEF attemptsBar
    <2> QED BY <2>1, <2>2, <2>3
  <1>7. \/ UNCHANGED sessions
        \/ /\ sessions[Acct(c)] = 0
           /\ sessions' = [sessions EXCEPT ![Acct(c)] = 1]
    <2>1. CASE SessionEstablished(c)
      <3>1. sessions[Acct(c)] = 0
        BY <2>1, <1>2
        DEF SessionEstablished, SessionsAccounted, BuildersHold,
            AccountGroups, AccountLeader, BuildStates
      <3> QED BY <2>1, <3>1 DEF SessionEstablished
    <2>2. CASE SessionFailed(c) BY <2>2 DEF SessionFailed
    <2>3. CASE ProbeAnswered(c) BY <2>3 DEF ProbeAnswered
    <2> QED BY <2>1, <2>2, <2>3 DEF Login
  <1> QED
    BY <1>1, <1>2, <1>3, <1>4, <1>5, <1>6, <1>7
    DEF Service!Next, Service!AttemptEnds

\* The pooled client appears once its session is established.
LEMMA RefinementPublish ==
  ASSUME PoolInv, NEW c \in Callers, Publish(c)
  PROVE  Service!Next
  <1> USE PoolAssumption
      DEF PoolInv, PoolTypeOK, Goto, Yield, flights, pool, alive, Acct
  <1>1. Acct(c) \in Accounts
    BY DEF Publish, CallsResolved, Resolved, AccountLeader, BuildStates
  <1>2. /\ sessions[Acct(c)] = 1
        /\ clients[Acct(c)] = NoClient
        /\ clients' = [clients EXCEPT ![Acct(c)] = FirstClient(Acct(c))]
        /\ UNCHANGED <<req, sessions>>
    BY DEF Publish, BuildersHold
  <1>3. stageBar' = stageBar
    BY DEF Publish, stageBar
  <1>4. answerBar' = answerBar
    BY DEF Publish, answerBar
  <1>5. attemptsBar' = attemptsBar
    BY DEF Publish, attemptsBar
  <1> QED BY <1>1, <1>2, <1>3, <1>4, <1>5 DEF Service!Next, Service!Share

\* What a call past the flights may hold is what LoginService may answer.
LEMMA AnswersAllowed ==
  ASSUME PoolInv, NEW c \in Callers, pc[c] = "finishSubject"
  PROVE  res[c] \in Service!Answers(req[c])
  <1> USE PoolAssumption, ResultKinds DEF PoolInv, PoolTypeOK, Acct
  <1>1. req[c] \in Subjects BY DEF CallsResolved
  <1>2. res[c] = Denied <=> Acct(c) = NoAccount
    BY <1>1 DEF ResultsHeld
  <1>3. res[c] \in Pooled => Acct(c) \in Accounts /\ res[c] = clients[Acct(c)]
    BY <1>1 DEF ResultsHeld, Decided
  <1>4. res[c] # NoClient
    BY DEF ResultsHeld, Decided
  <1> QED BY <1>1, <1>2, <1>3, <1>4 DEF Service!Answers, Result

\* A flight's end answers everybody who waited for it.
LEMMA RefinementFinish ==
  ASSUME PoolInv, NEW c \in Callers, FinishSubject(c)
  PROVE  Service!Next
  <1> USE PoolAssumption
      DEF PoolInv, PoolTypeOK, Goto, Yield, flights, pool, alive, Acct
  <1> DEFINE W == {d \in Callers :
                     d = c \/ (pc[d] = "waitSubject" /\ req[d] = req[c])}
  <1>1. /\ c \in W
        /\ W \in SUBSET Callers
        /\ req[c] \in Subjects
    BY DEF FinishSubject, CallsResolved
  <1>2. \A d \in W : stageBar[d] = "called" /\ req[d] = req[c]
    BY DEF FinishSubject, stageBar
  <1>3. stageBar' = [d \in Callers |->
                       IF d \in W THEN "answered" ELSE stageBar[d]]
    BY DEF FinishSubject, stageBar
  <1>4. answerBar' = [d \in Callers |-> IF d \in W THEN res[c] ELSE answerBar[d]]
    BY DEF FinishSubject, answerBar
  <1>5. attemptsBar' = attemptsBar
    BY DEF FinishSubject, attemptsBar
  <1>6. UNCHANGED <<req, sessions, clients>>
    BY DEF FinishSubject
  <1>7. res[c] \in Service!Answers(req[c])
    BY AnswersAllowed DEF FinishSubject
  <1>8. Service!Answer(W, req[c])
    BY <1>1, <1>2, <1>3, <1>4, <1>5, <1>6, <1>7 DEF Service!Answer
  <1> QED BY <1>1, <1>8 DEF Service!Next

\* A probe answers its own caller, with ErrNoAccount before it ever locks.
LEMMA RefinementProbeEnds ==
  ASSUME PoolInv, NEW c \in Callers, ProbeResolve(c) \/ ProbeUnlock(c)
  PROVE  Service!Next \/ UNCHANGED Service!svars
  <1> USE PoolAssumption, ResultKinds
      DEF PoolInv, PoolTypeOK, Goto, Yield, flights, pool, alive, Acct
  <1>1. /\ pc[c] \in {"probeResolve", "probeUnlock"}
        /\ pc' \in {[pc EXCEPT ![c] = s] : s \in {"return", "probeLock"}}
        /\ \A d \in Callers \ {c} : res'[d] = res[d]
        /\ UNCHANGED <<req, sessions, clients>>
    BY DEF ProbeResolve, ProbeUnlock
  <1>2. req[c] \in Subjects
    BY <1>1 DEF CallsResolved
  <1>3. attemptsBar' = attemptsBar
    BY <1>1 DEF attemptsBar
  <1>4. CASE pc'[c] = "probeLock"
    <2>1. stageBar' = stageBar BY <1>1, <1>4 DEF stageBar
    <2>2. answerBar' = answerBar BY <1>1, <1>4 DEF answerBar
    <2> QED BY <1>1, <1>3, <2>1, <2>2 DEF Service!svars
  <1>5. CASE pc'[c] = "return"
    <2>1. res'[c] \in Service!Answers(req[c])
      BY <1>1, <1>2, <1>5
      DEF ProbeResolve, ProbeUnlock, ResultsHeld, CallsResolved, Resolved,
          ProbeStates, Service!Answers
    <2>2. /\ stageBar[c] = "called"
          /\ stageBar' = [d \in Callers |->
                            IF d \in {c} THEN "answered" ELSE stageBar[d]]
      BY <1>1, <1>5 DEF stageBar
    <2>3. answerBar' = [d \in Callers |->
                          IF d \in {c} THEN res'[c] ELSE answerBar[d]]
      BY <1>1, <1>5 DEF answerBar
    <2>4. Service!Answer({c}, req[c])
      BY <1>1, <1>3, <2>1, <2>2, <2>3 DEF Service!Answer
    <2> QED BY <1>2, <2>4 DEF Service!Next
  <1> QED BY <1>1, <1>4, <1>5

\* The answer goes back to the caller.
LEMMA RefinementReturn ==
  ASSUME PoolInv, NEW c \in Callers, Return(c)
  PROVE  Service!Next
  <1> USE DEF PoolInv, PoolTypeOK, Goto, Yield, flights, pool, alive, Acct
  <1>1. /\ stageBar[c] = "answered"
        /\ stageBar' = [stageBar EXCEPT ![c] = "idle"]
    BY DEF Return, stageBar
  <1>2. answerBar' = [answerBar EXCEPT ![c] = NoClient]
    BY DEF Return, answerBar
  <1>3. attemptsBar' = attemptsBar
    BY DEF Return, attemptsBar
  <1>4. /\ req' = [req EXCEPT ![c] = NoSubject]
        /\ UNCHANGED <<sessions, clients>>
    BY DEF Return
  <1> QED BY <1>1, <1>2, <1>3, <1>4 DEF Service!Next, Service!Done

\* Every behaviour of the pool is, seen through its answers, its attempts and
\* its cache, a behaviour of LoginService.
THEOREM PoolImplementsService == Spec => ImplementsLoginService
  <1>1. PoolInv /\ [Next]_vars => [Service!Next]_(Service!svars)
    <2> SUFFICES ASSUME PoolInv, [Next]_vars
                 PROVE  Service!Next \/ UNCHANGED Service!svars
      OBVIOUS
    <2>1. ASSUME NEW c \in Callers, CallerStep(c)
          PROVE  Service!Next \/ UNCHANGED Service!svars
      BY <2>1, RefinementStutters, RefinementStart, RefinementAcquire,
         RefinementLogin, RefinementPublish, RefinementFinish,
         RefinementProbeEnds, RefinementReturn
      DEF CallerStep, Progress
    <2>2. ASSUME NEW k \in Closers, CloserStep(k)
          PROVE  UNCHANGED Service!svars
      <3>1. UNCHANGED <<pc, req, res, sessions, clients>>
        BY <2>2 DEF CloserStep, Close, CloseStop, pool
      <3>2. UNCHANGED <<stageBar, answerBar, attemptsBar>>
        BY <3>1 DEF stageBar, answerBar, attemptsBar, Acct
      <3> QED BY <3>1, <3>2 DEF Service!svars
    <2>3. CASE UNCHANGED vars
      BY <2>3 DEF vars, Service!svars, stageBar, answerBar, attemptsBar, Acct
    <2> QED BY <2>1, <2>2, <2>3 DEF Next
  <1> QED
    BY <1>1, RefinementInit, PoolInvariant, PTL
    DEF Spec, ImplementsLoginService, Service!Spec
=============================================================================
