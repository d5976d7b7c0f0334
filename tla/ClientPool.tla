----------------------------- MODULE ClientPool -----------------------------
(***************************************************************************)
(* internal/clientpool/pool.go: the pool that caches one authenticated     *)
(* go-fileee client per Fileee account and serialises the login creating   *)
(* it.                                                                     *)
(*                                                                         *)
(* A caller is a goroutine running one tool call at a time; it asks the    *)
(* pool for a client (For) or for an uncached login check (ProbeLogin). A  *)
(* closer is a goroutine running Close.  Every access under p.mu, every    *)
(* acquisition or release of a login lock, every entry to or exit from a   *)
(* singleflight group and every call to Fileee is one step, so all         *)
(* interleavings the mutexes leave open are behaviours of the model.       *)
(***************************************************************************)
EXTENDS Naturals, FiniteSets

CONSTANTS
  Callers,      \* goroutines that serve tool calls
  Closers,      \* goroutines that call Close
  Subjects,     \* non-empty subjects of verified identities
  Accounts,     \* account keys: the resolved Fileee usernames
  AccountOf,    \* what the resolver and accountKey yield for a subject
  KeepAlive,    \* keepaliveInterval > 0
  NoAccount,    \* the resolver refuses, or the username is blank
  NoSubject,    \* a nil identity, or one whose subject is empty
  Nobody        \* no goroutine

ASSUME PoolAssumption ==
  /\ NoAccount \notin Accounts
  /\ NoSubject \notin Subjects
  /\ Nobody \notin Callers
  /\ AccountOf \in [Subjects -> Accounts \cup {NoAccount}]
  /\ KeepAlive \in BOOLEAN

VARIABLES
  pc,         \* where each caller is
  req,        \* the identity each caller's call carries
  res,        \* the (client, error) pair each caller holds so far
  bySubject,  \* per subject, the caller whose function bySubject runs
  byAccount,  \* per account, the caller whose function byAccount runs
  loginLock,  \* per account, the holder of the login mutex
  clients,    \* the cache: p.clients
  closed,     \* p.closed
  sessions,   \* per account, how many clients ever completed EnsureSession
  keepalives, \* clients whose keepalive goroutine runs
  stopping    \* per closer, the clients whose stop it has yet to call

vars == <<pc, req, res, bySubject, byAccount, loginLock, clients, closed,
          sessions, keepalives, stopping>>

\* Variables that most steps leave alone together.
flights == <<bySubject, byAccount>>
pool    == <<clients, closed, sessions>>
alive   == <<keepalives, stopping>>

\* A client is told apart by its account and by which of the account's
\* established sessions it carries.
Client == [account : Accounts, serial : Nat]

NoClient == [kind |-> "none"]
Ok       == [kind |-> "ok"]           \* ProbeLogin returned nil
Failed   == [kind |-> "failed"]       \* any other error
Denied   == [kind |-> "noAccount"]    \* ErrNoAccount
Got(x)   == [kind |-> "client", client |-> x]

Pooled == [kind : {"client"}, client : Client]
Result == {NoClient, Ok, Failed, Denied} \cup Pooled

BuildStates == {"login", "keepalive", "publish", "stopLate", "unlock"}
ProbeStates == {"probeLogin", "probeUnlock"}
AccountLeader == {"recheck", "lock", "finishAccount"} \cup BuildStates
SubjectLeader == {"lookup", "joinAccount", "waitAccount", "finishSubject"}
                   \cup AccountLeader
States == {"idle", "waitSubject", "probeResolve", "probeLock", "return"}
            \cup ProbeStates \cup SubjectLeader

\* A resolved account without a user name (LoadConfig lets none through) has
\* an error of its own, but ends where an unknown subject does: before any
\* flight of an account, lock or login.
Acct(c) == AccountOf[req[c]]

Goto(c, state) == pc' = [pc EXCEPT ![c] = state]
Yield(c, r)    == res' = [res EXCEPT ![c] = r]

-----------------------------------------------------------------------------
Init ==
  /\ pc = [c \in Callers |-> "idle"]
  /\ req = [c \in Callers |-> NoSubject]
  /\ res = [c \in Callers |-> NoClient]
  /\ bySubject = [s \in Subjects |-> Nobody]
  /\ byAccount = [a \in Accounts |-> Nobody]
  /\ loginLock = [a \in Accounts |-> Nobody]
  /\ clients = [a \in Accounts |-> NoClient]
  /\ closed = FALSE
  /\ sessions = [a \in Accounts |-> 0]
  /\ keepalives = {}
  /\ stopping = [k \in Closers |-> {}]

-----------------------------------------------------------------------------
(* For *)

\* For or ProbeLogin with a nil identity or a blank subject.
Refuse(c) ==
  /\ pc[c] = "idle"
  /\ Goto(c, "return")
  /\ Yield(c, Failed)
  /\ UNCHANGED <<req, flights, loginLock, pool, alive>>

\* For enters bySubject: it runs the function or waits for the one running.
For(c, s) ==
  /\ pc[c] = "idle"
  /\ req' = [req EXCEPT ![c] = s]
  /\ \/ /\ bySubject[s] = Nobody
        /\ bySubject' = [bySubject EXCEPT ![s] = c]
        /\ Goto(c, "lookup")
     \/ /\ bySubject[s] # Nobody
        /\ Goto(c, "waitSubject")
        /\ UNCHANGED bySubject
  /\ UNCHANGED <<res, byAccount, loginLock, pool, alive>>

\* forSubject up to its own look into the cache.
Lookup(c) ==
  /\ pc[c] = "lookup"
  /\ \/ /\ Acct(c) = NoAccount
        /\ Yield(c, Denied)
        /\ Goto(c, "finishSubject")
     \/ /\ Acct(c) \in Accounts
        /\ clients[Acct(c)] # NoClient
        /\ Yield(c, clients[Acct(c)])
        /\ Goto(c, "finishSubject")
     \/ /\ Acct(c) \in Accounts
        /\ clients[Acct(c)] = NoClient
        /\ Goto(c, "joinAccount")
        /\ UNCHANGED res
  /\ UNCHANGED <<req, flights, loginLock, pool, alive>>

\* forSubject enters byAccount.
JoinAccount(c) ==
  /\ pc[c] = "joinAccount"
  /\ \/ /\ byAccount[Acct(c)] = Nobody
        /\ byAccount' = [byAccount EXCEPT ![Acct(c)] = c]
        /\ Goto(c, "recheck")
     \/ /\ byAccount[Acct(c)] # Nobody
        /\ Goto(c, "waitAccount")
        /\ UNCHANGED byAccount
  /\ UNCHANGED <<req, res, bySubject, loginLock, pool, alive>>

\* Variant: byAccount is taken to rule out a second build by itself.
RecheckSkipped(c) ==
  /\ pc[c] = "recheck"
  /\ Goto(c, "lock")
  /\ UNCHANGED <<req, res, flights, loginLock, pool, alive>>

\* Variant: TryLock, giving up when a probe holds the login mutex.
RecheckTryLock(c) ==
  /\ pc[c] = "recheck"
  /\ IF loginLock[Acct(c)] = Nobody
     THEN Goto(c, "lock") /\ UNCHANGED res
     ELSE Goto(c, "finishAccount") /\ Yield(c, Failed)
  /\ UNCHANGED <<req, flights, loginLock, pool, alive>>

\* buildAndLogin looks into the cache once more.
Recheck(c) ==
  /\ pc[c] = "recheck"
  /\ \/ /\ clients[Acct(c)] # NoClient
        /\ Yield(c, clients[Acct(c)])
        /\ Goto(c, "finishAccount")
     \/ /\ clients[Acct(c)] = NoClient
        /\ Goto(c, "lock")
        /\ UNCHANGED res
  /\ UNCHANGED <<req, flights, loginLock, pool, alive>>

\* Variant: byAccount is taken to serialise every login.
BuildWithoutLock(c) ==
  /\ pc[c] = "lock"
  /\ Goto(c, "login")
  /\ UNCHANGED <<req, res, flights, loginLock, pool, alive>>

\* loginMu.Lock() and NewClient, which can refuse the credentials.
LockAndBuild(c) ==
  /\ pc[c] = "lock"
  /\ loginLock[Acct(c)] = Nobody
  /\ loginLock' = [loginLock EXCEPT ![Acct(c)] = c]
  /\ \/ /\ Goto(c, "login")
        /\ UNCHANGED res
     \/ /\ Goto(c, "unlock")
        /\ Yield(c, Failed)
  /\ UNCHANGED <<req, flights, pool, alive>>

\* EnsureSession returned nil: this client carries a session from now on.
SessionEstablished(c) ==
  /\ pc[c] = "login"
  /\ sessions' = [sessions EXCEPT ![Acct(c)] = @ + 1]
  /\ Yield(c, Got([account |-> Acct(c), serial |-> sessions[Acct(c)] + 1]))
  /\ Goto(c, "keepalive")
  /\ UNCHANGED <<req, flights, loginLock, clients, closed, alive>>

\* Variant: the error of EnsureSession is not looked at.
SessionFailureIgnored(c) ==
  /\ pc[c] = "login"
  /\ Yield(c, Failed)
  /\ Goto(c, "publish")
  /\ UNCHANGED <<req, flights, loginLock, pool, alive>>

\* EnsureSession failed: refused, unreachable, blocked, or the context of
\* the caller that runs the function was cancelled.
SessionFailed(c) ==
  /\ pc[c] = "login"
  /\ Yield(c, Failed)
  /\ Goto(c, "unlock")
  /\ UNCHANGED <<req, flights, loginLock, pool, alive>>

StartKeepAlive(c) ==
  /\ pc[c] = "keepalive"
  /\ keepalives' = IF KeepAlive THEN keepalives \cup {res[c].client}
                   ELSE keepalives
  /\ Goto(c, "publish")
  /\ UNCHANGED <<req, res, flights, loginLock, pool, stopping>>

\* Variant: closed is not read back.
PublishBlindly(c) ==
  /\ pc[c] = "publish"
  /\ clients' = [clients EXCEPT ![Acct(c)] = res[c]]
  /\ Goto(c, "unlock")
  /\ UNCHANGED <<req, res, flights, loginLock, closed, sessions, alive>>

\* Under p.mu: store the client and read closed.
Publish(c) ==
  /\ pc[c] = "publish"
  /\ clients' = [clients EXCEPT ![Acct(c)] = res[c]]
  /\ Goto(c, IF closed THEN "stopLate" ELSE "unlock")
  /\ UNCHANGED <<req, res, flights, loginLock, closed, sessions, alive>>

\* Close ran during the login: buildAndLogin stops the keepalive itself.
StopLate(c) ==
  /\ pc[c] = "stopLate"
  /\ keepalives' = keepalives \ {res[c].client}
  /\ Goto(c, "unlock")
  /\ UNCHANGED <<req, res, flights, loginLock, pool, stopping>>

\* The deferred loginMu.Unlock().
Unlock(c) ==
  /\ pc[c] = "unlock"
  /\ loginLock' = [loginLock EXCEPT ![Acct(c)] = Nobody]
  /\ Goto(c, "finishAccount")
  /\ UNCHANGED <<req, res, flights, pool, alive>>

\* Variant: one group for all accounts.
FinishEveryAccount(c) ==
  /\ pc[c] = "finishAccount"
  /\ byAccount' = [byAccount EXCEPT ![Acct(c)] = Nobody]
  /\ LET woken == {d \in Callers : d = c \/ pc[d] = "waitAccount"}
     IN  /\ pc' = [d \in Callers |->
                     IF d \in woken THEN "finishSubject" ELSE pc[d]]
         /\ res' = [d \in Callers |-> IF d \in woken THEN res[c] ELSE res[d]]
  /\ UNCHANGED <<req, bySubject, loginLock, pool, alive>>

\* byAccount drops its entry and hands the result to everyone waiting.
FinishAccount(c) ==
  /\ pc[c] = "finishAccount"
  /\ byAccount' = [byAccount EXCEPT ![Acct(c)] = Nobody]
  /\ LET woken == {d \in Callers :
                     \/ d = c
                     \/ pc[d] = "waitAccount" /\ Acct(d) = Acct(c)}
     IN  /\ pc' = [d \in Callers |->
                     IF d \in woken THEN "finishSubject" ELSE pc[d]]
         /\ res' = [d \in Callers |-> IF d \in woken THEN res[c] ELSE res[d]]
  /\ UNCHANGED <<req, bySubject, loginLock, pool, alive>>

\* Variant: the group forgets who waits.
FinishSubjectAlone(c) ==
  /\ pc[c] = "finishSubject"
  /\ bySubject' = [bySubject EXCEPT ![req[c]] = Nobody]
  /\ Goto(c, "return")
  /\ UNCHANGED <<req, res, byAccount, loginLock, pool, alive>>

\* bySubject drops its entry and hands the result to everyone waiting.
FinishSubject(c) ==
  /\ pc[c] = "finishSubject"
  /\ bySubject' = [bySubject EXCEPT ![req[c]] = Nobody]
  /\ LET woken == {d \in Callers :
                     \/ d = c
                     \/ pc[d] = "waitSubject" /\ req[d] = req[c]}
     IN  /\ pc' = [d \in Callers |-> IF d \in woken THEN "return" ELSE pc[d]]
         /\ res' = [d \in Callers |-> IF d \in woken THEN res[c] ELSE res[d]]
  /\ UNCHANGED <<req, byAccount, loginLock, pool, alive>>

\* The caller takes its result and the goroutine is free again.
Return(c) ==
  /\ pc[c] = "return"
  /\ Goto(c, "idle")
  /\ req' = [req EXCEPT ![c] = NoSubject]
  /\ Yield(c, NoClient)
  /\ UNCHANGED <<flights, loginLock, pool, alive>>

-----------------------------------------------------------------------------
(* ProbeLogin *)

Probe(c, s) ==
  /\ pc[c] = "idle"
  /\ req' = [req EXCEPT ![c] = s]
  /\ Goto(c, "probeResolve")
  /\ UNCHANGED <<res, flights, loginLock, pool, alive>>

ProbeResolve(c) ==
  /\ pc[c] = "probeResolve"
  /\ \/ /\ Acct(c) = NoAccount
        /\ Yield(c, Denied)
        /\ Goto(c, "return")
     \/ /\ Acct(c) \in Accounts
        /\ Goto(c, "probeLock")
        /\ UNCHANGED res
  /\ UNCHANGED <<req, flights, loginLock, pool, alive>>

\* Variant: the probe as it was before it took the login lock.
ProbeWithoutLock(c) ==
  /\ pc[c] = "probeLock"
  /\ Goto(c, "probeLogin")
  /\ UNCHANGED <<req, res, flights, loginLock, pool, alive>>

\* loginMu.Lock() and NewClient for the throwaway client.
ProbeLockAndBuild(c) ==
  /\ pc[c] = "probeLock"
  /\ loginLock[Acct(c)] = Nobody
  /\ loginLock' = [loginLock EXCEPT ![Acct(c)] = c]
  /\ \/ /\ Goto(c, "probeLogin")
        /\ UNCHANGED res
     \/ /\ Goto(c, "probeUnlock")
        /\ Yield(c, Failed)
  /\ UNCHANGED <<req, flights, pool, alive>>

\* Login(ctx) of the throwaway client; discardSessionStore keeps nothing.
ProbeAnswered(c) ==
  /\ pc[c] = "probeLogin"
  /\ \E r \in {Ok, Failed} : Yield(c, r)
  /\ Goto(c, "probeUnlock")
  /\ UNCHANGED <<req, flights, loginLock, pool, alive>>

ProbeUnlock(c) ==
  /\ pc[c] = "probeUnlock"
  /\ loginLock' = [loginLock EXCEPT ![Acct(c)] = Nobody]
  /\ Goto(c, "return")
  /\ UNCHANGED <<req, res, flights, pool, alive>>

-----------------------------------------------------------------------------
(* Close *)

\* Variant: Close only marks the pool.
CloseWithoutStops(k) ==
  /\ stopping[k] = {}
  /\ closed' = TRUE
  /\ UNCHANGED <<pc, req, res, flights, loginLock, clients, sessions, alive>>

\* Under p.mu: mark the pool closed and collect every pooled stop.
Close(k) ==
  /\ stopping[k] = {}
  /\ closed' = TRUE
  /\ stopping' = [stopping EXCEPT ![k] =
                    {clients[a].client :
                       a \in {b \in Accounts : clients[b] # NoClient}}]
  /\ UNCHANGED <<pc, req, res, flights, loginLock, clients, sessions,
                 keepalives>>

\* Outside p.mu: one collected stop is called.
CloseStop(k) ==
  /\ \E x \in stopping[k] :
       /\ stopping' = [stopping EXCEPT ![k] = @ \ {x}]
       /\ keepalives' = keepalives \ {x}
  /\ UNCHANGED <<pc, req, res, flights, loginLock, pool>>

-----------------------------------------------------------------------------
Start(c) == Refuse(c) \/ \E s \in Subjects : For(c, s) \/ Probe(c, s)

Login(c) == SessionEstablished(c) \/ SessionFailed(c) \/ ProbeAnswered(c)

Progress(c) ==
  \/ Lookup(c) \/ JoinAccount(c) \/ Recheck(c)
  \/ StartKeepAlive(c) \/ Publish(c) \/ StopLate(c) \/ Unlock(c)
  \/ FinishAccount(c) \/ FinishSubject(c) \/ Return(c)
  \/ ProbeResolve(c) \/ ProbeUnlock(c)

Acquire(c) == LockAndBuild(c) \/ ProbeLockAndBuild(c)

CallerStep(c) == Start(c) \/ Login(c) \/ Progress(c) \/ Acquire(c)

CloserStep(k) == Close(k) \/ CloseStop(k)

Next ==
  \/ \E c \in Callers : CallerStep(c)
  \/ \E k \in Closers : CloserStep(k)

Spec == Init /\ [][Next]_vars

\* A goroutine that can run does; go-fileee's HTTP calls come back; Go's
\* mutex hands itself over to a waiter that has waited long enough, so a
\* waiter is not overtaken for ever.  Nobody has to start or to close.
Fairness ==
  /\ \A c \in Callers : /\ WF_vars(Login(c))
                        /\ WF_vars(Progress(c))
                        /\ SF_vars(Acquire(c))
  /\ \A k \in Closers : WF_vars(CloseStop(k))

FairSpec == Spec /\ Fairness

FirstClient(a) == Got([account |-> a, serial |-> 1])

\* What the pool promises, and how its state shows it: a call is answered
\* when its result is final, and an attempt is a caller inside go-fileee.
stageBar == [c \in Callers |-> IF pc[c] = "idle" THEN "idle"
                              ELSE IF pc[c] = "return" THEN "answered"
                              ELSE "called"]
answerBar == [c \in Callers |-> IF pc[c] = "return" THEN res[c] ELSE NoClient]
attemptsBar == [a \in Accounts |->
                  {c \in Callers : pc[c] \in {"login", "probeLogin"}
                                   /\ Acct(c) = a}]

Service == INSTANCE LoginService WITH
  stage <- stageBar, subject <- req, answer <- answerBar,
  attempts <- attemptsBar, opened <- sessions, session <- clients,
  PooledClient <- FirstClient

-----------------------------------------------------------------------------
(* What makes the pool correct *)

\* Every variable keeps its type; a caller holds a result of a kind For and
\* ProbeLogin have.
PoolTypeOK ==
  /\ pc \in [Callers -> States]
  /\ req \in [Callers -> Subjects \cup {NoSubject}]
  /\ res \in [Callers -> Result]
  /\ bySubject \in [Subjects -> Callers \cup {Nobody}]
  /\ byAccount \in [Accounts -> Callers \cup {Nobody}]
  /\ loginLock \in [Accounts -> Callers \cup {Nobody}]
  /\ clients \in [Accounts -> {NoClient} \cup Pooled]
  /\ closed \in BOOLEAN
  /\ sessions \in [Accounts -> Nat]
  /\ keepalives \in SUBSET Client
  /\ stopping \in [Closers -> SUBSET Client]

LoggingIn(c) == pc[c] \in {"login", "probeLogin"}

\* At no time do two goroutines run a login against the same Fileee account,
\* whether they build the pooled client or probe it for self_check
\* (loginLock, buildAndLogin, ProbeLogin).
LoginExclusion ==
  \A c, d \in Callers :
    c # d /\ LoggingIn(c) /\ LoggingIn(d) => Acct(c) # Acct(d)

\* However many callers ask through however many subjects, a pooled session
\* is established at most once per account in the life of the process
\* (the two singleflight groups and the second look into the cache).
OneSessionPerAccount == \A a \in Accounts : sessions[a] <= 1

\* What For hands back is the pool's own client for the account of the
\* caller's subject, never another account's and never one the pool forgot;
\* ErrNoAccount goes to exactly the callers without an account.
AnswerIsOwnPooledClient ==
  \A c \in Callers : pc[c] = "return" /\ req[c] # NoSubject =>
    /\ res[c] = Denied <=> Acct(c) = NoAccount
    /\ res[c] \in Pooled => /\ res[c] = clients[Acct(c)]
                            /\ res[c].client.account = Acct(c)

\* Once Close has marked the pool closed, each keepalive still running has a
\* goroutine that is going to stop it: a closer that collected its stop, or
\* the login that started it and has yet to see closed (Publish, Close).
NoOrphanKeepalive ==
  closed => \A x \in keepalives :
    \/ \E k \in Closers : x \in stopping[k]
    \/ \E c \in Callers : pc[c] \in {"publish", "stopLate"} /\ res[c] = Got(x)

\* Nobody waits in a singleflight group whose function has ended: the wakeup
\* of a waiter is never lost.
WaitersHaveALeader ==
  \A c \in Callers :
    /\ pc[c] = "waitSubject" => bySubject[req[c]] # Nobody
    /\ pc[c] = "waitAccount" => byAccount[Acct(c)] # Nobody

\* A pooled client is never dropped and never replaced by another one.
ClientNeverReplaced ==
  [][\A a \in Accounts :
       clients[a] # NoClient => clients'[a] = clients[a]]_vars

\* Every step of the pool is a step of LoginService: attempts one at a time,
\* one session ever, the same client for all callers of the account.
ImplementsLoginService == Service!Spec

\* With fair goroutines it does what LoginService's fairness asks for: every
\* call is answered and the next can be made, through both groups and the
\* login mutex, and every attempt ends.
ImplementsFairLoginService == Service!FairSpec

\* After Close no keepalive goroutine survives for good.
KeepalivesEnd == closed ~> [](keepalives = {})

\* A failed login is not remembered: if from some point on every attempt
\* succeeds, then from some point on no caller with a subject gets a failure.
FailuresDoNotStick ==
  <>[][\A c \in Callers :
         pc[c] \in {"lock", "login", "probeLock", "probeLogin"}
           => res'[c] # Failed]_vars
  => <>[](\A c \in Callers :
            pc[c] = "return" /\ req[c] # NoSubject => res[c] # Failed)
=============================================================================
