--------------------------- MODULE ClientPoolInv ----------------------------
(***************************************************************************)
(* The inductive invariant behind the safety properties of ClientPool, in  *)
(* named parts.  TLC checks it as an invariant; ClientPoolProofs proves it *)
(* for every set of callers, subjects and accounts.                        *)
(***************************************************************************)
EXTENDS ClientPool

\* States in which the call's account is known to exist.
Resolved == {"joinAccount", "waitAccount", "probeLock"}
              \cup AccountLeader \cup ProbeStates

\* States before a result, and states with the final result of the flight.
Undecided == {"idle", "waitSubject", "lookup", "joinAccount", "waitAccount",
              "recheck", "lock", "login", "probeResolve", "probeLock",
              "probeLogin"}
Decided == {"unlock", "stopLate", "finishAccount", "finishSubject", "return"}

\* A call past its start carries a subject, one past the resolver an account.
CallsResolved ==
  \A c \in Callers :
    /\ pc[c] = "idle" => req[c] = NoSubject
    /\ pc[c] \notin {"idle", "return"} => req[c] \in Subjects
    /\ pc[c] \in Resolved => Acct(c) \in Accounts

\* The group's entry and the caller that runs its function know each other.
SubjectGroups ==
  /\ \A c \in Callers : pc[c] \in SubjectLeader => bySubject[req[c]] = c
  /\ \A s \in Subjects : bySubject[s] # Nobody =>
       pc[bySubject[s]] \in SubjectLeader /\ req[bySubject[s]] = s

AccountGroups ==
  /\ \A c \in Callers : pc[c] \in AccountLeader => byAccount[Acct(c)] = c
  /\ \A a \in Accounts : byAccount[a] # Nobody =>
       pc[byAccount[a]] \in AccountLeader /\ Acct(byAccount[a]) = a

\* Whoever is past loginMu.Lock() and not past the unlock holds the mutex.
LockHolders ==
  \A c \in Callers :
    pc[c] \in BuildStates \cup ProbeStates => loginLock[Acct(c)] = c

\* The account's only session is pooled, or its builder is about to pool it.
SessionsAccounted ==
  \A a \in Accounts :
    /\ clients[a] \in {NoClient, FirstClient(a)}
    /\ sessions[a] \in {0, 1}
    /\ clients[a] # NoClient => sessions[a] = 1
    /\ sessions[a] = 1 /\ clients[a] = NoClient =>
         byAccount[a] # Nobody /\ pc[byAccount[a]] \in {"keepalive", "publish"}

\* A builder about to log in has ruled out a pooled client, one that has
\* logged in carries the account's first and only one.
BuildersHold ==
  \A c \in Callers :
    /\ pc[c] \in {"lock", "login"} => clients[Acct(c)] = NoClient
    /\ pc[c] \in {"keepalive", "publish", "stopLate"} =>
         res[c] = FirstClient(Acct(c))
    /\ pc[c] \in {"keepalive", "publish"} =>
         clients[Acct(c)] = NoClient /\ sessions[Acct(c)] = 1

ResultsHeld ==
  \A c \in Callers :
    /\ pc[c] \in Undecided => res[c] = NoClient
    /\ pc[c] \in Decided => res[c] # NoClient
    /\ pc[c] \in Decided /\ req[c] \in Subjects /\ res[c] \in Pooled =>
         Acct(c) \in Accounts /\ res[c] = clients[Acct(c)]
    /\ pc[c] \in {"unlock", "finishAccount"} => res[c] # Denied
    /\ pc[c] = "probeUnlock" => res[c] \in {Ok, Failed}
    /\ pc[c] \in {"finishSubject", "return"} /\ req[c] \in Subjects =>
         (res[c] = Denied <=> Acct(c) = NoAccount)

\* A running keepalive belongs to a pooled client or to its builder.
KeepalivesOwned ==
  \A x \in keepalives :
    \/ \E a \in Accounts : clients[a] = Got(x)
    \/ \E c \in Callers : pc[c] \in {"publish", "stopLate"} /\ res[c] = Got(x)

PoolInv ==
  /\ PoolTypeOK
  /\ CallsResolved
  /\ SubjectGroups
  /\ AccountGroups
  /\ LockHolders
  /\ SessionsAccounted
  /\ BuildersHold
  /\ ResultsHeld
  /\ KeepalivesOwned
  /\ NoOrphanKeepalive
  /\ WaitersHaveALeader
=============================================================================
