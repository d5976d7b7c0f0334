---------------------------- MODULE LoginService ----------------------------
(***************************************************************************)
(* What internal/clientpool promises its callers, without saying how: one  *)
(* attempt at a time at an account, at most one pooled session per         *)
(* account, the same client for everyone whose subject resolves to the     *)
(* account, and an answer to every call.                                   *)
(***************************************************************************)
EXTENDS Naturals

CONSTANTS Callers, Subjects, Accounts, AccountOf, NoAccount, NoSubject,
          NoClient, Ok, Failed, Denied,
          PooledClient(_)  \* the one client an account ever shares

VARIABLES
  stage,    \* per caller: idle, called or answered
  subject,  \* per caller: whose call it is
  answer,   \* per caller: the answer it has
  attempts, \* per account: the callers talking to Fileee's login
  opened,   \* per account: how many pooled sessions were ever established
  session   \* per account: the client everyone gets

svars == <<stage, subject, answer, attempts, opened, session>>

Init ==
  /\ stage = [c \in Callers |-> "idle"]
  /\ subject = [c \in Callers |-> NoSubject]
  /\ answer = [c \in Callers |-> NoClient]
  /\ attempts = [a \in Accounts |-> {}]
  /\ opened = [a \in Accounts |-> 0]
  /\ session = [a \in Accounts |-> NoClient]

Call(c, s) ==
  /\ stage[c] = "idle"
  /\ stage' = [stage EXCEPT ![c] = "called"]
  /\ subject' = [subject EXCEPT ![c] = s]
  /\ UNCHANGED <<answer, attempts, opened, session>>

RefuseUnverified(c) ==
  /\ stage[c] = "idle"
  /\ stage' = [stage EXCEPT ![c] = "answered"]
  /\ answer' = [answer EXCEPT ![c] = Failed]
  /\ UNCHANGED <<subject, attempts, opened, session>>

\* An attempt begins only when no other is under way at the account.
Attempt(c) ==
  LET a == AccountOf[subject[c]]
  IN  /\ stage[c] = "called"
      /\ a \in Accounts
      /\ attempts[a] = {}
      /\ attempts' = [attempts EXCEPT ![a] = {c}]
      /\ UNCHANGED <<stage, subject, answer, opened, session>>

\* It ends; it may have established the account's first pooled session.
AttemptEnds(c) ==
  LET a == AccountOf[subject[c]]
  IN  /\ stage[c] = "called"
      /\ a \in Accounts
      /\ attempts[a] = {c}
      /\ attempts' = [attempts EXCEPT ![a] = {}]
      /\ \/ UNCHANGED opened
         \/ opened[a] = 0 /\ opened' = [opened EXCEPT ![a] = 1]
      /\ UNCHANGED <<stage, subject, answer, session>>

\* The established session becomes everyone's.
Share(a) ==
  /\ opened[a] = 1
  /\ session[a] = NoClient
  /\ session' = [session EXCEPT ![a] = PooledClient(a)]
  /\ UNCHANGED <<stage, subject, answer, attempts, opened>>

\* The answers a subject's caller may get.
Answers(s) ==
  IF AccountOf[s] = NoAccount THEN {Denied}
  ELSE {Ok, Failed} \cup ({session[AccountOf[s]]} \ {NoClient})

\* Some calls of one subject are answered together.
Answer(W, s) ==
  /\ W # {}
  /\ \A c \in W : stage[c] = "called" /\ subject[c] = s
  /\ \E r \in Answers(s) :
       answer' = [c \in Callers |-> IF c \in W THEN r ELSE answer[c]]
  /\ stage' = [c \in Callers |-> IF c \in W THEN "answered" ELSE stage[c]]
  /\ UNCHANGED <<subject, attempts, opened, session>>

Done(c) ==
  /\ stage[c] = "answered"
  /\ stage' = [stage EXCEPT ![c] = "idle"]
  /\ subject' = [subject EXCEPT ![c] = NoSubject]
  /\ answer' = [answer EXCEPT ![c] = NoClient]
  /\ UNCHANGED <<attempts, opened, session>>

Answered(c) ==
  \E W \in SUBSET Callers, s \in Subjects : c \in W /\ Answer(W, s)

Next ==
  \/ \E c \in Callers :
       \/ \E s \in Subjects : Call(c, s)
       \/ RefuseUnverified(c) \/ Attempt(c) \/ AttemptEnds(c)
       \/ Done(c)
  \/ \E W \in SUBSET Callers, s \in Subjects : Answer(W, s)
  \/ \E a \in Accounts : Share(a)

Spec == Init /\ [][Next]_svars

FairSpec ==
  /\ Spec
  /\ \A c \in Callers :
       WF_svars(Answered(c)) /\ WF_svars(AttemptEnds(c)) /\ WF_svars(Done(c))
=============================================================================
