---------------------------- MODULE StartupProofs ----------------------------
(***************************************************************************)
(* Proofs about Startup: whatever the environment says, a server that runs *)
(* gives a subject the account it was written under and no other, the      *)
(* index of the configuration and the resolver of the server agree, and no *)
(* provider variable that is set goes unread.                              *)
(***************************************************************************)
EXTENDS Startup, TLAPS

\* What LadeAuth let through, and what it took down.
Settled ==
  pc \in {"accounts", "loaded", "failed", "unreachable", "running"} =>
    /\ AcceptsAuth(env)
    /\ cfg.claim # ""
    /\ cfg.read = IF NeedsOIDC(env) THEN ProviderVariables[env.provider]
                  ELSE {}

Fresh == pc \in {"load", "auth"} => next = 1 /\ accounts = <<>> /\ index = Empty

\* Mode single: no account until its one entry is there.
SingleEntry ==
  env.accountMode = "single" =>
    /\ pc = "accounts" => accounts = <<>> /\ index = Empty
    /\ pc \in {"loaded", "failed", "unreachable", "running"} =>
         accounts = <<Entry(DefaultKey, env.single)>>

\* Mode multi: the accounts are the first entries of FILEEE_ACCOUNTS, each
\* with the variables of its own prefix, and in the end all of them.
MultiEntries ==
  env.accountMode = "multi" =>
    /\ Len(accounts) = next - 1 /\ next - 1 <= Len(env.keys)
    /\ \A i \in DOMAIN accounts :
         accounts[i] = Entry(env.keys[i], env.account[PrefixOf[env.keys[i]]])
    /\ pc \in {"loaded", "failed", "unreachable", "running"} =>
         next - 1 = Len(env.keys)

\* No subject is in two accounts.
SubjectsApart ==
  \A i, j \in DOMAIN accounts :
    Elems(accounts[i].subjects) \cap Elems(accounts[j].subjects) # {} => i = j

\* The index has the subjects of the accounts, each under its account's key.
Mirrors ==
  /\ \A s \in DOMAIN index :
       \E i \in DOMAIN accounts : s \in Elems(accounts[i].subjects)
  /\ \A i \in DOMAIN accounts : \A s \in Elems(accounts[i].subjects) :
       s \in DOMAIN index /\ index[s] = accounts[i].key

Answered ==
  /\ pc = "running" => ~Unsupported /\ resolver = BuildResolver(accounts)
  /\ pc # "running" => resolver = Empty /\ answer = "none"
  /\ answer \notin {"none", "noTools", "ErrNoAccount"} =>
       /\ ScopesSatisfied(caller.scopes)
       /\ caller.subject \in DOMAIN resolver
       /\ answer = resolver[caller.subject]

StartupInv ==
  /\ TypeOK
  /\ Settled
  /\ Fresh
  /\ SingleEntry
  /\ MultiEntries
  /\ SubjectsApart
  /\ Mirrors
  /\ Answered
-----------------------------------------------------------------------------
\* What an environment gives an account, and what New makes of the accounts.
AccountType == [key : Keys \cup {DefaultKey}, user : Users,
                subjects : Seq(Subjects)]

LEMMA AccountFields ==
  ASSUME NEW a \in Account, Complete(a)
  PROVE  /\ a.user \in Users /\ a.subjects \in Seq(Subjects)
         /\ Elems(a.subjects) \subseteq Subjects
         /\ \A k \in Keys \cup {DefaultKey} :
              /\ Entry(k, a) \in AccountType
              /\ Entry(k, a).key = k /\ Entry(k, a).user = a.user
              /\ Entry(k, a).subjects = a.subjects
<1>1. a.user \in Users /\ a.subjects \in Seq(Subjects)
  BY DEF Account, Complete
<1> QED
  BY <1>1 DEF Elems, Entry, AccountType

LEMMA EnvironmentFields ==
  ASSUME NEW e \in Environment
  PROVE  /\ e.claim \in {"", "oid", "sub", "email"}
         /\ e.set \subseteq AllVariables
         /\ e.provider \in Providers \cup {"", "bad"}
         /\ e.accountMode \in {"single", "multi"}
         /\ e.single \in Account
         /\ e.keys \in Seq(Keys) /\ Len(e.keys) \in Nat
         /\ e.account \in [Prefixes -> Account]
<1>1. /\ e.claim \in {"", "oid", "sub", "email"}
      /\ e.set \subseteq AllVariables
      /\ e.provider \in Providers \cup {"", "bad"}
      /\ e.accountMode \in {"single", "multi"}
  BY DEF Environment
<1>2. e.single \in Account /\ e.account \in [Prefixes -> Account]
  BY DEF Environment
<1>3. e.keys \in Seq(Keys)
  BY DEF Environment
<1>4. Len(e.keys) \in Nat
  BY <1>3
<1> QED
  BY <1>1, <1>2, <1>3, <1>4

LEMMA EntryFields ==
  ASSUME NEW k, NEW a
  PROVE  /\ Entry(k, a).key = k /\ Entry(k, a).user = a.user
         /\ Entry(k, a).subjects = a.subjects
  BY DEF Entry

\* The resolver has the subjects of the accounts and no others, and with
\* subjects apart each has its own account's user.
LEMMA ResolverNames ==
  ASSUME SubjectsApart
  PROVE  /\ \A s : s \in DOMAIN BuildResolver(accounts) <=>
              \E i \in DOMAIN accounts : s \in Elems(accounts[i].subjects)
         /\ \A i \in DOMAIN accounts : \A s \in Elems(accounts[i].subjects) :
              BuildResolver(accounts)[s] = accounts[i].user
<1>1. \A s : s \in DOMAIN BuildResolver(accounts) <=>
        \E i \in DOMAIN accounts : s \in Elems(accounts[i].subjects)
  BY DEF BuildResolver
<1>2. ASSUME NEW i \in DOMAIN accounts, NEW s \in Elems(accounts[i].subjects)
      PROVE  BuildResolver(accounts)[s] = accounts[i].user
  <2> DEFINE j == CHOOSE n \in DOMAIN accounts :
                    s \in Elems(accounts[n].subjects)
  <2>1. j \in DOMAIN accounts /\ s \in Elems(accounts[j].subjects)
    OBVIOUS
  <2>2. j = i
    BY <2>1 DEF SubjectsApart
  <2>3. BuildResolver(accounts)[s] = accounts[j].user
    BY DEF BuildResolver
  <2> QED
    BY <2>2, <2>3
<1> QED
  BY <1>1, <1>2

-----------------------------------------------------------------------------
LEMMA InitInv == Init => StartupInv
<1> SUFFICES ASSUME Init PROVE StartupInv
  OBVIOUS
<1>0. env \in Environment
  BY StartupAssumption DEF Init
<1>1. accounts = <<>> /\ Len(accounts) = 0 /\ DOMAIN accounts = {}
      /\ DOMAIN index = {} /\ DOMAIN resolver = {} /\ next = 1
  BY DEF Init, Empty
<1>2. TypeOK
  <2>1. cfg \in [claim : {"", "oid", "sub", "email"},
                 read : SUBSET AllVariables, warned : BOOLEAN]
    BY DEF Init, NoCfg
  <2>2. caller \in [subject : Subjects \cup {NoSubject},
                    scopes : SUBSET Scopes]
    BY DEF Init, NoCaller
  <2>3. accounts \in Seq(AccountType)
    BY <1>1
  <2>4. /\ pc = "load" /\ next \in Nat \ {0}
        /\ answer \in Users \cup {"none", "noTools", "ErrNoAccount"}
    BY DEF Init
  <2> QED
    BY <1>0, <1>1, <2>1, <2>2, <2>3, <2>4 DEF TypeOK, AccountType
<1>3. Settled /\ Fresh /\ SingleEntry /\ Answered
  BY DEF Init, Settled, Fresh, SingleEntry, Answered
<1>4. MultiEntries
  <2>1. Len(env.keys) \in Nat
    BY <1>0, EnvironmentFields
  <2> QED
    BY <1>1, <2>1 DEF Init, MultiEntries
<1>5. SubjectsApart /\ Mirrors
  BY <1>1 DEF SubjectsApart, Mirrors
<1> QED
  BY <1>2, <1>3, <1>4, <1>5 DEF StartupInv

LEMMA LoadConfigKeeps == StartupInv /\ LoadConfig => StartupInv'
<1> SUFFICES ASSUME StartupInv, LoadConfig PROVE StartupInv'
  OBVIOUS
<1>1. /\ pc = "load" /\ pc' \in {"auth", "refused"}
      /\ UNCHANGED <<env, cfg, next, accounts, index, resolver, caller,
                     answer>>
  BY DEF LoadConfig, loaded, serving
<1>2. TypeOK'
  BY <1>1 DEF StartupInv, TypeOK
<1>3. Settled' /\ Fresh' /\ SingleEntry' /\ MultiEntries'
  BY <1>1 DEF StartupInv, Settled, Fresh, SingleEntry, MultiEntries
<1>4. SubjectsApart' /\ Mirrors'
  BY <1>1 DEF StartupInv, SubjectsApart, Mirrors
<1>5. Answered'
  BY <1>1 DEF StartupInv, Answered
<1> QED
  BY <1>2, <1>3, <1>4, <1>5 DEF StartupInv

LEMMA LadeAuthKeeps == StartupInv /\ LadeAuth => StartupInv'
<1> SUFFICES ASSUME StartupInv, LadeAuth PROVE StartupInv'
  OBVIOUS
<1> DEFINE claim == IF env.claim = ""
                    THEN DefaultSubjectClaim(env.provider) ELSE env.claim
           read == IF NeedsOIDC(env)
                   THEN ProviderVariables[env.provider] ELSE {}
           warned == NeedsToken(env) /\ env.resource \in {"public", "otherPublic"}
<1>1. /\ pc = "auth" /\ pc' \in {"refused", "accounts"}
      /\ pc' = "accounts" => AcceptsAuth(env)
      /\ \/ pc' = "refused" /\ cfg' = cfg
         \/ /\ AcceptsAuth(env)
            /\ cfg' = [claim |-> claim, read |-> read, warned |-> warned]
      /\ UNCHANGED <<env, next, accounts, index, resolver, caller, answer>>
  BY DEF LadeAuth, serving
<1>2. claim \in {"oid", "sub", "email"}
  <2>1. env.claim \in {"", "oid", "sub", "email"}
    BY EnvironmentFields DEF StartupInv, TypeOK
  <2> QED
    BY <2>1 DEF DefaultSubjectClaim
<1>3. AcceptsAuth(env) => read \in SUBSET AllVariables
  <2>1. \A p \in Providers : ProviderVariables[p] \subseteq AllVariables
    BY DEF AllVariables
  <2>2. AcceptsAuth(env) /\ NeedsOIDC(env) => env.provider \in Providers
    BY DEF AcceptsAuth, ResolvesProvider
  <2> QED
    BY <2>1, <2>2
<1>4. warned \in BOOLEAN
  OBVIOUS
<1>5. /\ cfg' \in [claim : {"", "oid", "sub", "email"},
                   read : SUBSET AllVariables, warned : BOOLEAN]
      /\ pc' = "accounts" => cfg'.claim # "" /\ cfg'.read = read
  <2>1. CASE pc' = "refused" /\ cfg' = cfg
    BY <2>1 DEF StartupInv, TypeOK
  <2>2. CASE /\ AcceptsAuth(env)
             /\ cfg' = [claim |-> claim, read |-> read, warned |-> warned]
    <3>1. PICK c \in {"oid", "sub", "email"}, r \in SUBSET AllVariables,
               w \in BOOLEAN :
            r = read /\ cfg' = [claim |-> c, read |-> r, warned |-> w]
      BY <1>2, <1>3, <1>4, <2>2, Zenon
    <3> HIDE DEF read
    <3> QED
      BY <3>1
  <2> QED
    BY <1>1, <2>1, <2>2, Zenon
<1>6. TypeOK'
  BY <1>1, <1>5 DEF StartupInv, TypeOK
<1>7. Settled'
  BY <1>1, <1>5 DEF Settled
<1>8. Fresh' /\ SingleEntry' /\ MultiEntries'
  BY <1>1 DEF StartupInv, Fresh, SingleEntry, MultiEntries
<1>9. SubjectsApart' /\ Mirrors'
  BY <1>1 DEF StartupInv, SubjectsApart, Mirrors
<1>10. Answered'
  BY <1>1 DEF StartupInv, Answered
<1> QED
  BY <1>6, <1>7, <1>8, <1>9, <1>10 DEF StartupInv

\* Mode single: one entry, whose subjects all get its key.
LEMMA LadeSingleKeeps == StartupInv /\ LadeSingle => StartupInv'
<1> SUFFICES ASSUME StartupInv, LadeSingle PROVE StartupInv'
  OBVIOUS
<1> DEFINE q == env.single.subjects
           one == Entry(DefaultKey, env.single)
<1>0. /\ pc = "accounts" /\ env.accountMode = "single"
      /\ UNCHANGED <<env, cfg, next, resolver, caller, answer>>
  BY DEF LadeSingle, serving
<1>1. accounts = <<>> /\ index = Empty /\ env.single \in Account
  BY <1>0, EnvironmentFields DEF StartupInv, SingleEntry, TypeOK
<1>2. CASE pc' = "refused" /\ UNCHANGED <<accounts, index>>
  <2>1. TypeOK'
    BY <1>0, <1>2 DEF StartupInv, TypeOK
  <2>2. Settled' /\ Fresh' /\ SingleEntry' /\ MultiEntries'
    BY <1>0, <1>2 DEF StartupInv, Settled, Fresh, SingleEntry, MultiEntries
  <2>3. SubjectsApart' /\ Mirrors' /\ Answered'
    BY <1>0, <1>2 DEF StartupInv, SubjectsApart, Mirrors, Answered
  <2> QED
    BY <2>1, <2>2, <2>3 DEF StartupInv
<1>3. CASE /\ Complete(env.single)
           /\ pc' = "loaded" /\ accounts' = <<one>>
           /\ index' = [s \in Elems(q) |-> DefaultKey]
  <2>1. /\ one \in AccountType /\ one.key = DefaultKey
        /\ one.subjects = q /\ Elems(q) \subseteq Subjects
    BY <1>1, <1>3, AccountFields
  <2>2. /\ accounts' \in Seq(AccountType) /\ DOMAIN accounts' = {1}
        /\ accounts'[1] = one
    BY <1>3, <2>1
  <2>3. TypeOK'
    BY <1>0, <1>3, <2>1, <2>2 DEF StartupInv, TypeOK, AccountType
  <2>4. Settled' /\ Fresh' /\ SingleEntry' /\ MultiEntries'
    BY <1>0, <1>3 DEF StartupInv, Settled, Fresh, SingleEntry, MultiEntries
  <2>5. SubjectsApart'
    BY <2>2 DEF SubjectsApart
  <2>6. Mirrors'
    BY <1>3, <2>1, <2>2 DEF Mirrors
  <2>7. Answered'
    BY <1>0, <1>3 DEF StartupInv, Answered
  <2> QED
    BY <2>3, <2>4, <2>5, <2>6, <2>7 DEF StartupInv
<1> QED
  BY <1>2, <1>3 DEF LadeSingle

\* Mode multi: an entry is added whose subjects nobody has yet, or the
\* process ends.
LEMMA LadeKontoKeeps == StartupInv /\ LadeKonto => StartupInv'
<1> SUFFICES ASSUME StartupInv, LadeKonto PROVE StartupInv'
  OBVIOUS
<1> DEFINE k == env.keys[next]
           a == env.account[PrefixOf[k]]
           q == a.subjects
           n == Len(accounts)
<1>0. /\ pc = "accounts" /\ env.accountMode = "multi" /\ next <= Len(env.keys)
      /\ UNCHANGED <<env, cfg, resolver, caller, answer>>
  BY DEF LadeKonto, serving
<1>1. /\ env.keys \in Seq(Keys) /\ env.account \in [Prefixes -> Account]
      /\ next \in Nat \ {0} /\ accounts \in Seq(AccountType)
  BY EnvironmentFields DEF StartupInv, TypeOK, AccountType
<1>2. k \in Keys /\ a \in Account
  <2>1. k \in Keys
    BY <1>0, <1>1
  <2>2. PrefixOf[k] \in Prefixes
    BY <2>1, StartupAssumption
  <2> QED
    BY <1>1, <2>1, <2>2
<1>3. CASE pc' = "refused" /\ UNCHANGED <<next, accounts, index>>
  <2>1. TypeOK'
    BY <1>0, <1>3 DEF StartupInv, TypeOK
  <2>2. Settled' /\ Fresh' /\ SingleEntry' /\ MultiEntries'
    BY <1>0, <1>3 DEF StartupInv, Settled, Fresh, SingleEntry, MultiEntries
  <2>3. SubjectsApart' /\ Mirrors' /\ Answered'
    BY <1>0, <1>3 DEF StartupInv, SubjectsApart, Mirrors, Answered
  <2> QED
    BY <2>1, <2>2, <2>3 DEF StartupInv
<1>4. CASE /\ AcceptsKey(k)
           /\ accounts' = Append(accounts, Entry(k, a))
           /\ index' = Indexed(k, q)
           /\ next' = next + 1 /\ UNCHANGED pc
  <2>1. Complete(a) /\ Elems(q) \cap DOMAIN index = {}
    BY <1>4 DEF AcceptsKey, SubjectTaken
  <2>2. /\ Entry(k, a) \in AccountType /\ Entry(k, a).key = k
        /\ Entry(k, a).subjects = q /\ Elems(q) \subseteq Subjects
    BY <1>2, <2>1, AccountFields
  <2>3. /\ accounts' \in Seq(AccountType)
        /\ n \in Nat /\ Len(accounts') = n + 1
        /\ DOMAIN accounts = 1 .. n /\ DOMAIN accounts' = 1 .. n + 1
        /\ \A i \in 1 .. n : accounts'[i] = accounts[i]
        /\ accounts'[n + 1] = Entry(k, a)
    BY <1>1, <1>4, <2>2
  <2>4. n = next - 1
    BY <1>0 DEF StartupInv, MultiEntries
  <2>5. /\ DOMAIN index' = DOMAIN index \cup Elems(q)
        /\ \A s \in DOMAIN index : index'[s] = index[s]
        /\ \A s \in Elems(q) : index'[s] = k
    BY <1>4, <2>1 DEF Indexed
  <2> HIDE DEF k, a, q, n
  <2>6. TypeOK'
    <3>1. DOMAIN index' \subseteq Subjects
          /\ \A s \in DOMAIN index' : index'[s] \in Keys \cup {DefaultKey}
      BY <1>2, <2>2, <2>5 DEF StartupInv, TypeOK
    <3>2. next' \in Nat \ {0}
      BY <1>1, <1>4
    <3> QED
      BY <1>0, <1>4, <2>3, <3>1, <3>2 DEF StartupInv, TypeOK, AccountType
  <2>7. Settled' /\ Fresh' /\ SingleEntry'
    BY <1>0, <1>4 DEF StartupInv, Settled, Fresh, SingleEntry
  <2>8. MultiEntries'
    <3> USE DEF k, a, q, n
    <3>1. \A i \in DOMAIN accounts' :
            accounts'[i] =
              Entry(env.keys[i], env.account[PrefixOf[env.keys[i]]])
      BY <1>0, <1>1, <2>3, <2>4 DEF StartupInv, MultiEntries
    <3>2. Len(accounts') = next' - 1 /\ next' - 1 <= Len(env.keys)
      BY <1>0, <1>1, <1>4, <2>3, <2>4
    <3> QED
      BY <1>0, <1>4, <3>1, <3>2 DEF MultiEntries
  <2>9. \A i \in 1 .. n : Elems(accounts[i].subjects) \cap Elems(q) = {}
    BY <2>1, <2>3 DEF StartupInv, Mirrors
  <2>10. SubjectsApart'
    <3> SUFFICES ASSUME NEW i \in 1 .. n + 1, NEW j \in 1 .. n + 1, i # j
                 PROVE  Elems(accounts'[i].subjects)
                          \cap Elems(accounts'[j].subjects) = {}
      BY <2>3 DEF SubjectsApart
    <3>1. CASE i \in 1 .. n /\ j \in 1 .. n
      BY <2>3, <3>1 DEF StartupInv, SubjectsApart
    <3>2. CASE i = n + 1 /\ j \in 1 .. n
      BY <2>2, <2>3, <2>9, <3>2
    <3>3. CASE i \in 1 .. n /\ j = n + 1
      BY <2>2, <2>3, <2>9, <3>3
    <3> QED
      BY <2>3, <3>1, <3>2, <3>3
  <2>11. Mirrors'
    <3>1. ASSUME NEW s \in DOMAIN index'
          PROVE  \E i \in DOMAIN accounts' : s \in Elems(accounts'[i].subjects)
      <4>1. CASE s \in Elems(q)
        BY <2>2, <2>3, <4>1
      <4>2. CASE s \in DOMAIN index
        <5>1. PICK i \in 1 .. n : s \in Elems(accounts[i].subjects)
          BY <2>3, <4>2 DEF StartupInv, Mirrors
        <5> QED
          BY <2>3, <5>1
      <4> QED
        BY <2>5, <3>1, <4>1, <4>2
    <3>2. ASSUME NEW i \in 1 .. n + 1, NEW s \in Elems(accounts'[i].subjects)
          PROVE  s \in DOMAIN index' /\ index'[s] = accounts'[i].key
      <4>1. CASE i \in 1 .. n
        BY <2>3, <2>5, <4>1, <3>2 DEF StartupInv, Mirrors
      <4>2. CASE i = n + 1
        BY <2>2, <2>3, <2>5, <4>2, <3>2
      <4> QED
        BY <2>3, <4>1, <4>2
    <3> QED
      BY <2>3, <3>1, <3>2 DEF Mirrors
  <2>12. Answered'
    BY <1>0, <1>4 DEF StartupInv, Answered
  <2> QED
    BY <2>6, <2>7, <2>8, <2>10, <2>11, <2>12 DEF StartupInv
<1> QED
  BY <1>3, <1>4 DEF LadeKonto

LEMMA LadeMultiEndsKeeps == StartupInv /\ LadeMultiEnds => StartupInv'
<1> SUFFICES ASSUME StartupInv, LadeMultiEnds PROVE StartupInv'
  OBVIOUS
<1>1. /\ pc = "accounts" /\ env.accountMode = "multi"
      /\ pc' \in {"refused", "loaded"}
      /\ pc' = "loaded" => next > Len(env.keys)
      /\ UNCHANGED <<env, cfg, next, accounts, index, resolver, caller,
                     answer>>
  BY DEF LadeMultiEnds, loaded, serving
<1>2. Len(env.keys) \in Nat /\ next \in Nat
  BY EnvironmentFields DEF StartupInv, TypeOK
<1>3. TypeOK'
  BY <1>1 DEF StartupInv, TypeOK
<1>4. Settled' /\ Fresh' /\ SingleEntry'
  BY <1>1 DEF StartupInv, Settled, Fresh, SingleEntry
<1>5. MultiEntries'
  BY <1>1, <1>2 DEF StartupInv, MultiEntries
<1>6. SubjectsApart' /\ Mirrors' /\ Answered'
  BY <1>1 DEF StartupInv, SubjectsApart, Mirrors, Answered
<1> QED
  BY <1>3, <1>4, <1>5, <1>6 DEF StartupInv
\* server.New: a server that runs has the resolver of its accounts.
LEMMA NewKeeps ==
  ASSUME StartupInv, NEW idpUp \in BOOLEAN, New(idpUp)
  PROVE  StartupInv'
<1>0. /\ pc = "loaded" /\ pc' = NewEndsIn(idpUp)
      /\ resolver' = IF pc' = "running" THEN BuildResolver(accounts)
                     ELSE resolver
      /\ UNCHANGED <<env, cfg, next, accounts, index, caller, answer>>
  BY DEF New, loaded
<1>1. /\ pc' \in {"failed", "unreachable", "running"}
      /\ pc' = "running" => ~Unsupported
  BY <1>0 DEF NewEndsIn
<1>2. TypeOK'
  <2>1. DOMAIN resolver' \subseteq Subjects
        /\ \A s \in DOMAIN resolver' : resolver'[s] \in Users
    <3>1. CASE pc' # "running"
      BY <1>0, <3>1 DEF StartupInv, TypeOK
    <3>2. CASE pc' = "running"
      <4>1. accounts \in Seq(AccountType)
        BY DEF StartupInv, TypeOK, AccountType
      <4>2. \A i \in DOMAIN accounts :
              /\ accounts[i].subjects \in Seq(Subjects)
              /\ accounts[i].user \in Users
        <5>1. \A i \in DOMAIN accounts : accounts[i] \in AccountType
          BY <4>1
        <5> QED
          BY <5>1 DEF AccountType
      <4>3. \A i \in DOMAIN accounts : Elems(accounts[i].subjects) \subseteq Subjects
        BY <4>2 DEF Elems
      <4>4. \A s \in DOMAIN resolver' :
              \E i \in DOMAIN accounts : s \in Elems(accounts[i].subjects)
                                         /\ resolver'[s] = accounts[i].user
        BY <1>0, <3>2, ResolverNames DEF StartupInv
      <4> QED
        BY <4>2, <4>3, <4>4
    <3> QED
      BY <3>1, <3>2
  <2> QED
    BY <1>0, <1>1, <2>1 DEF StartupInv, TypeOK
<1>3. Settled' /\ Fresh' /\ SingleEntry' /\ MultiEntries'
  BY <1>0, <1>1 DEF StartupInv, Settled, Fresh, SingleEntry, MultiEntries
<1>4. SubjectsApart' /\ Mirrors'
  BY <1>0 DEF StartupInv, SubjectsApart, Mirrors
<1>5. Answered'
  BY <1>0, <1>1 DEF StartupInv, Answered, Unsupported
<1> QED
  BY <1>2, <1>3, <1>4, <1>5 DEF StartupInv

\* A caller gets tools and an account only with the scopes and an entry.
LEMMA CallKeeps ==
  ASSUME StartupInv, NEW s \in Subjects \cup {NoSubject},
         NEW g \in SUBSET Scopes, Call(s, g)
  PROVE  StartupInv'
<1>0. /\ pc = "running"
      /\ caller' = [subject |-> s, scopes |-> g]
      /\ answer' = IF ScopesSatisfied(g) THEN Credentials(s) ELSE "noTools"
      /\ UNCHANGED <<pc, env, cfg, next, accounts, index, resolver>>
  BY DEF Call, loaded
<1>1. TypeOK'
  BY <1>0 DEF StartupInv, TypeOK, Credentials
<1>2. Settled' /\ Fresh' /\ SingleEntry' /\ MultiEntries'
  BY <1>0 DEF StartupInv, Settled, Fresh, SingleEntry, MultiEntries
<1>3. SubjectsApart' /\ Mirrors'
  BY <1>0 DEF StartupInv, SubjectsApart, Mirrors
<1>4. Answered'
  BY <1>0
  DEF StartupInv, Answered, Unsupported, ScopesSatisfied, Credentials
<1> QED
  BY <1>1, <1>2, <1>3, <1>4 DEF StartupInv

LEMMA RestartKeeps == StartupInv /\ Restart => StartupInv'
<1> SUFFICES ASSUME StartupInv, Restart PROVE StartupInv'
  OBVIOUS
<1>0. /\ pc' = "load" /\ env' = env /\ cfg' = NoCfg /\ next' = 1
      /\ accounts' = <<>> /\ index' = Empty /\ resolver' = Empty
      /\ caller' = NoCaller /\ answer' = "none"
  BY DEF Restart
<1>1. /\ DOMAIN accounts' = {} /\ Len(accounts') = 0
      /\ accounts' \in Seq(AccountType)
      /\ DOMAIN index' = {} /\ DOMAIN resolver' = {}
  BY <1>0 DEF Empty
<1>2. env \in Environment /\ Len(env.keys) \in Nat
  BY EnvironmentFields DEF StartupInv, TypeOK
<1>3. TypeOK'
  <2>1. cfg' \in [claim : {"", "oid", "sub", "email"},
                  read : SUBSET AllVariables, warned : BOOLEAN]
    BY <1>0 DEF NoCfg
  <2>2. caller' \in [subject : Subjects \cup {NoSubject},
                     scopes : SUBSET Scopes]
    BY <1>0 DEF NoCaller
  <2>3. next' \in Nat \ {0} /\ env' \in Environment
    BY <1>0, <1>2
  <2> QED
    BY <1>0, <1>1, <2>1, <2>2, <2>3 DEF TypeOK, AccountType
<1>4. Settled' /\ Fresh' /\ SingleEntry' /\ Answered'
  BY <1>0 DEF Settled, Fresh, SingleEntry, Answered
<1>5. MultiEntries'
  BY <1>0, <1>1, <1>2 DEF MultiEntries
<1>6. SubjectsApart' /\ Mirrors'
  BY <1>1 DEF SubjectsApart, Mirrors
<1> QED
  BY <1>3, <1>4, <1>5, <1>6 DEF StartupInv

\* Every state of a process, through any number of starts, satisfies the
\* invariant.
THEOREM StartupInvHolds == Spec => []StartupInv
<1>1. StartupInv /\ [Next]_vars => StartupInv'
  <2> SUFFICES ASSUME StartupInv, [Next]_vars PROVE StartupInv'
    OBVIOUS
  <2>1. CASE LoadConfig \/ LadeAuth \/ LadeSingle
    BY <2>1, LoadConfigKeeps, LadeAuthKeeps, LadeSingleKeeps
  <2>2. CASE LadeKonto \/ LadeMultiEnds \/ Restart
    BY <2>2, LadeKontoKeeps, LadeMultiEndsKeeps, RestartKeeps
  <2>3. CASE \E idpUp \in BOOLEAN : New(idpUp)
    BY <2>3, NewKeeps
  <2>4. CASE \E s \in Subjects \cup {NoSubject}, g \in SUBSET Scopes :
               Call(s, g)
    BY <2>4, CallKeeps
  <2>5. CASE UNCHANGED vars
    <3>1. UNCHANGED <<pc, env, cfg, next, accounts, index, resolver, caller,
                      answer>>
      BY <2>5 DEF vars
    <3>2. TypeOK'
      BY <3>1 DEF StartupInv, TypeOK
    <3>3. Settled' /\ Fresh' /\ SingleEntry' /\ MultiEntries'
      BY <3>1 DEF StartupInv, Settled, Fresh, SingleEntry, MultiEntries
    <3>4. SubjectsApart' /\ Mirrors'
      BY <3>1 DEF StartupInv, SubjectsApart, Mirrors
    <3>5. Answered'
      BY <3>1 DEF StartupInv, Answered, Unsupported, ScopesSatisfied
    <3> QED
      BY <3>2, <3>3, <3>4, <3>5 DEF StartupInv
  <2> QED
    BY <2>1, <2>2, <2>3, <2>4, <2>5 DEF Next
<1> QED
  BY <1>1, InitInv, PTL DEF Spec

-----------------------------------------------------------------------------
\* What a running server's accounts are: the ones written, each once.
LEMMA WrittenAreAccounts ==
  ASSUME StartupInv, pc = "running"
  PROVE  /\ \A i \in DOMAIN accounts : \E w \in Written(env) :
              accounts[i] = Entry(w[1], w[2])
         /\ \A w \in Written(env) : \E i \in DOMAIN accounts :
              accounts[i] = Entry(w[1], w[2])
         /\ \A w, v \in Written(env), i \in DOMAIN accounts :
              accounts[i] = Entry(w[1], w[2]) /\ accounts[i] = Entry(v[1], v[2])
                => w = v
<1>1. CASE env.accountMode = "single"
  <2>1. accounts = <<Entry(DefaultKey, env.single)>>
        /\ DOMAIN accounts = {1}
        /\ Written(env) = {<<DefaultKey, env.single>>}
    BY <1>1 DEF StartupInv, SingleEntry, Written
  <2> QED
    BY <2>1
<1>2. CASE env.accountMode = "multi"
  <2>1. /\ env.keys \in Seq(Keys) /\ accounts \in Seq(AccountType)
        /\ next \in Nat
    BY EnvironmentFields DEF StartupInv, TypeOK, AccountType
  <2>2. /\ Len(accounts) = Len(env.keys)
        /\ \A i \in DOMAIN accounts :
             accounts[i] =
               Entry(env.keys[i], env.account[PrefixOf[env.keys[i]]])
    BY <1>2, <2>1 DEF StartupInv, MultiEntries
  <2>3. DOMAIN accounts = DOMAIN env.keys
    BY <2>1, <2>2
  <2>4. Written(env) = {<<k, env.account[PrefixOf[k]]>> : k \in Elems(env.keys)}
    BY <1>2 DEF Written
  <2>5. \A w \in Written(env) : \E i \in DOMAIN env.keys :
          w = <<env.keys[i], env.account[PrefixOf[env.keys[i]]]>>
    BY <2>4 DEF Elems
  <2>6. \A i \in DOMAIN env.keys :
          <<env.keys[i], env.account[PrefixOf[env.keys[i]]]>> \in Written(env)
    BY <2>4 DEF Elems
  <2>7. \A w \in Written(env) : w = <<w[1], env.account[PrefixOf[w[1]]]>>
    BY <2>4
  <2>8. \A w, v \in Written(env) : Entry(w[1], w[2]) = Entry(v[1], v[2]) =>
          w[1] = v[1]
    BY EntryFields
  <2>9. \A i \in DOMAIN accounts : \E w \in Written(env) :
          accounts[i] = Entry(w[1], w[2])
    <3> SUFFICES ASSUME NEW i \in DOMAIN accounts
                 PROVE  \E w \in Written(env) : accounts[i] = Entry(w[1], w[2])
      OBVIOUS
    <3> DEFINE w == <<env.keys[i], env.account[PrefixOf[env.keys[i]]]>>
    <3>1. w \in Written(env)
      BY <2>3, <2>6
    <3>2. accounts[i] = Entry(w[1], w[2])
      BY <2>2
    <3> QED
      BY <3>1, <3>2
  <2>10. \A w \in Written(env) : \E i \in DOMAIN accounts :
           accounts[i] = Entry(w[1], w[2])
    BY <2>2, <2>3, <2>5
  <2>11. \A w, v \in Written(env) : w[1] = v[1] => w = v
    BY <2>7
  <2>12. ASSUME NEW w \in Written(env), NEW v \in Written(env),
                NEW i \in DOMAIN accounts,
                accounts[i] = Entry(w[1], w[2]), accounts[i] = Entry(v[1], v[2])
         PROVE  w = v
    BY <2>8, <2>11, <2>12
  <2> QED
    BY <2>9, <2>10, <2>12
<1>3. env.accountMode \in {"single", "multi"}
  BY EnvironmentFields DEF StartupInv, TypeOK
<1> QED
  BY <1>1, <1>2, <1>3

\* In a running server every subject has the account of the one entry it is
\* written under, and a subject that is written nowhere has none
\* (server.go:387-408, accounts.go:65-96).
THEOREM ResolverIsAsWritten == Spec => []ResolvesAsWritten
<1>1. ASSUME StartupInv, pc = "running", NEW s \in Subjects
      PROVE  LET listed == {w \in Written(env) : s \in Elems(w[2].subjects)}
             IN  \/ listed = {} /\ s \notin DOMAIN resolver
                 \/ \E w \in listed : /\ listed = {w}
                                      /\ s \in DOMAIN resolver
                                      /\ resolver[s] = w[2].user
  <2> DEFINE listed == {w \in Written(env) : s \in Elems(w[2].subjects)}
  <2>1. resolver = BuildResolver(accounts) /\ SubjectsApart
    BY <1>1 DEF StartupInv, Answered
  <2>2. \A w \in Written(env) : \E i \in DOMAIN accounts :
          /\ accounts[i] = Entry(w[1], w[2])
          /\ accounts[i].subjects = w[2].subjects
          /\ accounts[i].user = w[2].user
    BY <1>1, WrittenAreAccounts, EntryFields
  <2>3. CASE \E i \in DOMAIN accounts : s \in Elems(accounts[i].subjects)
    <3>1. PICK i \in DOMAIN accounts : s \in Elems(accounts[i].subjects)
      BY <2>3
    <3>2. PICK w \in Written(env) : accounts[i] = Entry(w[1], w[2])
      BY <1>1, WrittenAreAccounts
    <3>3. w[2].subjects = accounts[i].subjects /\ w[2].user = accounts[i].user
      BY <3>2, EntryFields
    <3>4. w \in listed
      BY <3>1, <3>3
    <3>5. ASSUME NEW v \in listed PROVE v = w
      <4>1. PICK j \in DOMAIN accounts :
              accounts[j] = Entry(v[1], v[2])
              /\ accounts[j].subjects = v[2].subjects
        BY <2>2
      <4>2. j = i
        BY <2>1, <3>1, <4>1 DEF SubjectsApart
      <4> QED
        BY <1>1, <3>2, <4>1, <4>2, WrittenAreAccounts
    <3>6. s \in DOMAIN resolver /\ resolver[s] = w[2].user
      BY <2>1, <3>1, <3>3, ResolverNames
    <3> QED
      BY <3>4, <3>5, <3>6
  <2>4. CASE ~\E i \in DOMAIN accounts : s \in Elems(accounts[i].subjects)
    <3>1. listed = {}
      BY <2>2, <2>4
    <3>2. s \notin DOMAIN resolver
      BY <2>1, <2>4, ResolverNames
    <3> QED
      BY <3>1, <3>2
  <2> QED
    BY <2>3, <2>4
<1>2. StartupInv => ResolvesAsWritten
  BY <1>1 DEF ResolvesAsWritten
<1> QED
  BY <1>2, StartupInvHolds, PTL

\* The index of the configuration and the resolver of the server name the
\* same account for every subject (config.go:704-783, server.go:387-408).
THEOREM IndexIsResolver == Spec => []IndexAgrees
<1>1. ASSUME StartupInv
      PROVE  IndexAgrees
  <2>1. \A s \in DOMAIN index : \E i \in DOMAIN accounts :
          accounts[i].key = index[s] /\ s \in Elems(accounts[i].subjects)
    BY <1>1 DEF StartupInv, Mirrors
  <2>2. ASSUME pc = "running"
        PROVE  /\ DOMAIN index = DOMAIN resolver
               /\ \A s \in DOMAIN index : \E i \in DOMAIN accounts :
                    accounts[i].key = index[s]
                    /\ accounts[i].user = resolver[s]
    <3>1. resolver = BuildResolver(accounts) /\ SubjectsApart
      BY <1>1, <2>2 DEF StartupInv, Answered
    <3>2. DOMAIN index = DOMAIN resolver
      BY <1>1, <3>1, ResolverNames DEF StartupInv, Mirrors
    <3> QED
      BY <2>1, <3>1, <3>2, ResolverNames
  <2> QED
    BY <2>1, <2>2 DEF IndexAgrees
<1> QED
  BY <1>1, StartupInvHolds, PTL

\* A configuration that is accepted has read every provider variable that is
\* set (config.go:489-536).
THEOREM ProviderVariablesAreRead == Spec => []NoProviderVariableIgnored
<1>1. ASSUME StartupInv,
             pc \in {"accounts", "loaded", "unreachable", "running"}
      PROVE  /\ env.set \subseteq cfg.read
             /\ env.provider # "" => cfg.read # {}
  <2>1. /\ AcceptsAuth(env) /\ env.set \subseteq AllVariables
        /\ cfg.read = IF NeedsOIDC(env) THEN ProviderVariables[env.provider]
                      ELSE {}
    BY <1>1, EnvironmentFields DEF StartupInv, Settled, TypeOK
  <2>2. CASE NeedsOIDC(env)
    <3>1. env.provider \in Providers /\ ~RejectsForeign(env)
      BY <2>1, <2>2 DEF AcceptsAuth, ResolvesProvider
    <3>2. \A p \in Providers : ProviderVariables[p] # {}
      BY DEF Providers, ProviderVariables
    <3> QED
      BY <2>1, <2>2, <3>1, <3>2 DEF RejectsForeign
  <2>3. CASE ~NeedsOIDC(env)
    BY <2>1, <2>3 DEF AcceptsAuth, RejectsOIDC
  <2> QED
    BY <2>2, <2>3
<1>2. StartupInv => NoProviderVariableIgnored
  BY <1>1 DEF NoProviderVariableIgnored
<1> QED
  BY <1>2, StartupInvHolds, PTL

\* Nobody is handed an account without the scopes, the entry and the checks
\* of the configuration.
THEOREM AccountTakesAll == Spec => []AccountNeedsAll
<1>1. ASSUME StartupInv, answer \in Users
      PROVE  AccountNeedsAll
  <2>1. answer \notin {"none", "noTools", "ErrNoAccount"}
    BY <1>1, StartupAssumption
  <2>2. /\ env.scopes \subseteq caller.scopes
        /\ caller.subject \in DOMAIN resolver
        /\ answer = resolver[caller.subject]
    BY <1>1, <2>1 DEF StartupInv, Answered, ScopesSatisfied
  <2>3. pc = "running"
    BY <1>1, <2>1 DEF StartupInv, Answered
  <2>4. resolver = BuildResolver(accounts) /\ SubjectsApart /\ ~Unsupported
    BY <1>1, <2>3 DEF StartupInv, Answered
  <2>5. PICK i \in DOMAIN accounts :
          caller.subject \in Elems(accounts[i].subjects)
          /\ accounts[i].user = answer
    BY <2>2, <2>4, ResolverNames
  <2>6. \E w \in Written(env) :
          caller.subject \in Elems(w[2].subjects) /\ w[2].user = answer
    BY <1>1, <2>3, <2>5, WrittenAreAccounts, EntryFields
  <2>7. env.mode = "oidc" /\ NeedsOIDC(env)
    BY <2>4 DEF Unsupported, NeedsOIDC
  <2>8. /\ AcceptsAuth(env) /\ cfg.claim # ""
        /\ cfg.read = ProviderVariables[env.provider]
    BY <1>1, <2>3, <2>7 DEF StartupInv, Settled
  <2>9. env.origins = "some"
    BY <2>7, <2>8 DEF AcceptsAuth
  <2> QED
    BY <2>2, <2>6, <2>7, <2>8, <2>9 DEF AccountNeedsAll
<1>2. StartupInv => AccountNeedsAll
  BY <1>1 DEF AccountNeedsAll
<1> QED
  BY <1>2, StartupInvHolds, PTL
=============================================================================
