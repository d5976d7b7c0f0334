------------------------------- MODULE Startup -------------------------------
(***************************************************************************)
(* From the environment to a caller's account: config.LoadConfig reads and *)
(* checks the variables, server.New builds the resolver out of what it     *)
(* accepted, and a running server gives each verified caller the tools (if *)
(* the token carries the required scopes) and the account its subject is   *)
(* assigned to.  A process that refuses to start, or is stopped, may be    *)
(* started again.                                                          *)
(*                                                                         *)
(* A variable is what the checks tell apart: set or not, well-formed or    *)
(* not, or a list.  The numbers are in module Limits.                      *)
(***************************************************************************)
EXTENDS Naturals, Sequences, FiniteSets

CONSTANTS
  Subjects, NoSubject,
  Keys,         \* what may stand in FILEEE_ACCOUNTS
  BadKeys,      \* those that accountKeyMuster does not match
  Prefixes,     \* FILEEE_ACCOUNT_<KEY>
  PrefixOf,     \* upper case, "-" and "_" made equal
  DefaultKey,   \* the one account's key in mode single
  Users,        \* Fileee user names
  Scopes,
  Environments  \* the environments this instance starts in

ProviderVariables ==
  [entra     |-> {"tenant", "entraClient"},
   authentik |-> {"baseUrl", "slug", "authentikClient"},
   generic   |-> {"issuer", "client"}]
Providers == DOMAIN ProviderVariables
AllVariables == UNION {ProviderVariables[p] : p \in Providers}

\* The variables whose form is checked: a GUID, an https address, a name
\* without "/", "?" and "#".  Of the others only whether they are set.
FormChecked == {"tenant", "baseUrl", "slug"}

Account == [user : Users \cup {""}, password : BOOLEAN,
            subjects : Seq(Subjects)]
Environment ==
  [mode : {"oidc", "token", "both", "bad"}, accountMode : {"single", "multi"},
   provider : Providers \cup {"", "bad"}, set : SUBSET AllVariables,
   malformed : SUBSET FormChecked, claim : {"", "oid", "sub", "email"},
   resource : {"", "local", "public", "otherLocal", "otherPublic"},
   token : BOOLEAN,
   origins : {"none", "some", "bad"}, numbers : BOOLEAN,
   scopes : SUBSET Scopes, single : Account, keys : Seq(Keys),
   account : [Prefixes -> Account]]

ASSUME StartupAssumption ==
  /\ NoSubject \notin Subjects
  /\ Users \cap {"", "none", "noTools", "ErrNoAccount"} = {}
  /\ BadKeys \subseteq Keys /\ DefaultKey \notin Keys
  /\ PrefixOf \in [Keys -> Prefixes]
  /\ \A e \in Environments : e \in Environment

VARIABLES
  pc,       \* how far the process is
  env,      \* its environment
  cfg,      \* what ladeAuth settled: claim, variables read, warning
  next,     \* the entry of FILEEE_ACCOUNTS ladeKonten is at
  accounts, \* Config.Accounts
  index,    \* Config.subjectIndex
  resolver, \* accounts.multi.bySubject, by user name
  caller,   \* the last caller: its subject and its token's scopes
  answer    \* what it got

vars == <<pc, env, cfg, next, accounts, index, resolver, caller, answer>>
loaded  == <<cfg, next, accounts, index>>
serving == <<resolver, caller, answer>>

Elems(s) == {s[i] : i \in DOMAIN s}
Empty    == [s \in {} |-> DefaultKey]
NoCfg    == [claim |-> "", read |-> {}, warned |-> FALSE]
NoCaller == [subject |-> NoSubject, scopes |-> {}]

NeedsOIDC(e)  == e.mode \in {"oidc", "both"}
NeedsToken(e) == e.mode \in {"token", "both"}

-----------------------------------------------------------------------------
\* LoadConfig up to ladeNetzwerk.  Of the checks that only end the start and
\* leave nothing to later ones, three values stand for all: mode for
\* FILEEE_MODE too, numbers for the log level and the length of the
\* description, origins for the header mode and the trusted proxies.
ReadsEnvironment(e) == e.mode # "bad" /\ e.numbers /\ e.origins # "bad"

LoadConfig ==
  /\ pc = "load"
  /\ pc' = IF ReadsEnvironment(env) THEN "auth" ELSE "refused"
  /\ UNCHANGED <<env, loaded, serving>>

\* Variant: other providers' variables do no harm.
RejectsForeignNever(e) == FALSE

\* rejectForeignProviderVariables and, without OIDC, rejectOIDCVariables.
RejectsForeign(e) ==
  e.set \cap (AllVariables \ ProviderVariables[e.provider]) # {}
RejectsOIDC(e) == e.provider # "" \/ e.set # {}

\* resolveEntra, resolveAuthentik, resolveGeneric: each provider wants all of
\* its variables, and those with a form well-formed.
ResolvesProvider(e) ==
  /\ e.provider \in Providers
  /\ ~RejectsForeign(e)
  /\ ProviderVariables[e.provider] \subseteq e.set \ e.malformed

DefaultSubjectClaim(p) == IF p = "entra" THEN "oid" ELSE "sub"

AcceptsAuth(e) ==
  /\ NeedsOIDC(e) =>
       /\ ResolvesProvider(e)
       /\ e.resource \in {"local", "public"}
       /\ e.accountMode = "single" => e.single.subjects # <<>>
       /\ e.origins = "some"
  /\ ~NeedsOIDC(e) => ~RejectsOIDC(e)
  /\ NeedsToken(e) => e.token

LadeAuth ==
  /\ pc = "auth"
  /\ \/ /\ ~AcceptsAuth(env)
        /\ pc' = "refused" /\ UNCHANGED cfg
     \/ /\ AcceptsAuth(env)
        /\ pc' = "accounts"
        /\ cfg' = [claim  |-> IF env.claim = ""
                              THEN DefaultSubjectClaim(env.provider)
                              ELSE env.claim,
                   read   |-> IF NeedsOIDC(env)
                              THEN ProviderVariables[env.provider] ELSE {},
                   warned |-> NeedsToken(env)
                              /\ env.resource \in {"public", "otherPublic"}]
  /\ UNCHANGED <<env, next, accounts, index, serving>>

-----------------------------------------------------------------------------
\* ladeKonten.  In mode single a subject that stands twice in
\* MCP_ALLOWED_SUBJECTS is entered twice; in mode multi that is an error.

Entry(k, a) == [key |-> k, user |-> a.user, subjects |-> a.subjects]

Complete(a) == a.user # "" /\ a.password

LadeSingle ==
  /\ pc = "accounts" /\ env.accountMode = "single"
  /\ \/ /\ ~Complete(env.single)
        /\ pc' = "refused" /\ UNCHANGED <<accounts, index>>
     \/ /\ Complete(env.single)
        /\ pc' = "loaded"
        /\ accounts' = <<Entry(DefaultKey, env.single)>>
        /\ index' = [s \in Elems(env.single.subjects) |-> DefaultKey]
  /\ UNCHANGED <<env, cfg, next, serving>>

\* One entry of FILEEE_ACCOUNTS: a new key, well-formed, with a prefix of its
\* own, its credentials and subjects nobody else has.
Repeated(q)  == \E i, j \in DOMAIN q : i # j /\ q[i] = q[j]
SeenBefore(k) == \E i \in DOMAIN accounts : accounts[i].key = k

PrefixTaken(k) ==
  \E i \in DOMAIN accounts : PrefixOf[accounts[i].key] = PrefixOf[k]
SubjectTaken(q) == Repeated(q) \/ Elems(q) \cap DOMAIN index # {}

AcceptsKey(k) ==
  LET a == env.account[PrefixOf[k]]
  IN  /\ ~SeenBefore(k) /\ k \notin BadKeys /\ ~PrefixTaken(k)
      /\ Complete(a) /\ ~SubjectTaken(a.subjects)

\* Variant: only the first subject is entered.
IndexedFirst(k, q) ==
  [s \in DOMAIN index \cup (IF q = <<>> THEN {} ELSE {q[1]}) |->
     IF s \in DOMAIN index THEN index[s] ELSE k]

Indexed(k, q) ==
  [s \in DOMAIN index \cup Elems(q) |->
     IF s \in DOMAIN index THEN index[s] ELSE k]

LadeKonto ==
  /\ pc = "accounts" /\ env.accountMode = "multi" /\ env.mode # "token"
  /\ next <= Len(env.keys)
  /\ LET k == env.keys[next]
         a == env.account[PrefixOf[k]]
     IN  \/ /\ ~AcceptsKey(k)
            /\ pc' = "refused" /\ UNCHANGED <<next, accounts, index>>
         \/ /\ AcceptsKey(k)
            /\ accounts' = Append(accounts, Entry(k, a))
            /\ index' = Indexed(k, a.subjects)
            /\ next' = next + 1 /\ UNCHANGED pc
  /\ UNCHANGED <<env, cfg, serving>>

\* A static token names no subject, and mode multi needs accounts.
LadeMultiEnds ==
  /\ pc = "accounts" /\ env.accountMode = "multi"
  /\ env.mode = "token" \/ next > Len(env.keys)
  /\ pc' = IF env.mode = "token" \/ env.keys = <<>> THEN "refused"
           ELSE "loaded"
  /\ UNCHANGED <<env, loaded, serving>>

-----------------------------------------------------------------------------
\* server.New.  Gangway wants to reach the identity provider first.

\* Variant: NewSingle, for everybody who got in.
BuildResolverBlind(as) == [s \in Subjects |-> as[1].user]

BuildResolver(as) ==
  [s \in UNION {Elems(as[i].subjects) : i \in DOMAIN as} |->
     as[CHOOSE i \in DOMAIN as : s \in Elems(as[i].subjects)].user]

RejectsAccounts(e, as) ==
  \/ e.accountMode = "single" /\ Len(as) # 1
  \/ \E i \in DOMAIN as : Repeated(as[i].subjects)
  \/ \E i, j \in DOMAIN as :
       i # j /\ Elems(as[i].subjects) \cap Elems(as[j].subjects) # {}

\* Whether New ends before it asks gangway, with it, or at the resolver.
Unsupported == env.mode # "oidc" \/ env.resource \notin {"local", "public"}
NewEndsIn(idpUp) ==
  CASE Unsupported -> "failed"
    [] ~Unsupported /\ ~idpUp -> "unreachable"
    [] ~Unsupported /\ idpUp /\ RejectsAccounts(env, accounts) -> "failed"
    [] OTHER -> "running"

New(idpUp) ==
  /\ pc = "loaded"
  /\ pc' = NewEndsIn(idpUp)
  /\ resolver' = IF NewEndsIn(idpUp) = "running" THEN BuildResolver(accounts)
                 ELSE resolver
  /\ UNCHANGED <<env, loaded, caller, answer>>

\* Variant: one of the scopes will do.
ScopesSatisfiedByOne(granted) ==
  env.scopes = {} \/ env.scopes \cap granted # {}

\* The selector: a caller whose token lacks a required scope gets no tools.
ScopesSatisfied(granted) == env.scopes \subseteq granted

\* accounts.multi.Credentials: no fallback for an unknown or empty subject.
Credentials(s) ==
  IF s # NoSubject /\ s \in DOMAIN resolver THEN resolver[s] ELSE "ErrNoAccount"

Call(s, granted) ==
  /\ pc = "running"
  /\ caller' = [subject |-> s, scopes |-> granted]
  /\ answer' = IF ScopesSatisfied(granted) THEN Credentials(s)
               ELSE "noTools"
  /\ UNCHANGED <<pc, env, loaded, resolver>>

-----------------------------------------------------------------------------
\* The process ends, or is stopped, and is started again.
Restart ==
  /\ pc \in {"refused", "failed", "unreachable", "running"}
  /\ pc' = "load" /\ UNCHANGED env
  /\ cfg' = NoCfg /\ next' = 1 /\ accounts' = <<>> /\ index' = Empty
  /\ resolver' = Empty /\ caller' = NoCaller /\ answer' = "none"

Init ==
  /\ pc = "load" /\ env \in Environments
  /\ cfg = NoCfg /\ next = 1 /\ accounts = <<>> /\ index = Empty
  /\ resolver = Empty /\ caller = NoCaller /\ answer = "none"

Next ==
  \/ LoadConfig
  \/ LadeAuth
  \/ LadeSingle
  \/ LadeKonto
  \/ LadeMultiEnds
  \/ \E idpUp \in BOOLEAN : New(idpUp)
  \/ \E s \in Subjects \cup {NoSubject}, g \in SUBSET Scopes : Call(s, g)
  \/ Restart

Spec == Init /\ [][Next]_vars

-----------------------------------------------------------------------------
\* What a process holds is what its step can have produced.
TypeOK ==
  /\ pc \in {"load", "auth", "accounts", "loaded", "refused", "failed",
             "unreachable", "running"}
  /\ env \in Environment
  /\ cfg \in [claim : {"", "oid", "sub", "email"}, read : SUBSET AllVariables,
              warned : BOOLEAN]
  /\ next \in Nat \ {0}
  /\ accounts \in Seq([key : Keys \cup {DefaultKey}, user : Users,
                       subjects : Seq(Subjects)])
  /\ DOMAIN index \subseteq Subjects
  /\ \A s \in DOMAIN index : index[s] \in Keys \cup {DefaultKey}
  /\ DOMAIN resolver \subseteq Subjects
  /\ \A s \in DOMAIN resolver : resolver[s] \in Users
  /\ caller \in [subject : Subjects \cup {NoSubject}, scopes : SUBSET Scopes]
  /\ answer \in Users \cup {"none", "noTools", "ErrNoAccount"}

\* The accounts the operator wrote down, read off the environment.
Written(e) ==
  IF e.accountMode = "single" THEN {<<DefaultKey, e.single>>}
  ELSE {<<k, e.account[PrefixOf[k]]>> : k \in Elems(e.keys)}

\* buildResolver, multi.Credentials (server.go:387-408, accounts.go:65-96):
\* in a running server a subject has the account of the one key it is listed
\* under, and a subject listed nowhere has none, in both account modes.
ResolvesAsWritten ==
  pc = "running" =>
    \A s \in Subjects :
      LET listed == {w \in Written(env) : s \in Elems(w[2].subjects)}
      IN  \/ listed = {} /\ s \notin DOMAIN resolver
          \/ \E w \in listed : /\ listed = {w}
                               /\ s \in DOMAIN resolver
                               /\ resolver[s] = w[2].user

\* Config.AccountBySubject and the resolver are built from the same lists in
\* two places (config.go:704-783, server.go:387-408); they name the same
\* account for every subject, at every step of loading the entry of each key
\* in the index belongs to an account that is already there.
IndexAgrees ==
  /\ \A s \in DOMAIN index : \E i \in DOMAIN accounts :
       accounts[i].key = index[s] /\ s \in Elems(accounts[i].subjects)
  /\ pc = "running" =>
       /\ DOMAIN index = DOMAIN resolver
       /\ \A s \in DOMAIN index : \E i \in DOMAIN accounts :
            accounts[i].key = index[s] /\ accounts[i].user = resolver[s]

\* rejectForeignProviderVariables, rejectOIDCVariables (config.go:489-536): a
\* configuration is accepted only if every provider variable that is set has
\* been read; none is silently ignored.
NoProviderVariableIgnored ==
  pc \in {"accounts", "loaded", "unreachable", "running"} =>
    /\ env.set \subseteq cfg.read
    /\ env.provider # "" => cfg.read # {}

\* Who is handed an account carries every required scope and a subject the
\* operator listed, at a server that knows its audience (the client id), has
\* an address allow list and was not started in a mode without identities.
AccountNeedsAll ==
  answer \in Users =>
    /\ env.scopes \subseteq caller.scopes
    /\ \E w \in Written(env) :
         caller.subject \in Elems(w[2].subjects) /\ w[2].user = answer
    /\ env.mode = "oidc" /\ env.origins = "some"
    /\ cfg.read = ProviderVariables[env.provider]
    /\ cfg.claim # ""
=============================================================================
