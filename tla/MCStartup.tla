----------------------------- MODULE MCStartup ------------------------------
EXTENDS Startup, TLC

CONSTANTS s1, s2, k1, k2, k3, k4, p1, p2, p3, key0, sc, sd

\* k1 and k2 differ in "-" and "_" only; k4 is not a valid key.
PrefixOfKey == k1 :> p1 @@ k2 :> p1 @@ k3 :> p2 @@ k4 :> p3

Acc(u, pw, q) == [user |-> u, password |-> pw, subjects |-> q]
Good == Acc("u1", TRUE, <<s1>>)
Base ==
  [mode |-> "oidc", accountMode |-> "single", provider |-> "entra",
   set |-> ProviderVariables["entra"], malformed |-> {}, claim |-> "",
   resource |-> "public", token |-> FALSE, origins |-> "some",
   numbers |-> TRUE, scopes |-> {}, single |-> Good, keys |-> <<k1>>,
   account |-> [p \in Prefixes |-> Good]]

\* Every mode with every provider and every set of variables.
AuthEnvironments ==
  {[Base EXCEPT !.mode = m, !.provider = p, !.set = v, !.token = t] :
     m \in {"oidc", "token", "both", "bad"}, p \in Providers \cup {"", "bad"},
     v \in SUBSET AllVariables, t \in BOOLEAN}
  \cup {[Base EXCEPT !.provider = p, !.set = ProviderVariables[p],
                     !.malformed = w, !.claim = c, !.scopes = g] :
     p \in Providers, w \in {{}, {"tenant", "slug"}, {"baseUrl"}},
     c \in {"", "email"}, g \in SUBSET Scopes}
  \cup {[Base EXCEPT !.resource = r, !.origins = o, !.numbers = n] :
     r \in {"", "local", "public", "otherLocal", "otherPublic"},
     o \in {"none", "some", "bad"}, n \in BOOLEAN}

Lists == {<<>>, <<s1>>, <<s2>>, <<s1, s2>>, <<s1, s1>>}
MultiLists == {<<>>, <<s1>>, <<s2>>, <<s2, s1>>, <<s1, s1>>}
Multi(m, ks, a, b) ==
  [Base EXCEPT !.mode = m, !.accountMode = "multi", !.keys = ks,
               !.account = [p \in Prefixes |-> IF p = p1 THEN a ELSE b]]

\* Both account modes with every list of up to two keys.
AccountEnvironments ==
  {[Base EXCEPT !.single = Acc(u, pw, q)] :
     u \in {"", "u1"}, pw \in BOOLEAN, q \in Lists}
  \cup {Multi("oidc", ks, Acc("u1", TRUE, q), Acc(u, pw, r)) :
     ks \in UNION {[1 .. n -> {k1, k2, k3, k4}] : n \in 0 .. 2},
     u \in {"", "u1", "u2"}, pw \in BOOLEAN, q \in MultiLists, r \in MultiLists}
  \cup {Multi("token", <<k1>>, Good, Good)}

AllEnvironments == AuthEnvironments \cup AccountEnvironments
=============================================================================
