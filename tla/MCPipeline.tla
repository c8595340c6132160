----------------------------- MODULE MCPipeline -----------------------------
EXTENDS Pipeline, TLC

Ask(method, path, token, origin, xid, size) ==
    [method |-> method, path |-> path, token |-> token, origin |-> origin, xid |-> xid,
     size |-> size]

\* Requests for every guard, of every token, around the limits of 64 bytes and
\* 1 MiB, for what is instrumented and what is not, from a page and from none, with an id and
\* without.
MCKinds ==
    {Ask("GET", "/health/live", "none", "", "", 0),
     Ask("GET", "/metrics", "none", "", "", 0),
     Ask("GET", "/stats", "none", "", "long", 0),
     Ask("OPTIONS", "/api/v1/users", "none", "a", "", 0),
     Ask("POST", "/api/v1/auth/login", "none", "b", "long", 100),
     Ask("POST", "/api/v1/auth/login", "none", "a", "short", 2000000),
     Ask("PATCH", "/api/v1/users/me", "bad", "", "", 64),
     Ask("PATCH", "/api/v1/users/me", "user", "", "short", 64),
     Ask("GET", "/api/v1/users", "user", "", "", 0),
     Ask("GET", "/api/v1/users", "admin", "", "", 0)}

\* Requests differ in nothing but their name; no property is a liveness one.
MCSymmetry == Permutations(Requests)
=============================================================================
