-------------------------- MODULE MCSessionManager ---------------------------
(* SessionManager on small instances; the configurations give the constants. *)
EXTENDS SessionManager, TLC

\* Every provider; one of them with the id in a header field, which the
\* manager looks at the same way whatever the provider.
MCSetups == ({"file", "redis", "memcache", "mysql", "ledis", "couchbase", "cookie"} \X {"cookie"})
            \cup {<<"ssdb", "header">>}

Symmetry == Permutations(Browsers) \cup Permutations(Requests)

=============================================================================
