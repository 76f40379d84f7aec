----------------------------- MODULE MCBootstrap -----------------------------
(* The extensions of init.sh. *)
EXTENDS Bootstrap

MCExtensions == <<"otel_api", "otel_postgres_tracing", "pg_stat_statements">>
=============================================================================
