------------------------------ MODULE MCMachine ------------------------------
\* A secret that is missing, one that is no URL, the URL the Neon console hands out for
\* a read-only and for a writable role, and one an operator wrote with TLS turned off.
EXTENDS Machine

Url(driver, sslmode, binding, writable) ==
  [form |-> "url", driver |-> driver, writable |-> writable,
   tls |-> [sslmode |-> sslmode, channel_binding |-> binding, ssl |-> "absent"]]

Bare(form) == [Url("none", "absent", "absent", FALSE) EXCEPT !.form = form]

MCSecrets ==
  {Bare("missing"), Bare("malformed"),
   Url("none", "require", "require", FALSE), Url("none", "require", "absent", TRUE),
   Url("asyncpg", "disable", "absent", FALSE)}
=============================================================================
