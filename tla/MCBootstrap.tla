---- MODULE MCBootstrap ----
EXTENDS Bootstrap
====
