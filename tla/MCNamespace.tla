---- MODULE MCNamespace ----
EXTENDS Namespace
CONSTANTS a, b
MCName == {a, b}
====
