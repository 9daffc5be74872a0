----------------------------- MODULE MCApplePush -----------------------------
EXTENDS ApplePush

\* A page to two phones, and one beside it that also names a target that is astray.
MCPages ==
  LET to(p, e) == [phone |-> p, token |-> 1, env |-> e]
  IN  <<<<to(1, "production"), to(2, "development")>>, <<to(1, "nowhere"), to(2, "production")>>>>
=============================================================================
