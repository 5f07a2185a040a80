----------------------------- MODULE MCAccounts -----------------------------
\* Instances of Accounts small enough for TLC.
EXTENDS Accounts
============================================================================
