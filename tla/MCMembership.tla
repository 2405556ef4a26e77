---- MODULE MCMembership ----
EXTENDS Membership
====
