---------------------------- MODULE MCAutomations ----------------------------
EXTENDS Automations, TLC

CONSTANTS a1, s1, s2

\* One automation with two schedules: registering the second removes the first.
SmallOwner == (s1 :> a1) @@ (s2 :> a1)
=============================================================================
