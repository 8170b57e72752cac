--------------------------- MODULE MCSubscriber ---------------------------
EXTENDS PipelineSubscriber, TLC

CONSTANTS m1, m2

\* A message that never decodes and one that does; both may be of a VIN that is
\* not known, or fail for other reasons on the way.
OnePoison == m1 :> "malformed" @@ m2 :> "atomics"

\* Two that never decode: one more than a tracker with one place can count.
TwoPoison == m1 :> "malformed" @@ m2 :> "malformed"

Strict == [body |-> OnePoison, resends |-> FALSE]
AllCases == {Strict, [body |-> OnePoison, resends |-> TRUE],
             [body |-> TwoPoison, resends |-> FALSE]}
StrictOnly == {Strict}
=============================================================================
