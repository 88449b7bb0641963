----------------------------- MODULE MCRouting -----------------------------
EXTENDS Routing

CONSTANTS file, m1, m2, s, p, q, c, t1

k1 == <<file, m1>>
k2 == <<file, m2>>

\* p handles both keys, q one of them with a higher priority.
MCTypes == [x \in Plugin |-> IF x = p THEN {k1, k2} ELSE {k1}]
MCPriority == [x \in Plugin |-> IF x = p THEN 0 ELSE 1]

\* Nothing, a service for one key, the same service as an override.
NoPlain == [k \in Key |-> {}]
NoOverrides == [k \in Key |-> None]
MCContents ==
  {[plain |-> NoPlain, overrides |-> NoOverrides],
   [plain |-> [NoPlain EXCEPT ![k1] = {s}], overrides |-> NoOverrides],
   [plain |-> NoPlain, overrides |-> [NoOverrides EXCEPT ![k1] = s]]}
=============================================================================
