--------------------------- MODULE MCRootCreation ---------------------------
(* Two processes, two metadata roots; what they may ask for.               *)
EXTENDS RootProperties

CONSTANTS m1, m2, g1, g2

Ask(kind, carrier, head, payload) ==
  [kind |-> kind, carrier |-> carrier, head |-> head, payload |-> payload]

Registers == {Ask("register", m1, 1, g1), Ask("register", m2, 1, g1)}
AllRequests ==
  Registers \cup
  {Ask("replicate", m1, 0, Nothing), Ask("fork", m2, 1, g2), Ask("grant", m1, 1, Nothing),
   Ask("migrate", m1, 1, Nothing)}
Forks == {Ask("fork", m2, 1, g2)}
=============================================================================
