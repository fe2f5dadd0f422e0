--------------------------- MODULE MCUserSessions ---------------------------
\* Instances of UserSessions: one inbound, the main user and one more.
EXTENDS UserSessions

With(main, other) == [u \in User |-> IF u = Default THEN main ELSE other]
StartAll == [i \in Inbound |-> With("m", "p")]

\* The second user is removed or gets another password, the inbound is removed.
HandOne ==
  {[i \in Inbound |-> c] : c \in {With("m", "p"), With("m", "q"), With("m", NoPw), NoUsers}}
=============================================================================
