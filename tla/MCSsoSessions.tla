--------------------------- MODULE MCSsoSessions ---------------------------
(* Small instances of SsoSessions for TLC. *)
EXTENDS SsoSessions, TLC

CONSTANTS
    u1, p1, p2, r1, r2, s1, i1,
    Waiting    \* requests u1 is bound to that are not answered yet

\* r1 comes from p1, every other request from p2.
Targets == [r \in Requests |-> IF r = r1 THEN p1 ELSE p2]

\* i1 asks by name for p1, every other LogoutRequest for p2 with the SessionIndexes it has.
AsksAll == [i \in LogoutIds |-> IF i = i1 THEN [sp |-> p1, user |-> u1, index |-> {}]
                                ELSE [sp |-> p2, user |-> u1, index |-> Requests \ {r1}]]

\* Where sign-ons of u1 lead when nothing else happens: in one browser (s1) at p1 and p2, in every
\* other one at p2 once more; for what is Waiting only the login has happened.
SignedOn ==
    /\ user = [u \in Users |-> "active"]
    /\ request = [r \in Requests |-> [state |-> IF r \in Waiting THEN "pending" ELSE "gone",
                                      user |-> u1, expired |-> FALSE]]
    /\ session = [s \in Sessions |-> [state |-> "active", user |-> u1, expired |-> FALSE]]
    /\ part = {<<IF r \in {r1, r2} THEN s1 ELSE CHOOSE s \in Sessions : s # s1, r, u1>> :
                 r \in Requests \ Waiting}
    /\ queued = {} /\ active = SPs
    /\ login = [l \in Logins |-> NoLogin]
    /\ complete = [c \in Completions |-> NoComplete]
    /\ term = [t \in Terminators |-> NoTerm]
    /\ issued = [r \in Requests |-> IF r \in Waiting THEN 0 ELSE 1]
    /\ late = {} /\ lost = {} /\ spared = {}

SignedOnSpec == SignedOn /\ [][Next]_vars

\* Handlers of one kind are interchangeable.
Symmetry == Permutations(Completions) \cup Permutations(Terminators)
=============================================================================
