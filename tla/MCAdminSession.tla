--------------------------- MODULE MCAdminSession ---------------------------
(* Instances of AdminSession for TLC.                                        *)
EXTENDS AdminSession

Says(value) == [key |-> "ADMIN_PASSWORD", value |-> value]
Comment == [key |-> "none", value |-> Unset]

\* No file, one password, two of which the first counts, an empty one.
SomeFiles == {<<>>, <<Comment, Says(Unset), Says("mine"), Says("other")>>}

\* Unset, or set before the program starts.
SomeEnvironments == {[key \in Keys |-> Unset],
                     [key \in Keys |-> IF key = "ADMIN_PASSWORD" THEN "theirs" ELSE Unset]}

\* The administrator's password before and after the operator has set another.
SomeLogins == {[key \in Keys |-> IF key = "ADMIN_PASSWORD" THEN password ELSE "admin"] :
                 password \in {"mine", "theirs"}}
=============================================================================
