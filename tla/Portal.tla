-------------------------------- MODULE Portal --------------------------------
(* What a user does before a session starts: signs in, or keeps projects.   *)
(* The two share no state; a behaviour does one of them.                    *)
EXTENDS Accounts, Projects

VARIABLE doing   \* "sign in" or "projects"

vars == <<accountVars, projectVars, doing>>

Init == AccountsInit /\ ProjectsInit /\ doing \in {"sign in", "projects"}

Next ==
    \/ doing = "sign in" /\ AccountsNext /\ UNCHANGED <<projectVars, doing>>
    \/ doing = "projects" /\ ProjectsNext /\ UNCHANGED <<accountVars, doing>>

Spec == Init /\ [][Next]_vars

-----------------------------------------------------------------------------
\* A sign-in that fails half way, as the loser of two first sign-ins does, costs no
\* code: a code is used only if a request that presented it was let in.
UsedCodeLetIn ==
    \A k \in DOMAIN codes : codes[k].used => \E n \in DOMAIN logins : logins[n] = k

\* delete_project: "leaving it around lets the next project creation collide on
\* slug-derived path".  A project is refused its directory only when the last rmtree
\* there left files, or somebody wrote to it before it was made or after it was
\* removed: what was written in between is gone with its project, whoever creates,
\* deletes, deletes twice and fails in whatever order.
RefusedOnlyLeftovers ==
    [][\A p \in Creates :
        creating[p] = "initializing" /\ creating'[p] = "refusing" /\ Exists(p)
        => row[p].slug \in leftover]_vars

\* A second delete of the same project has dropped the rows while this one was
\* stopping the containers, and the slug is free.
Overtaken(d) == deleting[d].at = "read" /\ ~Exists(deleting[d].of)

\* The files somebody has written for a project that is ready stay until a delete of
\* it comes to its rmtree.  Whoever else creates and deletes projects of the name
\* does not remove them, but for one: a delete that was overtaken by another delete
\* of its project removes the directory of whoever has the slug by then.
FilesSurvive ==
    [][\A p \in Creates :
        row[p].status = "ready" /\ p \in files[row[p].slug] /\ p \notin files'[row[p].slug]
        => \E d \in Deletes :
             /\ deleting[d].at = "read"
             /\ \/ deleting[d].of = p
                \/ Overtaken(d) /\ row[deleting[d].of].slug = row[p].slug]_vars

\* Nobody else's delete removes them.
OnlyOwnDelete ==
    [][\A p \in Creates :
        row[p].status = "ready" /\ p \in files[row[p].slug] /\ p \notin files'[row[p].slug]
        => \E d \in Deletes : deleting[d].of = p]_vars
=============================================================================
