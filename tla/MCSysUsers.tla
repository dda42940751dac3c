----------------------------- MODULE MCSysUsers -----------------------------
(***************************************************************************)
(* Small instances of SysUsers for TLC.                                    *)
(***************************************************************************)
EXTENDS SysUsers, Naturals, TLC

Symmetry == Permutations(Accounts \ {Creator}) \cup Permutations(Names \ {Root})

\* What an account does beyond applying under a name and being approved or
\* rejected.
Deeds ==
    {<<"applied for roles", a>> : a \in {x \in Accounts : application[x].roles # {}}}
    \cup {<<"asked for roles", a>> : a \in {x \in Accounts : roleRequest[x].status # "none"}}
    \cup {<<"is suspended", a>> :
            a \in {x \in Accounts : user[x].status \in {"disabled", "deleted"}}}
    \cup {<<"has another name", a>> : a \in {x \in Accounts : Misnamed(x)}}
    \cup {<<"has roles by another name", a>> :
            a \in {x \in Accounts : userRole[x].name \notin {NoName, user[x].name}}}
    \cup {<<"is creator and user", a>> : a \in {x \in {Creator} : application[x].state # "none"}}

\* Bound: at most two of these at a time, of one account or of two.
MaxDeeds == 2
FewDeeds == Cardinality(Deeds) <= MaxDeeds
=============================================================================
