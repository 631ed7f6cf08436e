------------------------------- MODULE MCWeb -------------------------------
(* Instances of Accounts and JobView for TLC.  The two share no state (to  *)
(* the page of a job, the rest is the variable session), so one run checks *)
(* each from its own initial states: focus says which one moves.           *)
EXTENDS Accounts, JobView

CONSTANTS s1, s2, s3, j1, j2

VARIABLE focus

Layout == [s \in {s1, s2, s3} |-> IF s = s3 THEN j2 ELSE j1]

allVars == <<accountVars, viewVars, focus>>

Init == AccountsInit /\ ViewInit /\ focus \in {"accounts", "view"}

AccountStep == focus = "accounts" /\ AccountsNext /\ UNCHANGED <<viewVars, focus>>
ViewStep == focus = "view" /\ ViewNext /\ UNCHANGED <<accountVars, focus>>

Spec ==
    /\ Init /\ [][AccountStep \/ ViewStep]_allVars
    /\ WF_allVars(focus = "view" /\ Poll /\ UNCHANGED <<accountVars, focus>>)

(* Every variable of both has its type.                                    *)
TypeOK == AccountsTypeOK /\ ViewTypeOK
=============================================================================
