-------------------------- MODULE SessionsProperties --------------------------
(***************************************************************************)
(* What Sessions should guarantee.                                         *)
(***************************************************************************)
EXTENDS Sessions

\* Every variable has its type.
SessionsTypeOK ==
    /\ now \in Nat
    /\ account \in [Persons -> AccountRows \cup {NoRow}]
    /\ program \subseteq Programs
    /\ session \in [Browsers -> SessionRows]
    /\ flows \in [Browsers -> SUBSET Flows]
    /\ jobs \in [Persons -> Nat] /\ welcomed \in [Persons -> Nat]
    /\ lost \subseteq Persons
    /\ req \in [Browsers -> Requests] /\ calls \in [Browsers -> Nat]
    /\ changed \in [Persons -> OrUndefined(Nat)]

-----------------------------------------------------------------------------
(* Accounts and registration mails *)

About(p) == {b \in Browsers : req[b].pc = "mail" /\ req[b].user = p}

\* Two first logins of a person at once, or a user that was not found because
\* the query failed, make one account and announce it once at most.
WelcomedOnce ==
    \A p \in Persons :
        jobs[p] + welcomed[p] + Cardinality(About(p)) <= IF Exists(p) THEN 1 ELSE 0

\* Whoever gets an account gets the mail, unless the request or the job fails
\* in between: nothing tries again, and a second login finds the account.
WelcomeIsSent ==
    \A p \in Persons :
        About(p) # {} ~> welcomed[p] > 0 \/ p \in lost

-----------------------------------------------------------------------------
(* Graduation years *)

\* A user changes the graduation year once a year: more than a year lies
\* between the decisions on two changes, except that the update which ends the
\* first login counts for none of them.
YearChangesOnceAYear ==
    [][\A b \in Browsers :
          LET p == req[b].user IN
          /\ req[b].pc = "writeUser" /\ req'[b] # req[b] /\ ~req[b].first
          /\ account'[p].graduationYear # account[p].graduationYear
          => changed[p] = Undefined \/ changed[p] + Year < req[b].readAt
      ]_vars

-----------------------------------------------------------------------------
(* Study programs *)

\* The study programs of a user are one list that Feide gave for that person,
\* whatever logins ran at the same time, and each of them is a row.
ProgramsComeFromFeide ==
    \A p \in Persons :
        Exists(p) /\ account[p].confirmedStudyProgram # Undefined =>
            /\ account[p].enrolledStudyPrograms \subseteq program
            /\ \E list \in Tells[p] :
                  /\ list # <<>>
                  /\ account[p].confirmedStudyProgram = Head(list)
                  /\ account[p].enrolledStudyPrograms =
                        {list[i] : i \in DOMAIN list}

=============================================================================
