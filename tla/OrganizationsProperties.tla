----------------------- MODULE OrganizationsProperties -----------------------
(***************************************************************************)
(* What Memberships and Archive should guarantee.                          *)
(***************************************************************************)
EXTENDS Archive

Rows_of(S) == S \cup {NoRow}
Snapshots == [role : [Organizations -> Roles \cup {"NONE"}], archive : BOOLEAN]

\* Every variable has its type.
OrganizationsTypeOK ==
    /\ organization \in [Organizations -> Rows_of(OrganizationRows)]
    /\ member \in Seq(Rows_of(MemberRows))
    /\ req \in [Clients -> Calls] /\ calls \in [Clients -> Nat]
    /\ been \in [Clients -> SUBSET Snapshots]
    /\ listing \in Seq(Rows_of(ListingRows))
    /\ document \in Seq(Rows_of(DocumentRows))
    /\ category \in Seq(Rows_of(Names)) /\ files \in Nat
    /\ args \in [Clients -> Args]

\* There is always an admin in an organization, as removeMember says: the
\* role that is read, the admins that are counted and the row that is deleted
\* are three moments, and updateRole counts nothing.
OrganizationKeepsAdmin ==
    \A o \in Organizations : Exists(o) => Admins(o) # {}

-----------------------------------------------------------------------------
(* Permissions *)

\* What the documentation of each operation says it requires.
RoleFor(p) ==
    CASE req[p].op \in {"addMember", "updateRole"} -> "ADMIN"
      [] req[p].op = "removeMember" ->
            IF member[req[p].member] # NoRow
               /\ member[req[p].member].user # UserOf[p]
            THEN "ADMIN" ELSE "MEMBER"
      [] OTHER -> "MEMBER"
OnArchive(op) ==
    op \in {"createDocument", "updateDocument", "deleteDocument", "deleteCategory"}

Sufficient(p, rights) ==
    IF OnArchive(req[p].op)
    THEN rights.archive \/ "ARCHIVE_WRITE_DOCUMENTS" \in StudyPermissions[UserOf[p]]
    ELSE \/ rights.role[req[p].organization] = "ADMIN"
         \/ rights.role[req[p].organization] = RoleFor(p)

\* A call writes, itself or by the row of a file, only if at some moment of
\* the call its user had the right its documentation asks for: what is checked
\* is the organization of the row that is written, and the role that the
\* operation on that row requires.  Whoever loses the right during the call
\* may still write once.
WritesAreEntitled ==
    [][\A p \in Clients :
          /\ ~Resting(req[p]) /\ <<req[p], args[p]>>' # <<req[p], args[p]>>
          /\ <<memberships, content>>' # <<memberships, content>>
          => IsSuperUser(p) \/ \E rights \in been[p] : Sufficient(p, rights)
      ]_allVars

\* A call is denied only if its user lacked the right at some moment of the
\* call, or had another role at another moment, or the member it was to remove
\* is gone: somebody who is made an admin between the two queries of
\* hasOrganizationRole is told not to be a member.
DenialsHaveAReason ==
    [][\A p \in Clients :
          ~Resting(req[p]) /\ req'[p].pc = "denied" =>
              \/ \E rights \in been[p] : ~Sufficient(p, rights)
              \/ \E r, s \in been[p] : r.role # s.role
              \/ req[p].op = "removeMember" /\ member[req[p].member] = NoRow
      ]_allVars

\* Feature permissions come from super users: nothing another client does,
\* alone or with others, gives an organization one or takes one away.
FeaturePermissionsFromSuperUsers ==
    [][\A o \in Organizations :
          LET permissions(row) == IF row = NoRow THEN {} ELSE row.featurePermissions
          IN  permissions(organization[o]') # permissions(organization[o]) =>
                  \E p \in Clients : IsSuperUser(p) /\ calls'[p] # calls[p]
      ]_allVars

-----------------------------------------------------------------------------
(* Documents *)

\* An update that gives categories leaves the document with exactly those,
\* whatever happened to its categories since they were read.
UpdateSetsTheCategories ==
    [][\A p \in Clients, d \in DOMAIN document :
          /\ Permitted(p, "updateDocument") /\ args[p].item = d
          /\ args[p].at = "write"
          /\ args'[p] # args[p] /\ document'[d] # document[d]
          => Labels(d)' = args[p].labels
      ]_allVars

=============================================================================
