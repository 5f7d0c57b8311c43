------------------------- MODULE Permissions_proofs -------------------------
(***************************************************************************)
(* Proofs about what the memberships permit, for any number of users,      *)
(* clients and rows, whoever is added, removed, promoted or demoted while  *)
(* a call is under way: feature permissions come from super users, writes  *)
(* are entitled, and denials have a reason.                                *)
(***************************************************************************)
EXTENDS Organizations_proofs

\* Feature permissions come from super users: for every instance, each step
\* that changes those of an organization is a call of a super user.
LEMMA FeaturePermissionsStep ==
    ASSUME OrganizationsTypeInv, Next, NEW o \in Organizations,
           (IF organization[o] = NoRow THEN {} ELSE organization[o].featurePermissions)'
               # IF organization[o] = NoRow THEN {} ELSE organization[o].featurePermissions
    PROVE  \E p \in Clients : IsSuperUser(p) /\ calls'[p] # calls[p]
<1>1. PICK p \in Clients : MembershipStep(p) \/ Listings(p) \/ Documents(p)
  BY DEF Next
<1>2. organization' # organization
  OBVIOUS
<1>3. MembershipStep(p)
  BY <1>1, <1>2, ListingTypes, BeginDocumentTypes, WriteDocumentTypes
     DEF ArchiveTyped, memberships, Documents
<1>4. /\ calls \in [Clients -> Nat]
      /\ organization \in [Organizations -> Rows_of(OrganizationRows)]
  BY DEF OrganizationsTypeInv, OrganizationsTypeOK
<1>5. (\E op : BeginAndReturn(p, op)) => calls'[p] # calls[p]
  <2>1. calls[p] + 1 # calls[p]
    BY <1>4
  <2> QED
    BY <1>4, <2>1 DEF BeginAndReturn
<1>6. CreateOrganization(p) \/ SuperUserUpdatesOrganization(p) \/ WriteOrganization(p)
  BY <1>2, <1>3, PermissionTypes DEF MembershipStep, Membership, memberships, RemoveMember, CountAdmins,
     DeleteMember, AddMember, CreateMember, UpdateRole, WriteRole, UpdateOrganization, CallFails
<1>7. CASE CreateOrganization(p)
  <2>1. PICK o1 \in Organizations, name \in Names, permissions \in MayPermit :
        /\ ~Exists(o1)
        /\ BeginAndReturn(p, "create")
        /\ organization' = [organization EXCEPT ![o1] =
              [name |-> name, featurePermissions |->
                  IF IsSuperUser(p) THEN permissions ELSE {}]]
    BY <1>7 DEF CreateOrganization
  <2>2. IsSuperUser(p)
    BY <1>4, <2>1 DEF Exists
  <2> QED
    BY <1>5, <2>1, <2>2
<1>8. CASE SuperUserUpdatesOrganization(p)
  BY <1>5, <1>8 DEF SuperUserUpdatesOrganization
<1>9. CASE WriteOrganization(p)
  <2> DEFINE o1 == req[p].organization
  <2>1. Fits(req[p], args[p]) /\ ~Resting(req[p])
    BY <1>9 DEF Resting, WriteOrganization, OrganizationsTypeInv
  <2>2. organization[o1] \in OrganizationRows /\ o1 \in Organizations
    BY <1>4, <1>9, <2>1 DEF Fits, WriteOrganization, Exists, Rows_of
  <2>3. /\ [organization[o1] EXCEPT !.name = req[p].name] # NoRow
        /\ [organization[o1] EXCEPT !.name = req[p].name].featurePermissions
              = organization[o1].featurePermissions
    <3>1. req[p].name \in Names
      BY <1>9, <2>1 DEF Fits, WriteOrganization
    <3>2. [organization[o1] EXCEPT !.name = req[p].name] \in OrganizationRows
      BY <2>2, <3>1 DEF OrganizationRows
    <3> QED
      BY <2>2, <3>2, MembershipsAssumption DEF OrganizationRows
  <2>4. organization' = [organization EXCEPT
               ![o1] = [organization[o1] EXCEPT !.name = req[p].name]]
    BY <1>2, <1>9 DEF WriteOrganization
  <2>5. organization[o1] # NoRow
    BY <2>2, MembershipsAssumption
  <2> QED
    BY <1>4, <2>2, <2>3, <2>4, <2>5
<1> QED
  BY <1>6, <1>7, <1>8, <1>9

\* Nothing another client does, alone or with others, gives an organization a
\* feature permission or takes one away.
THEOREM FeaturePermissionsAreSuperUsers == Spec => FeaturePermissionsFromSuperUsers
<1>1. OrganizationsTypeInv /\ [Next]_allVars =>
        [\A o \in Organizations :
          LET permissions(row) == IF row = NoRow THEN {} ELSE row.featurePermissions
          IN  permissions(organization[o]') # permissions(organization[o]) =>
                  \E p \in Clients : IsSuperUser(p) /\ calls'[p] # calls[p]]_allVars
  BY FeaturePermissionsStep
<1>2. Spec => []OrganizationsTypeInv
  BY InitTypes, TypeStep, PTL DEF Spec
<1> QED
  BY <1>1, <1>2, PTL DEF Spec, FeaturePermissionsFromSuperUsers

-----------------------------------------------------------------------------
(* Writes are entitled, and denials have a reason *)

\* What a call asks for is what its operation requires.
Asks(p, call) ==
    /\ call.op \in {"addMember", "updateRole"} => call.required = "ADMIN"
    /\ call.op = "removeMember" =>
          /\ call.member \in DOMAIN member /\ call.required \in Roles
          /\ call.member \in Rows =>
                (call.required = "MEMBER" <=> member[call.member].user = UserOf[p])
    /\ call.op \notin {"addMember", "updateRole", "removeMember"} /\ ~OnArchive(call.op) =>
          call.required = "MEMBER"
    /\ ~OnArchive(call.op) => call.organization \in Organizations
    /\ call.pc \in {"admin", "role"} => ~OnArchive(call.op)
    /\ call.pc \in {"organizations", "studyProgram"} => OnArchive(call.op)

\* What it has been granted or refused so far was so at one of the moments S.
Enough(p, call, rights) ==
    IF OnArchive(call.op)
    THEN rights.archive \/ "ARCHIVE_WRITE_DOCUMENTS" \in StudyPermissions[UserOf[p]]
    ELSE rights.role[call.organization] \in {"ADMIN", call.required}
Backed(p, call, S) ==
    /\ call.pc \in {"granted", "remove"} =>
          IsSuperUser(p) \/ \E rights \in S : Enough(p, call, rights)
    /\ call.pc = "role" => \E rights \in S : rights.role[call.organization] # "ADMIN"
    /\ call.pc = "studyProgram" => \E rights \in S : ~rights.archive

EntitledCall(p) ==
    ~Resting(req[p]) =>
        /\ Asks(p, req[p])
        /\ Rights(UserOf[p]) \in been[p]
        /\ Backed(p, req[p], been[p])
EntitledInv == \A p \in Clients : EntitledCall(p)

\* Rows are not removed from the table, and stay their users'.
UsersStay ==
    /\ DOMAIN member \subseteq DOMAIN member'
    /\ \A i \in DOMAIN member : i \in Rows' =>
          i \in Rows /\ member'[i].user = member[i].user

\* What a call asks for does not change while the call waits.
LEMMA AsksStay ==
    ASSUME UsersStay, NEW p \in Clients, NEW call, Asks(p, call)
    PROVE  Asks(p, call)'
  BY DEF UsersStay, Asks

\* Nor does what it has been granted, as the history grows.
LEMMA BackedGrows ==
    ASSUME NEW p \in Clients, NEW call, NEW S, NEW T, S \subseteq T, Backed(p, call, S)
    PROVE  Backed(p, call, T)
  BY DEF Backed

\* A new row is appended.
LEMMA AppendedUsersStay ==
    ASSUME OrganizationsTypeOK, NEW row \in MemberRows, member' = Append(member, row)
    PROVE  UsersStay
<1>1. member \in Seq(Rows_of(MemberRows)) /\ row \in Rows_of(MemberRows)
  BY DEF OrganizationsTypeOK, Rows_of
<1>2. /\ DOMAIN member \subseteq DOMAIN member'
      /\ \A i \in DOMAIN member : member'[i] = member[i]
  BY <1>1, AppendIsSeq
<1> QED
  BY <1>2 DEF UsersStay, Rows

\* A step on the memberships leaves the rows their users.
LEMMA MembershipUsersStay ==
    ASSUME OrganizationsTypeInv, NEW p \in Clients, Membership(p)
    PROVE  UsersStay
<1> USE DEF OrganizationsTypeInv
<1>0. ASSUME UNCHANGED member PROVE UsersStay
  BY <1>0 DEF UsersStay, Rows
<1>1. CASE Permission(p)
  BY <1>0, <1>1, PermissionTypes DEF memberships
<1>2. CASE \/ RemoveMember(p) \/ CountAdmins(p) \/ AddMember(p) \/ UpdateRole(p)
           \/ SuperUserUpdatesOrganization(p) \/ UpdateOrganization(p)
           \/ WriteOrganization(p) \/ CallFails(p)
  BY <1>0, <1>2
     DEF RemoveMember, CountAdmins, AddMember, UpdateRole, UpdateOrganization,
         SuperUserUpdatesOrganization, WriteOrganization, CallFails, memberships
<1>3. CASE DeleteMember(p)
  BY <1>3 DEF DeleteMember, UsersStay, Rows
<1>4. CASE CreateMember(p)
  <2> DEFINE row == [user |-> req[p].user, organization |-> req[p].organization,
                role |-> IF req[p].role = Undefined THEN "MEMBER"
                         ELSE req[p].role]
  <2>1. /\ req[p].pc = "granted" /\ req[p].op = "addMember"
        /\ member' = IF IsMember(row.user, row.organization)
                     THEN member ELSE Append(member, row)
    BY <1>4 DEF CreateMember
  <2>2. req[p] \in Calls /\ Fits(req[p], args[p]) /\ ~Resting(req[p])
    BY <2>1 DEF OrganizationsTypeOK, Resting
  <2>3. row \in MemberRows
    BY <2>1, <2>2 DEF Fits, MemberRows, Calls, Roles
  <2> QED
    BY <1>0, <2>1, <2>3, AppendedUsersStay
<1>5. CASE WriteRole(p)
  <2>1. \A i \in Rows : [member[i] EXCEPT !.role = req[p].role].user = member[i].user
    BY RowTypes DEF MemberRows
  <2> QED
    BY <1>5, <2>1 DEF WriteRole, UsersStay, Rows
<1>6. CASE CreateOrganization(p)
  <2>1. PICK o \in Organizations :
        member' = Append(member, [user |-> UserOf[p], organization |-> o,
                                  role |-> "ADMIN"])
    BY <1>6 DEF CreateOrganization
  <2>2. [user |-> UserOf[p], organization |-> o, role |-> "ADMIN"] \in MemberRows
    BY MembershipsAssumption DEF MemberRows, Roles
  <2> QED
    BY <2>1, <2>2, AppendedUsersStay
<1> QED
  BY <1>1, <1>2, <1>3, <1>4, <1>5, <1>6 DEF Membership

\* What client p's own step leaves of its call.
Justified(p) ==
    \/ Resting(req'[p])
    \/ Asks(p, req'[p]) /\ Backed(p, req'[p], been[p])

\* The call of a super user is granted at once, others have to ask.
LEMMA Asking ==
    ASSUME NEW p \in Clients
    PROVE  /\ \/ AskRole(p) = "granted" /\ IsSuperUser(p)
              \/ AskRole(p) = "admin"
           /\ \/ AskFeature(p) = "granted" /\ IsSuperUser(p)
              \/ AskFeature(p) = "organizations"
  BY DEF AskRole, AskFeature

\* A call that begins has been refused nothing and, but a super user's, has
\* been granted nothing.
LEMMA BeginJustified ==
    ASSUME OrganizationsTypeInv, NEW p \in Clients, NEW call \in Calls,
           Begin(p, call), Asks(p, call),
           \/ call.pc = "granted" /\ IsSuperUser(p)
           \/ call.pc \in {"admin", "organizations"}
    PROVE  Justified(p)
<1>1. req'[p] = call
  BY BeginMoves DEF OrganizationsTypeInv
<1>2. Backed(p, call, been[p])
  BY DEF Backed
<1> QED
  BY <1>1, <1>2 DEF Justified

\* One that ends has nothing left to justify.
LEMMA EndJustified ==
    ASSUME OrganizationsTypeInv, NEW p \in Clients,
           Return(p) \/ Deny(p) \/ \E op \in Operations : BeginAndReturn(p, op)
    PROVE  Justified(p)
  BY EndMoves DEF Justified, OrganizationsTypeInv

\* One that goes on asks for the same.
LEMMA GotoJustified ==
    ASSUME OrganizationsTypeInv, EntitledInv, NEW p \in Clients, NEW pc \in PCs,
           ~Resting(req[p]), Goto(p, pc),
           pc \in {"admin", "role"} => ~OnArchive(req[p].op),
           pc \in {"organizations", "studyProgram"} => OnArchive(req[p].op),
           pc \in {"granted", "remove"} =>
               IsSuperUser(p) \/ \E rights \in been[p] : Enough(p, req[p], rights),
           pc = "role" =>
               \E rights \in been[p] : rights.role[req[p].organization] # "ADMIN",
           pc = "studyProgram" => \E rights \in been[p] : ~rights.archive
    PROVE  Justified(p)
<1> DEFINE call == [req[p] EXCEPT !.pc = pc]
<1>1. req'[p] = call
  BY GotoMoves
<1>2. req[p] \in Calls
  BY DEF OrganizationsTypeInv, OrganizationsTypeOK
<1>3. /\ call.pc = pc /\ call.op = req[p].op /\ call.organization = req[p].organization
      /\ call.required = req[p].required /\ call.member = req[p].member
  BY <1>2 DEF Calls
<1>4. Asks(p, req[p])
  BY DEF EntitledInv, EntitledCall
<1> HIDE DEF call
<1>5. Asks(p, call)
  BY <1>3, <1>4 DEF Asks
<1>6. \A rights : Enough(p, req[p], rights) => Enough(p, call, rights)
  BY <1>3 DEF Enough
<1>7. Backed(p, call, been[p])
  BY <1>3, <1>6 DEF Backed
<1> QED
  BY <1>1, <1>5, <1>7 DEF Justified

\* What the rights of this moment are.
LEMMA RightsNow ==
    ASSUME NEW user, NEW o \in Organizations
    PROVE  /\ Rights(user).role[o] = IF HasRow(user, o, "ADMIN") THEN "ADMIN"
                                     ELSE IF HasRow(user, o, "MEMBER") THEN "MEMBER"
                                     ELSE "NONE"
           /\ Rights(user).archive = OrganizationsPermit(user, "ARCHIVE_WRITE_DOCUMENTS")
  BY DEF Rights

\* The four queries of hasRole and hasFeaturePermission.
LEMMA PermissionJustified ==
    ASSUME OrganizationsTypeInv, EntitledInv, NEW p \in Clients, Permission(p)
    PROVE  Justified(p)
<1> DEFINE now == Rights(UserOf[p])
           o == req[p].organization
<1>1. ~Resting(req[p])
  BY DEF Permission, IsAdmin, HasRequiredRole, FindOrganizations, ReadStudyProgram, Resting
<1>2. Asks(p, req[p]) /\ now \in been[p]
  BY <1>1 DEF EntitledInv, EntitledCall
<1>3. "granted" \in PCs /\ "role" \in PCs /\ "studyProgram" \in PCs
  BY DEF PCs
<1>4. CASE IsAdmin(p)
  <2>1. o \in Organizations /\ ~OnArchive(req[p].op)
    BY <1>2, <1>4 DEF Asks, IsAdmin
  <2>2. CASE HasRow(UserOf[p], o, "ADMIN")
    <3>1. Enough(p, req[p], now)
      BY <2>1, <2>2, RightsNow DEF Enough
    <3>2. Goto(p, "granted")
      BY <1>4, <2>2 DEF IsAdmin
    <3> QED
      BY <1>1, <1>2, <1>3, <3>1, <3>2, GotoJustified
  <2>3. CASE ~HasRow(UserOf[p], o, "ADMIN")
    <3>1. now.role[o] # "ADMIN"
      BY <2>1, <2>3, RightsNow
    <3>2. Goto(p, "role")
      BY <1>4, <2>3 DEF IsAdmin
    <3> QED
      BY <1>1, <1>2, <1>3, <2>1, <3>1, <3>2, GotoJustified
  <2> QED
    BY <2>2, <2>3
<1>5. CASE HasRequiredRole(p)
  <2>1. o \in Organizations /\ ~OnArchive(req[p].op)
    BY <1>2, <1>5 DEF Asks, HasRequiredRole
  <2>2. CASE HasRow(UserOf[p], o, req[p].required)
    <3>1. req[p].required \in Roles
      BY <1>2, <2>1 DEF Asks, Roles
    <3>2. now.role[o] \in {"ADMIN", req[p].required}
      BY <2>1, <2>2, <3>1, RightsNow DEF Roles
    <3>3. Enough(p, req[p], now)
      BY <2>1, <3>2 DEF Enough
    <3>4. Goto(p, "granted")
      BY <1>5, <2>2 DEF HasRequiredRole
    <3> QED
      BY <1>1, <1>2, <1>3, <3>3, <3>4, GotoJustified
  <2>3. CASE ~HasRow(UserOf[p], o, req[p].required)
    BY <1>5, <2>3, EndJustified DEF HasRequiredRole
  <2> QED
    BY <2>2, <2>3
<1>6. CASE FindOrganizations(p)
  <2>1. OnArchive(req[p].op)
    BY <1>2, <1>6 DEF Asks, FindOrganizations
  <2>2. now.archive = OrganizationsPermit(UserOf[p], "ARCHIVE_WRITE_DOCUMENTS")
    BY DEF Rights
  <2>3. CASE now.archive
    <3>1. Enough(p, req[p], now)
      BY <2>1, <2>3 DEF Enough
    <3>2. Goto(p, "granted")
      BY <1>6, <2>2, <2>3 DEF FindOrganizations
    <3> QED
      BY <1>1, <1>2, <1>3, <3>1, <3>2, GotoJustified
  <2>4. CASE ~now.archive
    <3>1. Goto(p, "studyProgram")
      BY <1>6, <2>2, <2>4 DEF FindOrganizations
    <3> QED
      BY <1>1, <1>2, <1>3, <2>1, <2>4, <3>1, GotoJustified
  <2> QED
    BY <2>3, <2>4
<1>7. CASE ReadStudyProgram(p)
  <2>1. OnArchive(req[p].op)
    BY <1>2, <1>7 DEF Asks, ReadStudyProgram
  <2>2. CASE "ARCHIVE_WRITE_DOCUMENTS" \in StudyPermissions[UserOf[p]]
    <3>1. Enough(p, req[p], now)
      BY <2>1, <2>2 DEF Enough
    <3>2. Goto(p, "granted")
      BY <1>7, <2>2 DEF ReadStudyProgram
    <3> QED
      BY <1>1, <1>2, <1>3, <3>1, <3>2, GotoJustified
  <2>3. CASE "ARCHIVE_WRITE_DOCUMENTS" \notin StudyPermissions[UserOf[p]]
    BY <1>7, <2>3, EndJustified DEF ReadStudyProgram
  <2> QED
    BY <2>2, <2>3
<1> QED
  BY <1>4, <1>5, <1>6, <1>7 DEF Permission

\* The calls on memberships.
LEMMA MembershipJustified ==
    ASSUME OrganizationsTypeInv, EntitledInv, NEW p \in Clients, Membership(p)
    PROVE  Justified(p)
<1> USE DEF OrganizationsTypeInv
<1>0. MayGive[p] \subseteq Roles /\ "create" \in Operations /\ "update" \in Operations
  BY MembershipsAssumption DEF Operations
<1>1. CASE Permission(p)
  BY <1>1, PermissionJustified
<1>2. CASE RemoveMember(p)
  <2>1. PICK i \in Rows :
          Begin(p, [Idle EXCEPT
              !.pc = AskRole(p), !.op = "removeMember", !.member = i,
              !.organization = member[i].organization,
              !.role = member[i].role,
              !.required = IF member[i].user = UserOf[p]
                           THEN "MEMBER" ELSE "ADMIN"])
    BY <1>2 DEF RemoveMember
  <2> DEFINE call == [Idle EXCEPT
              !.pc = AskRole(p), !.op = "removeMember", !.member = i,
              !.organization = member[i].organization,
              !.role = member[i].role,
              !.required = IF member[i].user = UserOf[p]
                           THEN "MEMBER" ELSE "ADMIN"]
  <2>2. call \in Calls /\ call.pc = AskRole(p)
    BY RowTypes DEF Idle, Calls, PCs, AskRole, Operations, Roles
  <2>3. Asks(p, call)
    BY RowTypes, Asking DEF Idle, Asks, OnArchive, Roles
  <2> QED
    BY <2>1, <2>2, <2>3, BeginJustified, Asking
<1>3. CASE AddMember(p)
  <2>1. PICK user \in Users, o \in Organizations,
             role \in MayGive[p] \cup {Undefined} :
          Begin(p, [Idle EXCEPT
              !.pc = AskRole(p), !.op = "addMember", !.organization = o,
              !.required = "ADMIN", !.user = user, !.role = role])
    BY <1>3 DEF AddMember
  <2> DEFINE call == [Idle EXCEPT
              !.pc = AskRole(p), !.op = "addMember", !.organization = o,
              !.required = "ADMIN", !.user = user, !.role = role]
  <2>2. call \in Calls /\ call.pc = AskRole(p)
    BY <1>0 DEF Idle, Calls, PCs, AskRole, Operations, Roles
  <2>3. Asks(p, call)
    BY Asking DEF Idle, Asks, OnArchive, Roles
  <2> QED
    BY <2>1, <2>2, <2>3, BeginJustified, Asking
<1>4. CASE UpdateRole(p)
  <2>1. PICK i \in Rows, role \in MayGive[p] :
          Begin(p, [Idle EXCEPT
              !.pc = AskRole(p), !.op = "updateRole", !.member = i,
              !.organization = member[i].organization,
              !.required = "ADMIN", !.role = role])
    BY <1>4 DEF UpdateRole
  <2> DEFINE call == [Idle EXCEPT
              !.pc = AskRole(p), !.op = "updateRole", !.member = i,
              !.organization = member[i].organization,
              !.required = "ADMIN", !.role = role]
  <2>2. call \in Calls /\ call.pc = AskRole(p)
    BY <1>0, RowTypes DEF Idle, Calls, PCs, AskRole, Operations, Roles
  <2>3. Asks(p, call)
    BY RowTypes, Asking DEF Idle, Asks, OnArchive, Roles
  <2> QED
    BY <2>1, <2>2, <2>3, BeginJustified, Asking
<1>5. CASE UpdateOrganization(p)
  <2>1. PICK o \in Organizations, name \in Names :
          Begin(p, [Idle EXCEPT
              !.pc = "admin", !.op = "update", !.organization = o,
              !.required = "MEMBER", !.name = name])
    BY <1>5 DEF UpdateOrganization
  <2> DEFINE call == [Idle EXCEPT
              !.pc = "admin", !.op = "update", !.organization = o,
              !.required = "MEMBER", !.name = name]
  <2>2. call \in Calls /\ call.pc = "admin"
    BY DEF Idle, Calls, PCs, Operations, Roles
  <2>3. Asks(p, call)
    BY DEF Idle, Asks, OnArchive, Roles
  <2> QED
    BY <2>1, <2>2, <2>3, BeginJustified
<1>6. CASE CountAdmins(p)
  <2>1. /\ ~Resting(req[p]) /\ req[p].op = "removeMember" /\ req[p].pc = "granted"
        /\ Return(p) \/ Goto(p, "remove")
    BY <1>6 DEF CountAdmins, Resting
  <2>2. IsSuperUser(p) \/ \E rights \in been[p] : Enough(p, req[p], rights)
    BY <2>1 DEF EntitledInv, EntitledCall, Backed
  <2>3. "remove" \in PCs
    BY DEF PCs
  <2> QED
    BY <2>1, <2>2, <2>3, GotoJustified, EndJustified
<1>7. CASE \/ DeleteMember(p) \/ CreateMember(p) \/ WriteRole(p)
           \/ CreateOrganization(p) \/ SuperUserUpdatesOrganization(p)
           \/ WriteOrganization(p) \/ CallFails(p)
  BY <1>0, <1>7, EndJustified
     DEF DeleteMember, CreateMember, WriteRole, CreateOrganization,
         SuperUserUpdatesOrganization, WriteOrganization, CallFails
<1> QED
  BY <1>1, <1>2, <1>3, <1>4, <1>5, <1>6, <1>7 DEF Membership

\* The calls on listings and on the archive.
LEMMA ArchiveJustified ==
    ASSUME OrganizationsTypeInv, EntitledInv, NEW p \in Clients,
           Listings(p) \/ Documents(p)
    PROVE  Justified(p)
<1> USE DEF OrganizationsTypeInv
<1>1. ASSUME NEW op \in {"createListing", "updateListing", "deleteListing"},
             NEW o \in Organizations, NEW a, BeginOn(p, op, o, a)
      PROVE  Justified(p)
  <2> DEFINE call == [Idle EXCEPT !.pc = AskRole(p), !.op = op,
                                  !.organization = o, !.required = "MEMBER"]
  <2>1. call \in Calls /\ call.pc = AskRole(p)
    BY DEF Idle, Calls, PCs, AskRole, Operations, Roles
  <2>2. Asks(p, call)
    BY Asking DEF Idle, Asks, OnArchive, Roles
  <2> QED
    BY <1>1, <2>1, <2>2, BeginJustified, Asking DEF BeginOn
<1>2. ASSUME NEW op \in {"createDocument", "updateDocument", "deleteDocument",
                         "deleteCategory"},
             NEW a, BeginOnArchive(p, op, a)
      PROVE  Justified(p)
  <2> DEFINE call == [Idle EXCEPT !.pc = AskFeature(p), !.op = op]
  <2>1. call \in Calls /\ call.pc = AskFeature(p)
    BY DEF Idle, Calls, PCs, AskFeature, Operations
  <2>2. Asks(p, call)
    BY Asking DEF Idle, Asks, OnArchive, Roles
  <2> QED
    BY <1>2, <2>1, <2>2, BeginJustified, Asking DEF BeginOnArchive
<1>3. ASSUME UNCHANGED req, ~Resting(req[p]) PROVE Justified(p)
  BY <1>3 DEF Justified, EntitledInv, EntitledCall
<1>4. CASE CreateListing(p) \/ UpdateListing(p) \/ DeleteListing(p)
  <2>1. \A l \in Existing(listing) : listing[l].organization \in Organizations
    BY ItemTypes DEF ListingRows
  <2> QED
    BY <1>1, <1>4, <2>1 DEF CreateListing, UpdateListing, DeleteListing
<1>5. CASE WriteNewListing(p) \/ WriteListing(p) \/ WriteDeletedListing(p)
  BY <1>5, EndJustified DEF WriteNewListing, WriteListing, WriteDeletedListing, End
<1>6. CASE CreateDocument(p) \/ UpdateDocument(p) \/ DeleteDocument(p) \/ DeleteCategory(p)
  BY <1>2, <1>6 DEF CreateDocument, UpdateDocument, DeleteDocument, DeleteCategory
<1>7. CASE CreateFile(p) \/ ReadCategories(p)
  BY <1>3, <1>7, EndJustified DEF CreateFile, ReadCategories, Continue, End, Permitted, Resting
<1>8. CASE \/ WriteNewDocument(p) \/ WriteDocument(p) \/ WriteDeletedDocument(p)
           \/ WriteDeletedCategory(p)
  BY <1>8, EndJustified
     DEF WriteNewDocument, WriteDocument, WriteDeletedDocument, WriteDeletedCategory, End
<1> QED
  BY <1>4, <1>5, <1>6, <1>7, <1>8 DEF Listings, Documents

\* Whoever moves, what the calls under way have been granted stays justified.
LEMMA EntitledStep ==
    ASSUME OrganizationsTypeInv, EntitledInv, [Next]_allVars
    PROVE  EntitledInv'
<1>1. CASE UNCHANGED allVars
  BY <1>1 DEF allVars, vars, memberships, EntitledInv, EntitledCall, Resting, Asks,
              Backed, Enough, Rights, HasRow, Rows, OrganizationsPermit,
              OrganizationsOf, IsMember
<1>2. CASE Next
  <2>1. PICK p \in Clients :
           /\ MembershipStep(p) \/ Listings(p) \/ Documents(p)
           /\ Remember
    BY <1>2 DEF Next
  <2>2. Moves(p) /\ Justified(p) /\ UsersStay
    <3>1. CASE MembershipStep(p)
      BY <3>1, MembershipTypes, MembershipJustified, MembershipUsersStay
         DEF MembershipStep, Typed
    <3>2. CASE Listings(p) \/ Documents(p)
      <4>1. ArchiveTyped(p)
        BY <3>2, ListingTypes, BeginDocumentTypes, WriteDocumentTypes DEF Documents
      <4>2. UsersStay
        BY <4>1 DEF ArchiveTyped, memberships, UsersStay, Rows
      <4> QED
        BY <3>2, <4>1, <4>2, ArchiveJustified DEF ArchiveTyped
    <3> QED
      BY <2>1, <3>1, <3>2
  <2>3. ASSUME NEW q \in Clients, ~Resting(req[q])'
        PROVE  /\ Asks(q, req[q])'
               /\ Rights(UserOf[q])' \in been'[q]
               /\ Backed(q, req[q], been[q])'
    <3>1. PICK call : call = req'[q]
      OBVIOUS
    <3>2. PICK S : S = been[q]
      OBVIOUS
    <3>3. PICK T : T = been'[q]
      OBVIOUS
    <3>4. ~Resting(call)
      BY <2>3, <3>1 DEF Resting
    <3>5. T = S \cup {Rights(UserOf[q])'}
      BY <2>1, <2>3, <3>2, <3>3 DEF Remember
    <3>6. Asks(q, call) /\ Backed(q, call, S)
      <4>1. CASE q = p
        BY <2>2, <3>1, <3>2, <3>4, <4>1 DEF Justified
      <4>2. CASE q # p
        <5>1. call = req[q]
          BY <2>2, <3>1, <4>2 DEF Moves
        <5> QED
          BY <3>2, <3>4, <5>1 DEF EntitledInv, EntitledCall
      <4> QED
        BY <4>1, <4>2
    <3>7. Asks(q, call)'
      BY <2>2, <3>6, AsksStay
    <3>8. Backed(q, call, T)
      BY <3>5, <3>6, BackedGrows
    <3>9. Backed(q, call, T)'
      BY <3>8 DEF Backed, Enough, IsSuperUser
    <3> QED
      BY <3>1, <3>3, <3>5, <3>7, <3>9
  <2> QED
    BY <2>3 DEF EntitledInv, EntitledCall
<1> QED
  BY <1>1, <1>2

\* Nothing is under way at first.
LEMMA EntitledInit == Init => EntitledInv
  BY DEF Init, MembershipsInit, EntitledInv, EntitledCall, Idle, Resting

\* What suffices for the role a call asks for suffices for its operation.
LEMMA EnoughSuffices ==
    ASSUME NEW p \in Clients, Asks(p, req[p]), NEW rights, Enough(p, req[p], rights)
    PROVE  Sufficient(p, rights)
  BY DEF Asks, Enough, Sufficient, RoleFor, OnArchive, Roles, Rows

\* Every write of client p, at the moment it is made, was granted.
LEMMA EntitledWrites ==
    ASSUME OrganizationsTypeInv, EntitledInv, Next, NEW p \in Clients,
           ~Resting(req[p]), <<req[p], args[p]>>' # <<req[p], args[p]>>,
           <<memberships, content>>' # <<memberships, content>>
    PROVE  IsSuperUser(p) \/ \E rights \in been[p] : Sufficient(p, rights)
<1>1. PICK q \in Clients : MembershipStep(q) \/ Listings(q) \/ Documents(q)
  BY DEF Next
<1>2. q = p
  <2>1. SUFFICES ASSUME q # p PROVE FALSE
    OBVIOUS
  <2>2. args \in [Clients -> Args]
    BY DEF OrganizationsTypeInv, OrganizationsTypeOK
  <2>3. CASE MembershipStep(q)
    <3>1. req'[p] = req[p]
      BY <2>1, <2>3, MembershipTypes DEF MembershipStep, Typed, Moves
    <3>2. args'[p] = args[p]
      BY <2>1, <2>2, <2>3 DEF MembershipStep
    <3> QED
      BY <3>1, <3>2
  <2>4. CASE Listings(q) \/ Documents(q)
    <3>1. ArchiveTyped(q)
      BY <2>4, ListingTypes, BeginDocumentTypes, WriteDocumentTypes DEF Documents
    <3>2. req'[p] = req[p] /\ args'[p] = args[p]
      BY <2>1, <2>2, <3>1 DEF ArchiveTyped, Moves
    <3> QED
      BY <3>2
  <2> QED
    BY <1>1, <2>3, <2>4
<1>3. req[p].pc \in {"granted", "remove"}
  <2>1. CASE MembershipStep(p)
    <3>1. UNCHANGED content /\ Membership(p)
      BY <2>1 DEF MembershipStep
    <3>2. memberships' # memberships
      BY <3>1
    <3> QED
      BY <3>1, <3>2, PermissionTypes
         DEF Membership, RemoveMember, CountAdmins, DeleteMember, AddMember, CreateMember,
             UpdateRole, WriteRole, CreateOrganization, SuperUserUpdatesOrganization,
             UpdateOrganization, WriteOrganization, CallFails, BeginAndReturn
  <2>2. CASE Listings(p)
    BY <2>2 DEF Listings, CreateListing, WriteNewListing, UpdateListing, WriteListing,
                DeleteListing, WriteDeletedListing, BeginOn, Begin, Permitted
  <2>3. CASE Documents(p)
    BY <2>3 DEF Documents, CreateDocument, CreateFile, WriteNewDocument, UpdateDocument,
                ReadCategories, WriteDocument, DeleteDocument, WriteDeletedDocument,
                DeleteCategory, WriteDeletedCategory, BeginOnArchive, Begin, Permitted
  <2> QED
    BY <1>1, <1>2, <2>1, <2>2, <2>3
<1>4. Asks(p, req[p]) /\ Backed(p, req[p], been[p])
  BY DEF EntitledInv, EntitledCall
<1>5. IsSuperUser(p) \/ \E rights \in been[p] : Enough(p, req[p], rights)
  BY <1>3, <1>4 DEF Backed
<1> QED
  BY <1>4, <1>5, EnoughSuffices

\* A call writes only what its user was entitled to at some moment of the
\* call: whatever others do to the memberships and to the rows meanwhile.
THEOREM OnlyTheEntitledWrite == Spec => WritesAreEntitled
<1>1. OrganizationsTypeInv /\ EntitledInv /\ [Next]_allVars =>
        [\A p \in Clients :
          /\ ~Resting(req[p]) /\ <<req[p], args[p]>>' # <<req[p], args[p]>>
          /\ <<memberships, content>>' # <<memberships, content>>
          => IsSuperUser(p) \/ \E rights \in been[p] : Sufficient(p, rights)]_allVars
  BY EntitledWrites
<1>2. Spec => []OrganizationsTypeInv
  BY InitTypes, TypeStep, PTL DEF Spec
<1>3. Spec => []EntitledInv
  BY <1>2, EntitledInit, EntitledStep, PTL DEF Spec
<1> QED
  BY <1>1, <1>2, <1>3, PTL DEF Spec, WritesAreEntitled

\* A denial is made by the last query of a permission.
LEMMA DeniedBy ==
    ASSUME OrganizationsTypeInv, Next, NEW p \in Clients,
           ~Resting(req[p]), req'[p].pc = "denied"
    PROVE  \/ /\ HasRequiredRole(p)
              /\ ~HasRow(UserOf[p], req[p].organization, req[p].required)
           \/ /\ ReadStudyProgram(p)
              /\ "ARCHIVE_WRITE_DOCUMENTS" \notin StudyPermissions[UserOf[p]]
<1> USE DEF OrganizationsTypeInv
<1>1. PICK q \in Clients : MembershipStep(q) \/ Listings(q) \/ Documents(q)
  BY DEF Next
<1>2. req[p].pc # "denied" /\ req \in [Clients -> Calls] /\ req[p] \in Calls
  BY DEF Resting, OrganizationsTypeOK
<1>3. q = p
  <2>1. Moves(q)
    BY <1>1, MembershipTypes, ListingTypes, BeginDocumentTypes, WriteDocumentTypes
       DEF MembershipStep, Typed, ArchiveTyped, Documents
  <2> QED
    BY <1>2, <2>1 DEF Moves
<1>4. ~Return(p) /\ ~UNCHANGED req
  BY <1>2 DEF Return, Idle
<1>5. ASSUME NEW pc, pc # "denied" PROVE ~Goto(p, pc)
  BY <1>2, <1>5 DEF Goto, Calls
<1>6. \A call, op : ~Begin(p, call) /\ ~BeginAndReturn(p, op)
  BY DEF Begin, BeginAndReturn
<1>7. ~Listings(p) /\ ~Documents(p)
  BY <1>4, <1>6
     DEF Listings, CreateListing, WriteNewListing, UpdateListing, WriteListing,
         DeleteListing, WriteDeletedListing, BeginOn,
         Documents, CreateDocument, CreateFile, WriteNewDocument, UpdateDocument,
         ReadCategories, WriteDocument, DeleteDocument, WriteDeletedDocument,
         DeleteCategory, WriteDeletedCategory, BeginOnArchive, Continue, End
<1>8. Permission(p)
  BY <1>1, <1>3, <1>4, <1>5, <1>6, <1>7
     DEF MembershipStep, Membership, RemoveMember, CountAdmins, DeleteMember, AddMember,
         CreateMember, UpdateRole, WriteRole, CreateOrganization,
         SuperUserUpdatesOrganization, UpdateOrganization, WriteOrganization, CallFails
<1> QED
  BY <1>5, <1>8 DEF Permission, IsAdmin, HasRequiredRole, FindOrganizations, ReadStudyProgram

\* A denied client lacked the right at a moment, or its rights changed.
LEMMA DenialReason ==
    ASSUME OrganizationsTypeInv, EntitledInv, Next, NEW p \in Clients,
           ~Resting(req[p]), req'[p].pc = "denied"
    PROVE  \/ \E rights \in been[p] : ~Sufficient(p, rights)
           \/ \E r, s \in been[p] : r.role # s.role
           \/ req[p].op = "removeMember" /\ member[req[p].member] = NoRow
<1> DEFINE now == Rights(UserOf[p])
           o == req[p].organization
<1>1. Asks(p, req[p]) /\ now \in been[p] /\ Backed(p, req[p], been[p])
  BY DEF EntitledInv, EntitledCall
<1>2. CASE /\ HasRequiredRole(p)
           /\ ~HasRow(UserOf[p], o, req[p].required)
  <2>1. o \in Organizations /\ ~OnArchive(req[p].op) /\ req[p].pc = "role"
    BY <1>1, <1>2 DEF Asks, HasRequiredRole
  <2>2. req[p].required \in Roles
    BY <1>1, <2>1 DEF Asks, Roles
  <2>3. PICK before \in been[p] : before.role[o] # "ADMIN"
    BY <1>1, <2>1 DEF Backed
  <2>4. CASE now.role[o] = "ADMIN"
    BY <1>1, <2>3, <2>4
  <2>5. CASE now.role[o] # "ADMIN"
    <3>1. now.role[o] # req[p].required
      BY <1>2, <2>1, <2>2, <2>5, RightsNow DEF Roles
    <3>2. \/ RoleFor(p) = req[p].required
          \/ req[p].op = "removeMember" /\ member[req[p].member] = NoRow
      BY <1>1, <2>1, <2>2 DEF Asks, RoleFor, Roles, Rows
    <3> QED
      BY <1>1, <2>1, <2>5, <3>1, <3>2 DEF Sufficient
  <2> QED
    BY <2>4, <2>5
<1>3. CASE /\ ReadStudyProgram(p)
           /\ "ARCHIVE_WRITE_DOCUMENTS" \notin StudyPermissions[UserOf[p]]
  BY <1>1, <1>3 DEF Asks, Backed, ReadStudyProgram, Sufficient
<1> QED
  BY <1>2, <1>3, DeniedBy

\* Nobody who has the right throughout the call, and whose roles do not change
\* meanwhile, is denied.
THEOREM OnlyForAReasonDenied == Spec => DenialsHaveAReason
<1>1. OrganizationsTypeInv /\ EntitledInv /\ [Next]_allVars =>
        [\A p \in Clients :
          ~Resting(req[p]) /\ req'[p].pc = "denied" =>
              \/ \E rights \in been[p] : ~Sufficient(p, rights)
              \/ \E r, s \in been[p] : r.role # s.role
              \/ req[p].op = "removeMember" /\ member[req[p].member] = NoRow]_allVars
  BY DenialReason
<1>2. Spec => []OrganizationsTypeInv
  BY InitTypes, TypeStep, PTL DEF Spec
<1>3. Spec => []EntitledInv
  BY <1>2, EntitledInit, EntitledStep, PTL DEF Spec
<1> QED
  BY <1>1, <1>2, <1>3, PTL DEF Spec, DenialsHaveAReason
=============================================================================
