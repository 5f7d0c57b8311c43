----------------------------- MODULE Memberships -----------------------------
(***************************************************************************)
(* Organizations, their members, and what the members may do:              *)
(* src/src/services/organizations and the repositories under it.           *)
(*                                                                         *)
(* One Prisma call is one atomic step.  A client is a session of a user    *)
(* and has one call under way; a user may have several clients.  Whether   *)
(* the user is a super user is read once, when the request comes in.       *)
(***************************************************************************)
EXTENDS Integers, Sequences, FiniteSets

CONSTANTS
    Users, Organizations,
    Names,              \* names of organizations, listings and categories
    Clients, UserOf,    \* the sessions, and whose they are
    SuperUsers,
    StudyPermissions,   \* the feature permissions of a user's study program
    InitialOrganizations, InitialMembers,
    MayCall,            \* the operations each client asks for
    MayGive,            \* the roles each client gives
    MayPermit,          \* the feature permissions super users give
    MaxCalls,           \* a bound of the model: the calls of each client
    MaxMembers,         \* a bound of the model: the rows of members
    Undefined,          \* an absent field
    NoRow               \* a row that does not exist

VARIABLES
    organization,   \* the rows of Organization
    member,         \* the rows of Member in the order of their creation
    req,            \* the call each client has under way
    calls,          \* how many calls each client has made
    been            \* history: the rights its user has had during a call

memberships == <<organization, member>>
vars == <<memberships, req, calls, been>>

-----------------------------------------------------------------------------
(* Rows *)

Roles == {"ADMIN", "MEMBER"}
FeaturePermissions == {"ARCHIVE_WRITE_DOCUMENTS", "CABIN_ADMIN"}

OrganizationRows == [name : Names, featurePermissions : SUBSET FeaturePermissions]
MemberRows == [user : Users, organization : Organizations, role : Roles]

Operations == {"removeMember", "addMember", "updateRole", "create", "update",
               "createListing", "updateListing", "deleteListing",
               "createDocument", "updateDocument", "deleteDocument",
               "deleteCategory"}

ASSUME MembershipsAssumption ==
    /\ UserOf \in [Clients -> Users]
    /\ SuperUsers \subseteq Users
    /\ StudyPermissions \in [Users -> SUBSET FeaturePermissions]
    /\ InitialOrganizations \in [Organizations -> OrganizationRows \cup {NoRow}]
    /\ InitialMembers \in Seq(MemberRows)
    /\ MayCall \in [Clients -> SUBSET Operations]
    /\ MayGive \in [Clients -> SUBSET Roles]
    /\ MayPermit \subseteq SUBSET FeaturePermissions
    /\ MaxCalls \in [Clients -> Nat]
    /\ MaxMembers \in Nat
    /\ NoRow \notin MemberRows /\ NoRow \notin OrganizationRows
    /\ Undefined \notin Names

Exists(o) == organization[o] # NoRow
Rows == {i \in DOMAIN member : member[i] # NoRow}

\* MemberRepository.hasRole: the user has exactly this role.
HasRow(user, o, role) ==
    \E i \in Rows : member[i] = [user |-> user, organization |-> o, role |-> role]
IsMember(user, o) == \E role \in Roles : HasRow(user, o, role)
Admins(o) == {i \in Rows : member[i].organization = o /\ member[i].role = "ADMIN"}

\* OrganizationRepository.findManyByUserId, and what they are permitted.
OrganizationsOf(user) == {o \in Organizations : IsMember(user, o)}
OrganizationsPermit(user, permission) ==
    \E o \in OrganizationsOf(user) :
        permission \in organization[o].featurePermissions

-----------------------------------------------------------------------------
(* Calls *)

\* "admin", "role": the two queries of hasOrganizationRole;
\* "organizations", "studyProgram": those of hasFeaturePermission;
\* "granted": permitted; "remove": more than one admin was counted.
PCs == {"idle", "denied", "admin", "role", "organizations", "studyProgram",
        "granted", "remove"}
Calls == [pc : PCs, op : Operations \cup {Undefined},
          organization : Organizations \cup {Undefined},
          required : Roles \cup {Undefined},     \* the role asked of hasRole
          member : Nat,                          \* the id of a member
          user : Users \cup {Undefined},         \* the user to be added
          role : Roles \cup {Undefined},         \* read, or to be written
          name : Names \cup {Undefined}]
Idle == [pc |-> "idle", op |-> Undefined, organization |-> Undefined,
         required |-> Undefined, member |-> 0, user |-> Undefined,
         role |-> Undefined, name |-> Undefined]

IsSuperUser(p) == UserOf[p] \in SuperUsers
Resting(call) == call.pc \in {"idle", "denied"}

\* Client p begins a call that is at `call' after its first await.
Begin(p, call) ==
    /\ Resting(req[p]) /\ calls[p] < MaxCalls[p] /\ call.op \in MayCall[p]
    /\ calls' = [calls EXCEPT ![p] = @ + 1]
    /\ req' = [req EXCEPT ![p] = call]
BeginAndReturn(p, op) ==
    /\ Resting(req[p]) /\ calls[p] < MaxCalls[p] /\ op \in MayCall[p]
    /\ calls' = [calls EXCEPT ![p] = @ + 1]
    /\ req' = [req EXCEPT ![p] = Idle]
Goto(p, pc) == req' = [req EXCEPT ![p].pc = pc] /\ UNCHANGED calls
Return(p) == req' = [req EXCEPT ![p] = Idle] /\ UNCHANGED calls
Deny(p) == req' = [req EXCEPT ![p] = [Idle EXCEPT !.pc = "denied"]] /\ UNCHANGED calls

\* Where a call goes that asks hasRole, and one that asks hasFeaturePermission.
AskRole(p) == IF IsSuperUser(p) THEN "granted" ELSE "admin"
AskFeature(p) == IF IsSuperUser(p) THEN "granted" ELSE "organizations"

\* What a user may do, for the history `been'.
Rights(user) ==
    [role |-> [o \in Organizations |->
                 IF HasRow(user, o, "ADMIN") THEN "ADMIN"
                 ELSE IF HasRow(user, o, "MEMBER") THEN "MEMBER" ELSE "NONE"],
     archive |-> OrganizationsPermit(user, "ARCHIVE_WRITE_DOCUMENTS")]
Remember ==
    been' = [p \in Clients |->
                IF Resting(req[p])' THEN {} ELSE been[p] \cup {Rights(UserOf[p])'}]

MembershipsInit ==
    /\ organization = InitialOrganizations
    /\ member = InitialMembers
    /\ req = [p \in Clients |-> Idle]
    /\ calls = [p \in Clients |-> 0]
    /\ been = [p \in Clients |-> {}]

-----------------------------------------------------------------------------
(* permissions.hasRole and permissions.hasFeaturePermission *)

\* Mutant of IsAdmin: only a user whose role is the required one passes.
IsAdminOnly(p) ==
    /\ req[p].pc = "admin"
    /\ Goto(p, IF /\ req[p].required = "ADMIN"
                  /\ HasRow(UserOf[p], req[p].organization, "ADMIN")
               THEN "granted" ELSE "role")
    /\ UNCHANGED memberships
\* The first query: admins may do everything.
IsAdmin(p) ==
    /\ req[p].pc = "admin"
    /\ Goto(p, IF HasRow(UserOf[p], req[p].organization, "ADMIN")
               THEN "granted" ELSE "role")
    /\ UNCHANGED memberships

\* The second query: whoever has the role that is required.
HasRequiredRole(p) ==
    /\ req[p].pc = "role"
    /\ IF HasRow(UserOf[p], req[p].organization, req[p].required)
       THEN Goto(p, "granted") ELSE Deny(p)
    /\ UNCHANGED memberships

FindOrganizations(p) ==
    /\ req[p].pc = "organizations"
    /\ Goto(p, IF OrganizationsPermit(UserOf[p], "ARCHIVE_WRITE_DOCUMENTS")
               THEN "granted" ELSE "studyProgram")
    /\ UNCHANGED memberships

\* The user and the study program are read; neither changes in this model.
ReadStudyProgram(p) ==
    /\ req[p].pc = "studyProgram"
    /\ IF "ARCHIVE_WRITE_DOCUMENTS" \in StudyPermissions[UserOf[p]]
       THEN Goto(p, "granted") ELSE Deny(p)
    /\ UNCHANGED memberships

-----------------------------------------------------------------------------
(* removeMember *)

\* Mutant of RemoveMember: to be a member is enough to remove anyone.
RemoveMemberAsMember(p) ==
    \E i \in Rows :
        /\ Begin(p, [Idle EXCEPT
              !.pc = AskRole(p), !.op = "removeMember", !.member = i,
              !.organization = member[i].organization,
              !.role = member[i].role, !.required = "MEMBER"])
        /\ UNCHANGED memberships
\* The membership is read.  To leave takes a member, to remove others an admin.
RemoveMember(p) ==
    \E i \in Rows :
        /\ Begin(p, [Idle EXCEPT
              !.pc = AskRole(p), !.op = "removeMember", !.member = i,
              !.organization = member[i].organization,
              !.role = member[i].role,
              !.required = IF member[i].user = UserOf[p]
                           THEN "MEMBER" ELSE "ADMIN"])
        /\ UNCHANGED memberships

\* Mutant of CountAdmins: the members are counted without the role.
CountMembers(p) ==
    /\ req[p].pc = "granted" /\ req[p].op = "removeMember"
    /\ req[p].role = "ADMIN"
    /\ IF Cardinality({i \in Rows :
             member[i].organization = req[p].organization}) = 1
       THEN Return(p) ELSE Goto(p, "remove")
    /\ UNCHANGED memberships
\* The admins of the organization are counted if an admin is to be removed.
CountAdmins(p) ==
    /\ req[p].pc = "granted" /\ req[p].op = "removeMember"
    /\ req[p].role = "ADMIN"
    /\ IF Cardinality(Admins(req[p].organization)) = 1
       THEN Return(p) ELSE Goto(p, "remove")
    /\ UNCHANGED memberships

\* The row is deleted by its id; if it is gone the call throws.
DeleteMember(p) ==
    /\ req[p].op = "removeMember"
    /\ \/ req[p].pc = "remove"
       \/ req[p].pc = "granted" /\ req[p].role = "MEMBER"
    /\ member' = [member EXCEPT ![req[p].member] = NoRow]
    /\ Return(p)
    /\ UNCHANGED organization

-----------------------------------------------------------------------------
(* addMember and updateRole *)

AddMember(p) ==
    \E user \in Users, o \in Organizations, role \in MayGive[p] \cup {Undefined} :
        /\ Exists(o)
        /\ Begin(p, [Idle EXCEPT
              !.pc = AskRole(p), !.op = "addMember", !.organization = o,
              !.required = "ADMIN", !.user = user, !.role = role])
        /\ UNCHANGED memberships

\* Mutant of CreateMember: an absent role has no default.
CreateMemberWithoutDefault(p) ==
    LET row == [user |-> req[p].user, organization |-> req[p].organization,
                role |-> req[p].role]
    IN  /\ req[p].pc = "granted" /\ req[p].op = "addMember"
        /\ Len(member) < MaxMembers
        /\ member' = IF IsMember(row.user, row.organization)
                     THEN member ELSE Append(member, row)
        /\ Return(p)
        /\ UNCHANGED organization
\* @@unique([userId, organizationId]) refuses a second membership.
CreateMember(p) ==
    LET row == [user |-> req[p].user, organization |-> req[p].organization,
                role |-> IF req[p].role = Undefined THEN "MEMBER"
                         ELSE req[p].role]
    IN  /\ req[p].pc = "granted" /\ req[p].op = "addMember"
        /\ Len(member) < MaxMembers
        /\ member' = IF IsMember(row.user, row.organization)
                     THEN member ELSE Append(member, row)
        /\ Return(p)
        /\ UNCHANGED organization

\* The membership is read; nobody changes their own role.
UpdateRole(p) ==
    \E i \in Rows, role \in MayGive[p] :
        /\ member[i].user # UserOf[p]
        /\ Begin(p, [Idle EXCEPT
              !.pc = AskRole(p), !.op = "updateRole", !.member = i,
              !.organization = member[i].organization,
              !.required = "ADMIN", !.role = role])
        /\ UNCHANGED memberships

WriteRole(p) ==
    /\ req[p].pc = "granted" /\ req[p].op = "updateRole"
    /\ member' = [i \in DOMAIN member |->
                    IF i = req[p].member /\ i \in Rows
                    THEN [member[i] EXCEPT !.role = req[p].role]
                    ELSE member[i]]
    /\ Return(p)
    /\ UNCHANGED organization

-----------------------------------------------------------------------------
(* organizations.create and organizations.update *)

NameIsFree(name, o) ==
    \A other \in Organizations \ {o} :
        Exists(other) => organization[other].name # name

\* Mutant of CreateOrganization: anybody's feature permissions are taken.
CreateOrganizationPermitted(p) ==
    \E o \in Organizations, name \in Names,
       permissions \in MayPermit :
        /\ ~Exists(o) /\ NameIsFree(name, o)
        /\ Len(member) < MaxMembers
        /\ BeginAndReturn(p, "create")
        /\ organization' = [organization EXCEPT ![o] =
              [name |-> name, featurePermissions |-> permissions]]
        /\ member' = Append(member, [user |-> UserOf[p], organization |-> o,
                                     role |-> "ADMIN"])
\* The organization and its first admin are one write.  Only a super user's
\* feature permissions are looked at.
CreateOrganization(p) ==
    \E o \in Organizations, name \in Names,
       permissions \in MayPermit :
        /\ ~Exists(o) /\ NameIsFree(name, o)
        /\ Len(member) < MaxMembers
        /\ BeginAndReturn(p, "create")
        /\ organization' = [organization EXCEPT ![o] =
              [name |-> name, featurePermissions |->
                  IF IsSuperUser(p) THEN permissions ELSE {}]]
        /\ member' = Append(member, [user |-> UserOf[p], organization |-> o,
                                     role |-> "ADMIN"])

\* A super user writes at once, the feature permissions included.
SuperUserUpdatesOrganization(p) ==
    \E o \in Organizations, name \in Names,
       permissions \in MayPermit :
        /\ IsSuperUser(p) /\ Exists(o) /\ NameIsFree(name, o)
        /\ BeginAndReturn(p, "update")
        /\ organization' = [organization EXCEPT
              ![o] = [name |-> name, featurePermissions |-> permissions]]
        /\ UNCHANGED member

UpdateOrganization(p) ==
    \E o \in Organizations, name \in Names :
        /\ ~IsSuperUser(p) /\ Exists(o)
        /\ Begin(p, [Idle EXCEPT
              !.pc = "admin", !.op = "update", !.organization = o,
              !.required = "MEMBER", !.name = name])
        /\ UNCHANGED memberships

\* A member writes what is not a feature permission; the name is unique.
WriteOrganization(p) ==
    /\ req[p].pc = "granted" /\ req[p].op = "update"
    /\ organization' =
          IF NameIsFree(req[p].name, req[p].organization)
          THEN [organization EXCEPT ![req[p].organization].name = req[p].name]
          ELSE organization
    /\ Return(p)
    /\ UNCHANGED member

-----------------------------------------------------------------------------

\* A query fails, or the process dies: nothing more of the call happens.
CallFails(p) ==
    /\ ~Resting(req[p])
    /\ Return(p)
    /\ UNCHANGED memberships

Permission(p) ==
    \/ IsAdmin(p)
    \/ HasRequiredRole(p)
    \/ FindOrganizations(p)
    \/ ReadStudyProgram(p)

Membership(p) ==
    \/ RemoveMember(p)
    \/ CountAdmins(p)
    \/ DeleteMember(p)
    \/ AddMember(p)
    \/ CreateMember(p)
    \/ UpdateRole(p)
    \/ WriteRole(p)
    \/ CreateOrganization(p)
    \/ SuperUserUpdatesOrganization(p)
    \/ UpdateOrganization(p)
    \/ WriteOrganization(p)
    \/ CallFails(p)
    \/ Permission(p)

MembershipsNext == \E p \in Clients : Membership(p) /\ Remember

MembershipsSpec == MembershipsInit /\ [][MembershipsNext]_vars

=============================================================================
