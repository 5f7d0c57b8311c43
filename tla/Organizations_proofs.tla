------------------------ MODULE Organizations_proofs ------------------------
(***************************************************************************)
(* Proofs about Memberships and Archive, for any number of users,          *)
(* organizations, clients and rows: the types; that organizations keep an  *)
(* admin as long as one client alone removes and demotes; and that an      *)
(* update gives a document its categories as long as one client updates.   *)
(***************************************************************************)
EXTENDS OrganizationsProperties, FiniteSetTheorems, SequenceTheorems, TLAPS

-----------------------------------------------------------------------------
(* Sequences *)

\* An update of a sequence, in its domain or not, stays a sequence.
LEMMA ExceptIsSeq ==
    ASSUME NEW S, NEW s \in Seq(S), NEW i, NEW x \in S
    PROVE  [s EXCEPT ![i] = x] \in Seq(S)
<1>1. s \in [1 .. Len(s) -> S] /\ Len(s) \in Nat
  BY LenProperties
<1>2. [s EXCEPT ![i] = x] \in [1 .. Len(s) -> S]
  BY <1>1
<1> QED
  BY <1>1, <1>2, SeqDef

\* So does a sequence that is mapped element by element.
LEMMA MapIsSeq ==
    ASSUME NEW S, NEW s \in Seq(S), NEW f \in [DOMAIN s -> S]
    PROVE  f \in Seq(S)
  BY LenProperties, SeqDef

\* Append keeps what is there and adds one element.
LEMMA AppendIsSeq ==
    ASSUME NEW S, NEW s \in Seq(S), NEW x \in S
    PROVE  /\ Append(s, x) \in Seq(S)
           /\ DOMAIN s \subseteq DOMAIN Append(s, x)
           /\ \A i \in DOMAIN s : Append(s, x)[i] = s[i]
           /\ \A i \in DOMAIN Append(s, x) \ DOMAIN s : Append(s, x)[i] = x
           /\ \E i \in DOMAIN Append(s, x) : Append(s, x)[i] = x
<1>1. DOMAIN s = 1 .. Len(s) /\ Len(s) \in Nat
  BY LenProperties
<1>2. /\ Append(s, x) \in Seq(S) /\ Len(Append(s, x)) = Len(s) + 1
      /\ Append(s, x)[Len(s) + 1] = x
      /\ \A i \in 1 .. Len(s) : Append(s, x)[i] = s[i]
  OBVIOUS
<1>3. DOMAIN Append(s, x) = 1 .. Len(s) + 1
  BY <1>2, LenProperties
<1> QED
  BY <1>1, <1>2, <1>3

\* SetToSeq makes a sequence of a finite set.
LEMMA SetToSeqIsSeq ==
    ASSUME NEW S, IsFiniteSet(S)
    PROVE  SetToSeq(S) \in Seq(S)
<1>1. Cardinality(S) \in Nat /\ ExistsBijection(1 .. Cardinality(S), S)
  BY FS_CardinalityType
<1>2. \E f \in [1 .. Cardinality(S) -> S] : IsInjective(f)
  BY <1>1 DEF ExistsBijection, Bijection, Injection
<1>3. SetToSeq(S) \in [1 .. Cardinality(S) -> S]
  BY <1>2 DEF SetToSeq
<1> QED
  BY <1>1, <1>3, SeqDef

-----------------------------------------------------------------------------
(* Types.  A call that is under way carries the fields its operation reads. *)

Fits(call, a) ==
    \/ Resting(call)
    \/ /\ call.op = "addMember" => call.user \in Users
       /\ call.op \in {"addMember", "removeMember", "updateRole", "update",
                       "createListing"} => call.organization \in Organizations
       /\ call.op \in {"removeMember", "updateRole"} => call.role \in Roles
       /\ call.op = "update" => call.name \in Names
       /\ call.op \in {"addMember", "update"} => Exists(call.organization)
       /\ call.op \in {"createListing", "updateListing"} => a.name \in Names

OrganizationsTypeInv ==
    /\ OrganizationsTypeOK
    /\ \A p \in Clients : Fits(req[p], args[p])

\* Client p moves: its call stays typed, and the other calls are as before.
Moves(p) ==
    /\ req' \in [Clients -> Calls] /\ calls' \in [Clients -> Nat]
    /\ \A q \in Clients \ {p} : req'[q] = req[q]

\* The records that calls start from are typed.
LEMMA IdleType == Idle \in Calls /\ NoArgs \in Args
  BY FS_EmptySet DEF Idle, Calls, PCs, NoArgs, Args, LabelSets

\* Beginning a call.
LEMMA BeginMoves ==
    ASSUME OrganizationsTypeOK, NEW p \in Clients, NEW call \in Calls,
           Begin(p, call)
    PROVE  Moves(p) /\ req'[p] = call
  BY DEF Begin, Moves, OrganizationsTypeOK

\* Continuing it elsewhere.
LEMMA GotoMoves ==
    ASSUME OrganizationsTypeInv, NEW p \in Clients, NEW pc \in PCs,
           ~Resting(req[p]), Goto(p, pc)
    PROVE  /\ Moves(p) /\ req'[p] = [req[p] EXCEPT !.pc = pc]
           /\ Fits(req'[p], args[p])
<1>1. req[p] \in Calls /\ req \in [Clients -> Calls] /\ calls \in [Clients -> Nat]
  BY DEF OrganizationsTypeInv, OrganizationsTypeOK
<1>2. [req[p] EXCEPT !.pc = pc] \in Calls
  BY <1>1 DEF Calls
<1>3. Moves(p) /\ req'[p] = [req[p] EXCEPT !.pc = pc]
  BY <1>1, <1>2 DEF Goto, Moves
<1>4. Fits(req[p], args[p])
  BY DEF OrganizationsTypeInv
<1>5. Fits([req[p] EXCEPT !.pc = pc], args[p])
  BY <1>1, <1>4 DEF Fits, Resting, Calls
<1> QED
  BY <1>3, <1>5

\* Ending it.
LEMMA EndMoves ==
    ASSUME OrganizationsTypeOK, NEW p \in Clients,
           Return(p) \/ Deny(p) \/ \E op \in Operations : BeginAndReturn(p, op)
    PROVE  Moves(p) /\ Resting(req'[p]) /\ \A a : Fits(req'[p], a)
<1>1. [Idle EXCEPT !.pc = "denied"] \in Calls
  BY DEF Calls, PCs, Idle
<1>2. Resting(Idle) /\ Resting([Idle EXCEPT !.pc = "denied"])
  BY DEF Resting, Idle
<1>3. CASE Return(p)
  BY <1>2, <1>3, IdleType DEF Return, Moves, OrganizationsTypeOK, Fits
<1>4. CASE Deny(p)
  BY <1>1, <1>2, <1>4 DEF Deny, Moves, OrganizationsTypeOK, Fits
<1>5. CASE \E op \in Operations : BeginAndReturn(p, op)
  BY <1>2, <1>5, IdleType DEF BeginAndReturn, Moves, OrganizationsTypeOK, Fits
<1> QED
  BY <1>3, <1>4, <1>5

\* A row that exists is one of members.
LEMMA RowTypes ==
    ASSUME OrganizationsTypeOK, NEW i \in Rows
    PROVE  /\ i \in Nat /\ i \in DOMAIN member
           /\ member[i] \in MemberRows
           /\ member[i].user \in Users /\ member[i].organization \in Organizations
           /\ member[i].role \in Roles
<1>1. DOMAIN member = 1 .. Len(member) /\ Len(member) \in Nat
  BY LenProperties DEF OrganizationsTypeOK
<1>2. i \in DOMAIN member /\ member[i] # NoRow
  BY DEF Rows
<1>3. member[i] \in MemberRows
  BY <1>1, <1>2, ElementOfSeq DEF OrganizationsTypeOK, Rows_of
<1> QED
  BY <1>1, <1>2, <1>3 DEF MemberRows

\* What a step of client p on the memberships leaves: the types, and a call
\* that fits its operation whatever its arguments on the archive are.
Typed(p) ==
    /\ Moves(p) /\ (Fits(req'[p], args[p]) \/ Resting(req'[p]))
    /\ member' \in Seq(Rows_of(MemberRows))
    /\ organization' \in [Organizations -> Rows_of(OrganizationRows)]
    /\ \A o \in Organizations : Exists(o) => Exists(o)'

\* The queries of a permission keep the types.
LEMMA PermissionTypes ==
    ASSUME OrganizationsTypeInv, NEW p \in Clients, Permission(p)
    PROVE  Typed(p) /\ UNCHANGED memberships
<1> USE DEF OrganizationsTypeInv
<1>1. "granted" \in PCs /\ "role" \in PCs /\ "studyProgram" \in PCs
  BY DEF PCs
<1>2. Moves(p) /\ (Fits(req'[p], args[p]) \/ Resting(req'[p])) /\ UNCHANGED memberships
  <2>1. CASE IsAdmin(p)
    BY <1>1, <2>1, GotoMoves DEF IsAdmin, Resting
  <2>2. CASE HasRequiredRole(p)
    BY <1>1, <2>2, GotoMoves, EndMoves DEF HasRequiredRole, Resting
  <2>3. CASE FindOrganizations(p)
    BY <1>1, <2>3, GotoMoves DEF FindOrganizations, Resting
  <2>4. CASE ReadStudyProgram(p)
    BY <1>1, <2>4, GotoMoves, EndMoves DEF ReadStudyProgram, Resting
  <2> QED
    BY <2>1, <2>2, <2>3, <2>4 DEF Permission
<1> QED
  BY <1>2 DEF Typed, memberships, OrganizationsTypeOK, Exists

\* The steps of removeMember do.
LEMMA RemoveTypes ==
    ASSUME OrganizationsTypeInv, NEW p \in Clients,
           RemoveMember(p) \/ CountAdmins(p) \/ DeleteMember(p)
    PROVE  Typed(p)
<1> USE DEF OrganizationsTypeInv
<1>1. CASE RemoveMember(p)
  <2>1. PICK i \in Rows :
          /\ Begin(p, [Idle EXCEPT
              !.pc = AskRole(p), !.op = "removeMember", !.member = i,
              !.organization = member[i].organization,
              !.role = member[i].role,
              !.required = IF member[i].user = UserOf[p]
                           THEN "MEMBER" ELSE "ADMIN"])
          /\ UNCHANGED memberships
    BY <1>1 DEF RemoveMember
  <2> DEFINE call == [Idle EXCEPT
              !.pc = AskRole(p), !.op = "removeMember", !.member = i,
              !.organization = member[i].organization,
              !.role = member[i].role,
              !.required = IF member[i].user = UserOf[p]
                           THEN "MEMBER" ELSE "ADMIN"]
  <2>2. call \in Calls
    BY RowTypes DEF Idle, Calls, PCs, AskRole, Operations, Roles
  <2>3. Fits(call, args[p])
    BY RowTypes DEF Idle, Fits
  <2> QED
    BY <2>1, <2>2, <2>3, BeginMoves DEF memberships, OrganizationsTypeOK, Typed, Exists
<1>2. CASE CountAdmins(p)
  BY <1>2, GotoMoves, EndMoves
     DEF CountAdmins, memberships, OrganizationsTypeOK, PCs, Resting, Typed, Exists
<1>3. CASE DeleteMember(p)
  BY <1>3, EndMoves, ExceptIsSeq DEF DeleteMember, OrganizationsTypeOK, Rows_of, Typed, Exists
<1> QED
  BY <1>1, <1>2, <1>3

\* Those of addMember and updateRole do.
LEMMA AddTypes ==
    ASSUME OrganizationsTypeInv, NEW p \in Clients,
           AddMember(p) \/ CreateMember(p) \/ UpdateRole(p) \/ WriteRole(p)
    PROVE  Typed(p)
<1> USE DEF OrganizationsTypeInv
<1>0. MayGive[p] \subseteq Roles
  BY MembershipsAssumption
<1>1. CASE AddMember(p)
  <2>1. PICK user \in Users, o \in Organizations,
             role \in MayGive[p] \cup {Undefined} :
          /\ Exists(o)
          /\ Begin(p, [Idle EXCEPT
              !.pc = AskRole(p), !.op = "addMember", !.organization = o,
              !.required = "ADMIN", !.user = user, !.role = role])
          /\ UNCHANGED memberships
    BY <1>1 DEF AddMember
  <2> DEFINE call == [Idle EXCEPT
              !.pc = AskRole(p), !.op = "addMember", !.organization = o,
              !.required = "ADMIN", !.user = user, !.role = role]
  <2>2. call \in Calls
    BY <1>0 DEF Idle, Calls, PCs, AskRole, Operations, Roles
  <2>3. Fits(call, args[p])
    BY <2>1 DEF Idle, Fits
  <2> QED
    BY <2>1, <2>2, <2>3, BeginMoves DEF memberships, OrganizationsTypeOK, Typed, Exists
<1>2. CASE CreateMember(p)
  <2> DEFINE row == [user |-> req[p].user, organization |-> req[p].organization,
                role |-> IF req[p].role = Undefined THEN "MEMBER"
                         ELSE req[p].role]
  <2>1. /\ req[p].pc = "granted" /\ req[p].op = "addMember"
        /\ member' = IF IsMember(row.user, row.organization)
                     THEN member ELSE Append(member, row)
        /\ Return(p)
        /\ UNCHANGED organization
    BY <1>2 DEF CreateMember
  <2>2. req[p] \in Calls /\ Fits(req[p], args[p]) /\ ~Resting(req[p])
    BY <2>1 DEF OrganizationsTypeOK, Resting
  <2>3. req[p].user \in Users /\ req[p].organization \in Organizations
    BY <2>1, <2>2 DEF Fits
  <2>4. row.role \in Roles
    BY <2>2 DEF Calls, Roles
  <2>5. row \in Rows_of(MemberRows)
    BY <2>3, <2>4 DEF MemberRows, Rows_of
  <2>6. member' \in Seq(Rows_of(MemberRows))
    BY <2>1, <2>5, AppendIsSeq DEF OrganizationsTypeOK
  <2> QED
    BY <2>1, <2>6, EndMoves DEF Typed, OrganizationsTypeOK, Exists
<1>3. CASE UpdateRole(p)
  <2>1. PICK i \in Rows, role \in MayGive[p] :
          /\ Begin(p, [Idle EXCEPT
              !.pc = AskRole(p), !.op = "updateRole", !.member = i,
              !.organization = member[i].organization,
              !.required = "ADMIN", !.role = role])
          /\ UNCHANGED memberships
    BY <1>3 DEF UpdateRole
  <2> DEFINE call == [Idle EXCEPT
              !.pc = AskRole(p), !.op = "updateRole", !.member = i,
              !.organization = member[i].organization,
              !.required = "ADMIN", !.role = role]
  <2>2. call \in Calls
    BY <1>0, RowTypes DEF Idle, Calls, PCs, AskRole, Operations, Roles
  <2>3. Fits(call, args[p])
    BY <1>0, RowTypes DEF Idle, Fits
  <2> QED
    BY <2>1, <2>2, <2>3, BeginMoves DEF memberships, OrganizationsTypeOK, Typed, Exists
<1>4. CASE WriteRole(p)
  <2>1. req[p] \in Calls /\ Fits(req[p], args[p]) /\ ~Resting(req[p])
    BY <1>4 DEF OrganizationsTypeOK, Resting, WriteRole
  <2>2. req[p].role \in Roles
    BY <1>4, <2>1 DEF Fits, WriteRole
  <2>3. \A i \in Rows : [member[i] EXCEPT !.role = req[p].role] \in MemberRows
    BY <2>2, RowTypes DEF MemberRows
  <2>4. \A i \in DOMAIN member : member[i] \in Rows_of(MemberRows)
    BY LenProperties, ElementOfSeq DEF OrganizationsTypeOK
  <2>5. member' \in [DOMAIN member -> Rows_of(MemberRows)]
    BY <1>4, <2>3, <2>4 DEF WriteRole, Rows_of
  <2>6. member' \in Seq(Rows_of(MemberRows))
    BY <2>5, MapIsSeq DEF OrganizationsTypeOK
  <2> QED
    BY <1>4, <2>6, EndMoves DEF Typed, OrganizationsTypeOK, Exists, WriteRole
<1> QED
  BY <1>1, <1>2, <1>3, <1>4

\* Those of the calls on organizations do, and so does a failure.
LEMMA OrganizationTypes ==
    ASSUME OrganizationsTypeInv, NEW p \in Clients,
           \/ CreateOrganization(p) \/ SuperUserUpdatesOrganization(p)
           \/ UpdateOrganization(p) \/ WriteOrganization(p) \/ CallFails(p)
    PROVE  Typed(p)
<1> USE DEF OrganizationsTypeInv
<1>0. "create" \in Operations /\ "update" \in Operations
  BY DEF Operations
<1>1. CASE CreateOrganization(p)
  <2>1. PICK o \in Organizations, name \in Names, permissions \in MayPermit :
        /\ BeginAndReturn(p, "create")
        /\ organization' = [organization EXCEPT ![o] =
              [name |-> name, featurePermissions |->
                  IF IsSuperUser(p) THEN permissions ELSE {}]]
        /\ member' = Append(member, [user |-> UserOf[p], organization |-> o,
                                     role |-> "ADMIN"])
    BY <1>1 DEF CreateOrganization
  <2>2. [user |-> UserOf[p], organization |-> o, role |-> "ADMIN"] \in Rows_of(MemberRows)
    BY MembershipsAssumption DEF MemberRows, Rows_of, Roles
  <2>3. permissions \subseteq FeaturePermissions
    BY MembershipsAssumption
  <2>4. /\ organization' \in [Organizations -> Rows_of(OrganizationRows)]
        /\ \A o1 \in Organizations : Exists(o1) => Exists(o1)'
    BY <2>1, <2>3, MembershipsAssumption
       DEF OrganizationRows, Rows_of, OrganizationsTypeOK, Exists
  <2> QED
    BY <1>0, <2>1, <2>2, <2>4, EndMoves, AppendIsSeq DEF Typed, OrganizationsTypeOK, Exists
<1>2. CASE SuperUserUpdatesOrganization(p)
  <2>1. PICK o \in Organizations, name \in Names, permissions \in MayPermit :
        /\ BeginAndReturn(p, "update")
        /\ organization' = [organization EXCEPT
              ![o] = [name |-> name, featurePermissions |-> permissions]]
        /\ UNCHANGED member
    BY <1>2 DEF SuperUserUpdatesOrganization
  <2>2. permissions \subseteq FeaturePermissions
    BY MembershipsAssumption
  <2>3. /\ organization' \in [Organizations -> Rows_of(OrganizationRows)]
        /\ \A o1 \in Organizations : Exists(o1) => Exists(o1)'
    BY <2>1, <2>2, MembershipsAssumption
       DEF OrganizationRows, Rows_of, OrganizationsTypeOK, Exists
  <2> QED
    BY <1>0, <2>1, <2>3, EndMoves DEF Typed, OrganizationsTypeOK, Exists
<1>3. CASE UpdateOrganization(p)
  <2>1. PICK o \in Organizations, name \in Names :
        /\ Exists(o)
        /\ Begin(p, [Idle EXCEPT
              !.pc = "admin", !.op = "update", !.organization = o,
              !.required = "MEMBER", !.name = name])
        /\ UNCHANGED memberships
    BY <1>3 DEF UpdateOrganization
  <2> DEFINE call == [Idle EXCEPT
              !.pc = "admin", !.op = "update", !.organization = o,
              !.required = "MEMBER", !.name = name]
  <2>2. call \in Calls
    BY DEF Idle, Calls, PCs, Operations, Roles
  <2>3. Fits(call, args[p])
    BY <2>1 DEF Idle, Fits
  <2> QED
    BY <2>1, <2>2, <2>3, BeginMoves DEF memberships, OrganizationsTypeOK, Typed, Exists
<1>4. CASE WriteOrganization(p)
  <2>1. Fits(req[p], args[p]) /\ ~Resting(req[p])
    BY <1>4 DEF Resting, WriteOrganization
  <2>2. req[p].organization \in Organizations /\ req[p].name \in Names
    BY <1>4, <2>1 DEF Fits, WriteOrganization
  <2> DEFINE o == req[p].organization
  <2>3. organization[o] \in OrganizationRows
    BY <1>4, <2>1, <2>2 DEF Fits, WriteOrganization, Exists, OrganizationsTypeOK, Rows_of
  <2>4. [organization[o] EXCEPT !.name = req[p].name] \in OrganizationRows
    BY <2>2, <2>3 DEF OrganizationRows
  <2>5. \/ organization' = organization
        \/ organization' = [organization EXCEPT
               ![o] = [organization[o] EXCEPT !.name = req[p].name]]
    BY <1>4 DEF WriteOrganization
  <2>6. /\ organization' \in [Organizations -> Rows_of(OrganizationRows)]
        /\ \A o1 \in Organizations : Exists(o1) => Exists(o1)'
    BY <2>2, <2>4, <2>5, MembershipsAssumption
       DEF Rows_of, OrganizationsTypeOK, Exists
  <2> QED
    BY <1>4, <2>6, EndMoves DEF Typed, OrganizationsTypeOK, Exists, WriteOrganization
<1>5. CASE CallFails(p)
  BY <1>5, EndMoves DEF CallFails, Exists, Typed, OrganizationsTypeOK, memberships
<1> QED
  BY <1>1, <1>2, <1>3, <1>4, <1>5

\* A step on the memberships keeps the types.
LEMMA MembershipTypes ==
    ASSUME OrganizationsTypeInv, NEW p \in Clients, Membership(p)
    PROVE  Typed(p)
  BY PermissionTypes, RemoveTypes, AddTypes, OrganizationTypes DEF Membership

-----------------------------------------------------------------------------
(* The archive *)

\* What a step of client p on the archive leaves.
ArchiveTyped(p) ==
    /\ Moves(p) /\ UNCHANGED memberships
    /\ \E a \in Args : args' = [args EXCEPT ![p] = a] /\ Fits(req'[p], a)
    /\ listing' \in Seq(Rows_of(ListingRows))
    /\ document' \in Seq(Rows_of(DocumentRows))
    /\ category' \in Seq(Rows_of(Names)) /\ files' \in Nat

ContentTyped ==
    /\ listing' \in Seq(Rows_of(ListingRows))
    /\ document' \in Seq(Rows_of(DocumentRows))
    /\ category' \in Seq(Rows_of(Names)) /\ files' \in Nat

\* Where the archive's calls begin, go on and end.
LEMMA BeginOnTyped ==
    ASSUME OrganizationsTypeInv, NEW p \in Clients,
           NEW op \in Operations \ {"addMember", "removeMember", "updateRole", "update"},
           NEW o \in Organizations, NEW a \in Args,
           BeginOn(p, op, o, a),
           op \in {"createListing", "updateListing"} => a.name \in Names
    PROVE  ArchiveTyped(p)
<1> DEFINE call == [Idle EXCEPT !.pc = AskRole(p), !.op = op,
                                !.organization = o, !.required = "MEMBER"]
<1>1. call \in Calls
  BY DEF Idle, Calls, PCs, AskRole, Roles
<1>2. Fits(call, a)
  BY DEF Idle, Fits
<1> QED
  BY <1>1, <1>2, BeginMoves
     DEF BeginOn, ArchiveTyped, OrganizationsTypeInv, OrganizationsTypeOK, content

\* A call on documents or categories begins.
LEMMA BeginOnArchiveTyped ==
    ASSUME OrganizationsTypeInv, NEW p \in Clients,
           NEW op \in {"createDocument", "updateDocument", "deleteDocument",
                       "deleteCategory"},
           NEW a \in Args,
           BeginOnArchive(p, op, a)
    PROVE  ArchiveTyped(p)
<1> DEFINE call == [Idle EXCEPT !.pc = AskFeature(p), !.op = op]
<1>1. call \in Calls
  BY DEF Idle, Calls, PCs, AskFeature, Operations
<1>2. Fits(call, a)
  BY DEF Idle, Fits
<1> QED
  BY <1>1, <1>2, BeginMoves
     DEF BeginOnArchive, ArchiveTyped, OrganizationsTypeInv, OrganizationsTypeOK, content

\* A call goes on, with what it has read.
LEMMA ContinueTyped ==
    ASSUME OrganizationsTypeInv, NEW p \in Clients, NEW a \in Args,
           Continue(p, a), a.name = args[p].name, ContentTyped
    PROVE  ArchiveTyped(p)
<1>1. Fits(req[p], args[p])
  BY DEF OrganizationsTypeInv
<1>2. Fits(req[p], a)
  BY <1>1 DEF Fits
<1> QED
  BY <1>2 DEF Continue, ArchiveTyped, ContentTyped, Moves, OrganizationsTypeInv,
              OrganizationsTypeOK

\* A call ends and forgets its arguments.
LEMMA EndTyped ==
    ASSUME OrganizationsTypeInv, NEW p \in Clients, End(p), ContentTyped
    PROVE  ArchiveTyped(p)
  BY EndMoves, IdleType DEF End, ArchiveTyped, ContentTyped, OrganizationsTypeInv

\* Rows of the tables.
LEMMA ItemTypes ==
    ASSUME OrganizationsTypeInv
    PROVE  /\ \A l \in Existing(listing) : l \in Nat /\ listing[l] \in ListingRows
           /\ \A d \in Existing(document) : d \in Nat /\ document[d] \in DocumentRows
           /\ \A c \in Existing(category) : c \in Nat /\ category[c] \in Names
           /\ DOMAIN category \subseteq Nat
<1> USE LenProperties, ElementOfSeq
    DEF OrganizationsTypeInv, OrganizationsTypeOK, Existing, Rows_of
<1>1. ASSUME NEW l \in Existing(listing)
      PROVE  l \in Nat /\ listing[l] \in ListingRows
  BY <1>1
<1>2. ASSUME NEW d \in Existing(document)
      PROVE  d \in Nat /\ document[d] \in DocumentRows
  BY <1>2
<1>3. ASSUME NEW c \in Existing(category)
      PROVE  c \in Nat /\ category[c] \in Names
  BY <1>3
<1>4. DOMAIN category \subseteq Nat
  OBVIOUS
<1> QED
  BY <1>1, <1>2, <1>3, <1>4

\* The steps of ListingService keep the types.
LEMMA ListingTypes ==
    ASSUME OrganizationsTypeInv, NEW p \in Clients, Listings(p)
    PROVE  ArchiveTyped(p)
<1>0. /\ listing \in Seq(Rows_of(ListingRows))
      /\ document \in Seq(Rows_of(DocumentRows))
      /\ category \in Seq(Rows_of(Names)) /\ files \in Nat
      /\ Fits(req[p], args[p]) /\ NoArgs \in Args
      /\ NoArgs = [item |-> 0, name |-> Undefined, labels |-> Undefined,
                   disconnect |-> {}, at |-> "begin"]
  BY IdleType DEF OrganizationsTypeInv, OrganizationsTypeOK, NoArgs
<1>1. CASE CreateListing(p)
  <2>1. PICK o \in Organizations, name \in Names :
           BeginOn(p, "createListing", o, [NoArgs EXCEPT !.name = name])
    BY <1>1 DEF CreateListing
  <2>2. [NoArgs EXCEPT !.name = name] \in Args /\ [NoArgs EXCEPT !.name = name].name = name
    BY <1>0 DEF Args
  <2> QED
    BY <2>1, <2>2, BeginOnTyped DEF Operations
<1>2. CASE WriteNewListing(p)
  <2>1. req[p].organization \in Organizations /\ args[p].name \in Names
    BY <1>0, <1>2 DEF WriteNewListing, Permitted, Fits, Resting
  <2>2. [organization |-> req[p].organization, name |-> args[p].name]
            \in Rows_of(ListingRows)
    BY <2>1 DEF ListingRows, Rows_of
  <2>3. listing' \in Seq(Rows_of(ListingRows))
    BY <1>0, <1>2, <2>2, AppendIsSeq DEF WriteNewListing
  <2> QED
    BY <1>0, <1>2, <2>3, EndTyped DEF WriteNewListing, ContentTyped
<1>3. CASE UpdateListing(p)
  <2>1. PICK l \in Existing(listing), name \in Names :
           BeginOn(p, "updateListing", listing[l].organization,
                   [NoArgs EXCEPT !.item = l, !.name = name])
    BY <1>3 DEF UpdateListing
  <2> DEFINE a == [NoArgs EXCEPT !.item = l, !.name = name]
  <2>2. a \in Args /\ a.name = name
    BY <1>0, ItemTypes DEF Args
  <2>3. listing[l].organization \in Organizations
    BY ItemTypes DEF ListingRows
  <2> QED
    BY <2>1, <2>2, <2>3, BeginOnTyped DEF Operations
<1>4. CASE WriteListing(p)
  <2>1. args[p].name \in Names
    BY <1>0, <1>4 DEF WriteListing, Permitted, Fits, Resting
  <2>2. \A l \in DOMAIN listing : listing[l] \in Rows_of(ListingRows)
    BY <1>0, LenProperties, ElementOfSeq
  <2>3. \A l \in DOMAIN listing : listing[l] # NoRow =>
            [listing[l] EXCEPT !.name = args[p].name] \in ListingRows
    BY <2>1, <2>2 DEF ListingRows, Rows_of
  <2>4. listing' \in [DOMAIN listing -> Rows_of(ListingRows)]
    BY <1>4, <2>2, <2>3 DEF WriteListing, Rows_of
  <2>5. listing' \in Seq(Rows_of(ListingRows))
    BY <1>0, <2>4, MapIsSeq
  <2> QED
    BY <1>0, <1>4, <2>5, EndTyped DEF WriteListing, ContentTyped
<1>5. CASE DeleteListing(p)
  <2>1. PICK l \in Existing(listing) :
           BeginOn(p, "deleteListing", listing[l].organization,
                   [NoArgs EXCEPT !.item = l])
    BY <1>5 DEF DeleteListing
  <2>2. [NoArgs EXCEPT !.item = l] \in Args
    BY <1>0, ItemTypes DEF Args
  <2>3. listing[l].organization \in Organizations
    BY ItemTypes DEF ListingRows
  <2> QED
    BY <2>1, <2>2, <2>3, BeginOnTyped DEF Operations
<1>6. CASE WriteDeletedListing(p)
  BY <1>0, <1>6, EndTyped, ExceptIsSeq DEF WriteDeletedListing, ContentTyped, Rows_of
<1> QED
  BY <1>1, <1>2, <1>3, <1>4, <1>5, <1>6 DEF Listings

\* connectOrCreate leaves a table of names.
LEMMA WithCategoriesType ==
    ASSUME OrganizationsTypeInv, NEW names \in LabelSets
    PROVE  WithCategories(names) \in Seq(Rows_of(Names))
<1> DEFINE new == names \ NamesOf(DOMAIN category)
<1>1. IsFiniteSet(new) /\ new \subseteq Rows_of(Names)
  BY FS_Subset DEF LabelSets, Rows_of
<1>2. SetToSeq(new) \in Seq(new)
  BY <1>1, SetToSeqIsSeq
<1>3. SetToSeq(new) \in Seq(Rows_of(Names))
  BY <1>1, <1>2, SeqMonotonic
<1> QED
  BY <1>3, ConcatProperties DEF WithCategories, OrganizationsTypeInv, OrganizationsTypeOK

\* Ids in a table of names are numbers.
LEMMA IdsType ==
    ASSUME NEW table \in Seq(Rows_of(Names)), NEW names
    PROVE  IdsIn(table, names) \subseteq Nat
  BY LenProperties DEF IdsIn, Existing

\* The beginnings of the calls of DocumentService do.
LEMMA BeginDocumentTypes ==
    ASSUME OrganizationsTypeInv, NEW p \in Clients,
           CreateDocument(p) \/ UpdateDocument(p) \/ DeleteDocument(p) \/ DeleteCategory(p)
    PROVE  ArchiveTyped(p)
<1>0. /\ NoArgs \in Args
      /\ NoArgs = [item |-> 0, name |-> Undefined, labels |-> Undefined,
                   disconnect |-> {}, at |-> "begin"]
      /\ MayLabel \subseteq LabelSets \cup {Undefined}
  BY IdleType, ArchiveAssumption DEF NoArgs
<1>1. CASE CreateDocument(p)
  <2>1. PICK labels \in MayLabel :
           BeginOnArchive(p, "createDocument", [NoArgs EXCEPT !.labels = labels])
    BY <1>1 DEF CreateDocument
  <2>2. [NoArgs EXCEPT !.labels = labels] \in Args
    BY <1>0 DEF Args
  <2> QED
    BY <2>1, <2>2, BeginOnArchiveTyped
<1>2. CASE UpdateDocument(p)
  <2>1. PICK d \in Existing(document), labels \in MayLabel :
           BeginOnArchive(p, "updateDocument",
                          [NoArgs EXCEPT !.item = d, !.labels = labels])
    BY <1>2 DEF UpdateDocument
  <2>2. [NoArgs EXCEPT !.item = d, !.labels = labels] \in Args
    BY <1>0, ItemTypes DEF Args
  <2> QED
    BY <2>1, <2>2, BeginOnArchiveTyped
<1>3. CASE DeleteDocument(p)
  <2>1. PICK d \in Existing(document) :
           BeginOnArchive(p, "deleteDocument", [NoArgs EXCEPT !.item = d])
    BY <1>3 DEF DeleteDocument
  <2>2. [NoArgs EXCEPT !.item = d] \in Args
    BY <1>0, ItemTypes DEF Args
  <2> QED
    BY <2>1, <2>2, BeginOnArchiveTyped
<1>4. CASE DeleteCategory(p)
  <2>1. PICK c \in Existing(category) :
           BeginOnArchive(p, "deleteCategory", [NoArgs EXCEPT !.item = c])
    BY <1>4 DEF DeleteCategory
  <2>2. [NoArgs EXCEPT !.item = c] \in Args
    BY <1>0, ItemTypes DEF Args
  <2> QED
    BY <2>1, <2>2, BeginOnArchiveTyped
<1> QED
  BY <1>1, <1>2, <1>3, <1>4

\* Its reads and writes do.
LEMMA WriteDocumentTypes ==
    ASSUME OrganizationsTypeInv, NEW p \in Clients,
           \/ CreateFile(p) \/ WriteNewDocument(p) \/ ReadCategories(p)
           \/ WriteDocument(p) \/ WriteDeletedDocument(p) \/ WriteDeletedCategory(p)
    PROVE  ArchiveTyped(p)
<1>0. /\ listing \in Seq(Rows_of(ListingRows))
      /\ document \in Seq(Rows_of(DocumentRows))
      /\ category \in Seq(Rows_of(Names)) /\ files \in Nat
      /\ args[p] \in Args
  BY DEF OrganizationsTypeInv, OrganizationsTypeOK
<1> DEFINE names == IF args[p].labels = Undefined THEN {} ELSE args[p].labels
<1>00. /\ names \in LabelSets
       /\ args[p].labels # Undefined => args[p].labels \in LabelSets
       /\ args[p].item \in Nat /\ args[p].disconnect \subseteq Nat
  BY <1>0, FS_EmptySet DEF Args, LabelSets
<1>1. CASE CreateFile(p)
  <2>1. /\ files' = files + 1
        /\ Continue(p, [args[p] EXCEPT !.at = "file", !.item = files'])
        /\ UNCHANGED <<listing, document, category>>
    BY <1>1 DEF CreateFile
  <2>3. \A n \in Nat : LET a == [args[p] EXCEPT !.at = "file", !.item = n]
                        IN  a \in Args /\ a.name = args[p].name
    BY <1>0 DEF Args
  <2>4. files' \in Nat
    BY <1>0, <2>1
  <2>2. /\ [args[p] EXCEPT !.at = "file", !.item = files'] \in Args
        /\ [args[p] EXCEPT !.at = "file", !.item = files'].name = args[p].name
    BY <2>3, <2>4
  <2>5. ContentTyped
    BY <1>0, <2>1 DEF ContentTyped
  <2> QED
    BY <2>1, <2>2, <2>5, ContinueTyped
<1>2. CASE WriteNewDocument(p)
  <2>1. /\ category' = WithCategories(names)
        /\ document' = Append(document,
              [file |-> args[p].item, categories |-> IdsIn(category', names)])
        /\ End(p)
        /\ UNCHANGED <<listing, files>>
    BY <1>2 DEF WriteNewDocument
  <2>2. category' \in Seq(Rows_of(Names))
    BY <1>00, <2>1, WithCategoriesType
  <2>3. [file |-> args[p].item, categories |-> IdsIn(category', names)]
            \in Rows_of(DocumentRows)
    BY <1>00, <2>2, IdsType DEF DocumentRows, Rows_of
  <2>4. document' \in Seq(Rows_of(DocumentRows))
    BY <1>0, <2>1, <2>3, AppendIsSeq
  <2> QED
    BY <1>0, <2>1, <2>2, <2>4, EndTyped DEF ContentTyped
<1>3. CASE ReadCategories(p)
  <2> DEFINE d == args[p].item
             a == [args[p] EXCEPT !.at = "write",
                   !.disconnect = document[d].categories \ IdsIn(category, args[p].labels)]
  <2>1. ContentTyped
    BY <1>0, <1>3 DEF ReadCategories, content, ContentTyped
  <2>2. CASE d \in Existing(document)
    <3>1. document[d].categories \subseteq Nat
      BY <2>2, ItemTypes DEF DocumentRows
    <3>2. a \in Args /\ a.name = args[p].name
      BY <1>0, <3>1 DEF Args
    <3>3. Continue(p, a)
      BY <1>3, <2>2 DEF ReadCategories
    <3> QED
      BY <2>1, <3>2, <3>3, ContinueTyped
  <2>3. CASE d \notin Existing(document)
    BY <1>3, <2>1, <2>3, EndTyped DEF ReadCategories
  <2> QED
    BY <2>2, <2>3
<1>4. CASE WriteDocument(p)
  <2> DEFINE d == args[p].item
  <2>1. End(p) /\ UNCHANGED <<listing, files>>
    BY <1>4 DEF WriteDocument
  <2>2. CASE d \in Existing(document)
    <3>1. /\ category' = WithCategories(names)
          /\ document' = [document EXCEPT
                ![d].categories =
                    (@ \cup IdsIn(category', names)) \ args[p].disconnect]
      BY <1>4, <2>2 DEF WriteDocument
    <3>2. category' \in Seq(Rows_of(Names))
      BY <1>00, <3>1, WithCategoriesType
    <3> DEFINE row == [document[d] EXCEPT !.categories =
                          (@ \cup IdsIn(category', names)) \ args[p].disconnect]
    <3>3. row \in Rows_of(DocumentRows)
      BY <2>2, <3>2, IdsType, ItemTypes DEF DocumentRows, Rows_of
    <3>4. document' = [document EXCEPT ![d] = row]
      BY <3>1
    <3>5. document' \in Seq(Rows_of(DocumentRows))
      BY <1>0, <3>3, <3>4, ExceptIsSeq
    <3> QED
      BY <1>0, <2>1, <3>2, <3>5, EndTyped DEF ContentTyped
  <2>3. CASE d \notin Existing(document)
    BY <1>0, <1>4, <2>1, <2>3, EndTyped DEF WriteDocument, ContentTyped
  <2> QED
    BY <2>2, <2>3
<1>5. CASE WriteDeletedDocument(p)
  BY <1>0, <1>5, EndTyped, ExceptIsSeq DEF WriteDeletedDocument, ContentTyped, Rows_of
<1>6. CASE WriteDeletedCategory(p)
  <2> DEFINE c == args[p].item
  <2>1. category' \in Seq(Rows_of(Names))
    BY <1>0, <1>6, ExceptIsSeq DEF WriteDeletedCategory, Rows_of
  <2>2. \A d \in DOMAIN document : document[d] \in Rows_of(DocumentRows)
    BY <1>0, LenProperties, ElementOfSeq
  <2>3. \A d \in DOMAIN document : document[d] # NoRow =>
            [document[d] EXCEPT !.categories = @ \ {c}] \in DocumentRows
    BY <2>2 DEF DocumentRows, Rows_of
  <2>4. document' \in [DOMAIN document -> Rows_of(DocumentRows)]
    BY <1>6, <2>2, <2>3 DEF WriteDeletedCategory, Rows_of
  <2>5. document' \in Seq(Rows_of(DocumentRows))
    BY <1>0, <2>4, MapIsSeq
  <2> QED
    BY <1>0, <1>6, <2>1, <2>5, EndTyped DEF WriteDeletedCategory, ContentTyped
<1> QED
  BY <1>1, <1>2, <1>3, <1>4, <1>5, <1>6

-----------------------------------------------------------------------------
(* Every reachable state is typed *)

\* What a user may do is typed.
LEMMA RightsType == \A user : Rights(user) \in Snapshots
<1> SUFFICES ASSUME NEW user PROVE Rights(user) \in Snapshots
  OBVIOUS
<1>1. OrganizationsPermit(user, "ARCHIVE_WRITE_DOCUMENTS") \in BOOLEAN
  BY DEF OrganizationsPermit
<1> QED
  BY <1>1 DEF Rights, Snapshots, Roles

\* The history is one of rights.
LEMMA RememberType ==
    ASSUME OrganizationsTypeOK, Remember
    PROVE  been' \in [Clients -> SUBSET Snapshots]
<1>1. \A user : Rights(user)' \in Snapshots
  BY DEF Rights, Snapshots, Roles, OrganizationsPermit
<1>2. been \in [Clients -> SUBSET Snapshots]
  BY DEF OrganizationsTypeOK
<1> QED
  BY <1>1, <1>2 DEF Remember

\* Every step keeps the types.
LEMMA TypeStep ==
    ASSUME OrganizationsTypeInv, [Next]_allVars
    PROVE  OrganizationsTypeInv'
<1>1. CASE UNCHANGED allVars
  BY <1>1 DEF allVars, vars, memberships, content, OrganizationsTypeInv,
              OrganizationsTypeOK, Fits, Resting, Exists
<1>2. CASE Next
  <2>1. PICK p \in Clients :
           /\ MembershipStep(p) \/ Listings(p) \/ Documents(p)
           /\ Remember
    BY <1>2 DEF Next
  <2>2. been' \in [Clients -> SUBSET Snapshots]
    BY <2>1, RememberType DEF OrganizationsTypeInv
  <2>3. args \in [Clients -> Args] /\ NoArgs \in Args
    BY IdleType DEF OrganizationsTypeInv, OrganizationsTypeOK
  <2>4. CASE MembershipStep(p)
    <3>1. Typed(p)
      BY <2>4, MembershipTypes DEF MembershipStep
    <3>2. /\ args' = IF Resting(req'[p]) THEN [args EXCEPT ![p] = NoArgs] ELSE args
          /\ UNCHANGED content
      BY <2>4 DEF MembershipStep
    <3>3. args' \in [Clients -> Args] /\ \A q \in Clients \ {p} : args'[q] = args[q]
      BY <2>3, <3>2
    <3>4. Fits(req'[p], args'[p])
      BY <2>3, <3>1, <3>2 DEF Typed, Fits
    <3>5. \A q \in Clients \ {p} : Fits(req'[q], args'[q])
      BY <3>1, <3>3 DEF Typed, Moves, OrganizationsTypeInv
    <3>6. \A q \in Clients : Fits(req[q], args[q])'
      BY <3>1, <3>4, <3>5 DEF Typed, Fits, Resting
    <3> QED
      BY <2>2, <3>1, <3>2, <3>3, <3>6
         DEF Typed, Moves, content, OrganizationsTypeInv, OrganizationsTypeOK
  <2>5. CASE Listings(p) \/ Documents(p)
    <3>1. ArchiveTyped(p)
      BY <2>5, ListingTypes, BeginDocumentTypes, WriteDocumentTypes DEF Documents
    <3>2. PICK a \in Args : args' = [args EXCEPT ![p] = a] /\ Fits(req'[p], a)
      BY <3>1 DEF ArchiveTyped
    <3>3. /\ args' \in [Clients -> Args] /\ args'[p] = a
          /\ \A q \in Clients \ {p} : args'[q] = args[q]
      BY <2>3, <3>2
    <3>4. \A q \in Clients : Fits(req'[q], args'[q])
      BY <3>1, <3>2, <3>3 DEF ArchiveTyped, Moves, OrganizationsTypeInv
    <3>5. \A q \in Clients : Fits(req[q], args[q])'
      BY <3>1, <3>4 DEF ArchiveTyped, Fits, Resting, Exists, memberships
    <3> QED
      BY <2>2, <3>1, <3>3, <3>5
         DEF ArchiveTyped, Moves, memberships, OrganizationsTypeInv, OrganizationsTypeOK
  <2> QED
    BY <2>1, <2>4, <2>5
<1> QED
  BY <1>1, <1>2

\* Every initial state has them.
LEMMA InitTypes == Init => OrganizationsTypeInv
<1> SUFFICES ASSUME Init PROVE OrganizationsTypeInv
  OBVIOUS
<1> USE IdleType DEF Init, MembershipsInit
<1>1. organization \in [Organizations -> Rows_of(OrganizationRows)]
  BY MembershipsAssumption DEF Rows_of
<1>2. member \in Seq(Rows_of(MemberRows))
  BY MembershipsAssumption, SeqMonotonic DEF Rows_of
<1>3. /\ listing \in Seq(Rows_of(ListingRows))
      /\ document \in Seq(Rows_of(DocumentRows))
      /\ category \in Seq(Rows_of(Names))
  BY ArchiveAssumption, SeqMonotonic DEF Rows_of
<1>4. files \in Nat
  BY ArchiveAssumption, LenProperties
<1>5. \A p \in Clients : Fits(req[p], args[p])
  BY DEF Fits, Resting, Idle
<1> QED
  BY <1>1, <1>2, <1>3, <1>4, <1>5 DEF OrganizationsTypeInv, OrganizationsTypeOK

\* Memberships and the archive keep their types, whatever clients there are.
THEOREM OrganizationsTypeCorrect == Spec => []OrganizationsTypeOK
<1>1. Spec => []OrganizationsTypeInv
  BY InitTypes, TypeStep, PTL DEF Spec
<1>2. OrganizationsTypeInv => OrganizationsTypeOK
  BY DEF OrganizationsTypeInv
<1> QED
  BY <1>1, <1>2, PTL

-----------------------------------------------------------------------------
(* There is always an admin, if one client removes and demotes *)

RemovesNobody(p) == "removeMember" \notin MayCall[p]
DemotesNobody(p) == "updateRole" \notin MayCall[p] \/ "MEMBER" \notin MayGive[p]

\* Client r alone removes and demotes, and demotes by its own rights only.
OneRemover(r) ==
    /\ \A p \in Clients \ {r} : RemovesNobody(p) /\ DemotesNobody(p)
    /\ DemotesNobody(r) \/ ~IsSuperUser(r)

\* Members belong to organizations, and these have admins.
StartsWithAdmins ==
    /\ \A n \in DOMAIN InitialMembers :
          InitialOrganizations[InitialMembers[n].organization] # NoRow
    /\ \A o \in Organizations : InitialOrganizations[o] # NoRow =>
          \E n \in DOMAIN InitialMembers :
              /\ InitialMembers[n].organization = o
              /\ InitialMembers[n].role = "ADMIN"

OnRow(call) == ~Resting(call) /\ call.op \in {"removeMember", "updateRole"}
AnotherAdmin(call) == \E i \in Admins(call.organization) : i # call.member

\* What the one client has read and asked remains true until it writes: the
\* row is there, and where the write takes an admin's rights, or a row that
\* was no admin's, there is an admin beside it.
PendingCall(r, call) ==
    OnRow(call) =>
        /\ call.member \in Rows
        /\ member[call.member].organization = call.organization
        /\ call.pc \notin {"organizations", "studyProgram"}
        /\ call.op = "updateRole" =>
              /\ call.required = "ADMIN" /\ call.pc # "remove"
              /\ member[call.member].user # UserOf[r]
        /\ call.op = "updateRole" /\ call.pc = "granted" /\ call.role = "MEMBER" =>
              AnotherAdmin(call)
        /\ call.op = "removeMember" /\ (call.role = "MEMBER" \/ call.pc = "remove") =>
              AnotherAdmin(call)

\* The other clients' calls do not.
HarmlessCall(call) ==
    OnRow(call) => call.op = "updateRole" /\ call.role = "ADMIN"

AdminsInv(r) ==
    /\ OrganizationKeepsAdmin
    /\ \A i \in Rows : Exists(member[i].organization)
    /\ PendingCall(r, req[r])
    /\ \A p \in Clients \ {r} : HarmlessCall(req[p])

\* A step that takes nobody's row or rights.
RowsKept ==
    \A i \in Rows : /\ i \in Rows'
                    /\ member'[i].user = member[i].user
                    /\ member'[i].organization = member[i].organization
                    /\ member[i].role = "ADMIN" => member'[i].role = "ADMIN"
NewRowsFit ==
    /\ \A o \in Organizations : Exists(o)' => Exists(o) \/ Admins(o)' # {}
    /\ \A i \in Rows' \ Rows : Exists(member[i].organization)'

\* A step that leaves the memberships takes nothing.
LEMMA SameMemberships ==
    ASSUME UNCHANGED memberships
    PROVE  RowsKept /\ NewRowsFit
  BY DEF memberships, RowsKept, NewRowsFit, Rows, Exists

\* Rows that are kept keep the admins there are.
LEMMA KeptAdmins ==
    ASSUME RowsKept, NEW o
    PROVE  Admins(o) \subseteq Admins(o)'
  BY DEF RowsKept, Admins

\* A step that takes nothing leaves every organization its admin.
LEMMA GrowthKeepsAdmin ==
    ASSUME OrganizationsTypeOK, RowsKept, NewRowsFit, OrganizationKeepsAdmin,
           \A i \in Rows : Exists(member[i].organization),
           \A o \in Organizations : Exists(o) => Exists(o)'
    PROVE  /\ OrganizationKeepsAdmin'
           /\ (\A i \in Rows : Exists(member[i].organization))'
<1>1. OrganizationKeepsAdmin'
  BY KeptAdmins DEF NewRowsFit, OrganizationKeepsAdmin
<1>2. ASSUME NEW i \in Rows' PROVE Exists(member[i].organization)'
  BY RowTypes DEF NewRowsFit, RowsKept, Exists
<1> QED
  BY <1>1, <1>2 DEF Exists

\* What another step does to a call that waits.
LEMMA PendingStays ==
    ASSUME RowsKept, NEW r \in Clients, NEW call, PendingCall(r, call)
    PROVE  PendingCall(r, call)'
<1>1. AnotherAdmin(call) => AnotherAdmin(call)'
  BY KeptAdmins DEF AnotherAdmin
<1> QED
  BY <1>1 DEF PendingCall, OnRow, RowsKept, Resting

\* A new row takes nothing.
LEMMA AppendKeeps ==
    ASSUME OrganizationsTypeOK, NEW row \in MemberRows, member' = Append(member, row)
    PROVE  /\ RowsKept
           /\ \A i \in Rows' \ Rows : member'[i] = row
           /\ row.role = "ADMIN" => Admins(row.organization)' # {}
<1>1. member \in Seq(Rows_of(MemberRows)) /\ row \in Rows_of(MemberRows) /\ row # NoRow
  BY MembershipsAssumption DEF OrganizationsTypeOK, Rows_of
<1>2. /\ DOMAIN member \subseteq DOMAIN member'
      /\ \A i \in DOMAIN member : member'[i] = member[i]
      /\ \A i \in DOMAIN member' \ DOMAIN member : member'[i] = row
      /\ \E i \in DOMAIN member' : member'[i] = row
  BY <1>1, AppendIsSeq
<1>3. RowsKept /\ \A i \in Rows' \ Rows : member'[i] = row
  BY <1>2 DEF RowsKept, Rows
<1>4. ASSUME row.role = "ADMIN" PROVE Admins(row.organization)' # {}
  BY <1>1, <1>2, <1>4 DEF Admins, Rows
<1> QED
  BY <1>3, <1>4

\* Only a deletion and a demotion take anything.
LEMMA HarmlessSteps ==
    ASSUME OrganizationsTypeInv, NEW p \in Clients, Membership(p),
           ~DeleteMember(p), WriteRole(p) => req[p].role # "MEMBER"
    PROVE  RowsKept /\ NewRowsFit
<1> USE DEF OrganizationsTypeInv
<1>1. CASE Permission(p)
  BY <1>1, PermissionTypes, SameMemberships
<1>2. CASE RemoveMember(p) \/ CountAdmins(p) \/ AddMember(p) \/ UpdateRole(p)
           \/ UpdateOrganization(p) \/ CallFails(p)
  BY <1>2, SameMemberships
     DEF RemoveMember, CountAdmins, AddMember, UpdateRole, UpdateOrganization, CallFails
<1>3. CASE CreateMember(p)
  <2> DEFINE row == [user |-> req[p].user, organization |-> req[p].organization,
                role |-> IF req[p].role = Undefined THEN "MEMBER"
                         ELSE req[p].role]
  <2>1. /\ req[p].pc = "granted" /\ req[p].op = "addMember"
        /\ member' = IF IsMember(row.user, row.organization)
                     THEN member ELSE Append(member, row)
        /\ UNCHANGED organization
    BY <1>3 DEF CreateMember
  <2>2. req[p] \in Calls /\ Fits(req[p], args[p]) /\ ~Resting(req[p])
    BY <2>1 DEF OrganizationsTypeOK, Resting
  <2>3. row \in MemberRows /\ Exists(row.organization)
    BY <2>1, <2>2 DEF Fits, MemberRows, Calls, Roles
  <2>4. CASE UNCHANGED member
    BY <2>1, <2>4, SameMemberships DEF memberships
  <2>5. CASE member' = Append(member, row)
    BY <2>1, <2>3, <2>5, AppendKeeps DEF NewRowsFit, Exists
  <2> QED
    BY <2>1, <2>4, <2>5
<1>4. CASE WriteRole(p)
  <2>1. req[p] \in Calls /\ Fits(req[p], args[p]) /\ ~Resting(req[p])
    BY <1>4 DEF OrganizationsTypeOK, Resting, WriteRole
  <2>2. req[p].role = "ADMIN"
    BY <1>4, <2>1 DEF Fits, WriteRole, Roles
  <2>3. \A i \in Rows : /\ [member[i] EXCEPT !.role = "ADMIN"] \in MemberRows
                        /\ [member[i] EXCEPT !.role = "ADMIN"].user = member[i].user
                        /\ [member[i] EXCEPT !.role = "ADMIN"].organization = member[i].organization
                        /\ [member[i] EXCEPT !.role = "ADMIN"].role = "ADMIN"
    BY RowTypes DEF MemberRows, Roles
  <2>4. /\ member' = [i \in DOMAIN member |->
                    IF i = req[p].member /\ i \in Rows
                    THEN [member[i] EXCEPT !.role = "ADMIN"]
                    ELSE member[i]]
        /\ UNCHANGED organization
    BY <1>4, <2>2 DEF WriteRole
  <2>5. RowsKept /\ Rows' = Rows
    BY <2>3, <2>4, MembershipsAssumption DEF RowsKept, Rows
  <2> QED
    BY <2>4, <2>5 DEF NewRowsFit, Exists
<1>5. CASE CreateOrganization(p)
  <2>1. PICK o \in Organizations, name \in Names, permissions \in MayPermit :
        /\ organization' = [organization EXCEPT ![o] =
              [name |-> name, featurePermissions |->
                  IF IsSuperUser(p) THEN permissions ELSE {}]]
        /\ member' = Append(member, [user |-> UserOf[p], organization |-> o,
                                     role |-> "ADMIN"])
    BY <1>5 DEF CreateOrganization
  <2> DEFINE row == [user |-> UserOf[p], organization |-> o, role |-> "ADMIN"]
  <2>2. row \in MemberRows
    BY MembershipsAssumption DEF MemberRows, Roles
  <2>3. permissions \subseteq FeaturePermissions
    BY MembershipsAssumption
  <2>4. /\ Exists(o)' /\ \A o1 \in Organizations \ {o} : Exists(o1)' <=> Exists(o1)
    BY <2>1, <2>3, MembershipsAssumption
       DEF OrganizationRows, OrganizationsTypeOK, Exists
  <2>5. /\ RowsKept /\ Admins(o)' # {}
        /\ \A i \in Rows' \ Rows : member'[i] = row
    BY <2>1, <2>2, AppendKeeps
  <2> QED
    BY <2>4, <2>5 DEF NewRowsFit, Exists
<1>6. CASE SuperUserUpdatesOrganization(p)
  <2>1. PICK o \in Organizations : /\ Exists(o) /\ UNCHANGED member
                                  /\ \A o1 \in Organizations \ {o} :
                                         organization'[o1] = organization[o1]
    BY <1>6 DEF SuperUserUpdatesOrganization, OrganizationsTypeOK
  <2> QED
    BY <2>1 DEF NewRowsFit, RowsKept, Rows, Exists
<1>7. CASE WriteOrganization(p)
  <2>1. Fits(req[p], args[p]) /\ ~Resting(req[p])
    BY <1>7 DEF Resting, WriteOrganization
  <2>2. req[p].organization \in Organizations /\ Exists(req[p].organization)
    BY <1>7, <2>1 DEF Fits, WriteOrganization
  <2>3. /\ UNCHANGED member
        /\ \A o \in Organizations \ {req[p].organization} :
               organization'[o] = organization[o]
    BY <1>7 DEF WriteOrganization, OrganizationsTypeOK
  <2> QED
    BY <2>2, <2>3 DEF NewRowsFit, RowsKept, Rows, Exists
<1> QED
  BY <1>1, <1>2, <1>3, <1>4, <1>5, <1>6, <1>7 DEF Membership

\* The one client's deletion or demotion leaves the admin beside the row.
LEMMA WritesKeepAdmin ==
    ASSUME OrganizationsTypeInv, NEW r \in Clients, AdminsInv(r),
           DeleteMember(r) \/ (WriteRole(r) /\ req[r].role = "MEMBER")
    PROVE  /\ OrganizationKeepsAdmin'
           /\ (\A i \in Rows : Exists(member[i].organization))'
<1> DEFINE m == req[r].member
           o == req[r].organization
<1>1. ~Resting(req[r]) /\ OnRow(req[r])
  BY DEF DeleteMember, WriteRole, OnRow, Resting
<1>2. req[r] \in Calls /\ Fits(req[r], args[r])
  BY DEF OrganizationsTypeInv, OrganizationsTypeOK
<1>3. m \in Rows /\ member[m].organization = o /\ AnotherAdmin(req[r])
  BY <1>1 DEF AdminsInv, PendingCall, DeleteMember, WriteRole
<1>4. PICK j \in Admins(o) : j # m
  BY <1>3 DEF AnotherAdmin
<1>5. /\ UNCHANGED organization /\ Rows' \subseteq Rows
      /\ \A i \in Rows \ {m} : i \in Rows' /\ member'[i] = member[i]
      /\ m \in Rows' => member'[m].organization = o
  <2>1. CASE DeleteMember(r)
    BY <2>1, <1>3 DEF DeleteMember, Rows
  <2>2. CASE WriteRole(r)
    <3>1. [member[m] EXCEPT !.role = req[r].role].organization = o
      BY <1>3, RowTypes DEF OrganizationsTypeInv, MemberRows
    <3> QED
      BY <2>2, <1>3, <3>1 DEF WriteRole, Rows
  <2> QED
    BY <2>1, <2>2
<1>6. ASSUME NEW o1 \in Organizations, Exists(o1)'
      PROVE  Admins(o1)' # {}
  <2>1. PICK i \in Admins(o1) : i # m
    <3>1. CASE o1 = o
      BY <1>4, <3>1
    <3>2. CASE o1 # o
      BY <1>3, <1>5, <1>6, <3>2 DEF Exists, AdminsInv, OrganizationKeepsAdmin, Admins
    <3> QED
      BY <3>1, <3>2
  <2> QED
    BY <1>5, <2>1 DEF Admins
<1>7. ASSUME NEW i \in Rows' PROVE Exists(member[i].organization)'
  BY <1>3, <1>5 DEF AdminsInv, Exists
<1> QED
  BY <1>6, <1>7 DEF OrganizationKeepsAdmin

\* The one client's call, wherever it goes, is pending as said.
LEMMA PermissionPends ==
    ASSUME OrganizationsTypeInv, NEW r \in Clients, AdminsInv(r), Permission(r)
    PROVE  PendingCall(r, req'[r])
<1>0. /\ req[r] \in Calls /\ req \in [Clients -> Calls]
      /\ PendingCall(r, req[r])
  BY DEF OrganizationsTypeInv, OrganizationsTypeOK, AdminsInv
<1>1. \A pc : LET call == [req[r] EXCEPT !.pc = pc]
              IN  /\ call.pc = pc /\ call.op = req[r].op /\ call.role = req[r].role
                  /\ call.member = req[r].member /\ call.required = req[r].required
                  /\ call.organization = req[r].organization
  BY <1>0 DEF Calls
<1>2. ASSUME NEW role \in Roles, HasRow(UserOf[r], req[r].organization, role),
             role = "ADMIN", OnRow(req[r]), req[r].op = "updateRole"
      PROVE  AnotherAdmin(req[r])
  BY <1>0, <1>2 DEF HasRow, AnotherAdmin, Admins, PendingCall, OnRow
<1>3. CASE IsAdmin(r)
  <2>1. ~Resting(req[r]) /\ req[r].pc = "admin"
    BY <1>3 DEF IsAdmin, Resting
  <2>2. CASE HasRow(UserOf[r], req[r].organization, "ADMIN")
    <3>1. req'[r] = [req[r] EXCEPT !.pc = "granted"]
      BY <1>0, <1>3, <2>2 DEF IsAdmin, Goto
    <3> QED
      BY <1>0, <1>1, <1>2, <2>1, <2>2, <3>1 DEF PendingCall, OnRow, AnotherAdmin, Roles
  <2>3. CASE ~HasRow(UserOf[r], req[r].organization, "ADMIN")
    <3>1. req'[r] = [req[r] EXCEPT !.pc = "role"]
      BY <1>0, <1>3, <2>3 DEF IsAdmin, Goto
    <3> QED
      BY <1>0, <1>1, <2>1, <3>1 DEF PendingCall, OnRow, AnotherAdmin
  <2> QED
    BY <2>2, <2>3
<1>4. CASE HasRequiredRole(r)
  <2>1. ~Resting(req[r]) /\ req[r].pc = "role"
    BY <1>4 DEF HasRequiredRole, Resting
  <2>2. CASE HasRow(UserOf[r], req[r].organization, req[r].required)
    <3>1. req'[r] = [req[r] EXCEPT !.pc = "granted"]
      BY <1>0, <1>4, <2>2 DEF HasRequiredRole, Goto
    <3> QED
      BY <1>0, <1>1, <1>2, <2>1, <2>2, <3>1 DEF PendingCall, OnRow, AnotherAdmin, Roles
  <2>3. CASE ~HasRow(UserOf[r], req[r].organization, req[r].required)
    <3>1. Resting(req'[r])
      BY <1>4, <2>3, EndMoves DEF HasRequiredRole, OrganizationsTypeInv
    <3> QED
      BY <3>1 DEF PendingCall, OnRow
  <2> QED
    BY <2>2, <2>3
<1>5. CASE FindOrganizations(r)
  BY <1>0, <1>1, <1>5 DEF FindOrganizations, Goto, PendingCall, OnRow, Resting
<1>6. CASE ReadStudyProgram(r)
  <2>1. ~OnRow(req[r])
    BY <1>0, <1>6 DEF ReadStudyProgram, PendingCall
  <2>2. req[r].op \notin {"removeMember", "updateRole"}
    BY <1>6, <2>1 DEF ReadStudyProgram, OnRow, Resting
  <2>3. Resting(req'[r]) \/ req'[r] = [req[r] EXCEPT !.pc = "granted"]
    BY <1>0, <1>6, EndMoves DEF ReadStudyProgram, Goto, OrganizationsTypeInv
  <2>4. ~OnRow(req'[r])
    <3>1. CASE Resting(req'[r])
      BY <3>1 DEF OnRow
    <3>2. CASE req'[r] = [req[r] EXCEPT !.pc = "granted"]
      BY <1>1, <2>2, <3>2 DEF OnRow
    <3> QED
      BY <2>3, <3>1, <3>2
  <2> QED
    BY <2>4 DEF PendingCall
<1> QED
  BY <1>3, <1>4, <1>5, <1>6 DEF Permission

\* removeMember counts two admins before it removes one.
LEMMA RemovalPends ==
    ASSUME OrganizationsTypeInv, NEW r \in Clients, AdminsInv(r),
           RemoveMember(r) \/ CountAdmins(r)
    PROVE  PendingCall(r, req'[r])
<1>0. /\ req[r] \in Calls /\ req \in [Clients -> Calls]
      /\ PendingCall(r, req[r])
  BY DEF OrganizationsTypeInv, OrganizationsTypeOK, AdminsInv
<1>1. CASE RemoveMember(r)
  <2>1. PICK i \in Rows :
          Begin(r, [Idle EXCEPT
              !.pc = AskRole(r), !.op = "removeMember", !.member = i,
              !.organization = member[i].organization,
              !.role = member[i].role,
              !.required = IF member[i].user = UserOf[r]
                           THEN "MEMBER" ELSE "ADMIN"])
    BY <1>1 DEF RemoveMember
  <2>2. /\ req'[r].pc \in {"granted", "admin"} /\ req'[r].op = "removeMember"
        /\ req'[r].member = i /\ req'[r].organization = member[i].organization
        /\ req'[r].role = member[i].role
    BY <1>0, <2>1 DEF Begin, Idle, AskRole
  <2>3. Admins(member[i].organization) # {}
    BY RowTypes DEF AdminsInv, OrganizationKeepsAdmin, OrganizationsTypeInv
  <2>4. member[i].role = "MEMBER" => i \notin Admins(member[i].organization)
    BY DEF Admins
  <2> QED
    BY <2>2, <2>3, <2>4 DEF PendingCall, OnRow, AnotherAdmin
<1>2. CASE CountAdmins(r)
  <2> DEFINE m == req[r].member
             o == req[r].organization
  <2>1. CASE Cardinality(Admins(o)) = 1
    <3>1. Resting(req'[r])
      BY <1>2, <2>1, EndMoves DEF CountAdmins, OrganizationsTypeInv
    <3> QED
      BY <3>1 DEF PendingCall, OnRow
  <2>2. CASE Cardinality(Admins(o)) # 1
    <3>1. m \in Rows /\ member[m].organization = o
      BY <1>0, <1>2 DEF CountAdmins, PendingCall, OnRow, Resting
    <3>2. Admins(o) # {}
      BY <3>1, RowTypes DEF AdminsInv, OrganizationKeepsAdmin, OrganizationsTypeInv
    <3>3. Admins(o) # {m}
      BY <2>2, FS_Singleton
    <3>4. AnotherAdmin(req[r])
      BY <3>2, <3>3 DEF AnotherAdmin
    <3>5. req'[r] = [req[r] EXCEPT !.pc = "remove"]
      BY <1>0, <1>2, <2>2 DEF CountAdmins, Goto
    <3>6. /\ req'[r].pc = "remove" /\ req'[r].op = "removeMember"
          /\ req'[r].member = m /\ req'[r].organization = o
      BY <1>0, <1>2, <3>5 DEF Calls, CountAdmins
    <3> QED
      BY <3>1, <3>4, <3>6 DEF PendingCall, OnRow, AnotherAdmin
  <2> QED
    BY <2>1, <2>2
<1> QED
  BY <1>1, <1>2

\* updateRole is permitted to an admin, who is not the one demoted.
LEMMA DemotionPends ==
    ASSUME OrganizationsTypeInv, NEW r \in Clients, AdminsInv(r),
           DemotesNobody(r) \/ ~IsSuperUser(r), UpdateRole(r)
    PROVE  PendingCall(r, req'[r])
<1>1. PICK i \in Rows, role \in MayGive[r] :
        /\ member[i].user # UserOf[r]
        /\ Begin(r, [Idle EXCEPT
              !.pc = AskRole(r), !.op = "updateRole", !.member = i,
              !.organization = member[i].organization,
              !.required = "ADMIN", !.role = role])
  BY DEF UpdateRole
<1>2. req \in [Clients -> Calls]
  BY DEF OrganizationsTypeInv, OrganizationsTypeOK
<1>3. /\ req'[r].pc = AskRole(r) /\ req'[r].op = "updateRole" /\ req'[r].required = "ADMIN"
      /\ req'[r].member = i /\ req'[r].organization = member[i].organization
      /\ req'[r].role = role
  BY <1>1, <1>2 DEF Begin, Idle
<1>4. "updateRole" \in MayCall[r]
  BY <1>1 DEF Begin, Idle
<1>5. role = "MEMBER" => AskRole(r) = "admin"
  BY <1>4 DEF DemotesNobody, AskRole
<1>6. AskRole(r) \in {"granted", "admin"}
  BY DEF AskRole
<1>7. req'[r].pc = "granted" => req'[r].role # "MEMBER"
  BY <1>3, <1>5
<1>8. req'[r].pc \notin {"organizations", "studyProgram", "remove"}
  BY <1>3, <1>6
<1>9. req'[r].op # "removeMember"
  BY <1>3
<1> QED
  BY <1>1, <1>3, <1>7, <1>8, <1>9 DEF PendingCall

\* The other operations leave no call on a row.
LEMMA OtherCalls ==
    ASSUME OrganizationsTypeInv, NEW p \in Clients,
           \/ AddMember(p) \/ CreateMember(p) \/ WriteRole(p) \/ DeleteMember(p)
           \/ CreateOrganization(p) \/ SuperUserUpdatesOrganization(p)
           \/ UpdateOrganization(p) \/ WriteOrganization(p) \/ CallFails(p)
    PROVE  ~OnRow(req'[p])
<1>0. req \in [Clients -> Calls] /\ OrganizationsTypeOK
  BY DEF OrganizationsTypeInv, OrganizationsTypeOK
<1>1. CASE AddMember(p)
  <2>1. PICK user \in Users, o \in Organizations,
             role \in MayGive[p] \cup {Undefined} :
          Begin(p, [Idle EXCEPT
              !.pc = AskRole(p), !.op = "addMember", !.organization = o,
              !.required = "ADMIN", !.user = user, !.role = role])
    BY <1>1 DEF AddMember
  <2>2. req'[p].op = "addMember"
    BY <1>0, <2>1 DEF Begin, Idle
  <2> QED
    BY <2>2 DEF OnRow
<1>2. CASE UpdateOrganization(p)
  <2>1. PICK o \in Organizations, name \in Names :
          Begin(p, [Idle EXCEPT
              !.pc = "admin", !.op = "update", !.organization = o,
              !.required = "MEMBER", !.name = name])
    BY <1>2 DEF UpdateOrganization
  <2>2. req'[p].op = "update"
    BY <1>0, <2>1 DEF Begin, Idle
  <2> QED
    BY <2>2 DEF OnRow
<1>3. CASE \/ CreateMember(p) \/ WriteRole(p) \/ DeleteMember(p)
           \/ CreateOrganization(p) \/ SuperUserUpdatesOrganization(p)
           \/ WriteOrganization(p) \/ CallFails(p)
  <2>1. "create" \in Operations /\ "update" \in Operations
    BY DEF Operations
  <2>2. Return(p) \/ \E op \in Operations : BeginAndReturn(p, op)
    BY <1>3, <2>1 DEF CreateMember, WriteRole, DeleteMember, CreateOrganization,
          SuperUserUpdatesOrganization, WriteOrganization, CallFails
  <2> QED
    BY <1>0, <2>2, EndMoves DEF OnRow
<1> QED
  BY <1>1, <1>2, <1>3

\* Calls on the archive take no row of a member.
LEMMA ArchiveCalls ==
    ASSUME OrganizationsTypeInv, NEW p \in Clients, Listings(p) \/ Documents(p)
    PROVE  ~OnRow(req'[p]) \/ req' = req
<1>0. req \in [Clients -> Calls] /\ OrganizationsTypeOK
  BY DEF OrganizationsTypeInv, OrganizationsTypeOK
<1>1. ASSUME NEW op \in {"createListing", "updateListing", "deleteListing"}, NEW o, NEW a,
             BeginOn(p, op, o, a)
      PROVE  ~OnRow(req'[p])
  BY <1>0, <1>1 DEF BeginOn, Begin, Idle, OnRow
<1>2. ASSUME NEW op \in {"createDocument", "updateDocument", "deleteDocument",
                         "deleteCategory"}, NEW a,
             BeginOnArchive(p, op, a)
      PROVE  ~OnRow(req'[p])
  BY <1>0, <1>2 DEF BeginOnArchive, Begin, Idle, OnRow
<1>3. End(p) => ~OnRow(req'[p])
  BY <1>0, EndMoves DEF End, OnRow
<1>4. ASSUME NEW a, Continue(p, a) PROVE req' = req
  BY <1>4 DEF Continue
<1>5. CASE Listings(p)
  BY <1>1, <1>3, <1>5 DEF Listings, CreateListing, WriteNewListing, UpdateListing,
        WriteListing, DeleteListing, WriteDeletedListing
<1>6. CASE CreateDocument(p) \/ UpdateDocument(p) \/ DeleteDocument(p) \/ DeleteCategory(p)
  BY <1>2, <1>6 DEF CreateDocument, UpdateDocument, DeleteDocument, DeleteCategory
<1>7. CASE CreateFile(p) \/ ReadCategories(p)
  <2>1. (\E a : Continue(p, a)) \/ End(p)
    BY <1>7 DEF CreateFile, ReadCategories
  <2> QED
    BY <1>3, <1>4, <2>1
<1>8. CASE WriteNewDocument(p) \/ WriteDocument(p) \/ WriteDeletedDocument(p)
           \/ WriteDeletedCategory(p)
  BY <1>3, <1>8 DEF WriteNewDocument, WriteDocument, WriteDeletedDocument,
        WriteDeletedCategory
<1> QED
  BY <1>5, <1>6, <1>7, <1>8 DEF Documents

\* A client that may not remove or demote has no call that harms.
LEMMA OthersAreHarmless ==
    ASSUME OrganizationsTypeInv, NEW p \in Clients, RemovesNobody(p), DemotesNobody(p),
           HarmlessCall(req[p]), Membership(p)
    PROVE  HarmlessCall(req'[p])
<1>0. req \in [Clients -> Calls] /\ req[p] \in Calls /\ MayGive[p] \subseteq Roles
  BY MembershipsAssumption DEF OrganizationsTypeInv, OrganizationsTypeOK
<1>1. CASE Permission(p)
  <2>1. \/ Resting(req'[p])
        \/ ~Resting(req[p]) /\ \E pc \in PCs : Goto(p, pc)
    BY <1>1, EndMoves DEF Permission, IsAdmin, HasRequiredRole, FindOrganizations,
          ReadStudyProgram, Resting, PCs, OrganizationsTypeInv
  <2>2. ASSUME NEW pc \in PCs, Goto(p, pc)
        PROVE  req'[p].op = req[p].op /\ req'[p].role = req[p].role
    BY <1>0, <2>2 DEF Goto, Calls
  <2> QED
    BY <2>1, <2>2 DEF HarmlessCall, OnRow
<1>2. ~RemoveMember(p) /\ ~CountAdmins(p)
  BY DEF RemoveMember, Begin, Idle, RemovesNobody, CountAdmins, HarmlessCall, OnRow, Resting
<1>3. CASE UpdateRole(p)
  <2>1. PICK i \in Rows, role \in MayGive[p] :
          Begin(p, [Idle EXCEPT
              !.pc = AskRole(p), !.op = "updateRole", !.member = i,
              !.organization = member[i].organization,
              !.required = "ADMIN", !.role = role])
    BY <1>3 DEF UpdateRole
  <2>2. req'[p].op = "updateRole" /\ req'[p].role = role /\ "updateRole" \in MayCall[p]
    BY <1>0, <2>1 DEF Begin, Idle
  <2>3. role = "ADMIN"
    BY <1>0, <2>2 DEF DemotesNobody, Roles
  <2> QED
    BY <2>2, <2>3 DEF HarmlessCall
<1>4. CASE ~OnRow(req'[p])
  BY <1>4 DEF HarmlessCall
<1> QED
  BY <1>1, <1>2, <1>3, <1>4, OtherCalls DEF Membership

\* The one client's step.
LEMMA RemoverStep ==
    ASSUME OrganizationsTypeInv, NEW r \in Clients, AdminsInv(r), OneRemover(r),
           Membership(r)
    PROVE  /\ OrganizationKeepsAdmin'
           /\ (\A i \in Rows : Exists(member[i].organization))'
           /\ PendingCall(r, req[r])'
<1>1. CASE DeleteMember(r) \/ (WriteRole(r) /\ req[r].role = "MEMBER")
  <2>1. ~OnRow(req'[r])
    BY <1>1, OtherCalls
  <2>2. PendingCall(r, req[r])'
    BY <2>1 DEF PendingCall, OnRow, Resting
  <2> QED
    BY <1>1, <2>2, WritesKeepAdmin
<1>2. CASE ~DeleteMember(r) /\ (WriteRole(r) => req[r].role # "MEMBER")
  <2>1. RowsKept /\ NewRowsFit
    BY <1>2, HarmlessSteps
  <2>2. \A o \in Organizations : Exists(o) => Exists(o)'
    BY MembershipTypes DEF Typed
  <2>3. PendingCall(r, req'[r])
    BY PermissionPends, RemovalPends, DemotionPends, OtherCalls
       DEF Membership, OneRemover, PendingCall
  <2>4. PICK call : call = req'[r]
    OBVIOUS
  <2>5. PendingCall(r, call)'
    BY <2>1, <2>3, <2>4, PendingStays
  <2>6. PendingCall(r, req[r])'
    BY <2>4, <2>5 DEF PendingCall, OnRow, Resting, AnotherAdmin
  <2> QED
    BY <2>1, <2>2, <2>6, GrowthKeepsAdmin DEF AdminsInv, OrganizationsTypeInv
<1> QED
  BY <1>1, <1>2

\* Another client's.
LEMMA OtherStep ==
    ASSUME OrganizationsTypeInv, NEW r \in Clients, AdminsInv(r), OneRemover(r),
           NEW p \in Clients \ {r}, Membership(p)
    PROVE  AdminsInv(r)'
<1>1. HarmlessCall(req[p]) /\ RemovesNobody(p) /\ DemotesNobody(p)
  BY DEF AdminsInv, OneRemover
<1>2. ~DeleteMember(p) /\ (WriteRole(p) => req[p].role # "MEMBER")
  BY <1>1 DEF DeleteMember, WriteRole, HarmlessCall, OnRow, Resting
<1>3. RowsKept /\ NewRowsFit
  BY <1>2, HarmlessSteps
<1>4. Typed(p)
  BY MembershipTypes
<1>5. /\ OrganizationKeepsAdmin'
      /\ (\A i \in Rows : Exists(member[i].organization))'
  BY <1>3, <1>4, GrowthKeepsAdmin DEF AdminsInv, OrganizationsTypeInv, Typed
<1>6. req'[r] = req[r]
  BY <1>4 DEF Typed, Moves
<1>7. PICK call : call = req[r]
  OBVIOUS
<1>8. PendingCall(r, call)'
  BY <1>3, <1>7, PendingStays DEF AdminsInv
<1>9. PendingCall(r, req[r])'
  BY <1>6, <1>7, <1>8 DEF PendingCall, OnRow, Resting, AnotherAdmin
<1>10. \A q \in Clients \ {r} : HarmlessCall(req'[q])
  BY <1>1, <1>4, OthersAreHarmless DEF AdminsInv, Typed, Moves
<1> QED
  BY <1>5, <1>9, <1>10 DEF AdminsInv, HarmlessCall, OnRow, Resting

\* Every step keeps AdminsInv.
LEMMA AdminsStep ==
    ASSUME OrganizationsTypeInv, NEW r \in Clients, AdminsInv(r), OneRemover(r),
           [Next]_allVars
    PROVE  AdminsInv(r)'
<1>1. CASE UNCHANGED allVars
  BY <1>1 DEF allVars, vars, memberships, AdminsInv, OrganizationKeepsAdmin, Rows, Admins,
        Exists, PendingCall, HarmlessCall, OnRow, Resting, AnotherAdmin
<1>2. CASE Next
  <2>1. PICK p \in Clients : MembershipStep(p) \/ Listings(p) \/ Documents(p)
    BY <1>2 DEF Next
  <2>2. CASE MembershipStep(p) /\ p # r
    BY <2>2, OtherStep DEF MembershipStep
  <2>3. CASE MembershipStep(p) /\ p = r
    <3>1. Typed(r)
      BY <2>3, MembershipTypes DEF MembershipStep
    <3>2. \A q \in Clients \ {r} : HarmlessCall(req'[q])
      BY <3>1 DEF AdminsInv, Typed, Moves
    <3> QED
      BY <2>3, <3>2, RemoverStep DEF MembershipStep, AdminsInv, HarmlessCall, OnRow, Resting
  <2>4. CASE Listings(p) \/ Documents(p)
    <3>1. ArchiveTyped(p)
      BY <2>4, ListingTypes, BeginDocumentTypes, WriteDocumentTypes DEF Documents
    <3>2. UNCHANGED memberships /\ \A q \in Clients \ {p} : req'[q] = req[q]
      BY <3>1 DEF ArchiveTyped, Moves
    <3>3. ~OnRow(req'[p]) \/ req'[p] = req[p]
      BY <2>4, ArchiveCalls
    <3>4. PendingCall(r, req'[r])
      BY <3>2, <3>3 DEF AdminsInv, PendingCall
    <3>5. \A q \in Clients \ {r} : HarmlessCall(req'[q])
      BY <3>2, <3>3 DEF AdminsInv, HarmlessCall
    <3>6. PendingCall(r, req[r])'
      BY <3>2, <3>4 DEF memberships, PendingCall, OnRow, Resting, AnotherAdmin, Admins, Rows
    <3> QED
      BY <3>2, <3>5, <3>6 DEF memberships, AdminsInv, OrganizationKeepsAdmin, Rows, Admins,
            Exists, HarmlessCall, OnRow, Resting
  <2> QED
    BY <2>1, <2>2, <2>3, <2>4
<1> QED
  BY <1>1, <1>2

\* Every initial state that has admins has it.
LEMMA AdminsInit ==
    ASSUME NEW r \in Clients, StartsWithAdmins, Init
    PROVE  AdminsInv(r)
<1>1. member = InitialMembers /\ organization = InitialOrganizations
  BY DEF Init, MembershipsInit
<1>2. \A p \in Clients : Resting(req[p])
  BY DEF Init, MembershipsInit, Resting, Idle
<1>3. Rows = DOMAIN InitialMembers
  <2>1. \A i \in DOMAIN InitialMembers : InitialMembers[i] \in MemberRows
    BY MembershipsAssumption, LenProperties, ElementOfSeq
  <2> QED
    BY <1>1, <2>1, MembershipsAssumption DEF Rows
<1>4. OrganizationKeepsAdmin
  BY <1>1, <1>3 DEF StartsWithAdmins, OrganizationKeepsAdmin, Admins, Exists
<1>5. \A i \in Rows : Exists(member[i].organization)
  BY <1>1, <1>3 DEF StartsWithAdmins, Exists
<1> QED
  BY <1>2, <1>4, <1>5 DEF AdminsInv, PendingCall, HarmlessCall, OnRow

\* An organization keeps an admin, whatever clients there are, if one of them
\* alone removes and demotes: what removeMember counts and what hasRole asks
\* of a demotion is then still so when the row is written.
THEOREM OrganizationAlwaysHasAdmin ==
    ASSUME NEW r \in Clients, OneRemover(r), StartsWithAdmins
    PROVE  Spec => []OrganizationKeepsAdmin
<1>1. Init => OrganizationsTypeInv /\ AdminsInv(r)
  BY InitTypes, AdminsInit
<1>2. OrganizationsTypeInv /\ AdminsInv(r) /\ [Next]_allVars
      => (OrganizationsTypeInv /\ AdminsInv(r))'
  BY TypeStep, AdminsStep
<1>3. AdminsInv(r) => OrganizationKeepsAdmin
  BY DEF AdminsInv
<1> QED
  BY <1>1, <1>2, <1>3, PTL DEF Spec

-----------------------------------------------------------------------------
(* Documents.  Between the read of a document's categories and the write   *)
(* that connects and disconnects them, others may create documents and     *)
(* categories and delete both.                                             *)

\* One client alone updates documents.
OneUpdater(r) == \A p \in Clients \ {r} : "updateDocument" \notin MayCall[p]

\* Documents are connected to categories that exist, by their foreign keys.
StartsConnected == \A d \in DOMAIN InitialDocuments :
    InitialDocuments[d].categories \subseteq DOMAIN InitialCategories

\* A client only has a call under way that it may ask for.
CallsAreAsked == \A p \in Clients : ~Resting(req[p]) => req[p].op \in MayCall[p]

DocumentsConnected ==
    \A d \in Existing(document) : document[d].categories \subseteq Existing(category)

\* What is known, before the write, of the categories that were read: what
\* will be disconnected is not asked for, and what will stay is.
LabelsPending(a) ==
    a.at = "write" =>
        /\ a.labels # Undefined
        /\ a.item \in DOMAIN document
        /\ a.disconnect \subseteq DOMAIN category
        /\ \A c \in a.disconnect : category[c] \notin a.labels
        /\ a.item \in Existing(document) =>
              \A c \in document[a.item].categories \ a.disconnect :
                  category[c] \in a.labels

LabelsInv(r) == CallsAreAsked /\ DocumentsConnected /\ LabelsPending(args[r])

\* The sequence of a finite set has all its elements.
LEMMA SetToSeqIsOnto ==
    ASSUME NEW S, IsFiniteSet(S), NEW x \in S
    PROVE  \E i \in 1 .. Len(SetToSeq(S)) : SetToSeq(S)[i] = x
<1> DEFINE n == Cardinality(S)
<1>1. n \in Nat /\ ExistsBijection(1 .. n, S)
  BY FS_CardinalityType
<1>2. \E f \in [1 .. n -> S] : IsInjective(f)
  BY <1>1 DEF ExistsBijection, Bijection, Injection
<1>3. SetToSeq(S) \in [1 .. n -> S] /\ IsInjective(SetToSeq(S))
  BY <1>2 DEF SetToSeq
<1>4. SetToSeq(S) \in Injection(1 .. n, S)
  BY <1>3 DEF Injection
<1>5. 1 \in Int /\ n \in Int /\ Cardinality(1 .. n) = n
  BY <1>1, FS_Interval
<1>6. SetToSeq(S) \in Surjection(1 .. n, S)
  BY <1>4, <1>5, FS_Injection
<1>7. Len(SetToSeq(S)) = n
  BY <1>1, <1>3, LenProperties, SeqDef
<1> QED
  BY <1>6, <1>7 DEF Surjection

\* connectOrCreate keeps the categories there are, and adds the missing ones.
LEMMA WithCategoriesIs ==
    ASSUME OrganizationsTypeInv, NEW names \in LabelSets
    PROVE  /\ DOMAIN category \subseteq DOMAIN WithCategories(names)
           /\ \A c \in DOMAIN category : WithCategories(names)[c] = category[c]
           /\ \A n \in names : \E c \in DOMAIN WithCategories(names) :
                 WithCategories(names)[c] = n
<1> DEFINE new == names \ NamesOf(DOMAIN category)
           s == SetToSeq(new)
<1>1. IsFiniteSet(new) /\ new \subseteq Rows_of(Names)
  BY FS_Subset DEF LabelSets, Rows_of
<1>2. s \in Seq(Rows_of(Names))
  <2>1. s \in Seq(new)
    BY <1>1, SetToSeqIsSeq
  <2> QED
    BY <1>1, <2>1, SeqMonotonic
<1>3. \A n \in new : \E i \in 1 .. Len(s) : s[i] = n
  BY <1>1, SetToSeqIsOnto
<1> HIDE DEF s, new
<1>4. category \in Seq(Rows_of(Names))
  BY DEF OrganizationsTypeInv, OrganizationsTypeOK
<1>5. WithCategories(names) = category \o s
  BY DEF WithCategories, s, new
<1>6. /\ Len(category) \in Nat /\ Len(s) \in Nat
      /\ DOMAIN category = 1 .. Len(category)
      /\ category \o s \in Seq(Rows_of(Names))
      /\ Len(category \o s) = Len(category) + Len(s)
      /\ \A i \in 1 .. Len(category) + Len(s) : (category \o s)[i] =
             IF i <= Len(category) THEN category[i] ELSE s[i - Len(category)]
  BY <1>2, <1>4, ConcatProperties, LenProperties
<1>7. DOMAIN (category \o s) = 1 .. Len(category) + Len(s)
  BY <1>6, LenProperties
<1>8. \A c \in DOMAIN category : (category \o s)[c] = category[c]
  BY <1>6
<1>9. ASSUME NEW n \in names
      PROVE  \E c \in DOMAIN (category \o s) : (category \o s)[c] = n
  <2>1. CASE n \in new
    <3>1. PICK i \in 1 .. Len(s) : s[i] = n
      BY <1>3, <2>1
    <3>2. Len(category) + i \in 1 .. Len(category) + Len(s)
      BY <1>6
    <3>3. (category \o s)[Len(category) + i] = n
      BY <1>6, <3>1, <3>2
    <3> QED
      BY <1>7, <3>2, <3>3
  <2>2. CASE n \notin new
    <3>1. n \in NamesOf(DOMAIN category)
      BY <2>2 DEF new
    <3>2. PICK c \in DOMAIN category : category[c] = n
      BY <3>1 DEF NamesOf
    <3>3. c \in DOMAIN (category \o s)
      BY <1>6, <1>7
    <3> QED
      BY <1>8, <3>2, <3>3
  <2> QED
    BY <2>1, <2>2
<1> QED
  BY <1>5, <1>6, <1>7, <1>8, <1>9

-----------------------------------------------------------------------------

\* A step that leaves the documents' categories, or takes some of them away.
ContentAges ==
    /\ DOMAIN document \subseteq DOMAIN document'
    /\ \A d \in DOMAIN document : document'[d] # NoRow =>
          d \in Existing(document) /\ document'[d].categories \subseteq document[d].categories
    /\ DOMAIN category \subseteq DOMAIN category'
    /\ \A c \in DOMAIN category : category'[c] \in {category[c], NoRow}

\* What is pending stays so as the content ages.
LEMMA PendingAges ==
    ASSUME OrganizationsTypeInv, DocumentsConnected, DocumentsConnected', ContentAges,
           NEW a \in Args, LabelsPending(a)
    PROVE  LabelsPending(a)'
<1> SUFFICES ASSUME a.at = "write"
             PROVE  /\ a.labels # Undefined
                    /\ a.item \in DOMAIN document'
                    /\ a.disconnect \subseteq DOMAIN category'
                    /\ \A c \in a.disconnect : category'[c] \notin a.labels
                    /\ (a.item \in Existing(document))' =>
                          \A c \in document'[a.item].categories \ a.disconnect :
                              category'[c] \in a.labels
  BY DEF LabelsPending
<1>1. /\ a.labels # Undefined /\ a.item \in DOMAIN document
      /\ a.disconnect \subseteq DOMAIN category
      /\ \A c \in a.disconnect : category[c] \notin a.labels
      /\ a.labels \subseteq Names /\ NoRow \notin Names
  BY ArchiveAssumption DEF LabelsPending, Args, LabelSets
<1>2. ASSUME (a.item \in Existing(document))',
             NEW c \in document'[a.item].categories \ a.disconnect
      PROVE  category'[c] \in a.labels
  <2>1. a.item \in Existing(document) /\ c \in document[a.item].categories
    BY <1>1, <1>2 DEF ContentAges, Existing
  <2>2. c \in DOMAIN category /\ category'[c] # NoRow
    BY <1>2, <2>1 DEF DocumentsConnected, Existing
  <2>3. category[c] \in a.labels
    BY <1>2, <2>1 DEF LabelsPending
  <2> QED
    BY <2>2, <2>3 DEF ContentAges
<1> QED
  BY <1>1, <1>2 DEF ContentAges

\* A client's step begins a call it may ask for, goes on with its call, or ends.
LEMMA StepAsks ==
    ASSUME OrganizationsTypeInv, NEW p \in Clients,
           Membership(p) \/ Listings(p) \/ Documents(p)
    PROVE  \/ Resting(req'[p]) \/ req'[p].op \in MayCall[p]
           \/ ~Resting(req[p]) /\ req'[p].op = req[p].op
<1>0. /\ req \in [Clients -> Calls] /\ req[p] \in Calls /\ OrganizationsTypeOK
      /\ "create" \in Operations /\ "update" \in Operations
  BY DEF OrganizationsTypeInv, OrganizationsTypeOK, Operations
<1>1. ASSUME NEW call, Begin(p, call) PROVE req'[p].op \in MayCall[p]
  BY <1>0, <1>1 DEF Begin
<1>2. Return(p) \/ Deny(p) \/ (\E op \in Operations : BeginAndReturn(p, op))
      => Resting(req'[p])
  BY <1>0, EndMoves
<1>3. ASSUME NEW pc, Goto(p, pc) PROVE req'[p].op = req[p].op
  BY <1>0, <1>3 DEF Goto, Calls
<1>4. ASSUME NEW op, NEW o, NEW a, BeginOn(p, op, o, a) PROVE req'[p].op \in MayCall[p]
  BY <1>1, <1>4 DEF BeginOn
<1>5. ASSUME NEW op, NEW a, BeginOnArchive(p, op, a) PROVE req'[p].op \in MayCall[p]
  BY <1>1, <1>5 DEF BeginOnArchive
<1>6. CASE Permission(p)
  BY <1>2, <1>3, <1>6 DEF Permission, IsAdmin, HasRequiredRole, FindOrganizations,
     ReadStudyProgram, Resting
<1>7. CASE RemoveMember(p) \/ AddMember(p) \/ UpdateRole(p) \/ UpdateOrganization(p)
  BY <1>1, <1>7 DEF RemoveMember, AddMember, UpdateRole, UpdateOrganization
<1>8. CASE CountAdmins(p)
  BY <1>2, <1>3, <1>8 DEF CountAdmins, Resting
<1>9. CASE \/ DeleteMember(p) \/ CreateMember(p) \/ WriteRole(p) \/ CreateOrganization(p)
           \/ SuperUserUpdatesOrganization(p) \/ WriteOrganization(p) \/ CallFails(p)
  BY <1>0, <1>2, <1>9 DEF DeleteMember, CreateMember, WriteRole, CreateOrganization,
     SuperUserUpdatesOrganization, WriteOrganization, CallFails
<1>10. CASE Listings(p)
  BY <1>2, <1>4, <1>10 DEF Listings, CreateListing, WriteNewListing, UpdateListing,
     WriteListing, DeleteListing, WriteDeletedListing, End
<1>11. CASE CreateDocument(p) \/ UpdateDocument(p) \/ DeleteDocument(p) \/ DeleteCategory(p)
  BY <1>5, <1>11 DEF CreateDocument, UpdateDocument, DeleteDocument, DeleteCategory
<1>12. CASE CreateFile(p) \/ ReadCategories(p)
  <2>1. ~Resting(req[p])
    BY <1>12 DEF CreateFile, ReadCategories, Permitted, Resting
  <2>2. End(p) \/ \E a : Continue(p, a)
    BY <1>12 DEF CreateFile, ReadCategories
  <2> QED
    BY <1>2, <2>1, <2>2 DEF End, Continue
<1>13. CASE WriteNewDocument(p) \/ WriteDocument(p) \/ WriteDeletedDocument(p)
            \/ WriteDeletedCategory(p)
  BY <1>2, <1>13 DEF WriteNewDocument, WriteDocument, WriteDeletedDocument,
     WriteDeletedCategory, End
<1> QED
  BY <1>6, <1>7, <1>8, <1>9, <1>10, <1>11, <1>12, <1>13 DEF Membership, Documents

\* A new document is connected to the categories it names, and leaves the rest.
LEMMA NewDocumentConnects ==
    ASSUME OrganizationsTypeInv, DocumentsConnected, NEW p \in Clients,
           WriteNewDocument(p)
    PROVE  DocumentsConnected' /\ ContentAges
<1> DEFINE names == IF args[p].labels = Undefined THEN {} ELSE args[p].labels
           row == [file |-> args[p].item, categories |-> IdsIn(category', names)]
<1>1. names \in LabelSets
  BY FS_EmptySet DEF Args, LabelSets, OrganizationsTypeInv, OrganizationsTypeOK
<1>2. category' = WithCategories(names) /\ document' = Append(document, row)
  BY DEF WriteNewDocument
<1> HIDE DEF names
<1>3. /\ DOMAIN category \subseteq DOMAIN category'
      /\ \A c \in DOMAIN category : category'[c] = category[c]
  BY <1>1, <1>2, WithCategoriesIs
<1>4. row.categories \subseteq Existing(category)'
  BY DEF IdsIn, Existing
<1>5. document \in Seq(DocumentRows \cup {row, NoRow})
  <2>1. document \in Seq(Rows_of(DocumentRows))
    BY DEF OrganizationsTypeInv, OrganizationsTypeOK
  <2> QED
    BY <2>1, SeqMonotonic DEF Rows_of
<1> HIDE DEF row
<1>6. /\ DOMAIN document \subseteq DOMAIN document'
      /\ \A d \in DOMAIN document : document'[d] = document[d]
      /\ \A d \in DOMAIN document' \ DOMAIN document : document'[d] = row
  BY <1>2, <1>5, AppendIsSeq
<1>7. ASSUME NEW d \in Existing(document)'
      PROVE  document'[d].categories \subseteq Existing(category)'
  <2>1. CASE d \in DOMAIN document
    BY <1>3, <1>6, <1>7, <2>1 DEF DocumentsConnected, Existing
  <2>2. CASE d \notin DOMAIN document
    BY <1>4, <1>6, <1>7, <2>2 DEF Existing
  <2> QED
    BY <2>1, <2>2
<1> QED
  BY <1>3, <1>6, <1>7 DEF DocumentsConnected, ContentAges, Existing

\* An update connects a document to categories that exist.
LEMMA WriteConnects ==
    ASSUME OrganizationsTypeInv, DocumentsConnected, NEW p \in Clients,
           WriteDocument(p)
    PROVE  DocumentsConnected'
<1> DEFINE d == args[p].item
           names == IF args[p].labels = Undefined THEN {} ELSE args[p].labels
<1>1. names \in LabelSets
  BY FS_EmptySet DEF Args, LabelSets, OrganizationsTypeInv, OrganizationsTypeOK
<1>2. CASE d \in Existing(document)
  <2>1. /\ category' = WithCategories(names)
        /\ document' = [document EXCEPT
              ![d].categories = (@ \cup IdsIn(category', names)) \ args[p].disconnect]
    BY <1>2 DEF WriteDocument
  <2>2. Existing(category) \subseteq Existing(category)'
    <3>1. /\ DOMAIN category \subseteq DOMAIN category'
          /\ \A c \in DOMAIN category : category'[c] = category[c]
      BY <1>1, <2>1, WithCategoriesIs
    <3> QED
      BY <3>1 DEF Existing
  <2>3. IdsIn(category', names) \subseteq Existing(category)'
    BY DEF IdsIn, Existing
  <2> DEFINE kept == (document[d].categories \cup IdsIn(category', names))
                     \ args[p].disconnect
  <2>4. document' = [document EXCEPT ![d] = [document[d] EXCEPT !.categories = kept]]
    BY <2>1
  <2>5. document[d] \in DocumentRows
    BY <1>2, ItemTypes
  <2>6. [document[d] EXCEPT !.categories = kept].categories = kept
    BY <2>5 DEF DocumentRows
  <2>7. kept \subseteq Existing(category)'
    BY <1>2, <2>2, <2>3 DEF DocumentsConnected
  <2> HIDE DEF d, kept
  <2>8. ASSUME NEW e \in Existing(document)'
        PROVE  document'[e].categories \subseteq Existing(category)'
    <3>1. CASE e = d
      BY <1>2, <2>4, <2>6, <2>7, <3>1 DEF Existing
    <3>2. CASE e # d
      <4>1. e \in Existing(document) /\ document'[e] = document[e]
        BY <2>4, <2>8, <3>2 DEF Existing
      <4> QED
        BY <2>2, <4>1 DEF DocumentsConnected
    <3> QED
      BY <3>1, <3>2
  <2> QED
    BY <2>8 DEF DocumentsConnected
<1>3. CASE d \notin Existing(document)
  BY <1>3 DEF WriteDocument, DocumentsConnected, Existing
<1> QED
  BY <1>2, <1>3

\* A document that is deleted is gone.
LEMMA DeletedDocumentAges ==
    ASSUME OrganizationsTypeInv, DocumentsConnected, NEW p \in Clients,
           WriteDeletedDocument(p)
    PROVE  DocumentsConnected' /\ ContentAges
<1>1. document' = [document EXCEPT ![args[p].item] = NoRow] /\ category' = category
  BY DEF WriteDeletedDocument
<1>2. \A d \in DOMAIN document : document'[d] \in {document[d], NoRow}
  BY <1>1
<1>3. DOMAIN document' = DOMAIN document
  BY <1>1
<1> QED
  BY <1>1, <1>2, <1>3 DEF DocumentsConnected, ContentAges, Existing

\* A category that is deleted is no longer connected to a document.
LEMMA DeletedCategoryAges ==
    ASSUME OrganizationsTypeInv, DocumentsConnected, NEW p \in Clients,
           WriteDeletedCategory(p)
    PROVE  DocumentsConnected' /\ ContentAges
<1> DEFINE c == args[p].item
<1>1. /\ category' = [category EXCEPT ![c] = NoRow]
      /\ document' = [d \in DOMAIN document |->
            IF document[d] = NoRow THEN NoRow
            ELSE [document[d] EXCEPT !.categories = @ \ {c}]]
  BY DEF WriteDeletedCategory
<1> HIDE DEF c
<1>2. ASSUME NEW d \in DOMAIN document, document'[d] # NoRow
      PROVE  /\ d \in Existing(document)
             /\ document'[d].categories = document[d].categories \ {c}
  <2>1. d \in Existing(document) /\ document'[d] = [document[d] EXCEPT !.categories = @ \ {c}]
    BY <1>1, <1>2 DEF Existing
  <2>2. document[d] \in DocumentRows
    BY <2>1, ItemTypes
  <2> QED
    BY <2>1, <2>2 DEF DocumentRows
<1>3. DOMAIN document' = DOMAIN document /\ DOMAIN category' = DOMAIN category
  BY <1>1
<1>4. \A b \in DOMAIN category : category'[b] = IF b = c THEN NoRow ELSE category[b]
  BY <1>1
<1>5. ASSUME NEW d \in Existing(document)'
      PROVE  document'[d].categories \subseteq Existing(category)'
  <2>1. d \in DOMAIN document /\ document'[d] # NoRow
    BY <1>3, <1>5 DEF Existing
  <2>2. d \in Existing(document) /\ document'[d].categories = document[d].categories \ {c}
    BY <1>2, <2>1
  <2>3. document[d].categories \subseteq Existing(category)
    BY <2>2 DEF DocumentsConnected
  <2> QED
    BY <1>3, <1>4, <2>2, <2>3 DEF Existing
<1>6. DocumentsConnected'
  BY <1>5 DEF DocumentsConnected
<1> QED
  BY <1>2, <1>3, <1>4, <1>6 DEF ContentAges

\* Every step keeps the documents connected, and only the write of an update
\* connects a document anew.
LEMMA StepConnects ==
    ASSUME OrganizationsTypeInv, DocumentsConnected, NEW p \in Clients,
           MembershipStep(p) \/ Listings(p) \/ Documents(p)
    PROVE  DocumentsConnected' /\ (ContentAges \/ WriteDocument(p))
<1>1. ASSUME UNCHANGED <<document, category>> PROVE DocumentsConnected' /\ ContentAges
  BY <1>1 DEF DocumentsConnected, ContentAges, Existing
<1>2. CASE MembershipStep(p)
  BY <1>1, <1>2 DEF MembershipStep, content
<1>3. CASE Listings(p)
  BY <1>1, <1>3 DEF Listings, CreateListing, WriteNewListing, UpdateListing,
     WriteListing, DeleteListing, WriteDeletedListing, BeginOn, content
<1>4. CASE CreateDocument(p) \/ UpdateDocument(p) \/ DeleteDocument(p) \/ DeleteCategory(p)
           \/ CreateFile(p) \/ ReadCategories(p)
  BY <1>1, <1>4 DEF CreateDocument, UpdateDocument, DeleteDocument, DeleteCategory,
     CreateFile, ReadCategories, BeginOnArchive, content
<1>5. CASE WriteNewDocument(p) \/ WriteDocument(p) \/ WriteDeletedDocument(p)
           \/ WriteDeletedCategory(p)
  BY <1>5, NewDocumentConnects, WriteConnects, DeletedDocumentAges, DeletedCategoryAges
<1> QED
  BY <1>2, <1>3, <1>4, <1>5 DEF Documents

\* What an updater has just read it knows.
LEMMA ReadCategoriesPends ==
    ASSUME OrganizationsTypeInv, DocumentsConnected, NEW r \in Clients,
           ReadCategories(r)
    PROVE  LabelsPending(args'[r])
<1> DEFINE d == args[r].item
           off == document[d].categories \ IdsIn(category, args[r].labels)
<1>0. args \in [Clients -> Args] /\ args[r] \in Args
  BY DEF OrganizationsTypeInv, OrganizationsTypeOK
<1>1. CASE d \in Existing(document)
  <2>1. args'[r] = [args[r] EXCEPT !.at = "write", !.disconnect = off]
    BY <1>0, <1>1 DEF ReadCategories, Continue
  <2>2. /\ args'[r].at = "write" /\ args'[r].item = d
        /\ args'[r].labels = args[r].labels /\ args'[r].disconnect = off
    BY <1>0, <2>1 DEF Args
  <2>3. args[r].labels # Undefined
    BY DEF ReadCategories
  <2>4. document[d].categories \subseteq Existing(category)
    BY <1>1 DEF DocumentsConnected
  <2>5. \A c \in off : c \in DOMAIN category /\ category[c] \notin args[r].labels
    BY <2>4 DEF IdsIn, Existing
  <2>6. \A c \in document[d].categories \ off : category[c] \in args[r].labels
    BY DEF IdsIn
  <2>7. d \in DOMAIN document
    BY <1>1 DEF Existing
  <2> HIDE DEF d, off
  <2> QED
    BY <2>2, <2>3, <2>5, <2>6, <2>7 DEF LabelsPending
<1>2. CASE d \notin Existing(document)
  BY <1>0, <1>2 DEF ReadCategories, End, NoArgs, LabelsPending
<1> QED
  BY <1>1, <1>2

\* Only the read of the categories comes before a write.
LEMMA ReadComesFirst ==
    ASSUME OrganizationsTypeInv, NEW p \in Clients,
           MembershipStep(p) \/ Listings(p) \/ Documents(p), args'[p] # args[p],
           args'[p].at = "write"
    PROVE  ReadCategories(p)
<1>0. args \in [Clients -> Args] /\ args[p] \in Args
  BY DEF OrganizationsTypeInv, OrganizationsTypeOK
<1>1. ~End(p)
  BY <1>0 DEF End, NoArgs
<1>2. ~MembershipStep(p)
  BY <1>0 DEF MembershipStep, NoArgs
<1>3. ASSUME NEW op, NEW o, NEW a, a.at = "begin" PROVE ~BeginOn(p, op, o, a)
  BY <1>0, <1>3 DEF BeginOn
<1>4. ASSUME NEW op, NEW a, a.at = "begin" PROVE ~BeginOnArchive(p, op, a)
  BY <1>0, <1>4 DEF BeginOnArchive
<1>5. ~Listings(p)
  BY <1>1, <1>3 DEF Listings, CreateListing, WriteNewListing, UpdateListing,
     WriteListing, DeleteListing, WriteDeletedListing, NoArgs
<1>6. ~(CreateDocument(p) \/ UpdateDocument(p) \/ DeleteDocument(p) \/ DeleteCategory(p))
  BY <1>4 DEF CreateDocument, UpdateDocument, DeleteDocument, DeleteCategory, NoArgs
<1>7. ~CreateFile(p)
  <2>1. CreateFile(p) => args'[p] = [args[p] EXCEPT !.at = "file", !.item = files']
    BY <1>0 DEF CreateFile, Continue
  <2>2. [args[p] EXCEPT !.at = "file", !.item = files'].at = "file"
    BY <1>0 DEF Args
  <2> QED
    BY <2>1, <2>2
<1>8. ~(WriteNewDocument(p) \/ WriteDocument(p) \/ WriteDeletedDocument(p)
        \/ WriteDeletedCategory(p))
  BY <1>1 DEF WriteNewDocument, WriteDocument, WriteDeletedDocument, WriteDeletedCategory
<1> QED
  BY <1>2, <1>5, <1>6, <1>7, <1>8 DEF Documents

\* A step leaves the calls and the arguments of the other clients.
LEMMA OthersWait ==
    ASSUME OrganizationsTypeInv, NEW p \in Clients,
           MembershipStep(p) \/ Listings(p) \/ Documents(p), NEW q \in Clients \ {p}
    PROVE  req'[q] = req[q] /\ args'[q] = args[q]
<1>0. args \in [Clients -> Args]
  BY DEF OrganizationsTypeInv, OrganizationsTypeOK
<1>1. CASE MembershipStep(p)
  BY <1>0, <1>1, MembershipTypes DEF MembershipStep, Typed, Moves
<1>2. CASE Listings(p) \/ Documents(p)
  BY <1>0, <1>2, ListingTypes, BeginDocumentTypes, WriteDocumentTypes
     DEF Documents, ArchiveTyped, Moves
<1> QED
  BY <1>1, <1>2

\* Every step keeps LabelsInv.
LEMMA LabelsStep ==
    ASSUME OrganizationsTypeInv, OrganizationsTypeInv', NEW r \in Clients, OneUpdater(r),
           LabelsInv(r), [Next]_allVars
    PROVE  LabelsInv(r)'
<1>1. CASE UNCHANGED allVars
  BY <1>1 DEF allVars, vars, content, LabelsInv, CallsAreAsked, Resting,
     DocumentsConnected, LabelsPending, Existing
<1>2. CASE Next
  <2>1. PICK p \in Clients : MembershipStep(p) \/ Listings(p) \/ Documents(p)
    BY <1>2 DEF Next
  <2>2. CallsAreAsked'
    <3>1. \/ Resting(req'[p]) \/ req'[p].op \in MayCall[p]
          \/ ~Resting(req[p]) /\ req'[p].op = req[p].op
      BY <2>1, StepAsks DEF MembershipStep
    <3>2. \A q \in Clients \ {p} : req'[q] = req[q]
      BY <2>1, OthersWait
    <3> QED
      BY <3>1, <3>2 DEF LabelsInv, CallsAreAsked, Resting
  <2>3. DocumentsConnected' /\ (ContentAges \/ WriteDocument(p))
    BY <2>1, StepConnects DEF LabelsInv
  <2>4. WriteDocument(p) => p = r
    BY DEF WriteDocument, Permitted, LabelsInv, CallsAreAsked, Resting, OneUpdater
  <2>5. PICK a \in Args : a = args'[r]
    BY DEF OrganizationsTypeInv, OrganizationsTypeOK
  <2>6. LabelsPending(a)'
    <3>1. CASE a.at # "write"
      BY <3>1 DEF LabelsPending
    <3>2. CASE a.at = "write"
      <4>1. args'[r] = args[r] \/ ReadCategories(r)
        BY <2>1, <2>5, <3>2, OthersWait, ReadComesFirst
      <4>2. LabelsPending(a)
        BY <2>5, <4>1, ReadCategoriesPends DEF LabelsInv
      <4>3. ~WriteDocument(p)
        <5> SUFFICES ASSUME WriteDocument(r) PROVE FALSE
          BY <2>4
        <5>1. args'[r] = NoArgs
          BY DEF WriteDocument, End, OrganizationsTypeInv, OrganizationsTypeOK
        <5> QED
          BY <2>5, <3>2, <5>1 DEF NoArgs
      <4> QED
        BY <2>3, <4>2, <4>3, PendingAges DEF LabelsInv
    <3> QED
      BY <3>1, <3>2
  <2> QED
    BY <2>2, <2>3, <2>5, <2>6 DEF LabelsInv, LabelsPending, Existing
<1> QED
  BY <1>1, <1>2

\* Every initial state with connected documents has it.
LEMMA LabelsInit ==
    ASSUME NEW r \in Clients, StartsConnected, Init
    PROVE  LabelsInv(r)
<1>1. document = InitialDocuments /\ category = InitialCategories
      /\ args[r].at = "begin" /\ \A p \in Clients : Resting(req[p])
  BY DEF Init, MembershipsInit, Resting, Idle, NoArgs
<1>2. \A c \in DOMAIN category : category[c] # NoRow
  BY <1>1, ArchiveAssumption, LenProperties, ElementOfSeq
<1> QED
  BY <1>1, <1>2 DEF StartsConnected, LabelsInv, CallsAreAsked, DocumentsConnected,
     LabelsPending, Existing

\* The write of an update leaves the document with what was asked for.
LEMMA WriteSetsLabels ==
    ASSUME OrganizationsTypeInv, OrganizationsTypeInv', NEW r \in Clients, LabelsInv(r),
           WriteDocument(r), args[r].at = "write", NEW d \in DOMAIN document,
           args[r].item = d, document'[d] # document[d]
    PROVE  Labels(d)' = args[r].labels
<1> DEFINE names == args[r].labels
<1>0. args[r] \in Args /\ NoRow \notin Names
  BY ArchiveAssumption DEF OrganizationsTypeInv, OrganizationsTypeOK
<1>1. names # Undefined /\ names \in LabelSets /\ names \subseteq Names
  BY <1>0 DEF LabelsInv, LabelsPending, Args, LabelSets
<1>2. d \in Existing(document)
  BY DEF WriteDocument
<1>3. /\ args[r].disconnect \subseteq DOMAIN category
      /\ \A c \in args[r].disconnect : category[c] \notin names
      /\ \A c \in document[d].categories \ args[r].disconnect : category[c] \in names
      /\ document[d].categories \subseteq DOMAIN category
  BY <1>2 DEF LabelsInv, LabelsPending, DocumentsConnected, Existing
<1>4. /\ category' = WithCategories(names)
      /\ document' = [document EXCEPT
            ![d].categories = (@ \cup IdsIn(category', names)) \ args[r].disconnect]
  BY <1>1, <1>2 DEF WriteDocument
<1>5. /\ DOMAIN category \subseteq DOMAIN category'
      /\ \A c \in DOMAIN category : category'[c] = category[c]
      /\ \A n \in names : \E c \in DOMAIN category' : category'[c] = n
  BY <1>1, <1>4, WithCategoriesIs
<1> DEFINE kept == (document[d].categories \cup IdsIn(category', names))
                   \ args[r].disconnect
<1>6. document'[d].categories = kept
  <2>1. document' = [document EXCEPT ![d] = [document[d] EXCEPT !.categories = kept]]
    BY <1>4
  <2>2. document[d] \in DocumentRows
    BY <1>2, ItemTypes
  <2>3. [document[d] EXCEPT !.categories = kept].categories = kept
    BY <2>2 DEF DocumentRows
  <2> HIDE DEF kept
  <2> QED
    BY <2>1, <2>3
<1>7. \A c \in kept : category'[c] \in names
  BY <1>3, <1>5 DEF IdsIn
<1>8. ASSUME NEW n \in names PROVE \E c \in kept : category'[c] = n
  <2>1. PICK c \in DOMAIN category' : category'[c] = n
    BY <1>5
  <2>2. c \in IdsIn(category', names)
    BY <1>0, <1>1, <2>1 DEF IdsIn, Existing
  <2>3. c \notin args[r].disconnect
    BY <1>3, <1>5, <2>1
  <2> QED
    BY <2>1, <2>2, <2>3
<1>9. Labels(d)' = {category'[c] : c \in kept} \ {NoRow}
  BY <1>6 DEF Labels, NamesOf
<1> HIDE DEF kept
<1> QED
  BY <1>0, <1>1, <1>7, <1>8, <1>9

\* In every step of which UpdateSetsTheCategories speaks, the client writes its
\* update, and leaves the document with the categories it was given.
LEMMA UpdateStep ==
    ASSUME OrganizationsTypeInv, OrganizationsTypeInv', NEW r \in Clients, OneUpdater(r),
           LabelsInv(r), [Next]_allVars, NEW p \in Clients, NEW d \in DOMAIN document,
           Permitted(p, "updateDocument"), args[p].item = d, args[p].at = "write",
           args'[p] # args[p], document'[d] # document[d]
    PROVE  Labels(d)' = args[p].labels
<1>1. p = r
  BY DEF Permitted, LabelsInv, CallsAreAsked, Resting, OneUpdater
<1>2. PICK q \in Clients : MembershipStep(q) \/ Listings(q) \/ Documents(q)
  BY DEF Next, allVars
<1>3. q = r
  BY <1>1, <1>2, OthersWait
<1>4. WriteDocument(r)
  <2>1. ~MembershipStep(r)
    BY DEF MembershipStep, content
  <2>2. ~Listings(r)
    BY DEF Listings, CreateListing, WriteNewListing, UpdateListing,
       WriteListing, DeleteListing, WriteDeletedListing, BeginOn, content
  <2>3. ~(CreateDocument(r) \/ UpdateDocument(r) \/ DeleteDocument(r) \/ DeleteCategory(r)
          \/ CreateFile(r) \/ ReadCategories(r))
    BY DEF CreateDocument, UpdateDocument, DeleteDocument, DeleteCategory,
       CreateFile, ReadCategories, BeginOnArchive, content
  <2>4. ~(WriteNewDocument(r) \/ WriteDeletedDocument(r) \/ WriteDeletedCategory(r))
    BY <1>1 DEF WriteNewDocument, WriteDeletedDocument, WriteDeletedCategory, Permitted
  <2> QED
    BY <1>2, <1>3, <2>1, <2>2, <2>3, <2>4 DEF Documents
<1> QED
  BY <1>1, <1>4, WriteSetsLabels

\* An update that gives categories leaves the document with exactly those, if
\* one client alone updates documents: whatever documents and categories the
\* others create and delete between the read of the categories and the write.
THEOREM OneUpdaterSetsTheCategories ==
    ASSUME NEW r \in Clients, OneUpdater(r), StartsConnected
    PROVE  Spec => UpdateSetsTheCategories
<1>1. Init => OrganizationsTypeInv /\ LabelsInv(r)
  BY InitTypes, LabelsInit
<1>2. OrganizationsTypeInv /\ LabelsInv(r) /\ [Next]_allVars
      => (OrganizationsTypeInv /\ LabelsInv(r))'
  BY TypeStep, LabelsStep
<1> DEFINE Step == \A p \in Clients, d \in DOMAIN document :
          /\ Permitted(p, "updateDocument") /\ args[p].item = d
          /\ args[p].at = "write"
          /\ args'[p] # args[p] /\ document'[d] # document[d]
          => Labels(d)' = args[p].labels
<1>3. OrganizationsTypeInv /\ LabelsInv(r) /\ [Next]_allVars => [Step]_allVars
  BY TypeStep, UpdateStep
<1> HIDE DEF Step
<1>4. Spec => [][Step]_allVars
  BY <1>1, <1>2, <1>3, PTL DEF Spec
<1> QED
  BY <1>4 DEF Step, UpdateSetsTheCategories
=============================================================================
