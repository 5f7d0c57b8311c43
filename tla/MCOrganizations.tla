--------------------------- MODULE MCOrganizations ---------------------------
(***************************************************************************)
(* Instances of Archive for TLC.                                           *)
(***************************************************************************)
EXTENDS OrganizationsProperties, TLC

CONSTANTS ann, bo, eve, o1, o2, n1, n2, p1, p2, p3

Row(user, role) == [user |-> user, organization |-> o1, role |-> role]
Org(name, permissions) == [name |-> name, featurePermissions |-> permissions]

NoPermissions == [u \in Users |-> {}]
OneOrganization ==
    (o1 :> Org(n1, {"ARCHIVE_WRITE_DOCUMENTS"})) @@ (o2 :> NoRow)
Archivist == "ARCHIVE_WRITE_DOCUMENTS"

-----------------------------------------------------------------------------
(* organizations: ann removes and demotes, bo adds and promotes and          *)
(* publishes, eve comes and goes                                             *)

WhoseAre == (p1 :> ann) @@ (p2 :> bo) @@ (p3 :> eve)
StartMembers == <<Row(ann, "ADMIN"), Row(bo, "ADMIN"), Row(eve, "MEMBER")>>
WhatTheyDo ==
    (p1 :> {"removeMember", "updateRole", "updateDocument"}) @@
    (p2 :> {"addMember", "updateRole", "update", "create", "deleteDocument",
            "createListing", "updateListing", "deleteListing"}) @@
    (p3 :> {"createDocument", "deleteCategory", "update", "create"})
Gives == (p1 :> {"MEMBER"}) @@ (p2 :> {"ADMIN"}) @@ (p3 :> {})
Permits == {{}, {Archivist}}
HowOften == (p1 :> 2) @@ (p2 :> 1) @@ (p3 :> 1)
BoStudies == [u \in Users |-> IF u = bo THEN {Archivist} ELSE {}]
Start == [listings |-> <<[organization |-> o1, name |-> n1]>>,
          documents |-> <<[file |-> 1, categories |-> {1}]>>,
          categories |-> <<n1>>]
StartListings == Start.listings
StartDocuments == Start.documents
StartCategories == Start.categories
SomeLabels == {Undefined, {n2}}

-----------------------------------------------------------------------------
(* last_admin: two admins leave                                              *)

TheyLeave == [p \in Clients |-> {"removeMember"}]
NoRoles == [p \in Clients |-> {}]
Nothing == <<>>

=============================================================================
