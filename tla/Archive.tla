------------------------------- MODULE Archive -------------------------------
(***************************************************************************)
(* What organizations publish and what is kept for them: ListingService,   *)
(* DocumentService with its documents and categories, and the files        *)
(* (src/src/services/listings, .../documents, .../files), composed with    *)
(* the memberships that permit it.                                         *)
(***************************************************************************)
EXTENDS Memberships, SequencesExt

CONSTANTS
    InitialListings, InitialDocuments, InitialCategories,
    MaxItems,    \* a bound of the model: the rows of each of these tables
    MayLabel     \* the names of categories that are given to documents

VARIABLES
    listing,     \* the rows of Listing in the order of their creation
    document,    \* the rows of Document
    category,    \* the rows of DocumentCategory: their names
    files,       \* the number of rows of File
    args         \* what a call on these was asked, and has read

content == <<listing, document, category, files>>
allVars == <<vars, content, args>>

-----------------------------------------------------------------------------

ListingRows == [organization : Organizations, name : Names]
DocumentRows == [file : Nat, categories : SUBSET Nat]
LabelSets == {names \in SUBSET Names : IsFiniteSet(names)}
Args == [item : Nat,                           \* a listing, document, category
         name : Names \cup {Undefined},
         labels : LabelSets \cup {Undefined},
         disconnect : SUBSET Nat,              \* categoriesToDisconnect
         at : {"begin", "file", "write"}]      \* once the call is permitted
NoArgs == [item |-> 0, name |-> Undefined, labels |-> Undefined,
           disconnect |-> {}, at |-> "begin"]

ASSUME ArchiveAssumption ==
    /\ InitialListings \in Seq(ListingRows)
    /\ InitialDocuments \in Seq(DocumentRows)
    /\ InitialCategories \in Seq(Names)
    /\ MaxItems \in Nat
    /\ MayLabel \subseteq LabelSets \cup {Undefined}
    /\ NoRow \notin ListingRows /\ NoRow \notin DocumentRows /\ NoRow \notin Names

Existing(table) == {i \in DOMAIN table : table[i] # NoRow}

Permitted(p, op) == req[p].pc = "granted" /\ req[p].op = op
\* A call on the content of organization o, or on the archive.
BeginOn(p, op, o, a) ==
    /\ Begin(p, [Idle EXCEPT !.pc = AskRole(p), !.op = op,
                             !.organization = o, !.required = "MEMBER"])
    /\ args' = [args EXCEPT ![p] = a]
    /\ UNCHANGED <<memberships, content>>
BeginOnArchive(p, op, a) ==
    /\ Begin(p, [Idle EXCEPT !.pc = AskFeature(p), !.op = op])
    /\ args' = [args EXCEPT ![p] = a]
    /\ UNCHANGED <<memberships, content>>
Continue(p, a) ==
    args' = [args EXCEPT ![p] = a] /\ UNCHANGED <<memberships, req, calls>>
End(p) ==
    Return(p) /\ args' = [args EXCEPT ![p] = NoArgs] /\ UNCHANGED memberships

-----------------------------------------------------------------------------
(* ListingService *)

CreateListing(p) ==
    \E o \in Organizations, name \in Names :
        Exists(o) /\ BeginOn(p, "createListing", o, [NoArgs EXCEPT !.name = name])
WriteNewListing(p) ==
    /\ Permitted(p, "createListing") /\ Len(listing) < MaxItems
    /\ listing' = Append(listing, [organization |-> req[p].organization,
                                   name |-> args[p].name])
    /\ End(p)
    /\ UNCHANGED <<document, category, files>>

\* The listing is read, and its organization is asked for the permission.
UpdateListing(p) ==
    \E l \in Existing(listing), name \in Names :
        BeginOn(p, "updateListing", listing[l].organization,
                [NoArgs EXCEPT !.item = l, !.name = name])
\* A listing that was deleted meanwhile is not found.
WriteListing(p) ==
    /\ Permitted(p, "updateListing")
    /\ listing' = [l \in DOMAIN listing |->
                     IF l = args[p].item /\ listing[l] # NoRow
                     THEN [listing[l] EXCEPT !.name = args[p].name]
                     ELSE listing[l]]
    /\ End(p)
    /\ UNCHANGED <<document, category, files>>

DeleteListing(p) ==
    \E l \in Existing(listing) :
        BeginOn(p, "deleteListing", listing[l].organization,
                [NoArgs EXCEPT !.item = l])
WriteDeletedListing(p) ==
    /\ Permitted(p, "deleteListing")
    /\ listing' = [listing EXCEPT ![args[p].item] = NoRow]
    /\ End(p)
    /\ UNCHANGED <<document, category, files>>

-----------------------------------------------------------------------------
(* documents and categories *)

NamesOf(categories) == {category[c] : c \in categories} \ {NoRow}
IdsIn(table, names) == {c \in Existing(table) : table[c] \in names}
Labels(d) == NamesOf(document[d].categories)

\* connectOrCreate: the categories that do not exist are appended.
WithCategories(names) ==
    category \o SetToSeq(names \ NamesOf(DOMAIN category))

CreateDocument(p) ==
    \E labels \in MayLabel :
        BeginOnArchive(p, "createDocument", [NoArgs EXCEPT !.labels = labels])
\* createFileUploadUrl: the row of the file.  The URL is asked for next; when
\* that fails, which is CallFails, the row stays without a document.
CreateFile(p) ==
    /\ Permitted(p, "createDocument") /\ args[p].at = "begin"
    /\ Len(document) < MaxItems /\ files < MaxItems
    /\ files' = files + 1
    /\ Continue(p, [args[p] EXCEPT !.at = "file", !.item = files'])
    /\ UNCHANGED <<listing, document, category>>
WriteNewDocument(p) ==
    LET names == IF args[p].labels = Undefined THEN {} ELSE args[p].labels
    IN  /\ Permitted(p, "createDocument") /\ args[p].at = "file"
        /\ Len(document) < MaxItems
        /\ category' = WithCategories(names) /\ Len(category') <= MaxItems
        /\ document' = Append(document,
              [file |-> args[p].item, categories |-> IdsIn(category', names)])
        /\ End(p)
        /\ UNCHANGED <<listing, files>>

UpdateDocument(p) ==
    \E d \in Existing(document), labels \in MayLabel :
        BeginOnArchive(p, "updateDocument",
                       [NoArgs EXCEPT !.item = d, !.labels = labels])
\* If categories are given, those the document has are read.
ReadCategories(p) ==
    LET d == args[p].item
    IN  /\ Permitted(p, "updateDocument") /\ args[p].at = "begin"
        /\ args[p].labels # Undefined
        /\ IF d \in Existing(document)
           THEN Continue(p, [args[p] EXCEPT !.at = "write",
                   !.disconnect = document[d].categories \ IdsIn(category, args[p].labels)])
           ELSE End(p)
        /\ UNCHANGED content

\* Mutant of WriteDocument: nothing is disconnected.
WriteDocumentConnecting(p) ==
    LET d == args[p].item
        names == IF args[p].labels = Undefined THEN {} ELSE args[p].labels
    IN  /\ Permitted(p, "updateDocument")
        /\ args[p].at = "write" \/ args[p].labels = Undefined
        /\ IF d \in Existing(document)
           THEN /\ category' = WithCategories(names)
                /\ Len(category') <= MaxItems
                /\ document' = [document EXCEPT
                      ![d].categories = @ \cup IdsIn(category', names)]
           ELSE UNCHANGED <<document, category>>
        /\ End(p)
        /\ UNCHANGED <<listing, files>>
\* The categories that were read and are not given are disconnected by their
\* ids; the ones given are connected.
WriteDocument(p) ==
    LET d == args[p].item
        names == IF args[p].labels = Undefined THEN {} ELSE args[p].labels
    IN  /\ Permitted(p, "updateDocument")
        /\ args[p].at = "write" \/ args[p].labels = Undefined
        /\ IF d \in Existing(document)
           THEN /\ category' = WithCategories(names)
                /\ Len(category') <= MaxItems
                /\ document' = [document EXCEPT
                      ![d].categories =
                          (@ \cup IdsIn(category', names)) \ args[p].disconnect]
           ELSE UNCHANGED <<document, category>>
        /\ End(p)
        /\ UNCHANGED <<listing, files>>

DeleteDocument(p) ==
    \E d \in Existing(document) :
        BeginOnArchive(p, "deleteDocument", [NoArgs EXCEPT !.item = d])
WriteDeletedDocument(p) ==
    /\ Permitted(p, "deleteDocument")
    /\ document' = [document EXCEPT ![args[p].item] = NoRow]
    /\ End(p)
    /\ UNCHANGED <<listing, category, files>>

DeleteCategory(p) ==
    \E c \in Existing(category) :
        BeginOnArchive(p, "deleteCategory", [NoArgs EXCEPT !.item = c])
\* The rows that connect documents to the category go with it.
WriteDeletedCategory(p) ==
    LET c == args[p].item
    IN  /\ Permitted(p, "deleteCategory")
        /\ category' = [category EXCEPT ![c] = NoRow]
        /\ document' = [d \in DOMAIN document |->
              IF document[d] = NoRow THEN NoRow
              ELSE [document[d] EXCEPT !.categories = @ \ {c}]]
        /\ End(p)
        /\ UNCHANGED <<listing, files>>

-----------------------------------------------------------------------------

Listings(p) ==
    \/ CreateListing(p)
    \/ WriteNewListing(p)
    \/ UpdateListing(p)
    \/ WriteListing(p)
    \/ DeleteListing(p)
    \/ WriteDeletedListing(p)

Documents(p) ==
    \/ CreateDocument(p)
    \/ CreateFile(p)
    \/ WriteNewDocument(p)
    \/ UpdateDocument(p)
    \/ ReadCategories(p)
    \/ WriteDocument(p)
    \/ DeleteDocument(p)
    \/ WriteDeletedDocument(p)
    \/ DeleteCategory(p)
    \/ WriteDeletedCategory(p)

Init ==
    /\ MembershipsInit
    /\ listing = InitialListings
    /\ document = InitialDocuments
    /\ category = InitialCategories
    /\ files = Len(InitialDocuments)
    /\ args = [p \in Clients |-> NoArgs]

\* A call on a membership, or one that asks for a permission; a call that ends
\* forgets its arguments.
MembershipStep(p) ==
    /\ Membership(p)
    /\ args' = IF Resting(req[p])' THEN [args EXCEPT ![p] = NoArgs] ELSE args
    /\ UNCHANGED content

Next ==
    \E p \in Clients :
        /\ MembershipStep(p) \/ Listings(p) \/ Documents(p)
        /\ Remember

Spec == Init /\ [][Next]_allVars

=============================================================================
