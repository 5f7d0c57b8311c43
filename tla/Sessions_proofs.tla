--------------------------- MODULE Sessions_proofs ---------------------------
(***************************************************************************)
(* Proofs about Sessions, for any persons, browsers, lists of study        *)
(* programs and years, with failing requests and dying processes: the      *)
(* types; one account and one mail for a person; the study programs are a  *)
(* list of Feide; and the graduation year changes once a year as long as   *)
(* it is set from one browser.                                             *)
(***************************************************************************)
EXTENDS SessionsProperties, SequenceTheorems, FiniteSetTheorems, TLAPS

-----------------------------------------------------------------------------
(* Types.  A request under way is about a person, who has an account from   *)
(* the moment it was found or created.                                      *)

HasUser(request) ==
    /\ request.pc # "idle" => request.user \in Persons
    /\ request.pc \notin {"idle", "getUser", "create"} => Exists(request.user)
    /\ request.renewed => request.user \in Persons /\ Exists(request.user)
    /\ request.pc = "createProgram" => request.todo # <<>>
    /\ request.pc \in {"programs", "createProgram", "writeProgram"} =>
          request.programs # <<>>

SessionsTypeInv ==
    /\ SessionsTypeOK
    /\ \A b \in Browsers :
          /\ HasUser(req[b])
          /\ session[b].user # Nobody => Exists(session[b].user)

\* Accounts are not deleted.
AccountsStay == \A p \in Persons : Exists(p) => Exists(p)'

\* Browser b moves to a request, and its session to another one, that fit.
Moves(b) ==
    /\ \E request \in Requests :
          HasUser(request)' /\ req' = [req EXCEPT ![b] = request]
    /\ \E s \in SessionRows :
          /\ s.user # Nobody => Exists(s.user)'
          /\ session' = [session EXCEPT ![b] = s]
    /\ calls' \in [Browsers -> Nat]

\* A step of one browser keeps the types if the tables keep theirs.
LEMMA MoveTyped ==
    ASSUME SessionsTypeInv, NEW b \in Browsers, Moves(b), AccountsStay,
           now' \in Nat, account' \in [Persons -> AccountRows \cup {NoRow}],
           program' \subseteq Programs, flows' \in [Browsers -> SUBSET Flows],
           jobs' \in [Persons -> Nat], welcomed' \in [Persons -> Nat],
           lost' \subseteq Persons, changed' \in [Persons -> OrUndefined(Nat)]
    PROVE  SessionsTypeInv' /\ AccountsStay
<1>1. SessionsTypeOK'
  BY DEF SessionsTypeInv, SessionsTypeOK, Moves
<1>2. ASSUME NEW c \in Browsers
      PROVE  /\ HasUser(req[c])'
             /\ session'[c].user # Nobody => Exists(session[c].user)'
  <2>1. CASE c = b
    BY <2>1 DEF SessionsTypeInv, SessionsTypeOK, Moves, HasUser, Exists
  <2>2. CASE c # b
    <3>1. req'[c] = req[c] /\ session'[c] = session[c]
      BY <2>2 DEF SessionsTypeInv, SessionsTypeOK, Moves
    <3>2. req[c] \in Requests /\ session[c] \in SessionRows
      BY DEF SessionsTypeInv, SessionsTypeOK
    <3> QED
      BY <3>1, <3>2 DEF SessionsTypeInv, HasUser, AccountsStay, SessionRows, Exists
  <2> QED
    BY <2>1, <2>2
<1> QED
  BY <1>1, <1>2 DEF SessionsTypeInv

\* The request that requests start from.
LEMMA IdleTyped == Idle \in Requests /\ Idle.pc = "idle" /\ ~Idle.renewed
  BY DEF Idle, Requests, PCs, OrUndefined

\* A browser whose session and tables stay moves on with a request that fits.
LEMMA GotoTyped ==
    ASSUME SessionsTypeInv, NEW b \in Browsers, NEW request \in Requests,
           HasUser(request)', AccountsStay,
           req' = [req EXCEPT ![b] = request], session' = session,
           calls' \in [Browsers -> Nat]
    PROVE  Moves(b)
<1>1. session[b] \in SessionRows /\ session' = [session EXCEPT ![b] = session[b]]
  BY DEF SessionsTypeInv, SessionsTypeOK
<1>2. session[b].user # Nobody => Exists(session[b].user)'
  BY <1>1 DEF SessionsTypeInv, AccountsStay, SessionRows, Exists
<1> QED
  BY <1>1, <1>2 DEF Moves

\* A response ends the request; a session that was renewed has its user.
LEMMA RespondTyped ==
    ASSUME SessionsTypeInv, NEW b \in Browsers, Respond(b), AccountsStay
    PROVE  Moves(b)
<1>1. Idle \in Requests /\ HasUser(Idle)'
  BY DEF Idle, Requests, PCs, HasUser, OrUndefined
<1>2. calls' \in [Browsers -> Nat] /\ req' = [req EXCEPT ![b] = Idle]
  BY DEF Respond, SessionsTypeInv, SessionsTypeOK
<1>3. req[b] \in Requests /\ HasUser(req[b])
  BY DEF SessionsTypeInv, SessionsTypeOK
<1>4. CASE req[b].renewed
  <2>1. PICK s : /\ s = [user |-> req[b].user, codeVerifier |-> 0]
                 /\ session' = [session EXCEPT ![b] = s]
    BY <1>4 DEF Respond
  <2>2. s.user \in Persons /\ Exists(s.user)'
    BY <1>3, <1>4, <2>1 DEF HasUser, AccountsStay, Exists
  <2>3. s \in SessionRows
    BY <2>1, <2>2 DEF SessionRows
  <2> QED
    BY <1>1, <1>2, <2>1, <2>2, <2>3 DEF Moves
<1>5. CASE ~req[b].renewed
  <2>1. session' = session
    BY <1>5 DEF Respond
  <2> QED
    BY <1>1, <1>2, <2>1, GotoTyped
<1> QED
  BY <1>4, <1>5

\* The requests a browser begins, from its first step to its first await.
LEMMA BeginTypes ==
    ASSUME SessionsTypeInv, NEW b \in Browsers,
           \/ GenerateAuthorizationUrl(b) \/ Callback(b) \/ Logout(b)
           \/ UpdateUser(b) \/ SuperUpdateUser(b)
    PROVE  SessionsTypeInv' /\ AccountsStay
<1>1. calls[b] + 1 \in Nat /\ calls \in [Browsers -> Nat]
  BY DEF SessionsTypeInv, SessionsTypeOK
<1>2. \A request : Begin(b, request) =>
          /\ calls' \in [Browsers -> Nat] /\ calls'[b] \in Nat
          /\ req' = [req EXCEPT ![b] = request]
  BY <1>1 DEF Begin
<1>3. Idle \in Requests /\ HasUser(Idle) /\ HasUser(Idle)'
  BY DEF Idle, Requests, PCs, HasUser, OrUndefined
<1>4. account \in [Persons -> AccountRows \cup {NoRow}] /\ session[b] \in SessionRows
      /\ flows \in [Browsers -> SUBSET Flows]
  BY DEF SessionsTypeInv, SessionsTypeOK
<1>5. CASE GenerateAuthorizationUrl(b)
  <2> USE DEF GenerateAuthorizationUrl
  <2>1. AccountsStay /\ account' = account
    BY <1>5 DEF users, AccountsStay, Exists
  <2> DEFINE s == [session[b] EXCEPT !.codeVerifier = calls'[b]]
  <2>2. Begin(b, Idle) /\ session' = [session EXCEPT ![b] = s]
    BY <1>4, <1>5
  <2>3. s \in SessionRows /\ s.user = session[b].user
    BY <1>2, <1>4, <2>2 DEF SessionRows
  <2>4. Moves(b)
    BY <1>2, <1>3, <2>1, <2>2, <2>3 DEF Moves, SessionsTypeInv, Exists
  <2>5. flows' \in [Browsers -> SUBSET Flows]
    <3>1. PICK kind \in Kinds \cup {"refused"} :
              flows' = [flows EXCEPT ![b] = @ \cup
                 IF kind = "refused" THEN {}
                 ELSE {[codeVerifier |-> calls'[b], kind |-> kind]}]
      BY <1>5
    <3>2. calls'[b] \in Nat
      BY <1>2, <2>2
    <3> QED
      BY <1>4, <3>1, <3>2 DEF Flows, Kinds
  <2>6. now' = now /\ program' = program /\ jobs' = jobs /\ welcomed' = welcomed
        /\ lost' = lost /\ changed' = changed
    BY <1>5 DEF users, mail
  <2> HIDE DEF GenerateAuthorizationUrl
  <2> QED
    BY <2>1, <2>4, <2>5, <2>6, MoveTyped DEF SessionsTypeInv, SessionsTypeOK
<1>6. CASE Callback(b)
  <2>1. PICK f \in flows[b] :
        /\ flows' = [flows EXCEPT ![b] = @ \ {f}]
        /\ Begin(b, CASE session[b].codeVerifier # f.codeVerifier -> Idle
                      [] f.kind = "login" /\ session[b].codeVerifier = f.codeVerifier ->
                            [Idle EXCEPT !.pc = "getUser", !.user = PersonAt[b]]
                      [] OTHER ->
                            IF session[b].user = Nobody THEN Idle
                            ELSE [Idle EXCEPT !.pc = "groups",
                                              !.user = session[b].user])
    BY <1>6 DEF Callback
  <2>2. UNCHANGED <<now, users, session, mail, changed>>
    BY <1>6 DEF Callback
  <2>3. AccountsStay
    BY <2>2 DEF users, AccountsStay, Exists
  <2>0. PICK login, groups :
          /\ login = [Idle EXCEPT !.pc = "getUser", !.user = PersonAt[b]]
          /\ groups = [Idle EXCEPT !.pc = "groups", !.user = session[b].user]
    OBVIOUS
  <2>4. login \in Requests /\ HasUser(login)'
    <3>1. PersonAt[b] \in Persons
      BY SessionsAssumption
    <3>2. login \in Requests
      BY <2>0, <3>1, IdleTyped DEF Requests, PCs
    <3>3. login.pc = "getUser" /\ login.user = PersonAt[b] /\ ~login.renewed
      BY <2>0, IdleTyped DEF Requests
    <3> QED
      BY <3>1, <3>2, <3>3 DEF HasUser
  <2>5. session[b].user # Nobody => groups \in Requests /\ HasUser(groups)'
    <3> SUFFICES ASSUME session[b].user # Nobody
                 PROVE  groups \in Requests /\ HasUser(groups)'
      OBVIOUS
    <3>1. session[b].user \in Persons /\ Exists(session[b].user)
      BY <1>4 DEF SessionRows, SessionsTypeInv
    <3>2. groups \in Requests
      BY <2>0, <3>1, IdleTyped DEF Requests, PCs
    <3>3. groups.pc = "groups" /\ groups.user = session[b].user /\ ~groups.renewed
      BY <2>0, IdleTyped DEF Requests
    <3>4. Exists(groups.user)'
      BY <2>3, <3>1, <3>3 DEF AccountsStay, Exists
    <3> QED
      BY <3>1, <3>2, <3>3, <3>4 DEF HasUser
  <2>6. \/ Begin(b, Idle) \/ Begin(b, login)
        \/ session[b].user # Nobody /\ Begin(b, groups)
    <3>1. PICK request :
          /\ request = CASE session[b].codeVerifier # f.codeVerifier -> Idle
                      [] f.kind = "login" /\ session[b].codeVerifier = f.codeVerifier ->
                            login
                      [] OTHER -> IF session[b].user = Nobody THEN Idle ELSE groups
          /\ Begin(b, request)
      BY <2>0, <2>1
    <3>2. request = Idle \/ request = login \/ (session[b].user # Nobody /\ request = groups)
      BY <3>1
    <3> QED
      BY <3>1, <3>2
  <2>7. Moves(b)
    BY <1>2, <1>3, <2>2, <2>3, <2>4, <2>5, <2>6, GotoTyped
  <2> QED
    BY <1>4, <2>1, <2>2, <2>3, <2>7, MoveTyped
       DEF SessionsTypeInv, SessionsTypeOK, users, mail
<1>7. CASE Logout(b)
  <2>1. AccountsStay /\ LoggedOut \in SessionRows /\ LoggedOut.user = Nobody
    BY <1>7 DEF Logout, users, AccountsStay, Exists, LoggedOut, SessionRows
  <2>2. Moves(b)
    BY <1>2, <1>3, <1>7, <2>1 DEF Logout, Moves
  <2> QED
    BY <1>7, <2>1, <2>2, MoveTyped DEF Logout, SessionsTypeInv, SessionsTypeOK, users, mail
<1>8. CASE UpdateUser(b)
  <2>1. PICK year \in OrUndefined(MayYear[b]) :
        /\ session[b].user # Nobody
        /\ Begin(b, [Idle EXCEPT !.pc = "readUser", !.user = session[b].user,
                                 !.year = year])
        /\ UNCHANGED <<now, users, session, flows, mail, changed>>
    BY <1>8 DEF UpdateUser
  <2>0. PICK request : request = [Idle EXCEPT !.pc = "readUser",
                            !.user = session[b].user, !.year = year]
    OBVIOUS
  <2>2. AccountsStay
    BY <2>1 DEF users, AccountsStay, Exists
  <2>3. year \in OrUndefined(Years)
    BY SessionsAssumption DEF OrUndefined
  <2>4. request \in Requests /\ HasUser(request)'
    <3>1. session[b].user \in Persons /\ Exists(session[b].user)
      BY <1>4, <2>1 DEF SessionRows, SessionsTypeInv
    <3>2. request \in Requests
      BY <2>0, <2>3, <3>1, IdleTyped DEF Requests, PCs
    <3>3. request.pc = "readUser" /\ request.user = session[b].user /\ ~request.renewed
      BY <2>0, IdleTyped DEF Requests
    <3>4. Exists(request.user)'
      BY <2>2, <3>1, <3>3 DEF AccountsStay, Exists
    <3> QED
      BY <3>1, <3>2, <3>3, <3>4 DEF HasUser
  <2>5. Moves(b)
    BY <1>2, <2>0, <2>1, <2>2, <2>4, GotoTyped
  <2> QED
    BY <2>1, <2>2, <2>5, MoveTyped DEF SessionsTypeInv, SessionsTypeOK, users, mail
<1>9. CASE SuperUpdateUser(b)
  <2>1. PICK p \in Persons, year \in MayYear[b] :
        /\ Exists(p) /\ Begin(b, Idle)
        /\ account' = [account EXCEPT ![p].graduationYear = year]
        /\ UNCHANGED <<now, program, session, flows, mail, changed>>
    BY <1>9 DEF SuperUpdateUser
  <2> DEFINE row == [account[p] EXCEPT !.graduationYear = year]
  <2>2. account[p] \in AccountRows /\ year \in Years
    BY <1>4, <2>1, SessionsAssumption DEF Exists
  <2>3. row \in AccountRows
    BY <2>2 DEF AccountRows, OrUndefined
  <2>4. row # NoRow
    BY <2>3, SessionsAssumption
  <2>5. /\ account' \in [Persons -> AccountRows \cup {NoRow}]
        /\ AccountsStay
    BY <1>4, <2>1, <2>3, <2>4 DEF AccountsStay, Exists
  <2>6. Moves(b)
    BY <1>2, <1>3, <2>1, <2>5, GotoTyped
  <2> QED
    BY <2>1, <2>5, <2>6, MoveTyped DEF SessionsTypeInv, SessionsTypeOK, mail
<1> QED
  BY <1>5, <1>6, <1>7, <1>8, <1>9

\* A browser that goes on with its request reads and writes one table at most.
LEMMA ReadingTypes ==
    ASSUME SessionsTypeInv, NEW b \in Browsers,
           \/ GetByFeideID(b) \/ SendRegistration(b) \/ Login(b) \/ FetchGroups(b)
           \/ GetStudyProgram(b) \/ ReadForStudyProgram(b) \/ ReadUser(b)
    PROVE  SessionsTypeInv' /\ AccountsStay
<1>1. /\ account \in [Persons -> AccountRows \cup {NoRow}]
      /\ req[b] \in Requests /\ HasUser(req[b])
      /\ calls \in [Browsers -> Nat] /\ jobs \in [Persons -> Nat] /\ now \in Nat
  BY DEF SessionsTypeInv, SessionsTypeOK
<1>2. account' = account /\ AccountsStay /\ \A r : HasUser(r)' <=> HasUser(r)
  BY DEF GetByFeideID, SendRegistration, Login, FetchGroups, GetStudyProgram,
         ReadForStudyProgram, ReadUser, users, AccountsStay, HasUser, Exists
<1>3. \A request \in Requests :
          HasUser(request) /\ Goto(b, request) => Moves(b)
  BY <1>1, <1>2, GotoTyped DEF Goto
<1>4. Moves(b)
  <2>1. CASE GetByFeideID(b)
    <3>1. PICK found \in BOOLEAN :
            /\ req[b].pc = "getUser"
            /\ found => Exists(req[b].user)
            /\ Goto(b, [req[b] EXCEPT !.pc = IF found THEN "login" ELSE "create"])
      BY <2>1 DEF GetByFeideID
    <3>2. PICK r : r = [req[b] EXCEPT !.pc = IF found THEN "login" ELSE "create"]
      OBVIOUS
    <3>3. r \in Requests /\ HasUser(r)
      BY <1>1, <3>1, <3>2 DEF Requests, PCs, HasUser
    <3> QED
      BY <1>3, <3>1, <3>2, <3>3
  <2>2. CASE SendRegistration(b)
    <3>1. PICK r : r = [req[b] EXCEPT !.pc = "login"]
      OBVIOUS
    <3>2. r \in Requests /\ HasUser(r)
      BY <1>1, <2>2, <3>1 DEF Requests, PCs, HasUser, SendRegistration
    <3> QED
      BY <1>3, <2>2, <3>1, <3>2 DEF SendRegistration
  <2>3. CASE Login(b)
    <3>1. PICK r : r = [req[b] EXCEPT !.pc = "groups", !.renewed = TRUE]
      OBVIOUS
    <3>2. r \in Requests /\ HasUser(r)
      BY <1>1, <2>3, <3>1 DEF Requests, PCs, HasUser, Login
    <3> QED
      BY <1>3, <2>3, <3>1, <3>2 DEF Login
  <2>4. CASE FetchGroups(b)
    <3>1. PICK list \in Tells[PersonAt[b]] :
            IF list = <<>> THEN Respond(b)
            ELSE Goto(b, [req[b] EXCEPT !.pc = "programs", !.todo = list,
                                        !.programs = list])
      BY <2>4 DEF FetchGroups
    <3>2. CASE list = <<>>
      BY <1>2, <3>1, <3>2, RespondTyped
    <3>3. CASE list # <<>>
      <4>1. PICK r : r = [req[b] EXCEPT !.pc = "programs", !.todo = list,
                                        !.programs = list]
        OBVIOUS
      <4>2. list \in Seq(Programs)
        BY <3>1, SessionsAssumption
      <4>3. r \in Requests
        BY <1>1, <4>1, <4>2 DEF Requests, PCs
      <4>4. HasUser(r)
        BY <1>1, <2>4, <3>3, <4>1 DEF Requests, HasUser, FetchGroups
      <4> QED
        BY <1>3, <3>1, <3>3, <4>1, <4>3, <4>4
    <3> QED
      BY <3>2, <3>3
  <2>5. CASE GetStudyProgram(b)
    <3>1. req[b].todo \in Seq(Programs) /\ req[b].todo # <<>>
      BY <1>1, <2>5 DEF Requests, GetStudyProgram
    <3>2. PICK r : r = IF Head(req[b].todo) \in program
                       THEN [req[b] EXCEPT !.todo = Tail(@)]
                       ELSE [req[b] EXCEPT !.pc = "createProgram"]
      OBVIOUS
    <3>3. Tail(req[b].todo) \in Seq(Programs)
      BY <3>1
    <3>4. r \in Requests
      BY <1>1, <3>2, <3>3 DEF Requests, PCs
    <3>5. HasUser(r)
      BY <1>1, <2>5, <3>1, <3>2 DEF Requests, HasUser, GetStudyProgram
    <3> QED
      BY <1>3, <2>5, <3>2, <3>4, <3>5 DEF GetStudyProgram
  <2>6. CASE ReadForStudyProgram(b)
    <3>1. account[req[b].user].firstLogin \in BOOLEAN
      BY <1>1, <2>6 DEF ReadForStudyProgram, HasUser, Exists, AccountRows
    <3>2. PICK r : r = [req[b] EXCEPT !.pc = "writeProgram",
                              !.first = account[req[b].user].firstLogin]
      OBVIOUS
    <3>3. r \in Requests /\ HasUser(r)
      BY <1>1, <2>6, <3>1, <3>2 DEF Requests, PCs, HasUser, ReadForStudyProgram
    <3> QED
      BY <1>3, <2>6, <3>2, <3>3 DEF ReadForStudyProgram
  <2>7. CASE ReadUser(b)
    <3>1. account[req[b].user] \in AccountRows
      BY <1>1, <2>7 DEF ReadUser, HasUser, Exists
    <3>2. PICK row : row = account[req[b].user]
      OBVIOUS
    <3>3. PICK year, stamp :
            /\ year = IF row.firstLogin \/ CanUpdateYear(row)
                      THEN req[b].year ELSE Undefined
            /\ stamp = IF /\ ~row.firstLogin /\ CanUpdateYear(row)
                          /\ req[b].year \notin {Undefined, row.graduationYear}
                       THEN now ELSE Undefined
      OBVIOUS
    <3>4. PICK r : r = [req[b] EXCEPT !.pc = "writeUser", !.first = row.firstLogin,
                             !.readAt = now, !.year = year, !.stamp = stamp]
      OBVIOUS
    <3>5. /\ row.firstLogin \in BOOLEAN /\ year \in OrUndefined(Years)
          /\ stamp \in OrUndefined(Nat)
      BY <1>1, <3>1, <3>2, <3>3 DEF AccountRows, Requests, OrUndefined
    <3>6. r \in Requests
      BY <1>1, <3>4, <3>5 DEF Requests, PCs
    <3>7. HasUser(r)
      BY <1>1, <2>7, <3>4 DEF Requests, HasUser, ReadUser
    <3>8. Goto(b, r)
      BY <2>7, <3>2, <3>3, <3>4 DEF ReadUser
    <3> QED
      BY <1>3, <3>6, <3>7, <3>8
  <2> QED
    BY <2>1, <2>2, <2>3, <2>4, <2>5, <2>6, <2>7
<1>5. jobs' \in [Persons -> Nat]
  <2>1. CASE SendRegistration(b)
    <3>1. req[b].user \in Persons /\ jobs' = [jobs EXCEPT ![req[b].user] = @ + 1]
      BY <1>1, <2>1 DEF SendRegistration, HasUser
    <3> QED
      BY <1>1, <3>1
  <2>2. CASE ~SendRegistration(b)
    BY <1>1, <2>2 DEF GetByFeideID, Login, FetchGroups, GetStudyProgram,
         ReadForStudyProgram, ReadUser, mail
  <2> QED
    BY <2>1, <2>2
<1>6. /\ now' = now /\ program' = program /\ flows' = flows
      /\ welcomed' = welcomed /\ lost' = lost /\ changed' = changed
  BY DEF GetByFeideID, SendRegistration, Login, FetchGroups, GetStudyProgram,
         ReadForStudyProgram, ReadUser, users, mail
<1> QED
  BY <1>1, <1>2, <1>4, <1>5, <1>6, MoveTyped DEF SessionsTypeInv, SessionsTypeOK

\* So does a browser that goes on to write the user or a study program.
LEMMA WritingTypes ==
    ASSUME SessionsTypeInv, NEW b \in Browsers,
           \/ CreateUser(b) \/ CreateStudyProgram(b)
           \/ WriteStudyProgram(b) \/ WriteUser(b)
    PROVE  SessionsTypeInv' /\ AccountsStay
<1>1. /\ account \in [Persons -> AccountRows \cup {NoRow}]
      /\ req[b] \in Requests /\ HasUser(req[b]) /\ req[b].user \in Persons
      /\ calls \in [Browsers -> Nat] /\ program \subseteq Programs
      /\ changed \in [Persons -> OrUndefined(Nat)]
  BY DEF SessionsTypeInv, SessionsTypeOK, HasUser, CreateUser, CreateStudyProgram,
         WriteStudyProgram, WriteUser
<1>2. /\ now' = now /\ flows' = flows
      /\ jobs' = jobs /\ welcomed' = welcomed /\ lost' = lost
  BY DEF CreateUser, CreateStudyProgram, WriteStudyProgram, WriteUser, mail
<1>3. \A row \in AccountRows :
          account' = [account EXCEPT ![req[b].user] = row] =>
              /\ AccountsStay
              /\ account' \in [Persons -> AccountRows \cup {NoRow}]
              /\ account'[req[b].user] # NoRow
  <2> TAKE row \in AccountRows
  <2> SUFFICES ASSUME account' = [account EXCEPT ![req[b].user] = row]
               PROVE  /\ AccountsStay
                      /\ account' \in [Persons -> AccountRows \cup {NoRow}]
                      /\ account'[req[b].user] # NoRow
    OBVIOUS
  <2>1. row # NoRow
    BY SessionsAssumption
  <2> QED
    BY <1>1, <2>1 DEF AccountsStay, Exists
<1>4. CASE CreateUser(b)
  <2>1. program' = program /\ changed' = changed
    BY <1>4 DEF CreateUser
  <2>2. CASE Exists(req[b].user)
    <3>1. Respond(b) /\ account' = account
      BY <1>4, <2>2 DEF CreateUser
    <3>2. AccountsStay
      BY <3>1 DEF AccountsStay, Exists
    <3> QED
      BY <1>2, <2>1, <3>1, <3>2, RespondTyped, MoveTyped
         DEF SessionsTypeInv, SessionsTypeOK
  <2>3. CASE ~Exists(req[b].user)
    <3>1. /\ account' = [account EXCEPT ![req[b].user] = NewAccount]
          /\ Goto(b, [req[b] EXCEPT !.pc = "mail"])
      BY <1>4, <2>3 DEF CreateUser
    <3>2. NewAccount \in AccountRows
      BY DEF NewAccount, AccountRows, OrUndefined
    <3>3. /\ AccountsStay /\ account'[req[b].user] # NoRow
          /\ account' \in [Persons -> AccountRows \cup {NoRow}]
      BY <1>3, <3>1, <3>2
    <3>4. PICK r : r = [req[b] EXCEPT !.pc = "mail"]
      OBVIOUS
    <3>5. r \in Requests
      BY <1>1, <3>4 DEF Requests, PCs
    <3>6. r.pc = "mail" /\ r.user = req[b].user
      BY <1>1, <3>4 DEF Requests
    <3>7. HasUser(r)'
      BY <1>1, <3>3, <3>6 DEF HasUser, Exists
    <3>8. Moves(b)
      BY <1>1, <3>1, <3>3, <3>4, <3>5, <3>7, GotoTyped DEF Goto
    <3> QED
      BY <1>2, <2>1, <3>3, <3>8, MoveTyped DEF SessionsTypeInv, SessionsTypeOK
  <2> QED
    BY <2>2, <2>3
<1>5. CASE CreateStudyProgram(b)
  <2>1. account' = account /\ AccountsStay /\ changed' = changed
    BY <1>5 DEF CreateStudyProgram, AccountsStay, Exists
  <2>2. req[b].todo \in Seq(Programs) /\ req[b].todo # <<>> /\ req[b].programs # <<>>
    BY <1>1, <1>5 DEF CreateStudyProgram, Requests, HasUser
  <2>3. Head(req[b].todo) \in Programs /\ Tail(req[b].todo) \in Seq(Programs)
    BY <2>2
  <2>4. program' \subseteq Programs
    BY <1>1, <1>5, <2>3 DEF CreateStudyProgram
  <2>5. CASE Respond(b)
    BY <1>2, <2>1, <2>4, <2>5, RespondTyped, MoveTyped
       DEF SessionsTypeInv, SessionsTypeOK
  <2>6. CASE ~Respond(b)
    <3>1. PICK r : r = [req[b] EXCEPT !.pc = "programs", !.todo = Tail(@)]
      OBVIOUS
    <3>2. Goto(b, r)
      BY <1>5, <2>6, <3>1 DEF CreateStudyProgram
    <3>3. r \in Requests
      BY <1>1, <2>3, <3>1 DEF Requests, PCs
    <3>4. HasUser(r)'
      BY <1>1, <1>5, <2>1, <2>2, <3>1 DEF Requests, HasUser, CreateStudyProgram, Exists
    <3>5. Moves(b)
      BY <1>1, <2>1, <3>2, <3>3, <3>4, GotoTyped DEF Goto
    <3> QED
      BY <1>2, <2>1, <2>4, <3>5, MoveTyped DEF SessionsTypeInv, SessionsTypeOK
  <2> QED
    BY <2>5, <2>6
<1>6. CASE WriteStudyProgram(b)
  <2>1. account[req[b].user] \in AccountRows
    BY <1>1, <1>6 DEF WriteStudyProgram, HasUser, Exists
  <2>2. req[b].programs \in Seq(Programs) /\ req[b].programs # <<>>
    BY <1>1, <1>6 DEF WriteStudyProgram, Requests, HasUser
  <2>3. PICK row : row = [account[req[b].user] EXCEPT
             !.confirmedStudyProgram = Head(req[b].programs),
             !.enrolledStudyPrograms =
                {req[b].programs[i] : i \in DOMAIN req[b].programs},
             !.firstLogin = @ /\ ~req[b].first]
    OBVIOUS
  <2>4. Head(req[b].programs) \in Programs
        /\ {req[b].programs[i] : i \in DOMAIN req[b].programs} \subseteq Programs
    BY <2>2
  <2>5. row \in AccountRows
    <3>1. account[req[b].user].firstLogin \in BOOLEAN
      BY <2>1 DEF AccountRows
    <3>2. (account[req[b].user].firstLogin /\ ~req[b].first) \in BOOLEAN
      OBVIOUS
    <3> QED
      BY <2>1, <2>3, <2>4, <3>2 DEF AccountRows, OrUndefined
  <2>6. account' = [account EXCEPT ![req[b].user] = row] /\ Respond(b)
        /\ program' = program /\ changed' = changed
    BY <1>1, <1>6, <2>3 DEF WriteStudyProgram
  <2> QED
    BY <1>2, <1>3, <2>5, <2>6, RespondTyped, MoveTyped
       DEF SessionsTypeInv, SessionsTypeOK
<1>7. CASE WriteUser(b)
  <2>1. account[req[b].user] \in AccountRows
    BY <1>1, <1>7 DEF WriteUser, HasUser, Exists
  <2>2. PICK row : row = [account[req[b].user] EXCEPT
                   !.graduationYear = Or(req[b].year, @),
                   !.graduationYearUpdatedAt = Or(req[b].stamp, @),
                   !.firstLogin = @ /\ ~req[b].first]
    OBVIOUS
  <2>3. row \in AccountRows
    <3>1. PICK y, stamp, first :
             /\ y = Or(req[b].year, account[req[b].user].graduationYear)
             /\ stamp = Or(req[b].stamp, account[req[b].user].graduationYearUpdatedAt)
             /\ first = (account[req[b].user].firstLogin /\ ~req[b].first)
      OBVIOUS
    <3>2. y \in OrUndefined(Years) /\ stamp \in OrUndefined(Nat)
      BY <1>1, <2>1, <3>1 DEF Or, Requests, AccountRows, OrUndefined
    <3>3. first \in BOOLEAN
      BY <3>1
    <3>4. row = [account[req[b].user] EXCEPT !.graduationYear = y,
                   !.graduationYearUpdatedAt = stamp, !.firstLogin = first]
      BY <2>2, <3>1
    <3> QED
      BY <2>1, <3>2, <3>3, <3>4 DEF AccountRows
  <2>4. account' = [account EXCEPT ![req[b].user] = row] /\ Respond(b)
        /\ program' = program
    BY <1>7, <2>2 DEF WriteUser
  <2>5. changed' \in [Persons -> OrUndefined(Nat)]
    <3>1. req[b].readAt \in Nat
      BY <1>1 DEF Requests
    <3>2. changed' = changed \/ changed' = [changed EXCEPT ![req[b].user] = req[b].readAt]
      BY <1>7 DEF WriteUser
    <3> QED
      BY <1>1, <3>1, <3>2 DEF OrUndefined
  <2> QED
    BY <1>2, <1>3, <2>3, <2>4, <2>5, RespondTyped, MoveTyped
       DEF SessionsTypeInv, SessionsTypeOK
<1> QED
  BY <1>4, <1>5, <1>6, <1>7

\* A request that fails ends, in its response or with its process.
LEMMA FailingTypes ==
    ASSUME SessionsTypeInv, NEW b \in Browsers, RequestThrows(b) \/ ProcessDies(b)
    PROVE  SessionsTypeInv' /\ AccountsStay
<1>1. AccountsStay
  BY DEF RequestThrows, ProcessDies, users, AccountsStay, Exists
<1>2. Moves(b)
  <2>1. CASE RequestThrows(b)
    BY <1>1, <2>1, RespondTyped DEF RequestThrows
  <2>2. CASE ProcessDies(b)
    BY <1>1, <2>2, IdleTyped, GotoTyped
       DEF ProcessDies, Goto, HasUser, SessionsTypeInv, SessionsTypeOK
  <2> QED
    BY <2>1, <2>2
<1>3. lost' \subseteq Persons
  <2>1. req[b].pc = "mail" => req[b].user \in Persons
    BY DEF SessionsTypeInv, HasUser
  <2> QED
    BY <2>1 DEF RequestThrows, ProcessDies, Unannounced, SessionsTypeInv, SessionsTypeOK
<1>4. /\ now' = now /\ account' = account /\ program' = program /\ flows' = flows
      /\ jobs' = jobs /\ welcomed' = welcomed /\ changed' = changed
  BY DEF RequestThrows, ProcessDies, users
<1> QED
  BY <1>1, <1>2, <1>3, <1>4, MoveTyped DEF SessionsTypeInv, SessionsTypeOK

\* The first state and every step have the types.
LEMMA InitTypes == Init => SessionsTypeInv
<1> SUFFICES ASSUME Init PROVE SessionsTypeInv
  OBVIOUS
<1> USE DEF Init
<1>1. now \in Nat /\ program \subseteq Programs /\ lost \subseteq Persons
      /\ account \in [Persons -> AccountRows \cup {NoRow}]
      /\ jobs \in [Persons -> Nat] /\ welcomed \in [Persons -> Nat]
      /\ calls \in [Browsers -> Nat]
      /\ changed \in [Persons -> OrUndefined(Nat)]
  BY SessionsAssumption DEF OrUndefined
<1>2. session \in [Browsers -> SessionRows]
  <2>1. ASSUME NEW b \in Browsers
        PROVE  session[b] \in SessionRows
    <3>1. InitialUsers[b] \in Persons \cup {Nobody} /\ InitialFlow[b] \in Flows \cup {NoRow}
      BY SessionsAssumption
    <3> QED
      BY <3>1 DEF SessionRows, Flows
  <2> QED
    BY <2>1
<1>3. flows \in [Browsers -> SUBSET Flows]
  BY SessionsAssumption
<1>4. req \in [Browsers -> Requests] /\ \A b \in Browsers : req[b] = Idle
  BY IdleTyped
<1>5. SessionsTypeOK
  BY <1>1, <1>2, <1>3, <1>4 DEF SessionsTypeOK
<1>6. ASSUME NEW b \in Browsers
      PROVE  HasUser(req[b]) /\ (session[b].user # Nobody => Exists(session[b].user))
  <2>1. HasUser(req[b])
    BY <1>4, IdleTyped DEF HasUser
  <2>2. session[b].user = InitialUsers[b]
    OBVIOUS
  <2> QED
    BY <2>1, <2>2, SessionsAssumption DEF Exists
<1> QED
  BY <1>5, <1>6 DEF SessionsTypeInv

\* Every step of a browser keeps the types, and the accounts.
LEMMA BrowserTypes ==
    ASSUME SessionsTypeInv, NEW b \in Browsers, Browser(b)
    PROVE  SessionsTypeInv' /\ AccountsStay
  BY BeginTypes, ReadingTypes, WritingTypes, FailingTypes DEF Browser, Continue

\* Every step keeps the types.
LEMMA NextTypes == SessionsTypeInv /\ [Next]_vars => SessionsTypeInv'
<1> SUFFICES ASSUME SessionsTypeInv, [Next]_vars PROVE SessionsTypeInv'
  OBVIOUS
<1>1. ASSUME NEW b \in Browsers, Browser(b) PROVE SessionsTypeInv'
  BY <1>1, BrowserTypes
<1>2. ASSUME NEW p \in Persons, Welcome(p) PROVE SessionsTypeInv'
  <2>1. jobs[p] - 1 \in Nat /\ welcomed[p] + 1 \in Nat
    BY <1>2 DEF Welcome, SessionsTypeInv, SessionsTypeOK
  <2>2. jobs' \in [Persons -> Nat] /\ welcomed' \in [Persons -> Nat] /\ lost' \subseteq Persons
    BY <1>2, <2>1 DEF Welcome, SessionsTypeInv, SessionsTypeOK
  <2> QED
    BY <1>2, <2>2 DEF Welcome, users, SessionsTypeInv, SessionsTypeOK, HasUser, Exists
<1>3. CASE Tick
  BY <1>3 DEF Tick, users, mail, SessionsTypeInv, SessionsTypeOK, HasUser, Exists
<1>4. CASE UNCHANGED vars
  BY <1>4 DEF vars, users, mail, SessionsTypeInv, SessionsTypeOK, HasUser, Exists
<1> QED
  BY <1>1, <1>2, <1>3, <1>4 DEF Next

\* The types hold at all times.
LEMMA TypesHold == Spec => []SessionsTypeInv
  BY InitTypes, NextTypes, PTL DEF Spec

\* Every variable has its type.
THEOREM SessionsTypeCorrect == Spec => []SessionsTypeOK
<1>1. SessionsTypeInv => SessionsTypeOK
  BY DEF SessionsTypeInv
<1> QED
  BY <1>1, TypesHold, PTL

-----------------------------------------------------------------------------
(* The steps of a browser: its own request only moves, and each step of a   *)
(* request is entered from one place.                                       *)

\* Only the browser's own request moves; each of these steps has its entries.
LEMMA StepOfBrowser ==
    ASSUME SessionsTypeInv, NEW b \in Browsers, Browser(b)
    PROVE  /\ \A c \in Browsers \ {b} : req'[c] = req[c]
           /\ req'[b].pc = "mail" => CreateUser(b)
           /\ req'[b].pc = "readUser" => UpdateUser(b)
           /\ req'[b].pc = "writeUser" => ReadUser(b)
           /\ req'[b].pc \in {"programs", "createProgram", "writeProgram"} =>
                 \/ FetchGroups(b) \/ GetStudyProgram(b) \/ CreateStudyProgram(b)
                 \/ ReadForStudyProgram(b)
<1>1. req \in [Browsers -> Requests] /\ req[b] \in Requests
      /\ Idle \in Requests /\ Idle.pc = "idle"
  BY IdleTyped DEF SessionsTypeInv, SessionsTypeOK
<1>2. ASSUME NEW r, r.pc \notin {"mail", "readUser", "writeUser", "programs", "createProgram",
                                 "writeProgram"},
             req' = [req EXCEPT ![b] = r]
      PROVE  /\ \A c \in Browsers \ {b} : req'[c] = req[c]
             /\ req'[b].pc \notin {"mail", "readUser", "writeUser", "programs", "createProgram",
                                   "writeProgram"}
  BY <1>1, <1>2
<1>3. Respond(b) \/ Goto(b, Idle) \/ Begin(b, Idle) =>
          req' = [req EXCEPT ![b] = Idle]
  BY DEF Respond, Goto, Begin
<1>4. CASE \/ GenerateAuthorizationUrl(b) \/ Logout(b) \/ SuperUpdateUser(b)
           \/ RequestThrows(b) \/ ProcessDies(b)
           \/ WriteStudyProgram(b) \/ WriteUser(b)
  BY <1>1, <1>2, <1>3, <1>4 DEF GenerateAuthorizationUrl, Logout, SuperUpdateUser,
     RequestThrows, ProcessDies, WriteStudyProgram, WriteUser
<1>5. CASE Callback(b)
  <2>1. PICK login, groups :
          /\ login = [Idle EXCEPT !.pc = "getUser", !.user = PersonAt[b]]
          /\ groups = [Idle EXCEPT !.pc = "groups", !.user = session[b].user]
    OBVIOUS
  <2>2. login.pc = "getUser" /\ groups.pc = "groups"
    BY <1>1, <2>1 DEF Requests
  <2>3. PICK f, request :
          /\ request = CASE session[b].codeVerifier # f.codeVerifier -> Idle
                      [] f.kind = "login" /\ session[b].codeVerifier = f.codeVerifier ->
                            login
                      [] OTHER -> IF session[b].user = Nobody THEN Idle ELSE groups
          /\ Begin(b, request)
    BY <1>5, <2>1 DEF Callback
  <2>4. request \in {Idle, login, groups}
    BY <2>3
  <2>5. request.pc \in {"idle", "getUser", "groups"}
    BY <1>1, <2>2, <2>4
  <2>6. req' = [req EXCEPT ![b] = request]
    BY <2>3 DEF Begin
  <2> QED
    BY <1>2, <2>5, <2>6
<1>6. CASE UpdateUser(b)
  <2>1. PICK request, year :
          /\ request = [Idle EXCEPT !.pc = "readUser", !.user = session[b].user,
                                    !.year = year]
          /\ Begin(b, request)
    BY <1>6 DEF UpdateUser
  <2>2. request.pc = "readUser"
    BY <1>1, <2>1 DEF Requests
  <2> QED
    BY <1>1, <1>6, <2>1, <2>2 DEF Begin
<1>7. CASE GetByFeideID(b) \/ SendRegistration(b) \/ Login(b)
  <2>1. PICK r : Goto(b, r) /\ r.pc \in {"login", "create", "groups"}
    <3>1. CASE GetByFeideID(b)
      <4>1. PICK found : Goto(b, [req[b] EXCEPT !.pc = IF found THEN "login" ELSE "create"])
        BY <3>1 DEF GetByFeideID
      <4>2. PICK r : r = [req[b] EXCEPT !.pc = IF found THEN "login" ELSE "create"]
        OBVIOUS
      <4>3. r.pc \in {"login", "create"}
        BY <1>1, <4>2 DEF Requests
      <4> QED
        BY <4>1, <4>2, <4>3
    <3>2. CASE SendRegistration(b)
      <4>1. PICK r : r = [req[b] EXCEPT !.pc = "login"]
        OBVIOUS
      <4>2. r.pc = "login"
        BY <1>1, <4>1 DEF Requests
      <4> QED
        BY <3>2, <4>1, <4>2 DEF SendRegistration
    <3>3. CASE Login(b)
      <4>1. PICK r : r = [req[b] EXCEPT !.pc = "groups", !.renewed = TRUE]
        OBVIOUS
      <4>2. r.pc = "groups"
        BY <1>1, <4>1 DEF Requests
      <4> QED
        BY <3>3, <4>1, <4>2 DEF Login
    <3> QED
      BY <1>7, <3>1, <3>2, <3>3
  <2> QED
    BY <1>2, <2>1 DEF Goto
<1>8. CASE CreateUser(b)
  <2>1. CASE Respond(b)
    BY <1>2, <1>3, <1>1, <2>1
  <2>2. CASE ~Respond(b)
    <3>1. PICK r : r = [req[b] EXCEPT !.pc = "mail"] /\ Goto(b, r)
      BY <1>8, <2>2 DEF CreateUser
    <3>2. r.pc = "mail"
      BY <1>1, <3>1 DEF Requests
    <3> QED
      BY <1>1, <1>8, <3>1, <3>2 DEF Goto
  <2> QED
    BY <2>1, <2>2
<1>9. CASE ReadUser(b)
  <2>1. PICK year, stamp, first, readAt, r :
          /\ r = [req[b] EXCEPT !.pc = "writeUser", !.first = first, !.readAt = readAt,
                                !.year = year, !.stamp = stamp]
          /\ Goto(b, r)
    BY <1>9 DEF ReadUser
  <2>2. r.pc = "writeUser"
    BY <1>1, <2>1 DEF Requests
  <2> QED
    BY <1>1, <1>9, <2>1, <2>2 DEF Goto
<1>10. CASE FetchGroups(b) \/ GetStudyProgram(b) \/ CreateStudyProgram(b)
            \/ ReadForStudyProgram(b)
  <2>1. CASE Respond(b)
    BY <1>1, <1>2, <1>3, <2>1
  <2>2. CASE ~Respond(b)
    <3>1. PICK r : Goto(b, r) /\ r.pc \in {"programs", "createProgram", "writeProgram"}
      <4>1. CASE FetchGroups(b)
        <5>1. PICK list, r : r = [req[b] EXCEPT !.pc = "programs", !.todo = list,
                                      !.programs = list] /\ Goto(b, r)
          BY <2>2, <4>1 DEF FetchGroups
        <5>2. r.pc = "programs"
          BY <1>1, <5>1 DEF Requests
        <5> QED
          BY <5>1, <5>2
      <4>2. CASE GetStudyProgram(b)
        <5>1. PICK r : Goto(b, r) /\ \/ r = [req[b] EXCEPT !.todo = Tail(@)]
                                     \/ r = [req[b] EXCEPT !.pc = "createProgram"]
          BY <4>2 DEF GetStudyProgram
        <5>2. r.pc \in {"programs", "createProgram"}
          BY <1>1, <4>2, <5>1 DEF Requests, GetStudyProgram
        <5> QED
          BY <5>1, <5>2
      <4>3. CASE CreateStudyProgram(b)
        <5>1. PICK r : Goto(b, r) /\ r = [req[b] EXCEPT !.pc = "programs", !.todo = Tail(@)]
          BY <2>2, <4>3 DEF CreateStudyProgram
        <5>2. r.pc = "programs"
          BY <1>1, <5>1 DEF Requests
        <5> QED
          BY <5>1, <5>2
      <4>4. CASE ReadForStudyProgram(b)
        <5>1. PICK r, first : Goto(b, r) /\ r = [req[b] EXCEPT !.pc = "writeProgram",
                                                 !.first = first]
          BY <4>4 DEF ReadForStudyProgram
        <5>2. r.pc = "writeProgram"
          BY <1>1, <5>1 DEF Requests
        <5> QED
          BY <5>1, <5>2
      <4> QED
        BY <1>10, <4>1, <4>2, <4>3, <4>4
    <3> QED
      BY <1>1, <1>10, <3>1 DEF Goto
  <2> QED
    BY <2>1, <2>2
<1> QED
  BY <1>4, <1>5, <1>6, <1>7, <1>8, <1>9, <1>10 DEF Browser, Continue

\* Accounts are written by four steps and never deleted.
LEMMA TablesOfBrowser ==
    ASSUME SessionsTypeInv, NEW b \in Browsers, Browser(b)
    PROVE  /\ welcomed' = welcomed
           /\ SendRegistration(b) \/ jobs' = jobs
           /\ \/ CreateUser(b) \/ WriteStudyProgram(b) \/ WriteUser(b)
              \/ SuperUpdateUser(b) \/ account' = account
  BY DEF Browser, Continue, GenerateAuthorizationUrl, Callback, Logout, UpdateUser,
         SuperUpdateUser, RequestThrows, ProcessDies, GetByFeideID, CreateUser,
         SendRegistration, Login, FetchGroups, GetStudyProgram, CreateStudyProgram,
         ReadForStudyProgram, WriteStudyProgram, ReadUser, WriteUser, users, mail

-----------------------------------------------------------------------------
(* One registration mail: as long as a request is about to announce a       *)
(* person, nobody else is and no job or mail exists; the account exists     *)
(* from before the announcement on, so that none begins a second time.      *)

Announcing(b, p) == req[b].pc = "mail" /\ req[b].user = p

AnnouncedOnce ==
    \A p \in Persons :
        /\ jobs[p] + welcomed[p] <= 1
        /\ ~Exists(p) => jobs[p] + welcomed[p] = 0
        /\ \A b \in Browsers : Announcing(b, p) => jobs[p] + welcomed[p] = 0
        /\ \A b, c \in Browsers : Announcing(b, p) /\ Announcing(c, p) => b = c

\* A step that announces nobody keeps it.
LEMMA QuietStep ==
    ASSUME SessionsTypeInv, AnnouncedOnce, AccountsStay,
           \A p \in Persons : /\ \A b \in Browsers : Announcing(b, p)' => Announcing(b, p)
                              /\ jobs'[p] \in Nat /\ welcomed'[p] \in Nat
                              /\ jobs'[p] + welcomed'[p] <= jobs[p] + welcomed[p]
    PROVE  AnnouncedOnce'
<1>1. \A p \in Persons : jobs[p] \in Nat /\ welcomed[p] \in Nat
  BY DEF SessionsTypeInv, SessionsTypeOK
<1> SUFFICES ASSUME NEW p \in Persons
             PROVE  /\ jobs'[p] + welcomed'[p] <= 1
                    /\ ~Exists(p)' => jobs'[p] + welcomed'[p] = 0
                    /\ \A b \in Browsers : Announcing(b, p)' => jobs'[p] + welcomed'[p] = 0
                    /\ \A b, c \in Browsers : Announcing(b, p)' /\ Announcing(c, p)' => b = c
  BY DEF AnnouncedOnce
<1>2. ~Exists(p)' => ~Exists(p)
  BY DEF AccountsStay
<1>3. PICK sum \in Nat, sum1 \in Nat :
        sum = jobs[p] + welcomed[p] /\ sum1 = jobs'[p] + welcomed'[p] /\ sum1 <= sum
  BY <1>1
<1> QED
  BY <1>2, <1>3 DEF AnnouncedOnce

\* Every step keeps it.
LEMMA AnnouncedOnceStep ==
    ASSUME SessionsTypeInv, AnnouncedOnce, [Next]_vars
    PROVE  AnnouncedOnce'
<1>1. /\ jobs \in [Persons -> Nat] /\ welcomed \in [Persons -> Nat]
      /\ account \in [Persons -> AccountRows \cup {NoRow}]
      /\ req \in [Browsers -> Requests]
  BY DEF SessionsTypeInv, SessionsTypeOK
<1>2. \A p \in Persons : /\ jobs[p] + welcomed[p] <= jobs[p] + welcomed[p]
                         /\ jobs[p] \in Nat /\ welcomed[p] \in Nat
  BY <1>1
<1>3. ASSUME NEW b \in Browsers, Browser(b)
      PROVE  AnnouncedOnce'
  <2>1. /\ AccountsStay /\ welcomed' = welcomed
        /\ \A c \in Browsers \ {b} : req'[c] = req[c]
        /\ SendRegistration(b) \/ jobs' = jobs
        /\ req'[b].pc = "mail" => CreateUser(b)
    BY <1>3, BrowserTypes, TablesOfBrowser, StepOfBrowser
  <2>2. CASE SendRegistration(b)
    <3>1. PICK p \in Persons : p = req[b].user /\ Announcing(b, p) /\ Exists(p)
      BY <2>2 DEF SendRegistration, SessionsTypeInv, HasUser, Announcing
    <3>2. jobs' = [jobs EXCEPT ![p] = @ + 1]
      BY <2>2, <3>1 DEF SendRegistration
    <3>3. jobs[p] + welcomed[p] = 0 /\ \A c \in Browsers : Announcing(c, p) => c = b
      BY <3>1 DEF AnnouncedOnce
    <3>4. jobs'[p] + welcomed'[p] = 1 /\ Exists(p)'
      BY <1>1, <2>1, <3>1, <3>2, <3>3 DEF AccountsStay
    <3>5. ~(CreateUser(b))
      BY <2>2 DEF SendRegistration, CreateUser
    <3>6. \A q \in Persons, c \in Browsers : Announcing(c, q)' => Announcing(c, q) /\ c # b
      BY <2>1, <3>5 DEF Announcing
    <3>7. \A q \in Persons \ {p} : jobs'[q] = jobs[q] /\ welcomed'[q] = welcomed[q]
      BY <1>1, <2>1, <3>2
    <3>8. ASSUME NEW q \in Persons
          PROVE  /\ jobs'[q] + welcomed'[q] <= 1
                 /\ ~Exists(q)' => jobs'[q] + welcomed'[q] = 0
                 /\ \A c \in Browsers : Announcing(c, q)' => jobs'[q] + welcomed'[q] = 0
                 /\ \A c, d \in Browsers : Announcing(c, q)' /\ Announcing(d, q)' => c = d
      <4>1. CASE q = p
        BY <3>3, <3>4, <3>6, <4>1
      <4>2. CASE q # p
        BY <2>1, <3>6, <3>7, <4>2 DEF AnnouncedOnce, AccountsStay
      <4> QED
        BY <4>1, <4>2
    <3> QED
      BY <3>8 DEF AnnouncedOnce
  <2>3. CASE CreateUser(b) /\ req'[b].pc = "mail"
    <3>1. PICK p \in Persons : p = req[b].user
      BY <2>3 DEF CreateUser, SessionsTypeInv, HasUser
    <3>2. ~Exists(p) /\ req' = [req EXCEPT ![b] = [req[b] EXCEPT !.pc = "mail"]]
      BY <1>1, <2>3, <3>1, IdleTyped DEF CreateUser, Respond, Goto
    <3>3. jobs' = jobs /\ welcomed' = welcomed
      BY <2>3 DEF CreateUser, mail
    <3>4. jobs[p] + welcomed[p] = 0 /\ \A c \in Browsers : ~Announcing(c, p)
      BY <3>2 DEF AnnouncedOnce, SessionsTypeInv, HasUser, Announcing
    <3>5. req'[b].user = p
      BY <1>1, <3>1, <3>2 DEF Requests
    <3>6. \A q \in Persons \ {p}, c \in Browsers : Announcing(c, q)' => Announcing(c, q)
      BY <2>1, <3>5 DEF Announcing
    <3>7. \A c \in Browsers : Announcing(c, p)' => c = b
      BY <2>1, <3>4 DEF Announcing
    <3>8. ASSUME NEW q \in Persons
          PROVE  /\ jobs'[q] + welcomed'[q] <= 1
                 /\ ~Exists(q)' => jobs'[q] + welcomed'[q] = 0
                 /\ \A c \in Browsers : Announcing(c, q)' => jobs'[q] + welcomed'[q] = 0
                 /\ \A c, d \in Browsers : Announcing(c, q)' /\ Announcing(d, q)' => c = d
      <4>1. CASE q = p
        BY <3>3, <3>4, <3>7, <4>1
      <4>2. CASE q # p
        BY <2>1, <3>3, <3>6, <4>2 DEF AnnouncedOnce, AccountsStay
      <4> QED
        BY <4>1, <4>2
    <3> QED
      BY <3>8 DEF AnnouncedOnce
  <2>4. CASE ~SendRegistration(b) /\ req'[b].pc # "mail"
    <3>1. \A p \in Persons, c \in Browsers : Announcing(c, p)' => Announcing(c, p)
      BY <2>1, <2>4 DEF Announcing
    <3> QED
      BY <1>2, <2>1, <2>4, <3>1, QuietStep
  <2> QED
    BY <2>1, <2>2, <2>3, <2>4
<1>4. ASSUME NEW p \in Persons, Welcome(p)
      PROVE  AnnouncedOnce'
  <2>1. AccountsStay /\ req' = req
    BY <1>4 DEF Welcome, users, AccountsStay, Exists
  <2>2. ASSUME NEW q \in Persons
        PROVE  /\ jobs'[q] \in Nat /\ welcomed'[q] \in Nat
               /\ jobs'[q] + welcomed'[q] <= jobs[q] + welcomed[q]
    BY <1>1, <1>4 DEF Welcome
  <2> QED
    BY <2>1, <2>2, QuietStep DEF Announcing
<1>5. CASE Tick \/ UNCHANGED vars
  <2>1. AccountsStay /\ req' = req /\ jobs' = jobs /\ welcomed' = welcomed
    BY <1>5 DEF Tick, vars, users, mail, AccountsStay, Exists
  <2> QED
    BY <1>2, <2>1, QuietStep DEF Announcing
<1> QED
  BY <1>3, <1>4, <1>5 DEF Next

\* It holds at first: there is no job, no mail and no request.
LEMMA AnnouncedOnceInit == Init => AnnouncedOnce
<1> SUFFICES ASSUME Init PROVE AnnouncedOnce
  OBVIOUS
<1>1. \A p \in Persons : jobs[p] = 0 /\ welcomed[p] = 0
  BY DEF Init
<1>2. \A b \in Browsers : req[b].pc = "idle"
  BY IdleTyped DEF Init
<1> QED
  BY <1>1, <1>2 DEF AnnouncedOnce, Announcing

\* It holds at all times.
LEMMA AnnouncedOnceHolds == Spec => []AnnouncedOnce
<1>1. Init => AnnouncedOnce
  BY AnnouncedOnceInit
<1>2. SessionsTypeInv /\ AnnouncedOnce /\ [Next]_vars => AnnouncedOnce'
  BY AnnouncedOnceStep
<1> QED
  BY <1>1, <1>2, TypesHold, PTL DEF Spec

\* However many first logins of a person run at once, and whatever fails, one
\* account is made and one registration mail at most goes out.
THEOREM WelcomeOnce == Spec => []WelcomedOnce
<1>1. SessionsTypeInv /\ AnnouncedOnce => WelcomedOnce
  <2> SUFFICES ASSUME SessionsTypeInv, AnnouncedOnce, NEW p \in Persons
               PROVE  jobs[p] + welcomed[p] + Cardinality(About(p))
                         <= IF Exists(p) THEN 1 ELSE 0
    BY DEF WelcomedOnce
  <2>1. jobs[p] \in Nat /\ welcomed[p] \in Nat
    BY DEF SessionsTypeInv, SessionsTypeOK
  <2>2. CASE About(p) = {}
    <3>1. Cardinality(About(p)) = 0
      BY <2>2, FS_EmptySet
    <3> QED
      BY <2>1, <3>1 DEF AnnouncedOnce
  <2>3. CASE About(p) # {}
    <3>1. PICK b \in Browsers : Announcing(b, p)
      BY <2>3 DEF About, Announcing
    <3>2. About(p) = {b}
      BY <3>1 DEF About, Announcing, AnnouncedOnce
    <3>3. Cardinality(About(p)) = 1
      BY <3>2, FS_Singleton
    <3>4. Exists(p) /\ jobs[p] + welcomed[p] = 0
      BY <3>1 DEF SessionsTypeInv, HasUser, Announcing, AnnouncedOnce
    <3> QED
      BY <2>1, <3>3, <3>4
  <2> QED
    BY <2>2, <2>3
<1> QED
  BY <1>1, TypesHold, AnnouncedOnceHolds, PTL

-----------------------------------------------------------------------------
(* Study programs: a request of a browser is about the person who uses it,  *)
(* and carries a list that Feide gave for that person; what the list has    *)
(* and the request has not looked up yet is what is still to do.            *)

\* The instances whose first sessions and accounts came about in this way.
StartsFromFeide ==
    /\ \A b \in Browsers : InitialUsers[b] \in {Nobody, PersonAt[b]}
    /\ \A p \in Persons :
          LET row == InitialAccounts[p] IN
          row # NoRow /\ row.confirmedStudyProgram # Undefined =>
            /\ row.enrolledStudyPrograms \subseteq InitialPrograms
            /\ \E list \in Tells[p] :
                  /\ list # <<>>
                  /\ row.confirmedStudyProgram = Head(list)
                  /\ row.enrolledStudyPrograms = {list[i] : i \in DOMAIN list}

Own(b) ==
    /\ session[b].user \in {Nobody, PersonAt[b]}
    /\ req[b].pc # "idle" \/ req[b].renewed => req[b].user = PersonAt[b]

HasList == {"programs", "createProgram", "writeProgram"}

Listed(b) ==
    req[b].pc \in HasList =>
        /\ req[b].programs \in Tells[PersonAt[b]]
        /\ \A i \in DOMAIN req[b].programs :
              \/ req[b].programs[i] \in program
              \/ /\ req[b].pc # "writeProgram"
                 /\ \E j \in DOMAIN req[b].todo : req[b].todo[j] = req[b].programs[i]

FeideInv == ProgramsComeFromFeide /\ \A b \in Browsers : Own(b) /\ Listed(b)

\* Requests and sessions stay with the person who uses the browser.
LEMMA OwnStep ==
    ASSUME SessionsTypeInv, NEW b \in Browsers, Browser(b), Own(b)
    PROVE  Own(b)'
<1>1. /\ req \in [Browsers -> Requests] /\ req[b] \in Requests
      /\ session \in [Browsers -> SessionRows] /\ session[b] \in SessionRows
      /\ Idle \in Requests /\ Idle.pc = "idle" /\ ~Idle.renewed
  BY IdleTyped DEF SessionsTypeInv, SessionsTypeOK
<1>2. ASSUME NEW r, req' = [req EXCEPT ![b] = r],
             r.pc # "idle" \/ r.renewed => r.user = PersonAt[b],
             session'[b].user \in {Nobody, session[b].user}
      PROVE  Own(b)'
  BY <1>1, <1>2 DEF Own
<1>3. ASSUME Respond(b) PROVE Own(b)'
  BY <1>1, <1>3 DEF Own, Respond, SessionRows
<1>4. ASSUME Goto(b, Idle) PROVE Own(b)'
  BY <1>1, <1>2, <1>4 DEF Goto
<1>5. ASSUME NEW r, Goto(b, r), r.user = req[b].user, req[b].pc # "idle"
      PROVE  Own(b)'
  BY <1>1, <1>2, <1>5 DEF Goto, Own
<1>6. CASE RequestThrows(b) \/ ProcessDies(b) \/ WriteStudyProgram(b) \/ WriteUser(b)
  BY <1>3, <1>4, <1>6 DEF RequestThrows, ProcessDies, WriteStudyProgram, WriteUser
<1>7. CASE Logout(b) \/ GenerateAuthorizationUrl(b) \/ SuperUpdateUser(b)
  <2>1. req' = [req EXCEPT ![b] = Idle]
    BY <1>7 DEF Logout, GenerateAuthorizationUrl, SuperUpdateUser, Begin
  <2>2. session'[b].user \in {Nobody, session[b].user}
    BY <1>1, <1>7 DEF Logout, GenerateAuthorizationUrl, SuperUpdateUser, LoggedOut,
                      SessionRows
  <2> QED
    BY <1>1, <1>2, <2>1, <2>2
<1>8. CASE Callback(b)
  <2>1. PICK login, groups :
          /\ login = [Idle EXCEPT !.pc = "getUser", !.user = PersonAt[b]]
          /\ groups = [Idle EXCEPT !.pc = "groups", !.user = session[b].user]
    OBVIOUS
  <2>2. login.user = PersonAt[b] /\ groups.user = session[b].user
    BY <1>1, <2>1 DEF Requests
  <2>3. PICK f, request :
          /\ request = CASE session[b].codeVerifier # f.codeVerifier -> Idle
                      [] f.kind = "login" /\ session[b].codeVerifier = f.codeVerifier ->
                            login
                      [] OTHER -> IF session[b].user = Nobody THEN Idle ELSE groups
          /\ Begin(b, request)
    BY <1>8, <2>1 DEF Callback
  <2>4. request = Idle \/ request = login \/ (session[b].user # Nobody /\ request = groups)
    BY <2>3
  <2>5. request.pc # "idle" \/ request.renewed => request.user = PersonAt[b]
    BY <1>1, <2>2, <2>4 DEF Own
  <2>6. req' = [req EXCEPT ![b] = request] /\ session' = session
    BY <1>8, <2>3 DEF Begin, Callback
  <2> QED
    BY <1>2, <2>5, <2>6
<1>9. CASE UpdateUser(b)
  <2>1. PICK year : /\ Begin(b, [Idle EXCEPT !.pc = "readUser",
                                     !.user = session[b].user, !.year = year])
                    /\ session[b].user # Nobody /\ session' = session
    BY <1>9 DEF UpdateUser
  <2>2. PICK request : request = [Idle EXCEPT !.pc = "readUser",
                                     !.user = session[b].user, !.year = year]
    OBVIOUS
  <2>3. request.user = PersonAt[b]
    BY <1>1, <2>1, <2>2 DEF Own, Requests
  <2> QED
    BY <1>2, <2>1, <2>2, <2>3 DEF Begin
<1>10. CASE GetByFeideID(b)
  <2>1. PICK found : Goto(b, [req[b] EXCEPT !.pc = IF found THEN "login" ELSE "create"])
    BY <1>10 DEF GetByFeideID
  <2>2. PICK r : r = [req[b] EXCEPT !.pc = IF found THEN "login" ELSE "create"]
    OBVIOUS
  <2>3. r.user = req[b].user
    BY <1>1, <2>2 DEF Requests
  <2> QED
    BY <1>5, <1>10, <2>1, <2>2, <2>3 DEF GetByFeideID
<1>11. CASE CreateUser(b) /\ ~Respond(b)
  <2>1. PICK r : r = [req[b] EXCEPT !.pc = "mail"]
    OBVIOUS
  <2>2. r.user = req[b].user
    BY <1>1, <2>1 DEF Requests
  <2> QED
    BY <1>5, <1>11, <2>1, <2>2 DEF CreateUser
<1>12. CASE SendRegistration(b)
  <2>1. PICK r : r = [req[b] EXCEPT !.pc = "login"]
    OBVIOUS
  <2>2. r.user = req[b].user
    BY <1>1, <2>1 DEF Requests
  <2> QED
    BY <1>5, <1>12, <2>1, <2>2 DEF SendRegistration
<1>13. CASE Login(b)
  <2>1. PICK r : r = [req[b] EXCEPT !.pc = "groups", !.renewed = TRUE]
    OBVIOUS
  <2>2. r.user = req[b].user
    BY <1>1, <2>1 DEF Requests
  <2> QED
    BY <1>5, <1>13, <2>1, <2>2 DEF Login
<1>14. CASE FetchGroups(b) /\ ~Respond(b)
  <2>1. PICK list : Goto(b, [req[b] EXCEPT !.pc = "programs", !.todo = list,
                                           !.programs = list])
    BY <1>14 DEF FetchGroups
  <2>2. PICK r : r = [req[b] EXCEPT !.pc = "programs", !.todo = list, !.programs = list]
    OBVIOUS
  <2>3. r.user = req[b].user
    BY <1>1, <2>2 DEF Requests
  <2> QED
    BY <1>5, <1>14, <2>1, <2>2, <2>3 DEF FetchGroups
<1>15. CASE GetStudyProgram(b)
  <2>1. PICK r : Goto(b, r) /\ \/ r = [req[b] EXCEPT !.todo = Tail(@)]
                               \/ r = [req[b] EXCEPT !.pc = "createProgram"]
    BY <1>15 DEF GetStudyProgram
  <2>2. r.user = req[b].user
    BY <1>1, <2>1 DEF Requests
  <2> QED
    BY <1>5, <1>15, <2>1, <2>2 DEF GetStudyProgram
<1>16. CASE CreateStudyProgram(b) /\ ~Respond(b)
  <2>1. PICK r : r = [req[b] EXCEPT !.pc = "programs", !.todo = Tail(@)]
    OBVIOUS
  <2>2. r.user = req[b].user
    BY <1>1, <2>1 DEF Requests
  <2> QED
    BY <1>5, <1>16, <2>1, <2>2 DEF CreateStudyProgram
<1>17. CASE ReadForStudyProgram(b)
  <2>1. PICK first, r : /\ r = [req[b] EXCEPT !.pc = "writeProgram", !.first = first]
                        /\ Goto(b, r)
    BY <1>17 DEF ReadForStudyProgram
  <2>2. r.user = req[b].user
    BY <1>1, <2>1 DEF Requests
  <2> QED
    BY <1>5, <1>17, <2>1, <2>2 DEF ReadForStudyProgram
<1>18. CASE ReadUser(b)
  <2>1. PICK year, stamp, first, readAt, r :
          /\ r = [req[b] EXCEPT !.pc = "writeUser", !.first = first, !.readAt = readAt,
                                !.year = year, !.stamp = stamp]
          /\ Goto(b, r)
    BY <1>18 DEF ReadUser
  <2>2. r.user = req[b].user
    BY <1>1, <2>1 DEF Requests
  <2> QED
    BY <1>5, <1>18, <2>1, <2>2 DEF ReadUser
<1> QED
  BY <1>3, <1>6, <1>7, <1>8, <1>9, <1>10, <1>11, <1>12, <1>13, <1>14, <1>15, <1>16,
     <1>17, <1>18 DEF Browser, Continue

\* Sessions and requests of other browsers are left alone.
LEMMA OwnOtherStep ==
    ASSUME SessionsTypeInv, NEW b \in Browsers, Browser(b),
           NEW c \in Browsers, c # b, Own(c)
    PROVE  Own(c)'
<1>1. req'[c] = req[c]
  BY StepOfBrowser
<1>2. session'[c] = session[c]
  BY DEF SessionsTypeInv, SessionsTypeOK, Browser, Continue,
         GenerateAuthorizationUrl, Callback, Logout, UpdateUser,
         SuperUpdateUser, RequestThrows, ProcessDies, GetByFeideID, CreateUser,
         SendRegistration, Login, FetchGroups, GetStudyProgram,
         CreateStudyProgram, ReadForStudyProgram, WriteStudyProgram, ReadUser,
         WriteUser, Goto, Respond
<1> QED
  BY <1>1, <1>2 DEF Own

\* Study programs are only added.
LEMMA ProgramsStay ==
    ASSUME SessionsTypeInv, NEW b \in Browsers, Browser(b)
    PROVE  program \subseteq program'
  BY DEF Browser, Continue, GenerateAuthorizationUrl, Callback, Logout, UpdateUser,
         SuperUpdateUser, RequestThrows, ProcessDies, GetByFeideID, CreateUser,
         SendRegistration, Login, FetchGroups, GetStudyProgram, CreateStudyProgram,
         ReadForStudyProgram, WriteStudyProgram, ReadUser, WriteUser, users

\* A study program leaves what is to do when it has a row.
LEMMA TailListed ==
    ASSUME NEW todo \in Seq(Programs), todo # <<>>, NEW x,
           \E j \in DOMAIN todo : todo[j] = x
    PROVE  x = Head(todo) \/ \E j \in DOMAIN Tail(todo) : Tail(todo)[j] = x
<1>1. PICK j \in DOMAIN todo : todo[j] = x
  OBVIOUS
<1>2. CASE j = 1
  BY <1>1, <1>2
<1>3. CASE j # 1
  <2>1. j - 1 \in 1..(Len(todo) - 1) /\ Len(Tail(todo)) = Len(todo) - 1
    BY <1>1, <1>3
  <2>2. j - 1 \in DOMAIN Tail(todo) /\ Tail(todo)[j - 1] = x
    BY <1>1, <2>1
  <2> QED
    BY <2>2
<1> QED
  BY <1>2, <1>3

\* The request of the browser that steps still carries its list.
LEMMA ListedOwnStep ==
    ASSUME SessionsTypeInv, NEW b \in Browsers, Browser(b), Own(b), Listed(b)
    PROVE  Listed(b)'
<1> SUFFICES ASSUME req'[b].pc \in HasList PROVE Listed(b)'
  BY DEF Listed
<1>1. /\ req \in [Browsers -> Requests] /\ req[b] \in Requests /\ HasUser(req[b])
      /\ Idle.pc = "idle"
  BY IdleTyped DEF SessionsTypeInv, SessionsTypeOK
<1>2. program \subseteq program'
  BY ProgramsStay
<1>3. \/ FetchGroups(b) \/ GetStudyProgram(b) \/ CreateStudyProgram(b)
      \/ ReadForStudyProgram(b)
  BY StepOfBrowser DEF HasList
<1>4. ~Respond(b)
  BY <1>1 DEF Respond, HasList
<1>5. CASE FetchGroups(b)
  <2>1. PICK list \in Tells[PersonAt[b]] :
            Goto(b, [req[b] EXCEPT !.pc = "programs", !.todo = list, !.programs = list])
    BY <1>4, <1>5 DEF FetchGroups
  <2>2. PICK r : r = [req[b] EXCEPT !.pc = "programs", !.todo = list, !.programs = list]
    OBVIOUS
  <2>3. r.pc = "programs" /\ r.todo = list /\ r.programs = list
    BY <1>1, <2>2 DEF Requests
  <2>4. req'[b] = r
    BY <1>1, <2>1, <2>2 DEF Goto
  <2> QED
    BY <2>3, <2>4 DEF Listed
<1>6. CASE ~FetchGroups(b)
  <2>1. req[b].programs \in Tells[PersonAt[b]] /\ req[b].pc \in HasList
    BY <1>3, <1>6 DEF Listed, HasList, GetStudyProgram, CreateStudyProgram, ReadForStudyProgram
  <2>2. req[b].todo \in Seq(Programs)
    BY <1>1 DEF Requests
  <2>3. CASE GetStudyProgram(b) /\ Head(req[b].todo) \notin program
    <3>1. PICK r : r = [req[b] EXCEPT !.pc = "createProgram"]
      OBVIOUS
    <3>2. r.pc = "createProgram" /\ r.todo = req[b].todo /\ r.programs = req[b].programs
      BY <1>1, <3>1 DEF Requests
    <3>3. req'[b] = r
      BY <1>1, <2>3, <3>1 DEF Goto, GetStudyProgram
    <3> QED
      BY <1>2, <2>1, <3>2, <3>3 DEF Listed
  <2>4. CASE (GetStudyProgram(b) /\ Head(req[b].todo) \in program) \/ CreateStudyProgram(b)
    <3>1. PICK r : r = IF CreateStudyProgram(b)
                       THEN [req[b] EXCEPT !.pc = "programs", !.todo = Tail(@)]
                       ELSE [req[b] EXCEPT !.todo = Tail(@)]
      OBVIOUS
    <3>2. r.pc = "programs" /\ r.todo = Tail(req[b].todo) /\ r.programs = req[b].programs
      BY <1>1, <2>4, <3>1 DEF Requests, GetStudyProgram, CreateStudyProgram
    <3>3. req'[b] = r
      BY <1>1, <1>4, <2>4, <3>1 DEF Goto, GetStudyProgram, CreateStudyProgram
    <3>4. Head(req[b].todo) \in program' /\ req[b].todo # <<>>
      BY <1>1, <1>2, <1>4, <2>4 DEF CreateStudyProgram, GetStudyProgram, HasUser
    <3>5. ASSUME NEW i \in DOMAIN req[b].programs, req[b].programs[i] \notin program'
          PROVE  \E j \in DOMAIN Tail(req[b].todo) :
                    Tail(req[b].todo)[j] = req[b].programs[i]
      <4>1. \E j \in DOMAIN req[b].todo : req[b].todo[j] = req[b].programs[i]
        BY <1>2, <2>1, <3>5 DEF Listed
      <4> QED
        BY <2>2, <3>4, <3>5, <4>1, TailListed
    <3> QED
      BY <2>1, <3>2, <3>3, <3>5 DEF Listed
  <2>5. CASE ReadForStudyProgram(b)
    <3>1. PICK r : r = [req[b] EXCEPT !.pc = "writeProgram",
                              !.first = account[req[b].user].firstLogin]
      OBVIOUS
    <3>2. r.pc = "writeProgram" /\ r.programs = req[b].programs
      BY <1>1, <3>1 DEF Requests
    <3>3. req'[b] = r
      BY <1>1, <2>5, <3>1 DEF Goto, ReadForStudyProgram
    <3>4. \A i \in DOMAIN req[b].programs : req[b].programs[i] \in program
      BY <2>1, <2>5 DEF Listed, ReadForStudyProgram
    <3> QED
      BY <1>2, <2>1, <3>2, <3>3, <3>4 DEF Listed
  <2> QED
    BY <1>3, <1>6, <2>3, <2>4, <2>5
<1> QED
  BY <1>5, <1>6

\* The rows of all persons are still from Feide.
LEMMA RowsStep ==
    ASSUME SessionsTypeInv, FeideInv, NEW b \in Browsers, Browser(b)
    PROVE  ProgramsComeFromFeide'
<1>1. /\ account \in [Persons -> AccountRows \cup {NoRow}]
      /\ req[b] \in Requests /\ HasUser(req[b]) /\ Own(b) /\ Listed(b)
  BY DEF SessionsTypeInv, SessionsTypeOK, FeideInv
<1>2. program \subseteq program'
  BY ProgramsStay
<1>3. AccountsStay
  BY BrowserTypes
<1>4. ASSUME NEW p \in Persons, Exists(p)', account'[p].confirmedStudyProgram # Undefined,
             Exists(p), account'[p].confirmedStudyProgram = account[p].confirmedStudyProgram,
             account'[p].enrolledStudyPrograms = account[p].enrolledStudyPrograms
      PROVE  /\ account'[p].enrolledStudyPrograms \subseteq program'
             /\ \E list \in Tells[p] :
                  /\ list # <<>>
                  /\ account'[p].confirmedStudyProgram = Head(list)
                  /\ account'[p].enrolledStudyPrograms =
                        {list[i] : i \in DOMAIN list}
  BY <1>2, <1>4 DEF FeideInv, ProgramsComeFromFeide
<1> SUFFICES ASSUME NEW p \in Persons, Exists(p)',
                    account'[p].confirmedStudyProgram # Undefined
             PROVE  /\ account'[p].enrolledStudyPrograms \subseteq program'
                    /\ \E list \in Tells[p] :
                         /\ list # <<>>
                         /\ account'[p].confirmedStudyProgram = Head(list)
                         /\ account'[p].enrolledStudyPrograms =
                               {list[i] : i \in DOMAIN list}
  BY DEF ProgramsComeFromFeide
<1>5. CASE account'[p] = account[p]
  BY <1>4, <1>5 DEF Exists
<1>6. CASE account'[p] # account[p] /\ CreateUser(b)
  <2>1. account' = [account EXCEPT ![req[b].user] = NewAccount]
    BY <1>6 DEF CreateUser
  <2>2. account'[p] = NewAccount
    BY <1>1, <1>6, <2>1
  <2> QED
    BY <2>2 DEF NewAccount
<1>7. CASE account'[p] # account[p] /\ WriteStudyProgram(b)
  <2>1. PICK row : row = [account[req[b].user] EXCEPT
             !.confirmedStudyProgram = Head(req[b].programs),
             !.enrolledStudyPrograms =
                {req[b].programs[i] : i \in DOMAIN req[b].programs},
             !.firstLogin = @ /\ ~req[b].first]
    OBVIOUS
  <2>2. account' = [account EXCEPT ![req[b].user] = row] /\ req[b].pc = "writeProgram"
    BY <1>7, <2>1 DEF WriteStudyProgram
  <2>3. req[b].user = p /\ p = PersonAt[b] /\ account'[p] = row
    BY <1>1, <1>7, <2>2 DEF Own
  <2>4. account[p] \in AccountRows
    BY <1>1, <2>2, <2>3 DEF HasUser, Exists
  <2>5. /\ row.confirmedStudyProgram = Head(req[b].programs)
        /\ row.enrolledStudyPrograms = {req[b].programs[i] : i \in DOMAIN req[b].programs}
    BY <2>1, <2>3, <2>4 DEF AccountRows
  <2>6. /\ req[b].programs \in Tells[p] /\ req[b].programs # <<>>
        /\ \A i \in DOMAIN req[b].programs : req[b].programs[i] \in program
    BY <1>1, <2>2, <2>3 DEF Listed, HasList, HasUser
  <2> QED
    BY <1>2, <2>3, <2>5, <2>6
<1>8. CASE account'[p] # account[p] /\ WriteUser(b)
  <2>1. PICK row : row = [account[req[b].user] EXCEPT
                   !.graduationYear = Or(req[b].year, @),
                   !.graduationYearUpdatedAt = Or(req[b].stamp, @),
                   !.firstLogin = @ /\ ~req[b].first]
    OBVIOUS
  <2>2. account' = [account EXCEPT ![req[b].user] = row] /\ req[b].pc = "writeUser"
    BY <1>8, <2>1 DEF WriteUser
  <2>3. req[b].user = p /\ account'[p] = row
    BY <1>1, <1>8, <2>2
  <2>4. account[p] \in AccountRows /\ Exists(p)
    BY <1>1, <2>2, <2>3 DEF HasUser, Exists
  <2>5. /\ row.confirmedStudyProgram = account[p].confirmedStudyProgram
        /\ row.enrolledStudyPrograms = account[p].enrolledStudyPrograms
    BY <2>1, <2>3, <2>4 DEF AccountRows
  <2> QED
    BY <1>4, <2>3, <2>4, <2>5
<1>9. CASE account'[p] # account[p] /\ SuperUpdateUser(b)
  <2>1. PICK q \in Persons, year \in MayYear[b] : /\ Exists(q)
              /\ account' = [account EXCEPT ![q].graduationYear = year]
    BY <1>9 DEF SuperUpdateUser
  <2>2. q = p /\ account[p] \in AccountRows
    BY <1>1, <1>9, <2>1 DEF Exists
  <2>3. account'[p] = [account[p] EXCEPT !.graduationYear = year]
    BY <1>1, <2>1, <2>2
  <2>4. /\ account'[p].confirmedStudyProgram = account[p].confirmedStudyProgram
        /\ account'[p].enrolledStudyPrograms = account[p].enrolledStudyPrograms
    BY <2>2, <2>3 DEF AccountRows
  <2> QED
    BY <1>4, <2>1, <2>2, <2>4
<1> QED
  BY <1>5, <1>6, <1>7, <1>8, <1>9, TablesOfBrowser

\* Whatever logins run at once and fail, the invariant holds.
LEMMA FeideStep ==
    ASSUME SessionsTypeInv, FeideInv, [Next]_vars PROVE FeideInv'
<1>1. ASSUME NEW b \in Browsers, Browser(b) PROVE FeideInv'
  <2>1. ProgramsComeFromFeide'
    BY <1>1, RowsStep
  <2>2. ASSUME NEW c \in Browsers PROVE Own(c)' /\ Listed(c)'
    <3>1. CASE c = b
      BY <1>1, <3>1, OwnStep, ListedOwnStep DEF FeideInv
    <3>2. CASE c # b
      <4>1. req'[c] = req[c] /\ program \subseteq program'
        BY <1>1, <3>2, StepOfBrowser, ProgramsStay
      <4>2. Own(c)'
        BY <1>1, <3>2, OwnOtherStep DEF FeideInv
      <4> QED
        BY <4>1, <4>2 DEF FeideInv, Listed
    <3> QED
      BY <3>1, <3>2
  <2> QED
    BY <2>1, <2>2 DEF FeideInv
<1>2. CASE (\E p \in Persons : Welcome(p)) \/ Tick \/ UNCHANGED vars
  <2>1. UNCHANGED <<account, program, session, req>>
    BY <1>2 DEF Welcome, Tick, vars, users
  <2>2. ProgramsComeFromFeide'
    BY <2>1 DEF FeideInv, ProgramsComeFromFeide, Exists
  <2>3. \A b \in Browsers : Own(b)' /\ Listed(b)'
    BY <2>1 DEF FeideInv, Own, Listed
  <2> QED
    BY <2>2, <2>3 DEF FeideInv
<1> QED
  BY <1>1, <1>2 DEF Next

\* It holds at first.
LEMMA FeideInit == ASSUME StartsFromFeide, Init PROVE FeideInv
<1>1. ProgramsComeFromFeide
  BY DEF Init, StartsFromFeide, ProgramsComeFromFeide, Exists
<1>2. \A b \in Browsers : req[b] = Idle /\ session[b].user = InitialUsers[b]
  BY DEF Init
<1>3. \A b \in Browsers : Own(b) /\ Listed(b)
  BY <1>2, IdleTyped DEF StartsFromFeide, Own, Listed, HasList
<1> QED
  BY <1>1, <1>3 DEF FeideInv

\* The study programs of a user are one list of Feide, and rows, whatever
\* logins run at once, throw or die.
THEOREM StudyProgramsAreFromFeide ==
    ASSUME StartsFromFeide PROVE Spec => []ProgramsComeFromFeide
<1>1. Init => FeideInv
  BY FeideInit
<1>2. SessionsTypeInv /\ FeideInv /\ [Next]_vars => FeideInv'
  BY FeideStep
<1>3. FeideInv => ProgramsComeFromFeide
  BY DEF FeideInv
<1> QED
  BY <1>1, <1>2, <1>3, TypesHold, PTL DEF Spec

-----------------------------------------------------------------------------
(* Graduation years: what a request decided when it read the row still      *)
(* holds when it writes, as long as the year of a person is set from one    *)
(* browser.  A super user who sets the year between the two, on another     *)
(* browser, breaks it: a change that was none when it was decided is        *)
(* written without a stamp, and the next one is not held back.              *)

SetsYear(b, p) ==
    /\ MayYear[b] # {}
    /\ \/ "update" \in MayDo[b] /\ PersonAt[b] = p
       \/ "super" \in MayDo[b] /\ PersonAt[b] \in SuperUsers

OneUpdater ==
    /\ \A b \in Browsers : InitialUsers[b] \in {Nobody, PersonAt[b]}
    /\ \A p \in Persons, b, c \in Browsers : SetsYear(b, p) /\ SetsYear(c, p) => b = c

Stamped(p) ==
    changed[p] # Undefined =>
        Exists(p) /\ account[p].graduationYearUpdatedAt = changed[p]

AsksYear(b) ==
    req[b].pc \in {"readUser", "writeUser"} =>
        req[b].year = Undefined \/ SetsYear(b, PersonAt[b])

Decided(b) ==
    LET p == PersonAt[b] IN
    req[b].pc = "writeUser" =>
        /\ req[b].year = Undefined \/ req[b].first => req[b].stamp = Undefined
        /\ req[b].year # Undefined /\ ~req[b].first =>
              IF req[b].year = account[p].graduationYear
              THEN req[b].stamp = Undefined
              ELSE /\ req[b].stamp = req[b].readAt
                   /\ changed[p] = Undefined \/ changed[p] + Year < req[b].readAt

YearInv ==
    /\ \A p \in Persons : Stamped(p)
    /\ \A b \in Browsers : Own(b) /\ AsksYear(b) /\ Decided(b)

\* What a write does to the year and its stamp.
LEMMA WrittenYear ==
    ASSUME SessionsTypeInv, NEW b \in Browsers, WriteUser(b), Own(b)
    PROVE  LET p == PersonAt[b] IN
           /\ account[p] \in AccountRows
           /\ \A q \in Persons \ {p} : account'[q] = account[q] /\ changed'[q] = changed[q]
           /\ account'[p] # NoRow
           /\ account'[p].graduationYear = Or(req[b].year, account[p].graduationYear)
           /\ account'[p].graduationYearUpdatedAt =
                 Or(req[b].stamp, account[p].graduationYearUpdatedAt)
           /\ changed'[p] = IF /\ ~req[b].first
                               /\ account'[p].graduationYear # account[p].graduationYear
                            THEN req[b].readAt ELSE changed[p]
<1>1. /\ account \in [Persons -> AccountRows \cup {NoRow}]
      /\ req[b] \in Requests /\ HasUser(req[b]) /\ req[b].pc = "writeUser"
      /\ changed \in [Persons -> OrUndefined(Nat)]
  BY DEF SessionsTypeInv, SessionsTypeOK, WriteUser
<1>2. PICK p \in Persons : p = req[b].user /\ p = PersonAt[b] /\ Exists(p)
  BY <1>1 DEF HasUser, Own
<1>3. account[p] \in AccountRows
  BY <1>1, <1>2 DEF Exists
<1>4. PICK row : row = [account[p] EXCEPT
                   !.graduationYear = Or(req[b].year, @),
                   !.graduationYearUpdatedAt = Or(req[b].stamp, @),
                   !.firstLogin = @ /\ ~req[b].first]
  OBVIOUS
<1>5. /\ row.graduationYear = Or(req[b].year, account[p].graduationYear)
      /\ row.graduationYearUpdatedAt = Or(req[b].stamp, account[p].graduationYearUpdatedAt)
  BY <1>3, <1>4 DEF AccountRows
<1>6. /\ account' = [account EXCEPT ![p] = row]
      /\ changed' = IF ~req[b].first /\ row.graduationYear # account[p].graduationYear
                    THEN [changed EXCEPT ![p] = req[b].readAt] ELSE changed
  BY <1>2, <1>4 DEF WriteUser
<1>7. account'[p] = row
  BY <1>1, <1>6
<1>8. account'[p] # NoRow
  BY <1>2, BrowserTypes DEF AccountsStay, Exists, Browser, Continue
<1> QED
  BY <1>1, <1>2, <1>3, <1>5, <1>6, <1>7, <1>8

\* The other steps of a browser leave a row its year and its stamp, a super
\* user's change of the year aside.
LEMMA KeptYear ==
    ASSUME SessionsTypeInv, NEW b \in Browsers, Browser(b), ~WriteUser(b),
           NEW p \in Persons, Exists(p)
    PROVE  /\ account'[p].graduationYearUpdatedAt = account[p].graduationYearUpdatedAt
           /\ \/ account'[p].graduationYear = account[p].graduationYear
              \/ SuperUpdateUser(b)
<1>1. /\ account \in [Persons -> AccountRows \cup {NoRow}]
      /\ account[p] \in AccountRows
  BY DEF SessionsTypeInv, SessionsTypeOK, Exists
<1>2. CASE CreateUser(b)
  BY <1>1, <1>2 DEF CreateUser, Exists
<1>3. CASE WriteStudyProgram(b)
  <2>1. PICK row : row = [account[req[b].user] EXCEPT
             !.confirmedStudyProgram = Head(req[b].programs),
             !.enrolledStudyPrograms =
                {req[b].programs[i] : i \in DOMAIN req[b].programs},
             !.firstLogin = @ /\ ~req[b].first]
    OBVIOUS
  <2>2. account' = [account EXCEPT ![req[b].user] = row]
    BY <1>3, <2>1 DEF WriteStudyProgram
  <2>3. CASE req[b].user = p
    BY <1>1, <2>1, <2>2, <2>3 DEF AccountRows
  <2>4. CASE req[b].user # p
    BY <1>1, <2>2, <2>4
  <2> QED
    BY <2>3, <2>4
<1>4. CASE SuperUpdateUser(b)
  <2>1. PICK q \in Persons, year \in MayYear[b] :
            account' = [account EXCEPT ![q].graduationYear = year]
    BY <1>4 DEF SuperUpdateUser
  <2>2. CASE q = p
    <3>1. account'[p] = [account[p] EXCEPT !.graduationYear = year]
      BY <1>1, <2>1, <2>2
    <3> QED
      BY <1>1, <1>4, <3>1 DEF AccountRows
  <2>3. CASE q # p
    BY <1>1, <2>1, <2>3
  <2> QED
    BY <2>2, <2>3
<1> QED
  BY <1>2, <1>3, <1>4, TablesOfBrowser

\* The history is written with the year.
LEMMA KeptHistory ==
    ASSUME NEW b \in Browsers, Browser(b), ~WriteUser(b)
    PROVE  changed' = changed
  BY DEF Browser, Continue, GenerateAuthorizationUrl, Callback, Logout, UpdateUser,
         SuperUpdateUser, RequestThrows, ProcessDies, GetByFeideID, CreateUser,
         SendRegistration, Login, FetchGroups, GetStudyProgram, CreateStudyProgram,
         ReadForStudyProgram, WriteStudyProgram, ReadUser

\* A browser that does not set the year of a person leaves it alone.
LEMMA OthersKeepYear ==
    ASSUME SessionsTypeInv, YearInv, NEW b \in Browsers, Browser(b),
           NEW p \in Persons, ~SetsYear(b, p)
    PROVE  /\ changed'[p] = changed[p]
           /\ Exists(p) =>
                /\ account'[p].graduationYear = account[p].graduationYear
                /\ account'[p].graduationYearUpdatedAt = account[p].graduationYearUpdatedAt
<1>1. CASE WriteUser(b)
  <2>1. CASE PersonAt[b] = p
    <3>1. req[b].year = Undefined /\ req[b].stamp = Undefined
      BY <1>1, <2>1 DEF YearInv, AsksYear, Decided, WriteUser
    <3>2. account'[p].graduationYear = account[p].graduationYear
      BY <1>1, <2>1, <3>1, WrittenYear DEF YearInv, Or
    <3> QED
      BY <1>1, <2>1, <3>1, <3>2, WrittenYear DEF YearInv, Or
  <2>2. CASE PersonAt[b] # p
    BY <1>1, <2>2, WrittenYear DEF YearInv
  <2> QED
    BY <2>1, <2>2
<1>2. CASE ~WriteUser(b)
  <2>1. ~SuperUpdateUser(b)
    <3> SUFFICES ASSUME SuperUpdateUser(b) PROVE FALSE
      OBVIOUS
    <3>1. MayYear[b] # {} /\ "super" \in MayDo[b] /\ session[b].user \in SuperUsers
      BY DEF SuperUpdateUser
    <3>2. session[b].user = PersonAt[b]
      BY <3>1, SessionsAssumption DEF YearInv, Own
    <3> QED
      BY <3>1, <3>2 DEF SetsYear
  <2> QED
    BY <1>2, <2>1, KeptYear, KeptHistory
<1> QED
  BY <1>1, <1>2

\* The stamp of a row stays the time of the last change.
LEMMA StampedStep ==
    ASSUME SessionsTypeInv, YearInv, NEW b \in Browsers, Browser(b), NEW p \in Persons
    PROVE  Stamped(p)'
<1>1. Exists(p) => Exists(p)'
  BY BrowserTypes DEF AccountsStay
<1>2. CASE WriteUser(b) /\ PersonAt[b] = p
  <2>1. /\ Exists(p)'
        /\ account'[p].graduationYear = Or(req[b].year, account[p].graduationYear)
        /\ account'[p].graduationYearUpdatedAt =
                 Or(req[b].stamp, account[p].graduationYearUpdatedAt)
        /\ changed'[p] = IF /\ ~req[b].first
                            /\ account'[p].graduationYear # account[p].graduationYear
                         THEN req[b].readAt ELSE changed[p]
    BY <1>2, WrittenYear DEF YearInv, Exists
  <2>2. req[b].pc = "writeUser" /\ Decided(b) /\ Stamped(p) /\ req[b].readAt \in Nat
    BY <1>2 DEF WriteUser, YearInv, SessionsTypeInv, SessionsTypeOK, Requests
  <2>3. CASE ~req[b].first /\ account'[p].graduationYear # account[p].graduationYear
    <3>1. req[b].year # Undefined /\ req[b].year # account[p].graduationYear
      BY <2>1, <2>3 DEF Or
    <3>2. req[b].stamp = req[b].readAt
      BY <1>2, <2>2, <2>3, <3>1 DEF Decided
    <3>3. req[b].stamp # Undefined
      BY <2>2, <3>2, SessionsAssumption
    <3> QED
      BY <2>1, <2>3, <3>2, <3>3 DEF Stamped, Or
  <2>4. CASE ~(~req[b].first /\ account'[p].graduationYear # account[p].graduationYear)
    <3>1. req[b].stamp = Undefined
      BY <1>2, <2>1, <2>2, <2>4 DEF Decided, Or
    <3> QED
      BY <2>1, <2>2, <2>4, <3>1 DEF Stamped, Or
  <2> QED
    BY <2>3, <2>4
<1>3. CASE WriteUser(b) /\ PersonAt[b] # p
  BY <1>1, <1>3, WrittenYear DEF YearInv, Stamped
<1>4. CASE ~WriteUser(b)
  BY <1>1, <1>4, KeptYear, KeptHistory DEF YearInv, Stamped
<1> QED
  BY <1>2, <1>3, <1>4

\* The browser that steps asks for a year it may set, and decides by the row.
LEMMA DecidedOwnStep ==
    ASSUME SessionsTypeInv, YearInv, NEW b \in Browsers, Browser(b)
    PROVE  AsksYear(b)' /\ Decided(b)'
<1>1. /\ req \in [Browsers -> Requests] /\ req[b] \in Requests /\ HasUser(req[b])
      /\ account \in [Persons -> AccountRows \cup {NoRow}] /\ now \in Nat
      /\ changed \in [Persons -> OrUndefined(Nat)]
      /\ Idle \in Requests
  BY IdleTyped DEF SessionsTypeInv, SessionsTypeOK
<1>2. Own(b) /\ AsksYear(b)
  BY DEF YearInv
<1>3. CASE req'[b].pc = "readUser"
  <2>1. UpdateUser(b)
    BY <1>3, StepOfBrowser
  <2>2. PICK year \in OrUndefined(MayYear[b]) :
           /\ "update" \in MayDo[b]
           /\ req' = [req EXCEPT ![b] = [Idle EXCEPT !.pc = "readUser",
                                    !.user = session[b].user, !.year = year]]
    BY <2>1 DEF UpdateUser, Begin
  <2>3. PICK r : r = [Idle EXCEPT !.pc = "readUser", !.user = session[b].user,
                                  !.year = year]
    OBVIOUS
  <2>4. req'[b] = r /\ r.year = year
    BY <1>1, <2>2, <2>3 DEF Requests
  <2>5. year = Undefined \/ SetsYear(b, PersonAt[b])
    BY <2>2 DEF SetsYear, OrUndefined
  <2> QED
    BY <1>3, <2>4, <2>5 DEF AsksYear, Decided
<1>4. CASE req'[b].pc = "writeUser"
  <2>1. ReadUser(b)
    BY <1>4, StepOfBrowser
  <2>2. PICK p \in Persons : p = PersonAt[b] /\ p = req[b].user /\ Exists(p)
    BY <1>1, <1>2, <2>1 DEF ReadUser, HasUser, Own
  <2>3. PICK row : row = account[p]
    OBVIOUS
  <2>4. row \in AccountRows /\ row.firstLogin \in BOOLEAN
    BY <1>1, <2>2, <2>3 DEF Exists, AccountRows
  <2>5. PICK year, stamp :
            /\ year = IF row.firstLogin \/ CanUpdateYear(row)
                      THEN req[b].year ELSE Undefined
            /\ stamp = IF /\ ~row.firstLogin /\ CanUpdateYear(row)
                          /\ req[b].year \notin {Undefined, row.graduationYear}
                       THEN now ELSE Undefined
    OBVIOUS
  <2>6. PICK r : r = [req[b] EXCEPT !.pc = "writeUser", !.first = row.firstLogin,
                             !.readAt = now, !.year = year, !.stamp = stamp]
    OBVIOUS
  <2>7. req'[b] = r
    BY <1>1, <2>1, <2>2, <2>3, <2>5, <2>6 DEF ReadUser, Goto
  <2>8. /\ r.pc = "writeUser" /\ r.first = row.firstLogin /\ r.readAt = now
        /\ r.year = year /\ r.stamp = stamp
    BY <1>1, <2>6 DEF Requests
  <2>9. account' = account /\ changed' = changed
    BY <2>1 DEF ReadUser, users
  <2>10. year = Undefined \/ SetsYear(b, PersonAt[b])
    BY <1>2, <2>1, <2>5 DEF AsksYear, ReadUser
  <2>11. CanUpdateYear(row) => changed[p] = Undefined \/ changed[p] + Year < now
    BY <2>3 DEF CanUpdateYear, YearInv, Stamped
  <2>12. AsksYear(b)'
    BY <2>7, <2>8, <2>10 DEF AsksYear
  <2>13. Decided(b)'
    <3>1. year = Undefined \/ r.first => stamp = Undefined
      BY <2>5, <2>8
    <3>2. ASSUME year # Undefined, ~r.first
          PROVE  IF year = row.graduationYear THEN stamp = Undefined
                 ELSE stamp = now /\ (changed[p] = Undefined \/ changed[p] + Year < now)
      <4>1. CanUpdateYear(row) /\ year = req[b].year
        BY <2>5, <2>8, <3>2
      <4> QED
        BY <2>5, <2>8, <2>11, <3>2, <4>1
    <3> QED
      BY <2>2, <2>3, <2>7, <2>8, <2>9, <3>1, <3>2 DEF Decided
  <2> QED
    BY <2>12, <2>13
<1>5. CASE req'[b].pc \notin {"readUser", "writeUser"}
  BY <1>5 DEF AsksYear, Decided
<1> QED
  BY <1>3, <1>4, <1>5

\* What another browser decided still holds.
LEMMA DecidedOtherStep ==
    ASSUME SessionsTypeInv, YearInv, OneUpdater, NEW b \in Browsers, Browser(b),
           NEW c \in Browsers, c # b
    PROVE  AsksYear(c)' /\ Decided(c)'
<1>1. req'[c] = req[c] /\ AsksYear(c) /\ Decided(c) /\ Own(c)
  BY StepOfBrowser DEF YearInv
<1>2. CASE req[c].pc = "writeUser" /\ req[c].year # Undefined
  <2>1. PICK p \in Persons : p = PersonAt[c] /\ Exists(p)
    BY <1>1, <1>2 DEF Own, SessionsTypeInv, HasUser
  <2>2. ~SetsYear(b, p)
    BY <1>1, <1>2, <2>1 DEF AsksYear, OneUpdater
  <2>3. /\ changed'[p] = changed[p]
        /\ account'[p].graduationYear = account[p].graduationYear
    BY <2>1, <2>2, OthersKeepYear
  <2> QED
    BY <1>1, <2>1, <2>3 DEF AsksYear, Decided
<1>3. CASE req[c].pc # "writeUser" \/ req[c].year = Undefined
  BY <1>1, <1>3 DEF AsksYear, Decided
<1> QED
  BY <1>2, <1>3

\* Every step keeps it.
LEMMA YearStep ==
    ASSUME OneUpdater, SessionsTypeInv, YearInv, [Next]_vars PROVE YearInv'
<1>1. ASSUME NEW b \in Browsers, Browser(b) PROVE YearInv'
  <2>1. \A p \in Persons : Stamped(p)'
    BY <1>1, StampedStep
  <2>2. ASSUME NEW c \in Browsers PROVE Own(c)' /\ AsksYear(c)' /\ Decided(c)'
    <3>1. CASE c = b
      BY <1>1, <3>1, OwnStep, DecidedOwnStep DEF YearInv
    <3>2. CASE c # b
      <4>1. Own(c)'
        BY <1>1, <3>2, OwnOtherStep DEF YearInv
      <4> QED
        BY <1>1, <3>2, <4>1, DecidedOtherStep
    <3> QED
      BY <3>1, <3>2
  <2> QED
    BY <2>1, <2>2 DEF YearInv
<1>2. CASE (\E p \in Persons : Welcome(p)) \/ Tick \/ UNCHANGED vars
  <2>1. UNCHANGED <<account, changed, session, req>>
    BY <1>2 DEF Welcome, Tick, vars, users
  <2>2. \A p \in Persons : Stamped(p)'
    BY <2>1 DEF YearInv, Stamped, Exists
  <2>3. \A b \in Browsers : Own(b)' /\ AsksYear(b)' /\ Decided(b)'
    BY <2>1 DEF YearInv, Own, AsksYear, Decided
  <2> QED
    BY <2>2, <2>3 DEF YearInv
<1> QED
  BY <1>1, <1>2 DEF Next

\* It holds at first: nothing was changed, and no request is under way.
LEMMA YearInit == ASSUME OneUpdater, Init PROVE YearInv
<1>1. \A p \in Persons : Stamped(p)
  BY DEF Init, Stamped
<1>2. \A b \in Browsers : req[b] = Idle /\ session[b].user = InitialUsers[b]
  BY DEF Init
<1>3. \A b \in Browsers : Own(b) /\ AsksYear(b) /\ Decided(b)
  BY <1>2, IdleTyped DEF OneUpdater, Own, AsksYear, Decided
<1> QED
  BY <1>1, <1>3 DEF YearInv

\* The write of a change keeps the year's distance to the last one.
LEMMA ChangeKeepsDistance ==
    ASSUME SessionsTypeInv, YearInv, [Next]_vars, NEW b \in Browsers,
           req[b].pc = "writeUser", req'[b] # req[b], ~req[b].first,
           account'[req[b].user].graduationYear # account[req[b].user].graduationYear
    PROVE  LET p == req[b].user IN
           changed[p] = Undefined \/ changed[p] + Year < req[b].readAt
<1>1. PICK p \in Persons : p = req[b].user /\ p = PersonAt[b] /\ Exists(p)
  BY DEF SessionsTypeInv, HasUser, YearInv, Own
<1>2. Browser(b)
  <2>1. ASSUME NEW c \in Browsers, Browser(c) PROVE c = b
    BY <2>1, StepOfBrowser
  <2>2. ASSUME (\E q \in Persons : Welcome(q)) \/ Tick \/ UNCHANGED vars PROVE FALSE
    BY <2>2 DEF Welcome, Tick, vars
  <2> QED
    BY <2>1, <2>2 DEF Next
<1>3. ~SuperUpdateUser(b)
  BY IdleTyped DEF SuperUpdateUser, Begin
<1>4. WriteUser(b)
  BY <1>1, <1>2, <1>3, KeptYear
<1>5. req[b].year # Undefined /\ req[b].year # account[p].graduationYear
  BY <1>1, <1>4, WrittenYear DEF YearInv, Or
<1> QED
  BY <1>1, <1>5 DEF YearInv, Decided

\* A user changes the graduation year once a year: with any number of browsers
\* that log in, update other fields and set years of other persons, as long as
\* the year of this person is set from one browser.
THEOREM OneUpdaterChangesOnceAYear ==
    ASSUME OneUpdater PROVE Spec => YearChangesOnceAYear
<1>1. Init => YearInv
  BY YearInit
<1>2. SessionsTypeInv /\ YearInv /\ [Next]_vars => YearInv'
  BY YearStep
<1>3. SessionsTypeInv /\ YearInv /\ [Next]_vars =>
        [\A b \in Browsers :
          LET p == req[b].user IN
          /\ req[b].pc = "writeUser" /\ req'[b] # req[b] /\ ~req[b].first
          /\ account'[p].graduationYear # account[p].graduationYear
          => changed[p] = Undefined \/ changed[p] + Year < req[b].readAt]_vars
  BY ChangeKeepsDistance
<1> QED
  BY <1>1, <1>2, <1>3, TypesHold, PTL DEF Spec, YearChangesOnceAYear
=============================================================================
