------------------------------ MODULE Sessions ------------------------------
(***************************************************************************)
(* Logging in with Feide, sessions, and the users' own data:               *)
(* src/src/services/auth, src/src/services/users, UserRepository, and the  *)
(* registration mail.                                                      *)
(*                                                                         *)
(* A browser has one request under way; a person may use several browsers. *)
(* The session of a browser is what its cookie leads to: the session       *)
(* plugin loads it before a request and stores it with the response, that  *)
(* of an error included.                                                   *)
(***************************************************************************)
EXTENDS Integers, Sequences, FiniteSets

CONSTANTS
    Persons,            \* who has a Feide account
    Browsers, PersonAt, \* browsers, and who uses them
    Programs,           \* study programs, by their id at Feide
    Years,              \* graduation years
    Tells,              \* the lists of study programs Feide has of a person
    SuperUsers,
    InitialAccounts, InitialPrograms,
    InitialUsers,       \* the user each browser is logged in as
    InitialFlow,        \* the flow each browser has begun last, if any
    MayDo,              \* the requests each browser makes
    MayYear,            \* the graduation years each browser asks for
    MayFail,            \* whether requests may throw and processes die
    Year,               \* the length of a year in ticks of the clock
    MaxNow,             \* a bound of the model: the last time
    MaxCalls,           \* a bound of the model: the requests of each browser
    Undefined,          \* an absent or null field
    Nobody,             \* no user in a session
    NoRow               \* a row that does not exist

VARIABLES
    now,        \* the clock
    account,    \* the rows of User, by the Feide id
    program,    \* the rows of StudyProgram, by the external id
    session,    \* the session of each browser
    flows,      \* the authorizations Feide has not called back for yet
    jobs,       \* how many "user-registration" jobs are queued for a person
    welcomed,   \* how many registration mails a person was sent
    lost,       \* persons whose registration job failed or was never added
    req,        \* the request each browser has under way
    calls,      \* how many requests each browser has made
    changed     \* history: when a person's last own change of year was decided

users == <<account, program>>
mail == <<jobs, welcomed, lost>>
vars == <<now, users, session, flows, mail, req, calls, changed>>

-----------------------------------------------------------------------------

OrUndefined(S) == S \cup {Undefined}
AccountRows == [firstLogin : BOOLEAN, graduationYear : OrUndefined(Years),
                graduationYearUpdatedAt : OrUndefined(Nat),
                confirmedStudyProgram : OrUndefined(Programs),
                enrolledStudyPrograms : SUBSET Programs]
\* Mutant of NewAccount: the column has lost its default.
NewAccountUndecided == [firstLogin |-> Undefined, graduationYear |-> Undefined,
               graduationYearUpdatedAt |-> Undefined,
               confirmedStudyProgram |-> Undefined, enrolledStudyPrograms |-> {}]
NewAccount == [firstLogin |-> TRUE, graduationYear |-> Undefined,
               graduationYearUpdatedAt |-> Undefined,
               confirmedStudyProgram |-> Undefined, enrolledStudyPrograms |-> {}]
SessionRows == [user : Persons \cup {Nobody}, codeVerifier : Nat]
LoggedOut == [user |-> Nobody, codeVerifier |-> 0]
Kinds == {"login", "study-program"}
Operations == Kinds \cup {"refused", "logout", "update", "super"}
Flows == [codeVerifier : Nat, kind : Kinds]

ASSUME SessionsAssumption ==
    /\ PersonAt \in [Browsers -> Persons]
    /\ SuperUsers \subseteq Persons
    /\ \A p \in Persons : Tells[p] \subseteq Seq(Programs)
    /\ InitialAccounts \in [Persons -> AccountRows \cup {NoRow}]
    /\ InitialPrograms \subseteq Programs
    /\ InitialUsers \in [Browsers -> Persons \cup {Nobody}]
    /\ InitialFlow \in [Browsers -> Flows \cup {NoRow}]
    /\ \A b \in Browsers :
          InitialFlow[b] # NoRow => InitialFlow[b].codeVerifier > MaxCalls[b]
    /\ \A b \in Browsers :
          InitialUsers[b] # Nobody => InitialAccounts[InitialUsers[b]] # NoRow
    /\ MayDo \in [Browsers -> SUBSET Operations]
    /\ MayYear \in [Browsers -> SUBSET Years]
    /\ MayFail \in BOOLEAN /\ Year \in Nat /\ MaxNow \in Nat
    /\ MaxCalls \in [Browsers -> Nat]
    /\ Undefined \notin Years \cup Nat /\ Undefined \notin Programs
    /\ Nobody \notin Persons /\ NoRow \notin AccountRows

Exists(p) == account[p] # NoRow
Or(value, default) == IF value = Undefined THEN default ELSE value

PCs == {"idle", "getUser", "create", "mail", "login", "groups", "programs",
        "createProgram", "writeProgram", "readUser", "writeUser"}
Requests == [pc : PCs, user : Persons \cup {Nobody},
             renewed : BOOLEAN,               \* the session was regenerated
             todo : Seq(Programs), programs : Seq(Programs),
             first : BOOLEAN,                 \* user.firstLogin, as read
             year : OrUndefined(Years), stamp : OrUndefined(Nat), readAt : Nat]
Idle == [pc |-> "idle", user |-> Nobody, renewed |-> FALSE, todo |-> <<>>,
         programs |-> <<>>, first |-> FALSE, year |-> Undefined,
         stamp |-> Undefined, readAt |-> 0]

Init ==
    /\ now = 0
    /\ account = InitialAccounts
    /\ program = InitialPrograms
    /\ session = [b \in Browsers |->
          [user |-> InitialUsers[b],
           codeVerifier |-> IF InitialFlow[b] = NoRow THEN 0
                            ELSE InitialFlow[b].codeVerifier]]
    /\ flows = [b \in Browsers |-> {InitialFlow[b]} \ {NoRow}]
    /\ jobs = [p \in Persons |-> 0] /\ welcomed = [p \in Persons |-> 0]
    /\ lost = {}
    /\ req = [b \in Browsers |-> Idle]
    /\ calls = [b \in Browsers |-> 0]
    /\ changed = [p \in Persons |-> Undefined]

Begin(b, request) ==
    /\ req[b] = Idle /\ calls[b] < MaxCalls[b]
    /\ calls' = [calls EXCEPT ![b] = @ + 1]
    /\ req' = [req EXCEPT ![b] = request]
Goto(b, request) ==
    req' = [req EXCEPT ![b] = request] /\ UNCHANGED <<session, calls>>
\* The response is sent, and the session stored.
Respond(b) ==
    /\ req' = [req EXCEPT ![b] = Idle]
    /\ session' = IF req[b].renewed
                  THEN [session EXCEPT ![b] = [user |-> req[b].user,
                                               codeVerifier |-> 0]]
                  ELSE session
    /\ UNCHANGED calls

-----------------------------------------------------------------------------
(* generateAuthorizationUrl: /login and /study-program *)

\* A new code verifier replaces the one of an earlier flow, even if no flow is
\* begun because the URL to return to is refused.
GenerateAuthorizationUrl(b) ==
    \E kind \in MayDo[b] \cap (Kinds \cup {"refused"}) :
        /\ Begin(b, Idle)
        /\ session' = [session EXCEPT ![b].codeVerifier = calls'[b]]
        /\ flows' = [flows EXCEPT ![b] = @ \cup
              IF kind = "refused" THEN {}
              ELSE {[codeVerifier |-> calls'[b], kind |-> kind]}]
        /\ UNCHANGED <<now, users, mail, changed>>

-----------------------------------------------------------------------------
(* /login/callback and /study-program/callback *)

\* Feide gives the token only for the verifier the flow was begun with.  The
\* study program needs a session that is logged in, a login does not.
Callback(b) ==
    \E f \in flows[b] :
        /\ flows' = [flows EXCEPT ![b] = @ \ {f}]
        /\ Begin(b, CASE session[b].codeVerifier # f.codeVerifier -> Idle
                      [] f.kind = "login" /\ session[b].codeVerifier = f.codeVerifier ->
                            [Idle EXCEPT !.pc = "getUser", !.user = PersonAt[b]]
                      [] OTHER ->
                            IF session[b].user = Nobody THEN Idle
                            ELSE [Idle EXCEPT !.pc = "groups",
                                              !.user = session[b].user])
        /\ UNCHANGED <<now, users, session, mail, changed>>

\* getByFeideID answers null for a user that does not exist, and for a query
\* that failed.
GetByFeideID(b) ==
    /\ req[b].pc = "getUser"
    /\ \E found \in BOOLEAN :
          /\ found => Exists(req[b].user)
          /\ ~found => ~Exists(req[b].user) \/ MayFail
          /\ Goto(b, [req[b] EXCEPT !.pc = IF found THEN "login" ELSE "create"])
    /\ UNCHANGED <<now, users, flows, mail, changed>>

\* Mutant of CreateUser: a user that exists is taken for the new one.
UpsertUser(b) ==
    /\ req[b].pc = "create"
    /\ account' = IF Exists(req[b].user) THEN account
                  ELSE [account EXCEPT ![req[b].user] = NewAccount]
    /\ Goto(b, [req[b] EXCEPT !.pc = "mail"])
    /\ UNCHANGED <<now, program, flows, mail, changed>>
\* The Feide id is unique: a user who exists by now makes the request throw.
CreateUser(b) ==
    /\ req[b].pc = "create"
    /\ IF Exists(req[b].user)
       THEN Respond(b) /\ UNCHANGED account
       ELSE /\ account' = [account EXCEPT ![req[b].user] = NewAccount]
            /\ Goto(b, [req[b] EXCEPT !.pc = "mail"])
    /\ UNCHANGED <<now, program, flows, mail, changed>>

SendRegistration(b) ==
    /\ req[b].pc = "mail"
    /\ jobs' = [jobs EXCEPT ![req[b].user] = @ + 1]
    /\ Goto(b, [req[b] EXCEPT !.pc = "login"])
    /\ UNCHANGED <<now, users, flows, welcomed, lost, changed>>

\* The session is regenerated and gets the user; the last login is written.
Login(b) ==
    /\ req[b].pc = "login"
    /\ Goto(b, [req[b] EXCEPT !.pc = "groups", !.renewed = TRUE])
    /\ UNCHANGED <<now, users, flows, mail, changed>>

\* updateStudyProgramForUser asks Feide for the groups of the person.
FetchGroups(b) ==
    /\ req[b].pc = "groups"
    /\ \E list \in Tells[PersonAt[b]] :
          IF list = <<>> THEN Respond(b)
          ELSE Goto(b, [req[b] EXCEPT !.pc = "programs", !.todo = list,
                                      !.programs = list])
    /\ UNCHANGED <<now, users, flows, mail, changed>>

GetStudyProgram(b) ==
    /\ req[b].pc = "programs" /\ req[b].todo # <<>>
    /\ Goto(b, IF Head(req[b].todo) \in program
               THEN [req[b] EXCEPT !.todo = Tail(@)]
               ELSE [req[b] EXCEPT !.pc = "createProgram"])
    /\ UNCHANGED <<now, users, flows, mail, changed>>

\* A study program that another login has created since makes it throw; the
\* session is logged in all the same.
CreateStudyProgram(b) ==
    /\ req[b].pc = "createProgram"
    /\ IF Head(req[b].todo) \in program
       THEN Respond(b) /\ UNCHANGED program
       ELSE /\ program' = program \cup {Head(req[b].todo)}
            /\ Goto(b, [req[b] EXCEPT !.pc = "programs", !.todo = Tail(@)])
    /\ UNCHANGED <<now, account, flows, mail, changed>>

\* users.update reads the user first.
ReadForStudyProgram(b) ==
    /\ req[b].pc = "programs" /\ req[b].todo = <<>>
    /\ Goto(b, [req[b] EXCEPT !.pc = "writeProgram",
                              !.first = account[req[b].user].firstLogin])
    /\ UNCHANGED <<now, users, flows, mail, changed>>

\* Mutant of WriteStudyProgram: the programs are added to those there are.
AddStudyPrograms(b) ==
    /\ req[b].pc = "writeProgram"
    /\ account' = [account EXCEPT ![req[b].user] =
          [account[req[b].user] EXCEPT
                    !.confirmedStudyProgram = Head(req[b].programs),
                    !.enrolledStudyPrograms = @ \cup
                        {req[b].programs[i] : i \in DOMAIN req[b].programs},
                    !.firstLogin = @ /\ ~req[b].first]]
    /\ Respond(b)
    /\ UNCHANGED <<now, program, flows, mail, changed>>
\* The first program is the best guess; the programs replace the old ones.
WriteStudyProgram(b) ==
    /\ req[b].pc = "writeProgram"
    /\ account' = [account EXCEPT ![req[b].user] =
          [account[req[b].user] EXCEPT
                    !.confirmedStudyProgram = Head(req[b].programs),
                    !.enrolledStudyPrograms =
                        {req[b].programs[i] : i \in DOMAIN req[b].programs},
                    !.firstLogin = @ /\ ~req[b].first]]
    /\ Respond(b)
    /\ UNCHANGED <<now, program, flows, mail, changed>>

\* /logout destroys the session, and with it the code verifier.
Logout(b) ==
    /\ "logout" \in MayDo[b]
    /\ Begin(b, Idle)
    /\ session' = [session EXCEPT ![b] = LoggedOut]
    /\ UNCHANGED <<now, users, flows, mail, changed>>

-----------------------------------------------------------------------------
(* updateUser and superUpdateUser *)

\* The preHandler finds the user of the session; a year may be given.
UpdateUser(b) ==
    \E year \in OrUndefined(MayYear[b]) :
        /\ "update" \in MayDo[b] /\ session[b].user # Nobody
        /\ Begin(b, [Idle EXCEPT !.pc = "readUser", !.user = session[b].user,
                                 !.year = year])
        /\ UNCHANGED <<now, users, session, flows, mail, changed>>

CanUpdateYear(row) ==
    \/ row.graduationYearUpdatedAt = Undefined
    \/ row.graduationYearUpdatedAt + Year < now

\* Mutant of ReadUser: the first year that is set is not stamped.
ReadUserUnstamped(b) ==
    LET row == account[req[b].user]
    IN  /\ req[b].pc = "readUser"
        /\ Goto(b, [req[b] EXCEPT
              !.pc = "writeUser", !.first = row.firstLogin, !.readAt = now,
              !.year = IF row.firstLogin \/ CanUpdateYear(row) THEN @ ELSE Undefined,
              !.stamp = IF /\ ~row.firstLogin /\ CanUpdateYear(row)
                           /\ row.graduationYear # Undefined
                           /\ req[b].year \notin {Undefined, row.graduationYear}
                        THEN now ELSE Undefined])
        /\ UNCHANGED <<now, users, flows, mail, changed>>
\* The row decides: a first update is free, later ones need a year's distance
\* and are stamped if they change the year.
ReadUser(b) ==
    LET row == account[req[b].user]
    IN  /\ req[b].pc = "readUser"
        /\ Goto(b, [req[b] EXCEPT
              !.pc = "writeUser", !.first = row.firstLogin, !.readAt = now,
              !.year = IF row.firstLogin \/ CanUpdateYear(row) THEN @ ELSE Undefined,
              !.stamp = IF /\ ~row.firstLogin /\ CanUpdateYear(row)
                           /\ req[b].year \notin {Undefined, row.graduationYear}
                        THEN now ELSE Undefined])
        /\ UNCHANGED <<now, users, flows, mail, changed>>

WriteUser(b) ==
    LET p == req[b].user
        row == [account[p] EXCEPT
                   !.graduationYear = Or(req[b].year, @),
                   !.graduationYearUpdatedAt = Or(req[b].stamp, @),
                   !.firstLogin = @ /\ ~req[b].first]
    IN  /\ req[b].pc = "writeUser"
        /\ account' = [account EXCEPT ![p] = row]
        /\ changed' = IF /\ ~req[b].first
                         /\ row.graduationYear # account[p].graduationYear
                      THEN [changed EXCEPT ![p] = req[b].readAt] ELSE changed
        /\ Respond(b)
        /\ UNCHANGED <<now, program, flows, mail>>

\* A super user sets the year of anybody, without a stamp.
SuperUpdateUser(b) ==
    \E p \in Persons, year \in MayYear[b] :
        /\ "super" \in MayDo[b] /\ session[b].user \in SuperUsers /\ Exists(p)
        /\ Begin(b, Idle)
        /\ account' = [account EXCEPT ![p].graduationYear = year]
        /\ UNCHANGED <<now, program, session, flows, mail, changed>>

-----------------------------------------------------------------------------
(* Failures, mails and the clock *)

Unannounced(b) == IF req[b].pc = "mail" THEN {req[b].user} ELSE {}

\* A call to Feide, the database or Redis fails: the response is an error.
RequestThrows(b) ==
    /\ MayFail /\ req[b] # Idle
    /\ lost' = lost \cup Unannounced(b)
    /\ Respond(b)
    /\ UNCHANGED <<now, users, flows, jobs, welcomed, changed>>

\* The process dies: the browser keeps the session it had.
ProcessDies(b) ==
    /\ MayFail /\ req[b] # Idle
    /\ lost' = lost \cup Unannounced(b)
    /\ Goto(b, Idle)
    /\ UNCHANGED <<now, users, flows, jobs, welcomed, changed>>

\* Mutant of Welcome: the mail is for those who have completed their profile.
WelcomeComplete(p) ==
    /\ jobs[p] > 0
    /\ jobs' = [jobs EXCEPT ![p] = @ - 1]
    /\ welcomed' = [welcomed EXCEPT ![p] =
                       IF account[p].firstLogin THEN @ ELSE @ + 1]
    /\ UNCHANGED <<now, users, session, flows, lost, req, calls, changed>>
\* The mail worker takes a job and sends the mail, or fails for good.
Welcome(p) ==
    /\ jobs[p] > 0
    /\ jobs' = [jobs EXCEPT ![p] = @ - 1]
    /\ \/ welcomed' = [welcomed EXCEPT ![p] = @ + 1] /\ UNCHANGED lost
       \/ MayFail /\ lost' = lost \cup {p} /\ UNCHANGED welcomed
    /\ UNCHANGED <<now, users, session, flows, req, calls, changed>>

Tick ==
    /\ now < MaxNow
    /\ now' = now + 1
    /\ UNCHANGED <<users, session, flows, mail, req, calls, changed>>

-----------------------------------------------------------------------------

Continue(b) ==
    \/ GetByFeideID(b)
    \/ CreateUser(b)
    \/ SendRegistration(b)
    \/ Login(b)
    \/ FetchGroups(b)
    \/ GetStudyProgram(b)
    \/ CreateStudyProgram(b)
    \/ ReadForStudyProgram(b)
    \/ WriteStudyProgram(b)
    \/ ReadUser(b)
    \/ WriteUser(b)

Browser(b) ==
    \/ GenerateAuthorizationUrl(b)
    \/ Callback(b)
    \/ Logout(b)
    \/ UpdateUser(b)
    \/ SuperUpdateUser(b)
    \/ RequestThrows(b)
    \/ ProcessDies(b)
    \/ Continue(b)

Next ==
    \/ \E b \in Browsers : Browser(b)
    \/ \E p \in Persons : Welcome(p)
    \/ Tick

Spec == Init /\ [][Next]_vars

\* Node runs the callbacks of settled promises, and BullMQ polls its queue.
FairSpec ==
    /\ Spec
    /\ \A b \in Browsers : WF_vars(Continue(b))
    /\ \A p \in Persons : WF_vars(Welcome(p))

=============================================================================
