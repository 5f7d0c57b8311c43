----------------------------- MODULE MCSessions -----------------------------
(***************************************************************************)
(* An instance of Sessions for TLC: pat registers with two browsers at     *)
(* once and sets a graduation year; kim is a super user already.           *)
(***************************************************************************)
EXTENDS SessionsProperties, TLC

CONSTANTS pat, kim, b1, b2, b3, x, y

WhoIsAt == (b1 :> pat) @@ (b2 :> pat) @@ (b3 :> kim)
Lists == (pat :> {<<x, y>>, <<y>>}) @@ (kim :> {<<>>, <<x>>})
Accounts == (pat :> NoRow) @@
            (kim :> [firstLogin |-> FALSE, graduationYear |-> 1,
                     graduationYearUpdatedAt |-> Undefined,
                     confirmedStudyProgram |-> Undefined,
                     enrolledStudyPrograms |-> {}])
LoggedIn == (b1 :> Nobody) @@ (b2 :> Nobody) @@ (b3 :> kim)
AskFor == (b1 :> {1, 2}) @@ (b2 :> {}) @@ (b3 :> {1})
Begun == (b1 :> [codeVerifier |-> 9, kind |-> "login"]) @@
         (b2 :> [codeVerifier |-> 9, kind |-> "login"]) @@
         (b3 :> [codeVerifier |-> 9, kind |-> "study-program"])
WhatTheyDo == (b1 :> {"update"}) @@ (b2 :> {"refused"}) @@
              (b3 :> {"super", "logout", "study-program"})
HowOften == (b1 :> 3) @@ (b2 :> 2) @@ (b3 :> 1)
=============================================================================
