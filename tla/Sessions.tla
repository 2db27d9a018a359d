------------------------------ MODULE Sessions ------------------------------
(***************************************************************************)
(* Signing in and staying signed in (auth.service.ts): one-time codes, the *)
(* ways to sign in of one person with an email and a phone number, the     *)
(* sessions of refresh tokens, their rotation and their end.               *)
(*                                                                         *)
(* Except for resetPassword and the phone sign-in, which end in a          *)
(* transaction, every statement stands alone: a code that was read unused  *)
(* may be used by another call before it is marked, and a session that was *)
(* read may be gone before it is deleted.                                  *)
(***************************************************************************)
EXTENDS Naturals, Sequences, FiniteSets

CONSTANTS
  Calls,        \* mutations and guarded requests in flight at the same time
  MaxCodes,     \* bound: rows of otp_codes
  MaxSessions   \* bound: rows ever inserted into user_sessions

ASSUME SessionsAssumption == MaxCodes \in Nat /\ MaxSessions \in Nat

VARIABLES
  account,   \* the profile with the email and the one with the phone number
  admin,     \* the email's profile is an administrator's
  password,  \* which password is the email profile's: the n-th
  codes,     \* otp_codes, in the order of created_at
  sessions,  \* user_sessions ever inserted
  doing      \* what each call has found and does next

svars == <<account, admin, password, codes, sessions, doing>>

\* The modes of codes: signup, signin and email_verification serve alike.
Modes == {"email", "phone", "reset"}
Ways  == {"email", "phone", "password", "google"}

AccountOf(by) == IF by = "phone" THEN "phone" ELSE "email"

Idle == [at |-> "idle", by |-> "none", nr |-> 0, found |-> "none"]

Init ==
  /\ admin \in BOOLEAN
  /\ account = [email |-> IF admin THEN "verified" ELSE "none", phone |-> "none"]
  /\ password = 0
  /\ codes = <<>>
  /\ sessions = <<>>
  /\ doing = [c \in Calls |-> Idle]

Begin(c, at, by, nr) ==
  /\ doing[c] = Idle
  /\ doing' = [doing EXCEPT ![c] = [at |-> at, by |-> by, nr |-> nr, found |-> "none"]]

Goes(c, at) == doing' = [doing EXCEPT ![c].at = at, ![c].found = "none"]
Ends(c) == doing' = [doing EXCEPT ![c] = Idle]

Code(mode) == [mode |-> mode, used |-> FALSE, expired |-> FALSE]
Send(mode) == Len(codes) < MaxCodes /\ codes' = Append(codes, Code(mode))
Spend(k) == codes' = [codes EXCEPT ![k].used = TRUE]

-----------------------------------------------------------------------------
(* requestOtp, requestPhoneOtp, forgotPassword, signUpWithRole. *)

\* A signup code without an account, a signin code with one; a reset code only with one.
RequestCode(mode) ==
  /\ mode = "reset" => account.email # "none"
  /\ Send(mode)
  /\ UNCHANGED <<account, admin, password, sessions, doing>>

RequestOtp == RequestCode("email")
RequestPhoneOtp == RequestCode("phone")
ForgotPassword == RequestCode("reset")

\* The unique email lets one signup create the profile; its code may fail to follow.
SignUp ==
  /\ account.email = "none"
  /\ account' = [account EXCEPT !.email = "unverified"]
  /\ Send("email") \/ UNCHANGED codes
  /\ UNCHANGED <<admin, password, sessions, doing>>

-----------------------------------------------------------------------------
(* verifyOtp, verifyPhoneOtpAndAuthenticate, resetPassword, each with the  *)
(* newest code of its mode that is neither used nor expired.               *)

Usable(mode) == {k \in DOMAIN codes : codes[k].mode = mode /\ ~codes[k].used /\ ~codes[k].expired}

Newest(ks) == CHOOSE k \in ks : \A l \in ks : l <= k

TakeCode(c, mode) ==
  /\ Usable(mode) # {}
  /\ Begin(c, CASE mode = "email" -> "spend" [] mode = "phone" -> "find" [] OTHER -> "reset",
           mode, Newest(Usable(mode)))
  /\ UNCHANGED <<account, admin, password, codes, sessions>>

\* The code is marked used whatever it has become since.
UseCode(c) ==
  /\ doing[c].at = "spend"
  /\ Spend(doing[c].nr)
  /\ Goes(c, "find")
  /\ UNCHANGED <<account, admin, password, sessions>>

Delete(is) == sessions' = [i \in DOMAIN sessions |->
                             IF i \in is THEN [sessions[i] EXCEPT !.state = "gone"]
                                         ELSE sessions[i]]

\* Bug: the sessions are left out.
ResetKeepsSessions(c) ==
  /\ doing[c].at = "reset"
  /\ Spend(doing[c].nr)
  /\ password' = password + 1
  /\ Ends(c)
  /\ UNCHANGED <<account, admin, sessions>>

\* One transaction: the code, the password and every session of the email's profile.
Reset(c) ==
  /\ doing[c].at = "reset"
  /\ Spend(doing[c].nr)
  /\ password' = password + 1
  /\ Delete({i \in DOMAIN sessions : AccountOf(sessions[i].by) = "email"})
  /\ Ends(c)
  /\ UNCHANGED <<account, admin>>

-----------------------------------------------------------------------------
(* signIn and signInWithGoogle. *)

\* The password is right at this moment; the session follows.
SignIn(c) ==
  /\ admin /\ account.email = "verified"
  /\ Begin(c, "issue", "password", password)
  /\ UNCHANGED <<account, admin, password, codes, sessions>>

SignInWithGoogle(c) ==
  /\ Begin(c, "find", "google", 0)
  /\ UNCHANGED <<account, admin, password, codes, sessions>>

-----------------------------------------------------------------------------
(* The profile a way of signing in leads to. *)

FindAccount(c) ==
  /\ doing[c].at = "find"
  /\ doing' = [doing EXCEPT ![c].at = "save", ![c].found = account[AccountOf(doing[c].by)]]
  /\ UNCHANGED <<account, admin, password, codes, sessions>>

\* A profile that was not found is created, unless another call has done it since; one
\* that was is verified.  The phone sign-in spends its code in the same transaction.
SaveAccount(c) ==
  /\ doing[c].at = "save"
  /\ LET a == AccountOf(doing[c].by)
         taken == doing[c].found = "none" /\ account[a] # "none"
     IN  IF taken
           THEN Ends(c) /\ UNCHANGED <<account, codes>>
           ELSE /\ account' = [account EXCEPT ![a] = "verified"]
                /\ IF doing[c].by = "phone" THEN Spend(doing[c].nr) ELSE UNCHANGED codes
                /\ IF doing[c].by = "google" /\ admin THEN Ends(c) ELSE Goes(c, "issue")
  /\ UNCHANGED <<admin, password, sessions>>

-----------------------------------------------------------------------------
(* issueTokens, rotateSession, logout. *)

\* A session knows the sign-in it descends from: its own row, or that of the session it
\* replaces.
Issue(c) ==
  /\ doing[c].at = "issue"
  /\ Len(sessions) < MaxSessions
  /\ LET d == doing[c]
     IN  sessions' = Append(sessions,
           IF d.by = "rotate"
             THEN [sessions[d.nr] EXCEPT !.state = "live"]
             ELSE [root |-> Len(sessions) + 1, by |-> d.by, nr |-> d.nr, state |-> "live"])
  /\ Ends(c)
  /\ UNCHANGED <<account, admin, password, codes>>

\* GqlAuthGuard and refreshToken, with a token that is still good.
RotateReads(c) ==
  /\ \E i \in DOMAIN sessions : sessions[i].state = "live" /\ Begin(c, "delete", "rotate", i)
  /\ UNCHANGED <<account, admin, password, codes, sessions>>

\* Bug: the old session is left for later.
RotateKeeps(c) ==
  /\ doing[c].at = "delete"
  /\ IF sessions[doing[c].nr].state = "gone" THEN Ends(c) ELSE Goes(c, "issue")
  /\ UNCHANGED <<account, admin, password, codes, sessions>>

\* The delete throws when the row is gone.
RotateDeletes(c) ==
  /\ doing[c].at = "delete"
  /\ IF sessions[doing[c].nr].state = "gone"
       THEN Ends(c) /\ UNCHANGED sessions
       ELSE Delete({doing[c].nr}) /\ Goes(c, "issue")
  /\ UNCHANGED <<account, admin, password, codes>>

Logout ==
  /\ \E i \in DOMAIN sessions : sessions[i].state # "gone" /\ Delete({i})
  /\ UNCHANGED <<account, admin, password, codes, doing>>

-----------------------------------------------------------------------------
(* Time and failures. *)

\* Of a code that was used nothing more is to expire.
ExpireCode ==
  /\ \E k \in DOMAIN codes :
       ~codes[k].used /\ ~codes[k].expired /\ codes' = [codes EXCEPT ![k].expired = TRUE]
  /\ UNCHANGED <<account, admin, password, sessions, doing>>

ExpireSession ==
  /\ \E i \in DOMAIN sessions :
       sessions[i].state = "live" /\ sessions' = [sessions EXCEPT ![i].state = "expired"]
  /\ UNCHANGED <<account, admin, password, codes, doing>>

\* A statement fails, or the process dies.
Fails(c) ==
  /\ doing[c] # Idle
  /\ Ends(c)
  /\ UNCHANGED <<account, admin, password, codes, sessions>>

-----------------------------------------------------------------------------
(* The mutations, step by step. *)

Authenticates(c, by) ==
  /\ doing[c].by = by
  /\ FindAccount(c) \/ SaveAccount(c) \/ Issue(c)

VerifyOtp(c) == TakeCode(c, "email") \/ UseCode(c) \/ Authenticates(c, "email")
VerifyPhoneOtp(c) == TakeCode(c, "phone") \/ Authenticates(c, "phone")
ResetPassword(c) == TakeCode(c, "reset") \/ Reset(c)
UseGoogle(c) == SignInWithGoogle(c) \/ Authenticates(c, "google")

\* What an authentication with nothing to look up ends in.
Issues(c, by) == doing[c].by = by /\ Issue(c)

UsePassword(c) == SignIn(c) \/ Issues(c, "password")

\* Called by the guard when the access token is over, and by refreshToken, which goes on
\* to answer with the token that was just given up.
RotateSession(c) == RotateReads(c) \/ RotateDeletes(c) \/ Issues(c, "rotate")

Next ==
  \/ SignUp \/ RequestOtp \/ RequestPhoneOtp \/ ForgotPassword
  \/ Logout \/ ExpireCode \/ ExpireSession
  \/ \E c \in Calls :
       \/ VerifyOtp(c) \/ VerifyPhoneOtp(c) \/ ResetPassword(c)
       \/ UseGoogle(c) \/ UsePassword(c) \/ RotateSession(c) \/ Fails(c)

Spec == Init /\ [][Next]_svars

-----------------------------------------------------------------------------
(* Properties. *)

Session == [root : 1..MaxSessions, by : Ways, nr : Nat, state : {"live", "expired", "gone"}]

TypeOK ==
  /\ account \in [{"email", "phone"} -> {"none", "unverified", "verified"}]
  /\ admin \in BOOLEAN
  /\ password \in Nat
  /\ codes \in Seq([mode : Modes, used : BOOLEAN, expired : BOOLEAN])
  /\ sessions \in Seq(Session)
  /\ doing \in [Calls -> [at : {"idle", "spend", "find", "save", "reset", "delete", "issue"},
                          by : Ways \cup {"none", "reset", "rotate"}, nr : Nat,
                          found : {"none", "unverified", "verified"}]]

Roots == {i \in DOMAIN sessions : sessions[i].root = i}

\* What may still be used or rotated on account of a sign-in: its sessions, and the
\* rotations that have deleted one and not inserted the next.
Standing(r) == {i \in DOMAIN sessions : sessions[i].root = r /\ sessions[i].state # "gone"}
Rotating(r) == {c \in Calls : /\ doing[c].by = "rotate" /\ doing[c].at = "issue"
                              /\ sessions[doing[c].nr].root = r}

\* However many requests refresh with one token at a time, a sign-in has one session at
\* most: rotation does not multiply it.
OneSessionPerSignIn ==
  \A r \in Roots : Cardinality(Standing(r)) + Cardinality(Rotating(r)) <= 1

\* A sign-in that a logout, a reset or a lost rotation has ended stays ended, whatever
\* requests had read its session before.
EndedStaysEnded ==
  [][\A r \in Roots : Standing(r) \cup Rotating(r) = {} => (Standing(r) \cup Rotating(r))' = {}]_svars

\* The credentials: the codes, and the passwords so far.
Creds == {<<codes[k].mode, k>> : k \in DOMAIN codes} \cup ({"password"} \X (0..password))

Spent(cred) ==
  IF cred[1] = "password" THEN cred[2] # password
                          ELSE codes[cred[2]].used \/ codes[cred[2]].expired

InHand(cred) == \E c \in Calls : doing[c].by = cred[1] /\ doing[c].nr = cred[2]

SignIns(cred) == {r \in Roots : sessions[r].by = cred[1] /\ sessions[r].nr = cred[2]}

\* A code that is used or expired, or a password that was replaced, and that no call has
\* in hand any more, signs nobody in again.
SpentIsDead ==
  [][\A cred \in Creds :
       Spent(cred) /\ ~InHand(cred) => /\ Spent(cred)' /\ ~InHand(cred)'
                                       /\ SignIns(cred)' = SignIns(cred)]_svars

Made == [r \in Roots |-> <<sessions[r].by, sessions[r].nr>>]
Renewing == {sessions[doing[c].nr].root :
               c \in {d \in Calls : doing[d].by = "rotate" /\ doing[d].at = "issue"}}
Alive    == {sessions[i].root : i \in {j \in DOMAIN sessions : sessions[j].state # "gone"}}
              \cup Renewing

Promise == INSTANCE SignedIn WITH
  Ids <- 1..MaxSessions,
  OfEmail <- {"email", "password", "google"} \X Nat,
  offered <- Creds \cup {<<"google", 0>>},
  closed <- {cred \in Creds : Spent(cred) /\ ~InHand(cred)},
  made <- Made,
  alive <- Alive,
  renewing <- Renewing

\* Whatever statements of the mutations fall between each other, fail or are lost: a
\* session comes from a credential that is good, or was when a call took it in hand, or
\* from the one session it replaces; refreshing multiplies and revives no sign-in; and
\* resetPassword ends them all, except those a refresh has just deleted to insert anew.
ImplementsSignedIn == Promise!Spec
=============================================================================
