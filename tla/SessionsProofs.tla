--------------------------- MODULE SessionsProofs ---------------------------
(***************************************************************************)
(* Sessions and credentials for any number of calls, codes and sessions.   *)
(***************************************************************************)
EXTENDS Sessions, LibraryProofs

\* Every session descends from a sign-in that is not younger than it is.
RootInv ==
  \A i \in DOMAIN sessions :
    /\ sessions[i].root \in 1..i
    /\ sessions[sessions[i].root].root = sessions[i].root
    /\ sessions[sessions[i].root].by = sessions[i].by

\* A call that is to delete a session, or has, knows one that exists; after the deletion
\* it is gone.
RotateInv ==
  \A c \in Calls : doing[c].by = "rotate" =>
    /\ doing[c].nr \in DOMAIN sessions
    /\ doing[c].at \in {"delete", "issue"}
    /\ doing[c].at = "issue" => sessions[doing[c].nr].state = "gone"

\* A statement is due only where its mutation gets to, and the credential in hand is one
\* there has been.
InPlace(c) ==
  /\ doing[c].at = "delete" => doing[c].by = "rotate"
  /\ doing[c].at = "spend" => doing[c].by = "email"
  /\ doing[c].at \in {"find", "save"} => doing[c].by \in {"email", "phone", "google"}
  /\ doing[c].at = "issue" => doing[c].by \in Ways \cup {"rotate"}
  /\ doing[c].at \in {"spend", "reset"} => doing[c].nr \in DOMAIN codes
  /\ doing[c].by \in {"email", "phone"} =>
       doing[c].nr \in DOMAIN codes /\ codes[doing[c].nr].mode = doing[c].by
  /\ doing[c].by = "password" => doing[c].nr \in 0..password
  /\ doing[c].by = "google" => doing[c].nr = 0

CallInv == \A c \in Calls : InPlace(c)

\* What stands for a sign-in is one thing: a session or a rotation in flight.
OneStands ==
  \A r \in DOMAIN sessions :
    /\ \A i, j \in Standing(r) : i = j
    /\ \A c, d \in Rotating(r) : c = d
    /\ Standing(r) = {} \/ Rotating(r) = {}

IInv == TypeOK /\ RootInv /\ RotateInv /\ CallInv /\ OneStands

USE SessionsAssumption

-----------------------------------------------------------------------------
\* What the credentials are.
LEMMA CredsAre ==
  ASSUME TypeOK
  PROVE  \A cred \in Creds :
           /\ cred[1] \in {"email", "phone", "reset", "password"}
           /\ cred[1] = "password" => cred[2] \in 0..password
           /\ cred[1] # "password" => cred[2] \in DOMAIN codes
<1> DEFINE Row == [mode : Modes, used : BOOLEAN, expired : BOOLEAN]
<1>0. codes \in [1..Len(codes) -> Row]
  BY LenProperties DEF TypeOK
<1>1. \A k \in DOMAIN codes : codes[k].mode \in {"email", "phone", "reset"}
  BY <1>0 DEF Modes
<1>2. ASSUME NEW k \in DOMAIN codes, NEW cred, cred = <<codes[k].mode, k>>
      PROVE  cred[1] \in {"email", "phone", "reset"} /\ cred[2] \in DOMAIN codes
  BY <1>1, <1>2
<1>3. ASSUME NEW cred \in {"password"} \X (0..password)
      PROVE  cred[1] = "password" /\ cred[2] \in 0..password
  OBVIOUS
<1>4. \A cred \in Creds : \/ cred \in {"password"} \X (0..password)
                          \/ \E k \in DOMAIN codes : cred = <<codes[k].mode, k>>
  BY DEF Creds
<1> QED
  BY <1>2, <1>3, <1>4

\* What deleting rows leaves of the others.
LEMMA DeleteKeeps ==
  ASSUME TypeOK, NEW is, Delete(is)
  PROVE  /\ sessions' \in Seq(Session) /\ DOMAIN sessions' = DOMAIN sessions
         /\ \A i \in DOMAIN sessions :
              /\ sessions'[i].root = sessions[i].root
              /\ sessions'[i].by = sessions[i].by /\ sessions'[i].nr = sessions[i].nr
              /\ sessions'[i].state = IF i \in is THEN "gone" ELSE sessions[i].state
<1>1. Len(sessions) \in Nat /\ DOMAIN sessions = 1..Len(sessions)
      /\ \A i \in DOMAIN sessions : sessions[i] \in Session
  BY LenProperties DEF TypeOK
<1>2. sessions' \in [1..Len(sessions) -> Session]
  BY <1>1 DEF Delete, Session
<1> QED
  BY <1>1, <1>2, FunctionIsSeq DEF Delete, Session

\* What issuing a session adds.
LEMMA IssueAdds ==
  ASSUME IInv, NEW c \in Calls, Issue(c)
  PROVE  LET n == Len(sessions) + 1
             d == doing[c]
         IN  /\ sessions' \in Seq(Session) /\ DOMAIN sessions = 1..(n - 1)
             /\ DOMAIN sessions' = 1..n /\ n \in Nat
             /\ \A i \in DOMAIN sessions : sessions'[i] = sessions[i]
             /\ sessions'[n].state = "live"
             /\ IF d.by = "rotate" THEN /\ sessions'[n].root = sessions[d.nr].root
                                        /\ sessions'[n].by = sessions[d.nr].by
                                        /\ d.nr \in DOMAIN sessions
                                   ELSE sessions'[n].root = n /\ sessions'[n].by = d.by
                                        /\ sessions'[n].nr = d.nr
<1> DEFINE n == Len(sessions) + 1
           d == doing[c]
           new == IF d.by = "rotate" THEN [sessions[d.nr] EXCEPT !.state = "live"]
                  ELSE [root |-> n, by |-> d.by, nr |-> d.nr, state |-> "live"]
<1>1. Len(sessions) \in Nat /\ DOMAIN sessions = 1..Len(sessions)
      /\ \A i \in DOMAIN sessions : sessions[i] \in Session
  BY LenProperties DEF IInv, TypeOK
<1>2. d.by \in Ways \cup {"rotate"} /\ d.nr \in Nat
      /\ (d.by = "rotate" => d.nr \in DOMAIN sessions)
  BY DEF IInv, CallInv, InPlace, RotateInv, Issue, TypeOK
<1>3. new \in Session /\ new.state = "live"
      /\ IF d.by = "rotate" THEN new.root = sessions[d.nr].root /\ new.by = sessions[d.nr].by
                            ELSE new.root = n /\ new.by = d.by /\ new.nr = d.nr
  <2>1. CASE d.by = "rotate"
    <3>1. sessions[d.nr] \in Session /\ new = [sessions[d.nr] EXCEPT !.state = "live"]
      BY <1>1, <1>2, <2>1
    <3> QED
      BY <2>1, <3>1 DEF Session
  <2>2. CASE d.by # "rotate"
    BY <1>1, <1>2, <2>2 DEF Session, Issue
  <2> QED
    BY <2>1, <2>2
<1>4. sessions' = Append(sessions, new)
  BY DEF Issue
<1> HIDE DEF new
<1>5. sessions' \in Seq(Session) /\ Len(sessions') = n
      /\ (\A i \in 1..Len(sessions) : sessions'[i] = sessions[i]) /\ sessions'[n] = new
  BY <1>3, <1>4, AppendProperties DEF IInv, TypeOK
<1>6. DOMAIN sessions' = 1..n
  BY <1>5, LenProperties
<1> QED
  BY <1>1, <1>2, <1>3, <1>5, <1>6

LEMMA InitInv == Init => IInv
<1> SUFFICES ASSUME Init PROVE IInv
  OBVIOUS
<1>1. DOMAIN sessions = {} /\ sessions \in Seq(Session) /\ DOMAIN codes = {}
      /\ codes \in Seq([mode : Modes, used : BOOLEAN, expired : BOOLEAN])
  BY DEF Init
<1>2. TypeOK
  BY <1>1 DEF Init, TypeOK, Idle, Ways
<1> QED
  BY <1>1, <1>2 DEF Init, IInv, RootInv, RotateInv, CallInv, InPlace, OneStands, Rotating, Idle
-----------------------------------------------------------------------------
\* A call that has not just given up a session.
Quiet(c) ==
  /\ InPlace(c)
  /\ doing[c].by = "rotate" => doing[c].at = "delete" /\ doing[c].nr \in DOMAIN sessions

\* A call takes no credential into hand that is spent.
Fresh(c) ==
  \A cred \in Creds : Spent(cred) => (doing[c].by # cred[1] \/ doing[c].nr # cred[2])'

\* A step that adds no session and takes none back from the dead, gives none up that is to
\* be replaced, and takes no credential back either.
Tame ==
  /\ TypeOK'
  /\ DOMAIN sessions' = DOMAIN sessions
  /\ \A i \in DOMAIN sessions :
       /\ sessions'[i].root = sessions[i].root
       /\ sessions'[i].by = sessions[i].by /\ sessions'[i].nr = sessions[i].nr
       /\ sessions[i].state = "gone" => sessions'[i].state = "gone"
  /\ DOMAIN codes \subseteq DOMAIN codes'
  /\ \A k \in DOMAIN codes : /\ codes[k].used => codes'[k].used
                             /\ codes[k].expired => codes'[k].expired
                             /\ codes'[k].mode = codes[k].mode
  /\ password' \in {password, password + 1}
  /\ \A c \in Calls :
       \/ UNCHANGED doing[c]
       \/ Quiet(c)' /\ (UNCHANGED <<doing[c].by, doing[c].nr>> \/ Fresh(c))

LEMMA QuietStep == IInv /\ Tame => IInv'
<1> SUFFICES ASSUME IInv, Tame PROVE IInv'
  OBVIOUS
<1> USE DEF Tame
<1>1. RootInv'
  <2>1. \A i \in DOMAIN sessions : sessions[i].root \in DOMAIN sessions
    <3>1. Len(sessions) \in Nat /\ DOMAIN sessions = 1..Len(sessions)
      BY LenProperties DEF IInv, TypeOK
    <3> QED
      BY <3>1 DEF IInv, RootInv
  <2> QED
    BY <2>1 DEF IInv, RootInv
<1>2. RotateInv' /\ CallInv'
  <2>1. ASSUME NEW c \in Calls, UNCHANGED doing[c]
        PROVE  InPlace(c)'
    <3>1. InPlace(c) /\ password \in Nat /\ doing[c].nr \in Nat
      BY DEF IInv, CallInv, TypeOK
    <3>2. doing[c].nr \in 0..password => doing[c].nr \in 0..password'
      BY <3>1
    <3> QED
      BY <2>1, <3>1, <3>2 DEF InPlace
  <2>2. \A c \in Calls : InPlace(c)'
    BY <2>1 DEF Quiet
  <2>3. RotateInv'
    BY DEF IInv, RotateInv, Quiet
  <2> QED
    BY <2>2, <2>3 DEF CallInv
<1>3. \A r \in DOMAIN sessions : Standing(r)' \subseteq Standing(r)
  BY DEF Standing
<1>4. \A r \in DOMAIN sessions : Rotating(r)' \subseteq Rotating(r)
  BY DEF Rotating, Quiet, IInv, RotateInv
<1>5. OneStands'
  BY <1>3, <1>4 DEF IInv, OneStands
<1> QED
  BY <1>1, <1>2, <1>5 DEF IInv

\* The codes after one was sent, spent or expired.
LEMMA CodesKept ==
  ASSUME TypeOK, \/ UNCHANGED codes
                 \/ \E mode \in Modes : Send(mode)
                 \/ \E k \in DOMAIN codes : Spend(k)
                 \/ \E k \in DOMAIN codes : codes' = [codes EXCEPT ![k].expired = TRUE]
  PROVE  /\ codes' \in Seq([mode : Modes, used : BOOLEAN, expired : BOOLEAN])
         /\ DOMAIN codes \subseteq DOMAIN codes'
         /\ \A k \in DOMAIN codes : /\ codes[k].used => codes'[k].used
                                    /\ codes[k].expired => codes'[k].expired
                                    /\ codes'[k].mode = codes[k].mode
<1> DEFINE Row == [mode : Modes, used : BOOLEAN, expired : BOOLEAN]
<1>1. Len(codes) \in Nat /\ DOMAIN codes = 1..Len(codes) /\ codes \in [1..Len(codes) -> Row]
  BY LenProperties DEF TypeOK
<1>2. CASE UNCHANGED codes
  BY <1>2 DEF TypeOK
<1>3. ASSUME NEW mode \in Modes, Send(mode)
      PROVE  /\ codes' \in Seq(Row) /\ DOMAIN codes \subseteq DOMAIN codes'
             /\ \A k \in DOMAIN codes : codes'[k] = codes[k]
  <2>1. Code(mode) \in Row
    BY DEF Code
  <2>2. codes' = Append(codes, Code(mode))
    BY <1>3 DEF Send
  <2>3. codes' \in Seq(Row) /\ Len(codes') = Len(codes) + 1
        /\ \A k \in 1..Len(codes) : codes'[k] = codes[k]
    BY <2>1, <2>2, AppendProperties DEF TypeOK
  <2>4. DOMAIN codes' = 1..(Len(codes) + 1)
    BY <2>3, LenProperties
  <2>5. DOMAIN codes = 1..Len(codes) /\ Len(codes) \in Nat
    BY <1>1
  <2>6. DOMAIN codes \subseteq DOMAIN codes'
    <3>1. \A n \in Nat : 1..n \subseteq 1..(n + 1)
      OBVIOUS
    <3> QED
      BY <2>4, <2>5, <3>1, Zenon
  <2>7. \A k \in DOMAIN codes : codes'[k] = codes[k]
    BY <2>3, <2>5
  <2> QED
    BY <2>3, <2>6, <2>7
<1>4. ASSUME NEW k \in DOMAIN codes, NEW row \in Row, codes' = [codes EXCEPT ![k] = row]
      PROVE  codes' \in Seq(Row) /\ DOMAIN codes' = DOMAIN codes
  BY <1>1, <1>4, FunctionIsSeq
<1>5. ASSUME NEW k \in DOMAIN codes,
             Spend(k) \/ codes' = [codes EXCEPT ![k].expired = TRUE]
      PROVE  /\ codes' \in Seq(Row) /\ DOMAIN codes' = DOMAIN codes
             /\ \A l \in DOMAIN codes : /\ codes[l].used => codes'[l].used
                                        /\ codes[l].expired => codes'[l].expired
                                        /\ codes'[l].mode = codes[l].mode
  <2>1. [codes[k] EXCEPT !.used = TRUE] \in Row /\ [codes[k] EXCEPT !.expired = TRUE] \in Row
    BY <1>1
  <2>2. PICK row \in Row : codes' = [codes EXCEPT ![k] = row]
    BY <1>5, <2>1 DEF Spend
  <2>3. codes' \in Seq(Row) /\ DOMAIN codes' = DOMAIN codes
    BY <1>4, <2>2
  <2>4. \A x \in Row : /\ [x EXCEPT !.used = TRUE].used
                       /\ [x EXCEPT !.used = TRUE].expired = x.expired
                       /\ [x EXCEPT !.used = TRUE].mode = x.mode
                       /\ [x EXCEPT !.expired = TRUE].expired
                       /\ [x EXCEPT !.expired = TRUE].used = x.used
                       /\ [x EXCEPT !.expired = TRUE].mode = x.mode
    OBVIOUS
  <2>5. \/ codes' = [codes EXCEPT ![k] = [codes[k] EXCEPT !.used = TRUE]]
        \/ codes' = [codes EXCEPT ![k] = [codes[k] EXCEPT !.expired = TRUE]]
    BY <1>5 DEF Spend
  <2>6. codes[k] \in Row
    BY <1>1
  <2> HIDE DEF Row
  <2> QED
    BY <1>1, <2>3, <2>4, <2>5, <2>6
<1> QED
  BY <1>2, <1>3, <1>5
-----------------------------------------------------------------------------
\* A bounded set of codes has a newest one.
LEMMA NewestIsOne ==
  ASSUME NEW n \in Nat, NEW ks \in SUBSET (1..n), ks # {}
  PROVE  Newest(ks) \in ks
<1>1. \E m \in ks : \A k \in ks : k <= m
  BY GreatestIsIn
<1> QED
  BY <1>1 DEF Newest

\* The call a mutation takes up a code for.
LEMMA TakenIsUsable ==
  ASSUME TypeOK, NEW mode, Usable(mode) # {}
  PROVE  Newest(Usable(mode)) \in Usable(mode) /\ Newest(Usable(mode)) \in Nat
<1>1. Len(codes) \in Nat /\ DOMAIN codes = 1..Len(codes)
  BY LenProperties DEF TypeOK
<1>2. Usable(mode) \subseteq 1..Len(codes)
  BY <1>1 DEF Usable
<1>3. Newest(Usable(mode)) \in Usable(mode)
  BY <1>1, <1>2, NewestIsOne
<1> QED
  BY <1>2, <1>3
-----------------------------------------------------------------------------
\* Steps without a call: requests for codes, signup, expiry of a code.
LEMMA CodeSteps ==
  ASSUME IInv, SignUp \/ (\E mode \in Modes : RequestCode(mode)) \/ ExpireCode
  PROVE  Tame
<1>1. UNCHANGED <<sessions, doing, password, admin>>
  BY DEF SignUp, RequestCode, ExpireCode
<1>2. account' \in [{"email", "phone"} -> {"none", "unverified", "verified"}]
  BY DEF SignUp, RequestCode, ExpireCode, IInv, TypeOK
<1>3. /\ codes' \in Seq([mode : Modes, used : BOOLEAN, expired : BOOLEAN])
      /\ DOMAIN codes \subseteq DOMAIN codes'
      /\ \A k \in DOMAIN codes : /\ codes[k].used => codes'[k].used
                                 /\ codes[k].expired => codes'[k].expired
                                 /\ codes'[k].mode = codes[k].mode
  <2>1. \/ UNCHANGED codes
        \/ \E mode \in Modes : Send(mode)
        \/ \E k \in DOMAIN codes : codes' = [codes EXCEPT ![k].expired = TRUE]
    BY DEF SignUp, RequestCode, ExpireCode, Modes
  <2> QED
    BY <2>1, CodesKept DEF IInv
<1>4. TypeOK'
  BY <1>1, <1>2, <1>3 DEF IInv, TypeOK
<1> QED
  BY <1>1, <1>3, <1>4 DEF Tame

\* What a mutation may begin with.
Starts(at, by, nr) ==
  /\ at = "spend" => by = "email"
  /\ at = "find" => by \in {"phone", "google"}
  /\ at = "reset" => by = "reset" /\ nr \in DOMAIN codes
  /\ at = "issue" => by = "password"
  /\ by = "rotate" <=> at = "delete"
  /\ by = "rotate" => nr \in DOMAIN sessions
  /\ by \in {"email", "phone"} => nr \in DOMAIN codes /\ codes[nr].mode = by
  /\ by = "password" => nr = password
  /\ by = "google" => nr = 0
  /\ \A cred \in Creds : Spent(cred) => by # cred[1] \/ nr # cred[2]

LEMMA BeginKeeps ==
  ASSUME IInv, NEW c \in Calls, NEW at \in {"spend", "find", "reset", "issue", "delete"},
         NEW by \in Ways \cup {"reset", "rotate"}, NEW nr \in Nat,
         Begin(c, at, by, nr), Starts(at, by, nr),
         UNCHANGED <<account, admin, password, codes, sessions>>
  PROVE  Tame
<1> DEFINE d == [at |-> at, by |-> by, nr |-> nr, found |-> "none"]
<1>1. doing' = [doing EXCEPT ![c] = d]
  BY DEF Begin
<1>2. TypeOK'
  BY <1>1 DEF IInv, TypeOK
<1>3. doing'[c] = d /\ \A e \in Calls : e # c => doing'[e] = doing[e]
  BY <1>1 DEF IInv, TypeOK
<1>4. Quiet(c)' /\ Fresh(c)
  BY <1>3 DEF Quiet, InPlace, Ways, Starts, Fresh
<1> QED
  BY <1>2, <1>3, <1>4 DEF Tame

\* A mutation begins: with a usable code, a right password, Google's word or a session.
LEMMA BeginSteps ==
  ASSUME IInv, NEW c \in Calls,
         (\E mode \in Modes : TakeCode(c, mode)) \/ SignIn(c) \/ SignInWithGoogle(c)
           \/ RotateReads(c)
  PROVE  Tame
<1> USE DEF IInv
<1>1. UNCHANGED <<account, admin, password, codes, sessions>>
  BY DEF TakeCode, SignIn, SignInWithGoogle, RotateReads
<1>2. ASSUME NEW mode \in Modes, TakeCode(c, mode)
      PROVE  Tame
  <2> DEFINE at == CASE mode = "email" -> "spend" [] mode = "phone" -> "find"
                     [] OTHER -> "reset"
             nr == Newest(Usable(mode))
  <2>1. Begin(c, at, mode, nr)
    BY <1>2 DEF TakeCode
  <2>2. nr \in Nat /\ nr \in Usable(mode)
    BY <1>2, TakenIsUsable DEF TakeCode
  <2>3. \A cred \in Creds : Spent(cred) => mode # cred[1] \/ nr # cred[2]
    BY <2>2 DEF Creds, Spent, Usable, Modes
  <2>4. at \in {"spend", "find", "reset", "issue", "delete"} /\ Starts(at, mode, nr)
        /\ mode \in Ways \cup {"reset", "rotate"}
    BY <2>2, <2>3 DEF Starts, Modes, Ways, Usable
  <2> QED
    BY <1>1, <2>1, <2>2, <2>4, BeginKeeps
<1>3. CASE SignIn(c)
  <2>1. Begin(c, "issue", "password", password) /\ password \in Nat
    BY <1>3 DEF SignIn, TypeOK
  <2>2. Starts("issue", "password", password)
    BY DEF Starts, Creds, Spent
  <2> QED
    BY <1>1, <2>1, <2>2, BeginKeeps DEF Ways
<1>4. CASE SignInWithGoogle(c)
  <2>1. Begin(c, "find", "google", 0) /\ Starts("find", "google", 0)
    BY <1>4, CredsAre DEF SignInWithGoogle, Starts
  <2> QED
    BY <1>1, <2>1, BeginKeeps DEF Ways
<1>5. CASE RotateReads(c)
  <2>1. PICK i \in DOMAIN sessions : Begin(c, "delete", "rotate", i)
    BY <1>5 DEF RotateReads
  <2>2. i \in Nat
    BY <2>1, LenProperties DEF TypeOK
  <2> QED
    BY <1>1, <2>1, <2>2, BeginKeeps, CredsAre DEF Starts
<1> QED
  BY <1>2, <1>3, <1>4, <1>5
-----------------------------------------------------------------------------
\* A call goes on to its next statement, or is over.
LEMMA GoesOn ==
  ASSUME TypeOK, NEW c \in Calls,
         NEW at \in {"idle", "spend", "find", "save", "reset", "delete", "issue"}, Goes(c, at)
  PROVE  /\ doing' \in [Calls -> [at : {"idle", "spend", "find", "save", "reset", "delete", "issue"},
                                   by : Ways \cup {"none", "reset", "rotate"}, nr : Nat,
                                   found : {"none", "unverified", "verified"}]]
         /\ doing'[c].at = at /\ doing'[c].by = doing[c].by /\ doing'[c].nr = doing[c].nr
         /\ \A d \in Calls : d # c => doing'[d] = doing[d]
BY DEF Goes, TypeOK

LEMMA IsOver ==
  ASSUME TypeOK, NEW c \in Calls, Ends(c)
  PROVE  /\ doing' \in [Calls -> [at : {"idle", "spend", "find", "save", "reset", "delete", "issue"},
                                   by : Ways \cup {"none", "reset", "rotate"}, nr : Nat,
                                   found : {"none", "unverified", "verified"}]]
         /\ doing'[c] = Idle /\ Quiet(c)' /\ Fresh(c)
         /\ \A d \in Calls : d # c => doing'[d] = doing[d]
BY DEF Ends, TypeOK, Idle, Quiet, InPlace, Fresh, Creds

\* The code is marked used; the profile is looked up and saved; a call fails.
LEMMA AccountSteps ==
  ASSUME IInv, NEW c \in Calls, UseCode(c) \/ FindAccount(c) \/ SaveAccount(c) \/ Fails(c)
  PROVE  Tame
<1>1. UNCHANGED <<admin, password, sessions>>
  BY DEF UseCode, FindAccount, SaveAccount, Fails
<1>2. CASE UseCode(c)
  <2>1. doing[c].by = "email" /\ doing[c].nr \in DOMAIN codes
    BY <1>2 DEF UseCode, IInv, CallInv, InPlace
  <2>2. /\ codes' \in Seq([mode : Modes, used : BOOLEAN, expired : BOOLEAN])
        /\ DOMAIN codes \subseteq DOMAIN codes'
        /\ \A k \in DOMAIN codes : /\ codes[k].used => codes'[k].used
                                   /\ codes[k].expired => codes'[k].expired
                                   /\ codes'[k].mode = codes[k].mode
    BY <1>2, <2>1, CodesKept DEF UseCode, IInv
  <2>3. Goes(c, "find") /\ UNCHANGED account
    BY <1>2 DEF UseCode
  <2>4. TypeOK'
    BY <1>1, <2>2, <2>3, GoesOn DEF IInv, TypeOK
  <2>5. \A d \in Calls :
          \/ UNCHANGED doing[d]
          \/ Quiet(d)' /\ (UNCHANGED <<doing[d].by, doing[d].nr>> \/ Fresh(d))
    <3>1. Quiet(c)'
      BY <1>1, <2>1, <2>2, <2>3, GoesOn DEF Quiet, InPlace, IInv, CallInv
    <3> QED
      BY <2>3, <3>1, GoesOn DEF IInv
  <2> QED
    BY <1>1, <2>2, <2>4, <2>5 DEF Tame
<1>3. CASE FindAccount(c)
  <2>1. doing[c].at = "find" /\ UNCHANGED <<account, codes>>
        /\ doing' = [doing EXCEPT ![c].at = "save", ![c].found = account[AccountOf(doing[c].by)]]
    BY <1>3 DEF FindAccount
  <2>2. TypeOK'
    <3>1. account[AccountOf(doing[c].by)] \in {"none", "unverified", "verified"}
      BY DEF IInv, TypeOK, AccountOf
    <3> QED
      BY <1>1, <2>1, <3>1 DEF IInv, TypeOK
  <2>3. /\ doing'[c].at = "save" /\ doing'[c].by = doing[c].by /\ doing'[c].nr = doing[c].nr
        /\ \A d \in Calls : d # c => doing'[d] = doing[d]
    BY <2>1 DEF IInv, TypeOK
  <2>4. Quiet(c)'
    BY <2>1, <2>3 DEF IInv, CallInv, InPlace, Quiet
  <2> QED
    BY <1>1, <2>1, <2>2, <2>3, <2>4 DEF Tame
<1>4. CASE SaveAccount(c)
  <2>1. doing[c].at = "save" /\ doing[c].by \in {"email", "phone", "google"}
        /\ (doing[c].by = "phone" => doing[c].nr \in DOMAIN codes)
    BY <1>4 DEF SaveAccount, IInv, CallInv, InPlace
  <2>2. account' \in [{"email", "phone"} -> {"none", "unverified", "verified"}]
    BY <1>4 DEF SaveAccount, IInv, TypeOK
  <2>3. UNCHANGED codes \/ \E k \in DOMAIN codes : Spend(k)
    BY <1>4, <2>1 DEF SaveAccount
  <2>4. /\ codes' \in Seq([mode : Modes, used : BOOLEAN, expired : BOOLEAN])
        /\ DOMAIN codes \subseteq DOMAIN codes'
        /\ \A k \in DOMAIN codes : /\ codes[k].used => codes'[k].used
                                   /\ codes[k].expired => codes'[k].expired
                                   /\ codes'[k].mode = codes[k].mode
    BY <2>3, CodesKept DEF IInv
  <2>5. Ends(c) \/ Goes(c, "issue")
    BY <1>4 DEF SaveAccount
  <2>6. TypeOK'
    BY <1>1, <2>2, <2>4, <2>5, GoesOn, IsOver DEF IInv, TypeOK
  <2>7. \A d \in Calls :
          \/ UNCHANGED doing[d]
          \/ Quiet(d)' /\ (UNCHANGED <<doing[d].by, doing[d].nr>> \/ Fresh(d))
    <3>1. CASE Ends(c)
      BY <3>1, IsOver DEF IInv
    <3>2. CASE Goes(c, "issue")
      <4>1. InPlace(c) /\ UNCHANGED password
        BY <1>1 DEF IInv, CallInv
      <4>2. Quiet(c)'
        BY <2>1, <2>4, <3>2, <4>1, GoesOn DEF IInv, Quiet, InPlace, Ways
      <4> QED
        BY <3>2, <4>2, GoesOn DEF IInv
    <3> QED
      BY <2>5, <3>1, <3>2
  <2> QED
    BY <1>1, <2>4, <2>6, <2>7 DEF Tame
<1>5. CASE Fails(c)
  <2>1. Ends(c) /\ UNCHANGED <<account, codes>>
    BY <1>5 DEF Fails
  <2>2. TypeOK'
    BY <1>1, <2>1, IsOver DEF IInv, TypeOK
  <2> QED
    BY <1>1, <2>1, <2>2, IsOver DEF Tame, IInv
<1> QED
  BY <1>2, <1>3, <1>4, <1>5

\* Sessions end by a reset or a logout, or expire.
LEMMA EndSteps ==
  ASSUME IInv, (\E c \in Calls : Reset(c)) \/ Logout \/ ExpireSession
  PROVE  Tame
<1>1. Len(sessions) \in Nat /\ DOMAIN sessions = 1..Len(sessions)
      /\ sessions \in [1..Len(sessions) -> Session]
  BY LenProperties DEF IInv, TypeOK
<1>2. CASE \E c \in Calls : Reset(c)
  <2>1. PICK c \in Calls : Reset(c)
    BY <1>2
  <2>2. doing[c].nr \in DOMAIN codes /\ Spend(doing[c].nr) /\ Ends(c)
        /\ UNCHANGED <<account, admin>> /\ password' = password + 1
        /\ \E is : Delete(is)
    BY <2>1 DEF Reset, IInv, CallInv, InPlace
  <2>3. /\ codes' \in Seq([mode : Modes, used : BOOLEAN, expired : BOOLEAN])
        /\ DOMAIN codes \subseteq DOMAIN codes'
        /\ \A k \in DOMAIN codes : /\ codes[k].used => codes'[k].used
                                   /\ codes[k].expired => codes'[k].expired
                                   /\ codes'[k].mode = codes[k].mode
    BY <2>2, CodesKept DEF IInv
  <2>4. /\ sessions' \in Seq(Session) /\ DOMAIN sessions' = DOMAIN sessions
        /\ \A i \in DOMAIN sessions :
             /\ sessions'[i].root = sessions[i].root
             /\ sessions'[i].by = sessions[i].by /\ sessions'[i].nr = sessions[i].nr
             /\ sessions[i].state = "gone" => sessions'[i].state = "gone"
    BY <2>2, DeleteKeeps DEF IInv
  <2>5. TypeOK'
    BY <2>2, <2>3, <2>4, IsOver DEF IInv, TypeOK
  <2>6. \A d \in Calls :
          \/ UNCHANGED doing[d]
          \/ Quiet(d)' /\ (UNCHANGED <<doing[d].by, doing[d].nr>> \/ Fresh(d))
    BY <2>2, IsOver DEF IInv
  <2> QED
    BY <2>2, <2>3, <2>4, <2>5, <2>6 DEF Tame
<1>3. CASE Logout
  <2>1. UNCHANGED <<account, admin, password, codes, doing>> /\ \E is : Delete(is)
    BY <1>3 DEF Logout
  <2>2. /\ sessions' \in Seq(Session) /\ DOMAIN sessions' = DOMAIN sessions
        /\ \A i \in DOMAIN sessions :
             /\ sessions'[i].root = sessions[i].root
             /\ sessions'[i].by = sessions[i].by /\ sessions'[i].nr = sessions[i].nr
             /\ sessions[i].state = "gone" => sessions'[i].state = "gone"
    BY <2>1, DeleteKeeps DEF IInv
  <2>3. TypeOK'
    BY <2>1, <2>2 DEF IInv, TypeOK
  <2> QED
    BY <2>1, <2>2, <2>3 DEF Tame
<1>4. CASE ExpireSession
  <2>1. PICK i \in DOMAIN sessions : sessions[i].state = "live"
                                    /\ sessions' = [sessions EXCEPT ![i].state = "expired"]
    BY <1>4 DEF ExpireSession
  <2>2. sessions[i] \in Session
    BY <1>1, <2>1
  <2>3. sessions' \in [1..Len(sessions) -> Session]
    BY <1>1, <2>1, <2>2 DEF Session
  <2>4. sessions' \in Seq(Session) /\ DOMAIN sessions' = DOMAIN sessions
    BY <1>1, <2>3, FunctionIsSeq
  <2>5. \A j \in DOMAIN sessions :
          /\ sessions'[j].root = sessions[j].root
          /\ sessions'[j].by = sessions[j].by /\ sessions'[j].nr = sessions[j].nr
          /\ sessions[j].state = "gone" => sessions'[j].state = "gone"
    BY <1>1, <2>1, <2>2 DEF Session
  <2>6. UNCHANGED <<account, admin, password, codes, doing>>
    BY <1>4 DEF ExpireSession
  <2>7. TypeOK'
    BY <2>4, <2>6 DEF IInv, TypeOK
  <2> QED
    BY <2>4, <2>5, <2>6, <2>7 DEF Tame
<1> QED
  BY <1>2, <1>3, <1>4
-----------------------------------------------------------------------------
\* A session is issued: for a new sign-in, or for the rotation that has deleted one.
LEMMA IssueStep ==
  ASSUME IInv, NEW c \in Calls, Issue(c)
  PROVE  IInv'
<1> DEFINE n == Len(sessions) + 1
           k == doing[c].nr
<1>1. /\ sessions' \in Seq(Session) /\ DOMAIN sessions = 1..(n - 1)
      /\ DOMAIN sessions' = 1..n /\ n \in Nat
      /\ \A i \in DOMAIN sessions : sessions'[i] = sessions[i]
      /\ sessions'[n].state = "live"
      /\ IF doing[c].by = "rotate" THEN /\ sessions'[n].root = sessions[k].root
                                        /\ sessions'[n].by = sessions[k].by
                                        /\ k \in DOMAIN sessions
                                   ELSE sessions'[n].root = n
  BY IssueAdds
<1>2. Ends(c) /\ UNCHANGED <<account, admin, password, codes>> /\ doing[c].at = "issue"
  BY DEF Issue
<1> HIDE DEF n
<1>0. n # 0
  BY LenProperties DEF IInv, TypeOK, n
<1>3. TypeOK'
  BY <1>1, <1>2, IsOver DEF IInv, TypeOK
<1>4. \A i \in DOMAIN sessions : sessions[i].root \in DOMAIN sessions /\ sessions[i].root \in 1..i
                                 /\ sessions[sessions[i].root].root = sessions[i].root
                                 /\ sessions[sessions[i].root].by = sessions[i].by
  BY <1>1 DEF IInv, RootInv
<1>5. RootInv'
  <2>1. ASSUME NEW i \in DOMAIN sessions'
        PROVE  sessions'[i].root \in 1..i /\ sessions'[sessions'[i].root].root = sessions'[i].root
               /\ sessions'[sessions'[i].root].by = sessions'[i].by
    <3>1. CASE i \in DOMAIN sessions
      BY <1>1, <1>4, <3>1
    <3>2. CASE i = n /\ doing[c].by = "rotate"
      BY <1>1, <1>4, <3>2
    <3>3. CASE i = n /\ doing[c].by # "rotate"
      BY <1>1, <3>3
    <3> QED
      BY <1>1, <2>1, <3>1, <3>2, <3>3
  <2> QED
    BY <2>1 DEF RootInv
<1>6. /\ \A d \in Calls \ {c} : doing'[d] = doing[d]
      /\ doing'[c].by = "none" /\ doing'[c].at = "idle"
  BY <1>2, IsOver DEF IInv, Idle
<1>7. RotateInv'
  BY <1>1, <1>6 DEF IInv, RotateInv
<1>8. CallInv'
  BY <1>2, <1>6 DEF IInv, CallInv, InPlace
<1>9. \A r \in DOMAIN sessions' :
        /\ Standing(r)' = IF sessions'[n].root = r THEN Standing(r) \cup {n} ELSE Standing(r)
        /\ Rotating(r)' = Rotating(r) \ {c}
  <2>1. \A r : Standing(r)' = IF sessions'[n].root = r THEN Standing(r) \cup {n} ELSE Standing(r)
    <3>1. DOMAIN sessions' = DOMAIN sessions \cup {n}
      BY <1>0, <1>1
    <3> QED
      BY <1>1, <3>1 DEF Standing
  <2>2. \A r : Rotating(r)' = Rotating(r) \ {c}
    BY <1>1, <1>6 DEF Rotating, IInv, RotateInv
  <2> QED
    BY <2>1, <2>2
<1>10. ASSUME NEW r \in DOMAIN sessions'
       PROVE  /\ \A i, j \in Standing(r)' : i = j
              /\ \A d, e \in Rotating(r)' : d = e
              /\ Standing(r)' = {} \/ Rotating(r)' = {}
  <2>1. CASE r = sessions'[n].root /\ doing[c].by = "rotate"
    <3>1. r \in DOMAIN sessions /\ c \in Rotating(r)
      BY <1>1, <1>2, <1>4, <2>1 DEF Rotating
    <3>2. Standing(r) = {} /\ Rotating(r)' = {}
      BY <1>9, <3>1 DEF IInv, OneStands
    <3> QED
      BY <1>9, <2>1, <3>2
  <2>2. CASE r = sessions'[n].root /\ doing[c].by # "rotate"
    <3>1. r = n /\ n \notin DOMAIN sessions
      BY <1>1, <2>2
    <3>2. Standing(r) = {} /\ Rotating(r) = {}
      BY <1>4, <3>1 DEF Standing, Rotating, IInv, RotateInv
    <3> QED
      BY <1>9, <2>2, <3>2
  <2>3. CASE r # sessions'[n].root
    <3>1. CASE r \in DOMAIN sessions
      BY <1>9, <2>3, <3>1 DEF IInv, OneStands
    <3>2. CASE r \notin DOMAIN sessions
      <4>1. Standing(r) = {} /\ Rotating(r) = {}
        BY <1>4, <3>2 DEF Standing, Rotating, IInv, RotateInv
      <4> QED
        BY <1>9, <2>3, <4>1
    <3> QED
      BY <3>1, <3>2
  <2> QED
    BY <2>1, <2>2, <2>3
<1>11. OneStands'
  BY <1>10 DEF OneStands
<1> QED
  BY <1>3, <1>5, <1>7, <1>8, <1>11 DEF IInv

\* A rotation deletes the session it has read, or finds it gone.
LEMMA RotateStep ==
  ASSUME IInv, NEW c \in Calls, RotateDeletes(c)
  PROVE  IInv'
<1> DEFINE k == doing[c].nr
<1>1. doing[c].at = "delete" /\ doing[c].by = "rotate" /\ k \in DOMAIN sessions
      /\ UNCHANGED <<account, admin, password, codes>>
  BY DEF RotateDeletes, IInv, CallInv, InPlace, RotateInv
<1>2. CASE sessions[k].state = "gone"
  <2>1. Ends(c) /\ UNCHANGED sessions
    BY <1>2 DEF RotateDeletes
  <2>2. TypeOK'
    BY <1>1, <2>1, IsOver DEF IInv, TypeOK
  <2> QED
    BY <1>1, <2>1, <2>2, IsOver, QuietStep DEF IInv, Tame
<1>3. CASE sessions[k].state # "gone"
  <2>1. Delete({k}) /\ Goes(c, "issue")
    BY <1>3 DEF RotateDeletes
  <2>2. /\ sessions' \in Seq(Session) /\ DOMAIN sessions' = DOMAIN sessions
        /\ \A i \in DOMAIN sessions :
             /\ sessions'[i].root = sessions[i].root /\ sessions'[i].by = sessions[i].by
             /\ sessions'[i].state = IF i = k THEN "gone" ELSE sessions[i].state
    BY <2>1, DeleteKeeps DEF IInv
  <2>3. /\ doing'[c].at = "issue" /\ doing'[c].by = "rotate" /\ doing'[c].nr = k
        /\ \A d \in Calls : d # c => doing'[d] = doing[d]
    BY <1>1, <2>1, GoesOn DEF IInv
  <2>4. TypeOK'
    BY <1>1, <2>1, <2>2, GoesOn DEF IInv, TypeOK
  <2>5. \A i \in DOMAIN sessions : sessions[i].root \in DOMAIN sessions
    <3>1. Len(sessions) \in Nat /\ DOMAIN sessions = 1..Len(sessions)
      BY LenProperties DEF IInv, TypeOK
    <3> QED
      BY <3>1 DEF IInv, RootInv
  <2>6. RootInv'
    BY <2>2, <2>5 DEF IInv, RootInv
  <2>7. RotateInv' /\ CallInv'
    BY <1>1, <2>2, <2>3 DEF IInv, RotateInv, CallInv, InPlace
  <2>8. \A r : /\ Standing(r)' = Standing(r) \ {k}
              /\ Rotating(r)' = IF sessions[k].root = r THEN Rotating(r) \cup {c} ELSE Rotating(r)
    <3>1. \A r : Standing(r)' = Standing(r) \ {k}
      BY <2>2 DEF Standing
    <3>2. \A r : Rotating(r)' = IF sessions[k].root = r THEN Rotating(r) \cup {c} ELSE Rotating(r)
      BY <1>1, <2>2, <2>3 DEF Rotating, IInv, RotateInv
    <3> QED
      BY <3>1, <3>2
  <2>9. ASSUME NEW r \in DOMAIN sessions
        PROVE  /\ \A i, j \in Standing(r)' : i = j
               /\ \A d, e \in Rotating(r)' : d = e
               /\ Standing(r)' = {} \/ Rotating(r)' = {}
    <3>1. CASE r = sessions[k].root
      <4>1. k \in Standing(r)
        BY <1>1, <1>3, <3>1 DEF Standing
      <4>2. Standing(r) \ {k} = {} /\ Rotating(r) = {}
        BY <4>1 DEF IInv, OneStands
      <4> QED
        BY <2>8, <3>1, <4>2
    <3>2. CASE r # sessions[k].root
      BY <2>8, <3>2 DEF IInv, OneStands
    <3> QED
      BY <3>1, <3>2
  <2>10. OneStands'
    BY <2>2, <2>9 DEF OneStands
  <2> QED
    BY <2>4, <2>6, <2>7, <2>10 DEF IInv
<1> QED
  BY <1>2, <1>3

\* A step ends sessions, begins or advances calls; replaces a session, or issues one.
LEMMA StepKinds ==
  ASSUME IInv, [Next]_svars
  PROVE  Tame \/ \E c \in Calls : RotateDeletes(c) \/ Issue(c)
<1>1. CASE UNCHANGED svars
  BY <1>1 DEF svars, IInv, TypeOK, Tame
<1>2. CASE SignUp \/ RequestOtp \/ RequestPhoneOtp \/ ForgotPassword \/ ExpireCode
  BY <1>2, CodeSteps DEF RequestOtp, RequestPhoneOtp, ForgotPassword, Modes
<1>3. CASE Logout \/ ExpireSession
  BY <1>3, EndSteps
<1>4. ASSUME NEW c \in Calls,
             \/ VerifyOtp(c) \/ VerifyPhoneOtp(c) \/ ResetPassword(c)
             \/ UseGoogle(c) \/ UsePassword(c) \/ RotateSession(c) \/ Fails(c)
      PROVE  Tame \/ RotateDeletes(c) \/ Issue(c)
  <2>1. \/ (\E mode \in Modes : TakeCode(c, mode)) \/ SignIn(c) \/ SignInWithGoogle(c)
           \/ RotateReads(c)
        \/ UseCode(c) \/ FindAccount(c) \/ SaveAccount(c) \/ Fails(c)
        \/ Reset(c) \/ RotateDeletes(c) \/ Issue(c)
    BY <1>4 DEF VerifyOtp, VerifyPhoneOtp, ResetPassword, UseGoogle, UsePassword, RotateSession,
                Authenticates, Issues, Modes
  <2> QED
    BY <2>1, BeginSteps, AccountSteps, EndSteps
<1> QED
  BY <1>1, <1>2, <1>3, <1>4 DEF Next

LEMMA NextInv == IInv /\ [Next]_svars => IInv'
BY StepKinds, QuietStep, RotateStep, IssueStep

-----------------------------------------------------------------------------
\* What stands as one thing, at most, is one in number.
LEMMA OneIsOne == IInv => OneSessionPerSignIn
<1> SUFFICES ASSUME IInv, NEW r \in Roots
             PROVE  Cardinality(Standing(r)) + Cardinality(Rotating(r)) <= 1
  BY DEF OneSessionPerSignIn
<1>1. /\ \A i, j \in Standing(r) : i = j
      /\ \A c, d \in Rotating(r) : c = d
      /\ Standing(r) = {} \/ Rotating(r) = {}
  BY DEF Roots, IInv, OneStands
<1>2. ASSUME NEW S, \A x, y \in S : x = y
      PROVE  Cardinality(S) \in {0, 1} /\ (S = {} => Cardinality(S) = 0)
  <2>1. CASE S = {}
    BY <2>1, FS_EmptySet
  <2>2. CASE S # {}
    <3>1. PICK x \in S : S = {x}
      BY <1>2, <2>2
    <3> QED
      BY <2>2, <3>1, FS_Singleton
  <2> QED
    BY <2>1, <2>2
<1>3. Cardinality(Standing(r)) \in {0, 1} /\ (Standing(r) = {} => Cardinality(Standing(r)) = 0)
  BY <1>1, <1>2
<1>4. Cardinality(Rotating(r)) \in {0, 1} /\ (Rotating(r) = {} => Cardinality(Rotating(r)) = 0)
  BY <1>1, <1>2
<1> QED
  BY <1>1, <1>3, <1>4

\* In every reachable state a sign-in has one session at most, or one rotation about to
\* insert it (issueTokens, rotateSession), however many calls there are.
THEOREM Safety == Spec => [](TypeOK /\ OneSessionPerSignIn)
<1>1. IInv => TypeOK /\ OneSessionPerSignIn
  BY OneIsOne DEF IInv
<1> QED
  BY InitInv, NextInv, <1>1, PTL DEF Spec

-----------------------------------------------------------------------------
\* A sign-in whose sessions have all ended gets none back.
LEMMA EndedStep ==
  ASSUME IInv, [Next]_svars, NEW r \in Roots, Standing(r) \cup Rotating(r) = {}
  PROVE  (Standing(r) \cup Rotating(r))' = {}
<1>1. r \in DOMAIN sessions
  BY DEF Roots
<1>2. CASE Tame
  <2>1. Standing(r)' \subseteq Standing(r)
    BY <1>2 DEF Tame, Standing
  <2>2. Rotating(r)' \subseteq Rotating(r)
    BY <1>2 DEF Tame, Rotating, Quiet, IInv, RotateInv
  <2> QED
    BY <2>1, <2>2
<1>3. ASSUME NEW c \in Calls, RotateDeletes(c)
      PROVE  (Standing(r) \cup Rotating(r))' = {}
  <2> DEFINE k == doing[c].nr
  <2>1. doing[c].by = "rotate" /\ k \in DOMAIN sessions
    BY <1>3 DEF RotateDeletes, IInv, CallInv, InPlace, RotateInv
  <2>2. CASE sessions[k].state = "gone"
    <3>1. Ends(c) /\ UNCHANGED sessions
      BY <1>3, <2>2 DEF RotateDeletes
    <3>2. Standing(r)' = Standing(r) /\ Rotating(r)' \subseteq Rotating(r)
      BY <3>1, IsOver DEF IInv, Standing, Rotating, Idle
    <3> QED
      BY <3>2
  <2>3. CASE sessions[k].state # "gone"
    <3>1. Delete({k}) /\ Goes(c, "issue")
      BY <1>3, <2>3 DEF RotateDeletes
    <3>2. sessions[k].root # r
      BY <2>1, <2>3 DEF Standing
    <3>3. Standing(r)' \subseteq Standing(r)
      BY <3>1, DeleteKeeps DEF IInv, Standing
    <3>4. Rotating(r)' \subseteq Rotating(r)
      BY <2>1, <3>1, <3>2, DeleteKeeps, GoesOn DEF IInv, Rotating, RotateInv
    <3> QED
      BY <3>3, <3>4
  <2> QED
    BY <2>2, <2>3
<1>4. ASSUME NEW c \in Calls, Issue(c)
      PROVE  (Standing(r) \cup Rotating(r))' = {}
  <2> DEFINE n == Len(sessions) + 1
             k == doing[c].nr
  <2>1. /\ DOMAIN sessions = 1..(n - 1) /\ DOMAIN sessions' = 1..n /\ n \in Nat
        /\ \A i \in DOMAIN sessions : sessions'[i] = sessions[i]
        /\ IF doing[c].by = "rotate" THEN /\ sessions'[n].root = sessions[k].root
                                          /\ k \in DOMAIN sessions
                                     ELSE sessions'[n].root = n
    BY <1>4, IssueAdds
  <2> HIDE DEF n
  <2>2. /\ \A d \in Calls \ {c} : doing'[d] = doing[d]
        /\ doing'[c].by = "none" /\ doing[c].at = "issue"
    BY <1>4, IsOver DEF IInv, Idle, Issue
  <2>3. sessions'[n].root # r
    <3>1. CASE doing[c].by = "rotate"
      BY <2>1, <2>2, <3>1 DEF Rotating
    <3>2. CASE doing[c].by # "rotate"
      BY <1>1, <2>1, <3>2
    <3> QED
      BY <3>1, <3>2
  <2>4. Standing(r)' \subseteq Standing(r)
    BY <2>1, <2>3 DEF Standing
  <2>5. Rotating(r)' \subseteq Rotating(r)
    BY <2>1, <2>2 DEF Rotating, IInv, RotateInv
  <2> QED
    BY <2>4, <2>5
<1> QED
  BY <1>2, <1>3, <1>4, StepKinds

\* No step brings a session of a sign-in back that a logout, a reset or a lost rotation has
\* ended (rotateSession: the delete throws when the row is gone).
THEOREM Ended == Spec => EndedStaysEnded
<1>1. IInv /\ [Next]_svars =>
        [\A r \in Roots : Standing(r) \cup Rotating(r) = {}
                            => (Standing(r) \cup Rotating(r))' = {}]_svars
  BY EndedStep
<1> QED
  BY InitInv, NextInv, <1>1, PTL DEF Spec, EndedStaysEnded

\* A spent credential that nobody has in hand stays so, and signs nobody in.
LEMMA SpentStep ==
  ASSUME IInv, [Next]_svars, NEW cred \in Creds, Spent(cred), ~InHand(cred)
  PROVE  Spent(cred)' /\ ~InHand(cred)' /\ SignIns(cred)' = SignIns(cred)
<1>1. /\ cred[1] \in {"email", "phone", "reset", "password"}
      /\ cred[1] = "password" => cred[2] \in 0..password
      /\ cred[1] # "password" => cred[2] \in DOMAIN codes
  BY CredsAre DEF IInv
<1>2. password \in Nat
  BY DEF IInv, TypeOK
<1>3. CASE Tame
  <2>1. Spent(cred)'
    BY <1>1, <1>2, <1>3 DEF Spent, Tame
  <2>2. ~InHand(cred)'
    BY <1>3 DEF InHand, Tame, Fresh
  <2>3. Roots' = Roots
    BY <1>3 DEF Roots, Tame
  <2>4. SignIns(cred)' = SignIns(cred)
    BY <1>3, <2>3 DEF SignIns, Roots, Tame
  <2> QED
    BY <2>1, <2>2, <2>4
<1>4. ASSUME NEW c \in Calls, RotateDeletes(c)
      PROVE  Spent(cred)' /\ ~InHand(cred)' /\ SignIns(cred)' = SignIns(cred)
  <2>1. UNCHANGED <<password, codes>> /\ doing[c].by = "rotate"
        /\ (Ends(c) \/ Goes(c, "issue")) /\ (UNCHANGED sessions \/ Delete({doing[c].nr}))
    BY <1>4 DEF RotateDeletes, IInv, CallInv, InPlace
  <2>2. Spent(cred)'
    BY <2>1 DEF Spent
  <2>3. doing'[c].by \in {"rotate", "none"} /\ \A d \in Calls : d # c => doing'[d] = doing[d]
    BY <2>1, IsOver, GoesOn DEF IInv, Idle
  <2>4. ~InHand(cred)'
    BY <1>1, <2>3 DEF InHand
  <2>5. Roots' = Roots /\ SignIns(cred)' = SignIns(cred)
    BY <2>1, DeleteKeeps DEF IInv, Roots, SignIns
  <2> QED
    BY <2>2, <2>4, <2>5
<1>5. ASSUME NEW c \in Calls, Issue(c)
      PROVE  Spent(cred)' /\ ~InHand(cred)' /\ SignIns(cred)' = SignIns(cred)
  <2> DEFINE n == Len(sessions) + 1
             k == doing[c].nr
  <2>1. /\ DOMAIN sessions = 1..(n - 1) /\ DOMAIN sessions' = 1..n /\ n \in Nat
        /\ \A i \in DOMAIN sessions : sessions'[i] = sessions[i]
        /\ IF doing[c].by = "rotate" THEN /\ sessions'[n].root = sessions[k].root
                                          /\ k \in DOMAIN sessions
                                     ELSE sessions'[n].root = n /\ sessions'[n].by = doing[c].by
                                          /\ sessions'[n].nr = k
    BY <1>5, IssueAdds
  <2> HIDE DEF n
  <2>2. /\ \A d \in Calls \ {c} : doing'[d] = doing[d]
        /\ doing'[c].by = "none" /\ UNCHANGED <<password, codes>>
    BY <1>5, IsOver DEF IInv, Idle, Issue
  <2>3. Spent(cred)'
    BY <2>2 DEF Spent
  <2>4. ~InHand(cred)'
    BY <1>1, <2>2 DEF InHand
  <2>5. n \in Roots' => doing[c].by # "rotate"
    BY <2>1 DEF Roots, IInv, RootInv
  <2>6. n \notin SignIns(cred)'
    BY <2>1, <2>5 DEF SignIns, InHand
  <2>7. SignIns(cred)' = SignIns(cred)
    BY <2>1, <2>6 DEF SignIns, Roots
  <2> QED
    BY <2>3, <2>4, <2>7
<1> QED
  BY <1>3, <1>4, <1>5, StepKinds

\* No step signs anybody in with a code that is used or expired, or a password that was
\* replaced, once no call has it in hand (verifyOtp, resetPassword, signIn).
THEOREM Spending == Spec => SpentIsDead
<1>1. IInv /\ [Next]_svars =>
        [\A cred \in Creds :
           Spent(cred) /\ ~InHand(cred) => /\ Spent(cred)' /\ ~InHand(cred)'
                                           /\ SignIns(cred)' = SignIns(cred)]_svars
  BY SpentStep
<1> QED
  BY InitInv, NextInv, <1>1, PTL DEF Spec, SpentIsDead

-----------------------------------------------------------------------------
(* Sessions implements SignedIn. *)

\* A call between the deletion of a session and the insertion of the next.
Rotates(c) == doing[c].by = "rotate" /\ doing[c].at = "issue"

\* Codes and passwords only become more, and what is closed stays closed.
LEMMA Circulates == IInv /\ [Next]_svars => Promise!Circulate
<1> SUFFICES ASSUME IInv, [Next]_svars PROVE Promise!Circulate
  OBVIOUS
<1>1. /\ DOMAIN codes \subseteq DOMAIN codes'
      /\ \A k \in DOMAIN codes : codes'[k].mode = codes[k].mode
      /\ password \in Nat /\ password' \in {password, password + 1}
  <2>1. CASE Tame
    BY <2>1 DEF Tame, IInv, TypeOK
  <2>2. CASE \E c \in Calls : RotateDeletes(c) \/ Issue(c)
    BY <2>2 DEF RotateDeletes, Issue, IInv, TypeOK
  <2> QED
    BY <2>1, <2>2, StepKinds
<1>2. Creds \subseteq Creds'
  <2>1. 0..password \subseteq 0..password'
    BY <1>1
  <2> QED
    BY <1>1, <2>1 DEF Creds
<1> QED
  BY <1>2, SpentStep DEF Promise!Circulate

\* Who has signed in with what is in the roots' rows.
LEMMA MadeKept ==
  ASSUME DOMAIN sessions' = DOMAIN sessions,
         \A i \in DOMAIN sessions : /\ sessions'[i].root = sessions[i].root
                                    /\ sessions'[i].by = sessions[i].by
                                    /\ sessions'[i].nr = sessions[i].nr
  PROVE  Roots' = Roots /\ Made' = Made
<1>1. Roots' = Roots
  BY DEF Roots
<1> QED
  BY <1>1 DEF Made, Roots

\* A sign-in has not ended while a session stands or a rotation is to insert one.
LEMMA WhoIsAlive ==
  ASSUME IInv
  PROVE  /\ \A r : r \in Renewing <=> \E c \in Calls : Rotates(c) /\ sessions[doing[c].nr].root = r
         /\ \A r : r \in Alive <=> \/ r \in Renewing
                                   \/ \E i \in DOMAIN sessions : /\ sessions[i].state # "gone"
                                                                 /\ sessions[i].root = r
         /\ Alive \subseteq Roots /\ Roots \subseteq DOMAIN sessions
         /\ Roots \subseteq 1..MaxSessions
<1>1. \A r : r \in Renewing <=> \E c \in Calls : Rotates(c) /\ sessions[doing[c].nr].root = r
  BY DEF Renewing, Rotates
<1>2. \A r : r \in Alive <=> \/ r \in Renewing
                             \/ \E i \in DOMAIN sessions : /\ sessions[i].state # "gone"
                                                           /\ sessions[i].root = r
  BY DEF Alive
<1>3. Len(sessions) \in Nat /\ DOMAIN sessions = 1..Len(sessions)
      /\ sessions \in [1..Len(sessions) -> Session]
  BY LenProperties DEF IInv, TypeOK
<1>4. \A i \in DOMAIN sessions : sessions[i].root \in Roots
  BY <1>3 DEF Roots, IInv, RootInv
<1>5. \A c \in Calls : Rotates(c) => doing[c].nr \in DOMAIN sessions
  BY DEF Rotates, IInv, RotateInv
<1>6. \A i \in DOMAIN sessions : sessions[i].root \in 1..MaxSessions
  BY <1>3 DEF Session
<1> QED
  BY <1>1, <1>2, <1>4, <1>5, <1>6 DEF Roots

\* A step that ends no session and concerns no rotation changes nothing of the promise.
LEMMA StillStep ==
  ASSUME IInv, Tame, UNCHANGED password,
         \A i \in DOMAIN sessions : sessions'[i].state = "gone" => sessions[i].state = "gone",
         \A c \in Calls : UNCHANGED doing[c] \/ ~Rotates(c)
  PROVE  UNCHANGED <<password, Made, Alive, Renewing>>
<1>1. IInv'
  BY QuietStep
<1>2. \A c \in Calls : Rotates(c)' <=> Rotates(c)
  BY DEF Tame, Quiet, Rotates
<1>3. \A c \in Calls : Rotates(c) => /\ doing'[c].nr = doing[c].nr
                                     /\ sessions'[doing'[c].nr].root = sessions[doing[c].nr].root
  BY DEF Tame, IInv, RotateInv, Rotates
<1>4. \A r : r \in Renewing' <=> r \in Renewing
  BY <1>2, <1>3 DEF Renewing, Rotates
<1>5. \A r : r \in Alive' <=> r \in Alive
  <2>1. \A r : (\E i \in DOMAIN sessions' : sessions'[i].state # "gone" /\ sessions'[i].root = r)
           <=> (\E i \in DOMAIN sessions : sessions[i].state # "gone" /\ sessions[i].root = r)
    BY DEF Tame
  <2>2. \A r : r \in Alive' <=>
           \/ r \in Renewing'
           \/ \E i \in DOMAIN sessions' : sessions'[i].state # "gone" /\ sessions'[i].root = r
    BY DEF Alive
  <2> QED
    BY <1>4, <2>1, <2>2, WhoIsAlive
<1>6. Renewing' = Renewing /\ Alive' = Alive
  BY <1>4, <1>5
<1>7. Made' = Made
  BY MadeKept DEF Tame
<1> QED
  BY <1>6, <1>7

\* Steps of codes, profiles and sessions' expiry, and of calls with nothing to insert.
LEMMA StillSteps ==
  ASSUME IInv,
         \/ SignUp \/ (\E mode \in Modes : RequestCode(mode)) \/ ExpireCode \/ ExpireSession
         \/ \E c \in Calls : \/ (\E mode \in Modes : TakeCode(c, mode)) \/ SignIn(c)
                             \/ SignInWithGoogle(c) \/ RotateReads(c) \/ UseCode(c)
                             \/ FindAccount(c) \/ SaveAccount(c)
                             \/ (Fails(c) /\ ~Rotates(c))
  PROVE  UNCHANGED <<password, Made, Alive, Renewing>>
<1>1. Tame
  BY CodeSteps, EndSteps, BeginSteps, AccountSteps
<1>2. CASE SignUp \/ (\E mode \in Modes : RequestCode(mode)) \/ ExpireCode
  BY <1>1, <1>2, StillStep DEF SignUp, RequestCode, ExpireCode
<1>3. CASE ExpireSession
  <2>1. UNCHANGED <<password, doing>>
    BY <1>3 DEF ExpireSession
  <2>2. \A i \in DOMAIN sessions : sessions'[i].state = "gone" => sessions[i].state = "gone"
    <3>1. PICK i \in DOMAIN sessions : sessions' = [sessions EXCEPT ![i].state = "expired"]
      BY <1>3 DEF ExpireSession
    <3>2. sessions[i] \in Session
      BY ElementOfSeq, LenProperties DEF IInv, TypeOK
    <3>3. sessions'[i].state = "expired"
      BY <3>1, <3>2 DEF Session
    <3> QED
      BY <3>1, <3>3
  <2> QED
    BY <1>1, <2>1, <2>2, StillStep
<1>4. ASSUME NEW c \in Calls,
             \/ (\E mode \in Modes : TakeCode(c, mode)) \/ SignIn(c) \/ SignInWithGoogle(c)
             \/ RotateReads(c) \/ UseCode(c) \/ FindAccount(c) \/ SaveAccount(c)
             \/ (Fails(c) /\ ~Rotates(c))
      PROVE  UNCHANGED <<password, Made, Alive, Renewing>>
  <2>1. UNCHANGED <<password, sessions>>
    BY <1>4 DEF TakeCode, SignIn, SignInWithGoogle, RotateReads, UseCode, FindAccount,
                SaveAccount, Fails
  <2>2. ~Rotates(c)
    BY <1>4 DEF TakeCode, SignIn, SignInWithGoogle, RotateReads, UseCode, FindAccount,
                SaveAccount, Begin, Idle, Rotates
  <2>3. \A d \in Calls \ {c} : UNCHANGED doing[d]
    BY <1>4 DEF TakeCode, SignIn, SignInWithGoogle, RotateReads, UseCode, FindAccount,
                SaveAccount, Fails, Begin, Goes, Ends, IInv, TypeOK
  <2> QED
    BY <1>1, <2>1, <2>2, <2>3, StillStep
<1> QED
  BY <1>2, <1>3, <1>4

\* A call that has deleted a session and does not come to insert the next loses a sign-in.
LEMMA FailsLoses ==
  ASSUME IInv, NEW c \in Calls, Fails(c), Rotates(c)
  PROVE  \E r \in 1..MaxSessions : Promise!Lose(r)
<1> DEFINE r == sessions[doing[c].nr].root
<1>1. Ends(c) /\ UNCHANGED <<password, sessions>>
  BY DEF Fails
<1>2. doing'[c] = Idle /\ \A d \in Calls : d # c => doing'[d] = doing[d]
  BY <1>1, IsOver DEF IInv
<1>3. r \in Renewing /\ r \in 1..MaxSessions /\ r \in DOMAIN sessions
  BY WhoIsAlive
<1>4. Standing(r) = {} /\ \A d \in Rotating(r) : d = c
  BY <1>3 DEF IInv, OneStands, Rotating, Rotates
<1>5. \A d \in Calls : Rotates(d)' <=> Rotates(d) /\ d # c
  BY <1>2 DEF Rotates, Idle
<1>6. \A s : s \in Renewing' <=> s \in Renewing /\ s # r
  <2>1. \A s : s \in Renewing' <=> \E d \in Calls : Rotates(d)' /\ sessions'[doing'[d].nr].root = s
    BY DEF Renewing, Rotates
  <2>2. \A d \in Calls : Rotates(d) /\ sessions[doing[d].nr].root = r => d = c
    BY <1>4 DEF Rotating, Rotates
  <2> QED
    BY <1>1, <1>2, <1>5, <2>1, <2>2, WhoIsAlive
<1>7. \A s : s \in Alive' <=> s \in Alive /\ s # r
  <2>1. \A s : s \in Alive' <=>
           \/ s \in Renewing'
           \/ \E i \in DOMAIN sessions : sessions[i].state # "gone" /\ sessions[i].root = s
    BY <1>1 DEF Alive
  <2>2. \A i \in DOMAIN sessions : sessions[i].state # "gone" => sessions[i].root # r
    BY <1>4 DEF Standing
  <2> QED
    BY <1>6, <2>1, <2>2, WhoIsAlive
<1>8. Made' = Made
  BY <1>1, MadeKept
<1> HIDE DEF r
<1>9. Promise!Lose(r)
  BY <1>1, <1>3, <1>6, <1>7, <1>8 DEF Promise!Lose
<1> QED
  BY <1>3, <1>9

\* The end of a session that is there is the end of its sign-in.
LEMMA LogoutEnds ==
  ASSUME IInv, Logout
  PROVE  \E r \in 1..MaxSessions : Promise!Logout(r)
<1>1. PICK i \in DOMAIN sessions : sessions[i].state # "gone" /\ Delete({i})
  BY DEF Logout
<1> DEFINE r == sessions[i].root
<1>2. UNCHANGED <<password, doing>>
  BY DEF Logout
<1>3. /\ DOMAIN sessions' = DOMAIN sessions
      /\ \A j \in DOMAIN sessions :
           /\ sessions'[j].root = sessions[j].root
           /\ sessions'[j].by = sessions[j].by /\ sessions'[j].nr = sessions[j].nr
           /\ sessions'[j].state = IF j = i THEN "gone" ELSE sessions[j].state
  BY <1>1, DeleteKeeps DEF IInv
<1>4. r \in Alive /\ r \in 1..MaxSessions /\ r \in DOMAIN sessions
  BY <1>1, WhoIsAlive
<1>5. Rotating(r) = {} /\ \A j \in Standing(r) : j = i
  <2>1. i \in Standing(r)
    BY <1>1 DEF Standing
  <2> QED
    BY <1>4, <2>1 DEF IInv, OneStands
<1>6. r \notin Renewing
  BY <1>5, WhoIsAlive DEF Rotating, Rotates
<1>7. Renewing' = Renewing
  <2>1. \A c \in Calls : Rotates(c) => doing[c].nr \in DOMAIN sessions
    BY DEF IInv, RotateInv, Rotates
  <2> QED
    BY <1>2, <1>3, <2>1 DEF Renewing, Rotates
<1>8. \A s : s \in Alive' <=> s \in Alive /\ s # r
  <2>1. \A s : s \in Alive' <=>
           \/ s \in Renewing'
           \/ \E j \in DOMAIN sessions' : sessions'[j].state # "gone" /\ sessions'[j].root = s
    BY DEF Alive
  <2>2. \A j \in DOMAIN sessions : sessions[j].state # "gone" /\ sessions[j].root = r => j = i
    BY <1>5 DEF Standing
  <2> QED
    BY <1>1, <1>3, <1>6, <1>7, <2>1, <2>2, WhoIsAlive
<1>9. Made' = Made
  BY <1>3, MadeKept
<1> HIDE DEF r
<1>10. Promise!Logout(r)
  BY <1>2, <1>4, <1>6, <1>7, <1>8, <1>9 DEF Promise!Logout
<1> QED
  BY <1>4, <1>10

\* A reset ends the sign-ins to the email's account that no rotation holds.
LEMMA ResetEnds ==
  ASSUME IInv, NEW c \in Calls, Reset(c)
  PROVE  Promise!Reset
<1> DEFINE Email == {"email", "password", "google"}
<1>1. /\ Delete({i \in DOMAIN sessions : AccountOf(sessions[i].by) = "email"}) /\ Ends(c)
      /\ password' = password + 1 /\ doing[c].at = "reset"
  BY DEF Reset
<1>2. Len(sessions) \in Nat /\ DOMAIN sessions = 1..Len(sessions)
      /\ \A i \in DOMAIN sessions : sessions[i].by \in Ways /\ sessions[i].nr \in Nat
  <2>1. sessions \in [1..Len(sessions) -> Session]
    BY LenProperties DEF IInv, TypeOK
  <2> QED
    BY <2>1, LenProperties DEF IInv, TypeOK, Session
<1>3. \A i \in DOMAIN sessions : AccountOf(sessions[i].by) = "email" <=> sessions[i].by \in Email
  BY <1>2 DEF AccountOf, Ways
<1>4. /\ DOMAIN sessions' = DOMAIN sessions
      /\ \A i \in DOMAIN sessions :
           /\ sessions'[i].root = sessions[i].root
           /\ sessions'[i].by = sessions[i].by /\ sessions'[i].nr = sessions[i].nr
           /\ sessions'[i].state = IF sessions[i].by \in Email THEN "gone" ELSE sessions[i].state
  BY <1>1, <1>3, DeleteKeeps DEF IInv
<1>5. doing'[c] = Idle /\ \A d \in Calls : d # c => doing'[d] = doing[d]
  BY <1>1, IsOver DEF IInv
<1>6. \A d \in Calls : Rotates(d)' <=> Rotates(d)
  BY <1>1, <1>5 DEF Rotates, Idle
<1>7. Renewing' = Renewing
  <2>1. \A d \in Calls : Rotates(d) => doing[d].nr \in DOMAIN sessions /\ doing'[d] = doing[d]
    BY <1>1, <1>5 DEF IInv, RotateInv, Rotates
  <2>2. \A r : r \in Renewing' <=> \E d \in Calls : Rotates(d)' /\ sessions'[doing'[d].nr].root = r
    BY DEF Renewing, Rotates
  <2>3. \A r : r \in Renewing' <=> r \in Renewing
    BY <1>4, <1>6, <2>1, <2>2, WhoIsAlive
  <2> QED
    BY <2>3
<1>8. \A r \in Roots : Made[r] \in Email \X Nat <=> sessions[r].by \in Email
  BY <1>2 DEF Made, Roots
<1>9. \A i \in DOMAIN sessions : sessions[i].root \in Roots
                                 /\ sessions[sessions[i].root].by = sessions[i].by
  BY <1>2 DEF Roots, IInv, RootInv
<1>10. \A r : r \in Alive' <=> r \in Alive /\ (Made[r] \in Email \X Nat => r \in Renewing)
  <2>1. \A r : r \in Alive' <=>
           \/ r \in Renewing
           \/ \E i \in DOMAIN sessions : /\ sessions[i].state # "gone" /\ sessions[i].by \notin Email
                                         /\ sessions[i].root = r
    <3>1. \A r : r \in Alive' <=>
             \/ r \in Renewing'
             \/ \E i \in DOMAIN sessions' : sessions'[i].state # "gone" /\ sessions'[i].root = r
      BY DEF Alive
    <3> HIDE DEF Email
    <3> QED
      BY <1>4, <1>7, <3>1
  <2> HIDE DEF Email
  <2>2. \A r \in Roots :
          (\E i \in DOMAIN sessions : /\ sessions[i].state # "gone" /\ sessions[i].by \notin Email
                                      /\ sessions[i].root = r)
          <=> /\ \E i \in DOMAIN sessions : sessions[i].state # "gone" /\ sessions[i].root = r
              /\ sessions[r].by \notin Email
    BY <1>9
  <2> QED
    BY <1>8, <1>9, <2>1, <2>2, WhoIsAlive
<1>11. Made' = Made
  BY <1>4, MadeKept
<1> QED
  BY <1>1, <1>7, <1>10, <1>11 DEF Promise!Reset

\* A rotation holds the sign-in whose session it deletes, or finds nothing to delete.
LEMMA DeletionRenews ==
  ASSUME IInv, NEW c \in Calls, RotateDeletes(c)
  PROVE  \/ UNCHANGED <<password, Made, Alive, Renewing>>
         \/ \E r \in 1..MaxSessions : Promise!Renew(r)
<1> DEFINE k == doing[c].nr
           r == sessions[k].root
<1>1. doing[c].at = "delete" /\ doing[c].by = "rotate" /\ k \in DOMAIN sessions
      /\ UNCHANGED password
  BY DEF RotateDeletes, IInv, CallInv, InPlace, RotateInv
<1>2. CASE sessions[k].state = "gone"
  <2>1. Ends(c) /\ UNCHANGED sessions
    BY <1>2 DEF RotateDeletes
  <2>2. doing'[c] = Idle /\ \A d \in Calls : d # c => doing'[d] = doing[d]
    BY <2>1, IsOver DEF IInv
  <2>3. \A d \in Calls : (Rotates(d)' <=> Rotates(d)) /\ (Rotates(d) => doing'[d] = doing[d])
    BY <1>1, <2>2 DEF Rotates, Idle
  <2>4. Renewing' = Renewing
    <3>1. \A s : s \in Renewing' <=> \E d \in Calls : Rotates(d)' /\ sessions'[doing'[d].nr].root = s
      BY DEF Renewing, Rotates
    <3>2. \A s : s \in Renewing' <=> s \in Renewing
      BY <2>1, <2>3, <3>1, WhoIsAlive
    <3> QED
      BY <3>2
  <2>5. Alive' = Alive
    BY <2>1, <2>4 DEF Alive
  <2> QED
    BY <1>1, <2>1, <2>4, <2>5, MadeKept
<1>3. CASE sessions[k].state # "gone"
  <2>1. Delete({k}) /\ Goes(c, "issue")
    BY <1>3 DEF RotateDeletes
  <2>2. /\ DOMAIN sessions' = DOMAIN sessions
        /\ \A j \in DOMAIN sessions :
             /\ sessions'[j].root = sessions[j].root
             /\ sessions'[j].by = sessions[j].by /\ sessions'[j].nr = sessions[j].nr
             /\ sessions'[j].state = IF j = k THEN "gone" ELSE sessions[j].state
    BY <2>1, DeleteKeeps DEF IInv
  <2>3. /\ doing'[c].at = "issue" /\ doing'[c].by = "rotate" /\ doing'[c].nr = k
        /\ \A d \in Calls : d # c => doing'[d] = doing[d]
    BY <1>1, <2>1, GoesOn DEF IInv
  <2>4. r \in Alive /\ r \in 1..MaxSessions /\ r \in DOMAIN sessions
    BY <1>1, <1>3, WhoIsAlive
  <2>5. Rotating(r) = {} /\ \A j \in Standing(r) : j = k
    <3>1. k \in Standing(r)
      BY <1>1, <1>3 DEF Standing
    <3> QED
      BY <2>4, <3>1 DEF IInv, OneStands
  <2>6. r \notin Renewing
    BY <2>5, WhoIsAlive DEF Rotating, Rotates
  <2>7. \A s : s \in Renewing' <=> s \in Renewing \/ s = r
    <3>1. \A d \in Calls : Rotates(d) => doing[d].nr \in DOMAIN sessions
      BY DEF IInv, RotateInv, Rotates
    <3>2. \A d \in Calls : Rotates(d)' <=> Rotates(d) \/ d = c
      BY <2>3 DEF Rotates
    <3>3. \A s : s \in Renewing' <=> \E d \in Calls : Rotates(d)' /\ sessions'[doing'[d].nr].root = s
      BY DEF Renewing, Rotates
    <3>4. ~Rotates(c) /\ sessions'[doing'[c].nr].root = r
      BY <1>1, <2>2, <2>3 DEF Rotates
    <3>5. \A d \in Calls : Rotates(d) =>
            sessions'[doing'[d].nr].root = sessions[doing[d].nr].root
      BY <2>2, <2>3, <3>1, <3>4
    <3> HIDE DEF r, k
    <3> QED
      BY <3>2, <3>3, <3>4, <3>5, WhoIsAlive
  <2>8. \A s : s \in Alive' <=> s \in Alive
    <3>1. \A s : s \in Alive' <=>
             \/ s \in Renewing'
             \/ \E j \in DOMAIN sessions' : sessions'[j].state # "gone" /\ sessions'[j].root = s
      BY DEF Alive
    <3> QED
      BY <1>1, <2>2, <2>4, <2>7, <3>1, WhoIsAlive
  <2>9. Made' = Made
    BY <2>2, MadeKept
  <2> HIDE DEF r
  <2>10. Promise!Renew(r)
    BY <1>1, <2>4, <2>6, <2>7, <2>8, <2>9 DEF Promise!Renew
  <2> QED
    BY <2>4, <2>10
<1> QED
  BY <1>2, <1>3

\* The insertion of a session ends the rotation that made room for it.
LEMMA IssueRenews ==
  ASSUME IInv, NEW c \in Calls, Issue(c), doing[c].by = "rotate"
  PROVE  \E r \in 1..MaxSessions : Promise!Renewed(r)
<1> DEFINE n == Len(sessions) + 1
           r == sessions[doing[c].nr].root
<1>1. /\ DOMAIN sessions = 1..(n - 1) /\ DOMAIN sessions' = 1..n /\ n \in Nat
      /\ \A i \in DOMAIN sessions : sessions'[i] = sessions[i]
      /\ sessions'[n].state = "live" /\ sessions'[n].root = r
  BY IssueAdds
<1>2. Ends(c) /\ UNCHANGED password /\ Rotates(c)
  BY DEF Issue, Rotates
<1>3. doing'[c] = Idle /\ \A d \in Calls : d # c => doing'[d] = doing[d]
  BY <1>2, IsOver DEF IInv
<1>4. r \in Renewing /\ r \in Alive /\ r \in 1..MaxSessions /\ r \in DOMAIN sessions
  BY <1>2, WhoIsAlive
<1> HIDE DEF n
<1>5. DOMAIN sessions' = DOMAIN sessions \cup {n} /\ n \notin DOMAIN sessions /\ r # n
  BY <1>1, <1>4
<1>6. \A d \in Calls : Rotates(d)' <=> Rotates(d) /\ d # c
  BY <1>3 DEF Rotates, Idle
<1>7. \A s : s \in Renewing' <=> s \in Renewing /\ s # r
  <2>1. \A s : s \in Renewing' <=> \E d \in Calls : Rotates(d)' /\ sessions'[doing'[d].nr].root = s
    BY DEF Renewing, Rotates
  <2>2. \A d \in Calls : Rotates(d) => doing[d].nr \in DOMAIN sessions
    BY DEF IInv, RotateInv, Rotates
  <2>3. \A d \in Calls : Rotates(d) /\ sessions[doing[d].nr].root = r => d = c
    <3>1. \A d, e \in Rotating(r) : d = e
      BY <1>4 DEF IInv, OneStands
    <3> QED
      BY <1>2, <3>1 DEF Rotating, Rotates
  <2>4. \A d \in Calls : Rotates(d) /\ d # c =>
          sessions'[doing'[d].nr].root = sessions[doing[d].nr].root
    BY <1>1, <1>3, <2>2
  <2> HIDE DEF r
  <2> QED
    BY <1>2, <1>6, <2>1, <2>3, <2>4, WhoIsAlive DEF r
<1>8. \A s : s \in Alive' <=> s \in Alive
  <2>1. \A s : s \in Alive' <=>
           \/ s \in Renewing'
           \/ \E j \in DOMAIN sessions' : sessions'[j].state # "gone" /\ sessions'[j].root = s
    BY DEF Alive
  <2>2. \A s : (\E j \in DOMAIN sessions' : sessions'[j].state # "gone" /\ sessions'[j].root = s)
           <=> \/ s = r
               \/ \E j \in DOMAIN sessions : sessions[j].state # "gone" /\ sessions[j].root = s
    BY <1>1, <1>5
  <2> HIDE DEF r
  <2> QED
    BY <1>4, <1>7, <2>1, <2>2, WhoIsAlive
<1>9. Made' = Made
  <2>1. Roots' = Roots
    BY <1>1, <1>5 DEF Roots
  <2>2. \A s \in Roots : sessions'[s] = sessions[s]
    BY <1>1 DEF Roots
  <2> QED
    BY <2>1, <2>2 DEF Made
<1> HIDE DEF r
<1>10. Promise!Renewed(r)
  BY <1>2, <1>4, <1>7, <1>8, <1>9 DEF Promise!Renewed
<1> QED
  BY <1>4, <1>10

\* Any other insertion is a sign-in with the credential in hand.
LEMMA IssueSignsIn ==
  ASSUME IInv, NEW c \in Calls, Issue(c), doing[c].by # "rotate"
  PROVE  \E r \in 1..MaxSessions,
            cred \in (Creds \cup {<<"google", 0>>}) \ {x \in Creds : Spent(x) /\ ~InHand(x)} :
           Promise!SignIn(r, cred)
<1> DEFINE n == Len(sessions) + 1
           cred == <<doing[c].by, doing[c].nr>>
<1>1. /\ DOMAIN sessions = 1..(n - 1) /\ DOMAIN sessions' = 1..n /\ n \in Nat
      /\ \A i \in DOMAIN sessions : sessions'[i] = sessions[i]
      /\ sessions'[n].state = "live" /\ sessions'[n].root = n
      /\ sessions'[n].by = doing[c].by /\ sessions'[n].nr = doing[c].nr
  BY IssueAdds
<1>2. Ends(c) /\ UNCHANGED password /\ doing[c].at = "issue" /\ n \in 1..MaxSessions
  <2>1. n - 1 < MaxSessions /\ n - 1 \in Nat /\ MaxSessions \in Nat
    BY LenProperties DEF Issue, IInv, TypeOK
  <2> QED
    BY <1>1, <2>1 DEF Issue
<1>3. doing'[c] = Idle /\ \A d \in Calls : d # c => doing'[d] = doing[d]
  BY <1>2, IsOver DEF IInv
<1> HIDE DEF n
<1>4. DOMAIN sessions' = DOMAIN sessions \cup {n} /\ n \notin DOMAIN sessions
  BY <1>1, <1>2
<1>5. cred \in Creds \cup {<<"google", 0>>} /\ (cred \in Creds => InHand(cred))
  <2>1. InPlace(c) /\ doing[c].by \in Ways
    BY <1>2 DEF IInv, CallInv, InPlace
  <2>2. InHand(cred)
    BY DEF InHand
  <2>3. CASE doing[c].by \in {"email", "phone"}
    <3>1. doing[c].nr \in DOMAIN codes /\ cred = <<codes[doing[c].nr].mode, doing[c].nr>>
      BY <2>1, <2>3 DEF InPlace
    <3> HIDE DEF cred
    <3> QED
      BY <2>2, <3>1 DEF Creds
  <2>4. CASE doing[c].by = "password"
    <3>1. cred \in {"password"} \X (0..password)
      BY <2>1, <2>4 DEF InPlace
    <3> HIDE DEF cred
    <3> QED
      BY <2>2, <3>1 DEF Creds
  <2>5. CASE doing[c].by = "google"
    <3>1. cred = <<"google", 0>>
      BY <2>1, <2>5 DEF InPlace
    <3> HIDE DEF cred
    <3> QED
      BY <2>2, <3>1
  <2> QED
    BY <2>1, <2>3, <2>4, <2>5 DEF Ways
<1>6. Roots' = Roots \cup {n} /\ n \notin Roots
  BY <1>1, <1>4 DEF Roots
<1>7. Made' = [s \in DOMAIN Made \cup {n} |-> IF s = n THEN cred ELSE Made[s]]
  <2>1. \A s \in Roots : sessions'[s] = sessions[s] /\ s # n
    BY <1>1, <1>6 DEF Roots
  <2> QED
    BY <1>1, <1>6, <2>1 DEF Made
<1>8. Renewing' = Renewing
  <2>1. \A d \in Calls : (Rotates(d)' <=> Rotates(d)) /\ (Rotates(d) => doing'[d] = doing[d])
    BY <1>3 DEF Rotates, Idle
  <2>2. \A d \in Calls : Rotates(d) => doing[d].nr \in DOMAIN sessions
    BY DEF IInv, RotateInv, Rotates
  <2>3. \A s : s \in Renewing' <=> \E d \in Calls : Rotates(d)' /\ sessions'[doing'[d].nr].root = s
    BY DEF Renewing, Rotates
  <2>4. \A s : s \in Renewing' <=> s \in Renewing
    BY <1>1, <2>1, <2>2, <2>3, WhoIsAlive
  <2> QED
    BY <2>4
<1>9. Alive' = Alive \cup {n}
  <2>1. \A s : s \in Alive' <=>
           \/ s \in Renewing'
           \/ \E j \in DOMAIN sessions' : sessions'[j].state # "gone" /\ sessions'[j].root = s
    BY DEF Alive
  <2>2. \A s : s \in Alive' <=> s \in Alive \/ s = n
    BY <1>1, <1>4, <1>8, <2>1, WhoIsAlive
  <2> QED
    BY <2>2
<1>10. n \notin DOMAIN Made
  BY <1>6 DEF Made
<1>11. Promise!SignIn(n, cred)
  BY <1>2, <1>7, <1>8, <1>9, <1>10 DEF Promise!SignIn
<1> HIDE DEF cred
<1> QED
  BY <1>2, <1>5, <1>11

LEMMA InitPromised == Init => Promise!Init
<1> SUFFICES ASSUME Init PROVE Promise!Init
  OBVIOUS
<1>1. sessions = <<>> /\ codes = <<>> /\ password = 0 /\ doing = [c \in Calls |-> Idle]
  BY DEF Init
<1>2. DOMAIN sessions = {} /\ DOMAIN codes = {} /\ \A c \in Calls : doing[c].by = "none"
  BY <1>1 DEF Idle
<1>3. Roots = {}
  BY <1>2 DEF Roots
<1>4. Renewing = {} /\ Alive = {} /\ Made = [r \in {} |-> {}]
  BY <1>2, <1>3 DEF Renewing, Alive, Made
<1>5. \A cred \in Creds : ~Spent(cred)
  BY <1>1, <1>2 DEF Creds, Spent
<1> QED
  BY <1>1, <1>4, <1>5 DEF Promise!Init

LEMMA NextPromised == IInv /\ [Next]_svars => [Promise!Next]_(Promise!pvars)
<1> SUFFICES ASSUME IInv, [Next]_svars PROVE [Promise!Next]_(Promise!pvars)
  OBVIOUS
<1>1. CASE UNCHANGED svars
  BY <1>1 DEF svars, Promise!pvars, Made, Alive, Renewing, Roots, Creds, Spent, InHand
<1>2. CASE Next
  <2>1. Promise!Circulate
    BY Circulates
  <2>2. \/ SignUp \/ (\E mode \in Modes : RequestCode(mode)) \/ ExpireCode \/ ExpireSession
        \/ Logout
        \/ \E c \in Calls :
             \/ (\E mode \in Modes : TakeCode(c, mode)) \/ SignIn(c) \/ SignInWithGoogle(c)
             \/ RotateReads(c) \/ UseCode(c) \/ FindAccount(c) \/ SaveAccount(c) \/ Fails(c)
             \/ Reset(c) \/ RotateDeletes(c) \/ Issue(c)
    BY <1>2 DEF Next, RequestOtp, RequestPhoneOtp, ForgotPassword, VerifyOtp, VerifyPhoneOtp,
                ResetPassword, UseGoogle, UsePassword, RotateSession, Authenticates, Issues, Modes
  <2>3. \/ UNCHANGED <<password, Made, Alive, Renewing>>
        \/ Promise!Reset
        \/ \E r \in 1..MaxSessions :
             \/ Promise!Renew(r) \/ Promise!Renewed(r) \/ Promise!Lose(r) \/ Promise!Logout(r)
             \/ \E cred \in (Creds \cup {<<"google", 0>>})
                              \ {x \in Creds : Spent(x) /\ ~InHand(x)} : Promise!SignIn(r, cred)
    BY <2>2, StillSteps, FailsLoses, LogoutEnds, ResetEnds, DeletionRenews, IssueRenews,
       IssueSignsIn
  <2> QED
    BY <2>1, <2>3 DEF Promise!Next
<1> QED
  BY <1>1, <1>2

\* However the statements of the mutations interleave and fail, a sign-in needs a
\* credential that is good, rotation neither multiplies nor revives it, and a reset ends
\* it unless a rotation has just deleted its session (issueTokens, rotateSession, logout,
\* resetPassword).
THEOREM SessionsImplementSignedIn == Spec => ImplementsSignedIn
<1> QED
  BY InitInv, NextInv, InitPromised, NextPromised, PTL DEF Spec, ImplementsSignedIn, Promise!Spec
=============================================================================
