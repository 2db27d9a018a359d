------------------------------ MODULE SignedIn ------------------------------
(***************************************************************************)
(* What authentication promises of one person, without codes' rows,        *)
(* tokens or statements: who signs in does so with a credential that is    *)
(* good, renewing a sign-in makes no second one, what has ended stays      *)
(* ended, and a reset of the password ends every sign-in to the email's    *)
(* account, but for one that is being renewed at that moment.              *)
(***************************************************************************)
EXTENDS Naturals

CONSTANTS
  Ids,      \* of sign-ins
  OfEmail   \* the credentials that sign in to the account with the email

VARIABLES
  password,  \* how often the password was reset
  offered,   \* the credentials there have been
  closed,    \* those that are no good any more
  made,      \* the sign-ins so far, each with its credential
  alive,     \* those that have not ended
  renewing   \* those whose session is being replaced: it may be lost instead

pvars == <<password, offered, closed, made, alive, renewing>>

Init ==
  /\ password = 0
  /\ closed = {}
  /\ made = [r \in {} |-> {}]
  /\ alive = {}
  /\ renewing = {}

\* Credentials come and go, beside whatever else happens; none comes back.
Circulate ==
  /\ offered \subseteq offered'
  /\ closed \subseteq closed'

SignIn(r, cred) ==
  /\ r \notin DOMAIN made
  /\ made' = [s \in DOMAIN made \cup {r} |-> IF s = r THEN cred ELSE made[s]]
  /\ alive' = alive \cup {r}
  /\ UNCHANGED <<password, renewing>>

Renew(r) ==
  /\ r \in alive \ renewing
  /\ renewing' = renewing \cup {r}
  /\ UNCHANGED <<password, made, alive>>

Renewed(r) ==
  /\ r \in renewing
  /\ renewing' = renewing \ {r}
  /\ UNCHANGED <<password, made, alive>>

Lose(r) ==
  /\ r \in renewing
  /\ renewing' = renewing \ {r}
  /\ alive' = alive \ {r}
  /\ UNCHANGED <<password, made>>

Logout(r) ==
  /\ r \in alive \ renewing
  /\ alive' = alive \ {r}
  /\ UNCHANGED <<password, made, renewing>>

Reset ==
  /\ password' = password + 1
  /\ alive' = {r \in alive : made[r] \in OfEmail => r \in renewing}
  /\ UNCHANGED <<made, renewing>>

Next ==
  /\ Circulate
  /\ \/ UNCHANGED <<password, made, alive, renewing>>
     \/ Reset
     \/ \E r \in Ids : \/ Renew(r) \/ Renewed(r) \/ Lose(r) \/ Logout(r)
                      \/ \E cred \in offered \ closed : SignIn(r, cred)

Spec == Init /\ [][Next]_pvars
=============================================================================
