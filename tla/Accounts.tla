------------------------------ MODULE Accounts ------------------------------
(***************************************************************************)
(* The panel's user accounts: the first-run setup, login with a password   *)
(* and a generator or backup code, web sessions, the users endpoints and   *)
(* the TOTP endpoints.  A handler runs one SQL statement at a time and     *)
(* holds what it has read across the statements of the others.             *)
(*                                                                         *)
(* Passwords and lists of backup codes are numbered per user as they are   *)
(* made; of a generator's secret only matters whether there is one.        *)
(* Requests refused on their own input (a wrong password or code, too      *)
(* short a password) change nothing and are left out.                      *)
(***************************************************************************)
EXTENDS Naturals, FiniteSets

CONSTANTS
  Users,        \* names, each for one row
  NoUser,
  Changing,     \* bound: users who change their password or second factor
  Sids,         \* bound: sessions open at one time
  Handlers,     \* bound: requests in flight at one time
  ListSize,     \* backup codes generated at a time
  MaxPasswords, \* bound: passwords a user has had
  MaxLists      \* bound: lists of backup codes made for a user

ASSUME AccountsAssumption ==
  /\ NoUser \notin Users /\ IsFiniteSet(Users) /\ Changing \subseteq Users
  /\ {ListSize, MaxLists} \subseteq Nat /\ MaxPasswords \in Nat \ {0}

VARIABLES
  user,     \* table users
  session,  \* table login_sessions, without what is revoked or expired
  call,     \* requests in flight
  made,     \* lists of backup codes generated for a user so far
  shown,    \* history: the list of backup codes a user's row was last given
  spent,    \* history: codes of that list a login has used
  verified, \* history: users a confirm has seen a code of the row's secret from
  raced,    \* history: facts written while another handler held a read of them
  lapsed    \* history: users whose sessions a cut handler did not revoke

accountsHist == <<shown, spent, verified, raced, lapsed>>
accountsVars == <<user, session, call, made, accountsHist>>

Codes(n)   == {n} \X (1 .. ListSize)
AllCodes   == UNION {Codes(n) : n \in 0 .. MaxLists}
Facts      == {"codes", "password", "secret", "admins"}
UserRows   == [state : {"unused", "there", "gone"}, pw : 0 .. MaxPasswords,
               secret : BOOLEAN, on : BOOLEAN, codes : SUBSET AllCodes]
Sessions   == [user : Users \cup {NoUser}, pw : 0 .. MaxPasswords]
Unauthed   == {"setup", "session", "burn"}
FirstSteps == {"create", "count", "reset", "load", "enroll", "confirm",
               "gate disable", "gate regenerate"}
LaterSteps == {"delete", "revoke", "persist", "enable", "disable",
               "flag", "regenerate"}
Calls      == [pc : {"idle"} \cup Unauthed \cup FirstSteps \cup LaterSteps,
               who : Users \cup {NoUser}, to : Users \cup {NoUser},
               pw : 0 .. MaxPasswords,
               code : AllCodes \cup {<<>>}, left : SUBSET AllCodes]

NoRow     == [state |-> "unused", pw |-> 0, secret |-> FALSE, on |-> FALSE, codes |-> {}]
NoSession == [user |-> NoUser, pw |-> 0]
Idle      == [pc |-> "idle", who |-> NoUser, to |-> NoUser, pw |-> 0,
              code |-> <<>>, left |-> {}]

AccountsInit ==
  /\ user = [u \in Users |-> NoRow] /\ session = [i \in Sids |-> NoSession]
  /\ call = [k \in Handlers |-> Idle]
  /\ made = [u \in Users |-> 0]
  /\ shown = [u \in Users |-> 0] /\ spent = [u \in Users |-> {}]
  /\ verified = {} /\ raced = {} /\ lapsed = {}

There(u) == user[u].state = "there"
Admins   == {u \in Users : There(u)}

Begin(k, c) == call[k] = Idle /\ call' = [call EXCEPT ![k] = c]
Go(k, pc)   == call' = [call EXCEPT ![k].pc = pc]
End(k)      == call' = [call EXCEPT ![k] = Idle]

\* What a handler has read of its user and not yet used.
Held(c) ==
  {f \in Facts :
     \/ f = "codes"    /\ c.pc = "burn"
     \/ f = "password" /\ c.pc \in {"burn", "session"}
     \/ f = "secret"   /\ c.pc = "enable"
     \/ f = "admins"   /\ c.pc = "delete"}

Holding(k, u, f) ==
  \E j \in Handlers \ {k} :
    f \in Held(call[j]) /\ (f = "admins" \/ call[j].who = u)

\* Handler k writes facts about u.
Writes(k, u, facts) ==
  raced' = IF There(u) THEN raced \cup {<<u, f>> : f \in {f \in facts : Holding(k, u, f)}}
           ELSE raced

Fresh == [NoRow EXCEPT !.state = "there", !.pw = 1]

----------------------------------------------------------------------------
(* Setup and login.                                                        *)

\* The snapshot of INSERT ... WHERE NOT EXISTS: the table is empty.
SetupSnapshot(k, u) ==
  /\ Admins = {} /\ user[u].state = "unused"
  /\ Begin(k, [Idle EXCEPT !.pc = "setup", !.who = u, !.pw = 1])
  /\ UNCHANGED <<user, session, made, accountsHist>>

\* Its insert, which fails on a name that is taken.
SetupInsert(k) ==
  LET u == call[k].who IN
  /\ call[k].pc = "setup"
  /\ IF user[u].state = "unused"
     THEN user' = [user EXCEPT ![u] = Fresh] /\ Go(k, "session")
     ELSE End(k) /\ UNCHANGED user
  /\ UNCHANGED <<session, made, accountsHist>>

\* The password and the second factor are judged on one read of the row: the
\* generator first, then the backup codes.
LoginSelect(k, u) ==
  LET seen == [Idle EXCEPT !.who = u, !.pw = user[u].pw] IN
  /\ There(u)
  /\ \/ /\ ~user[u].on \/ user[u].secret
        /\ Begin(k, [seen EXCEPT !.pc = "session"])
     \/ /\ user[u].on
        /\ \E c \in user[u].codes :
             Begin(k, [seen EXCEPT !.pc = "burn", !.code = c, !.left = user[u].codes \ {c}])
  /\ UNCHANGED <<user, session, made, accountsHist>>

\* Mutant: the column is written back with the code still in it.
Burned_Kept(c) == c.left \cup {c.code}

\* "we rewrite the column without that hash".
Burned(c) == c.left

LoginBurn(k) ==
  LET u == call[k].who IN
  /\ call[k].pc = "burn" /\ Go(k, "session")
  /\ user' = IF There(u) THEN [user EXCEPT ![u].codes = Burned(call[k])] ELSE user
  /\ spent' = [spent EXCEPT ![u] = (@ \cup {call[k].code}) \cap Codes(shown[u])]
  /\ Writes(k, u, {"codes"})
  /\ UNCHANGED <<session, made, shown, verified, lapsed>>

\* session::create, refused by the foreign key when the user is gone.
OpenSession(k) ==
  LET u == call[k].who IN
  /\ call[k].pc = "session" /\ End(k)
  /\ IF There(u)
     THEN \E i \in Sids :
            /\ session[i] = NoSession
            /\ session' = [session EXCEPT ![i] = [user |-> u, pw |-> call[k].pw]]
     ELSE UNCHANGED session
  /\ UNCHANGED <<user, made, accountsHist>>

\* Logout, or the sliding window passed.
CloseSession(i) ==
  /\ session[i] # NoSession /\ session' = [session EXCEPT ![i] = NoSession]
  /\ UNCHANGED <<user, call, made, accountsHist>>

----------------------------------------------------------------------------
(* Requests that carry a session's cookie.                                 *)

\* validate_and_touch; what follows keeps the user, not the session.
Authorised(u) == \E i \in Sids : session[i].user = u

Authorise(k, u, to, step) ==
  /\ Authorised(u)
  /\ step = "create" => user[to].state = "unused"
  /\ step = "count" => to # u
  /\ step \notin {"create", "count", "reset"} => to = u
  /\ step \notin {"create", "count"} => to \in Changing
  /\ Begin(k, [Idle EXCEPT !.pc = step, !.who = u, !.to = to])
  /\ UNCHANGED <<user, session, made, accountsHist>>

CreateUser(k) ==
  LET u == call[k].to IN
  /\ call[k].pc = "create" /\ End(k)
  /\ user' = IF user[u].state = "unused" THEN [user EXCEPT ![u] = Fresh] ELSE user
  /\ UNCHANGED <<session, made, accountsHist>>

\* Mutant: the last admin may go.
Enough_One == Cardinality(Admins) >= 1

\* "Never leave the panel admin-less."
Enough == Cardinality(Admins) > 1

DeleteCount(k) ==
  /\ call[k].pc = "count"
  /\ IF Enough THEN Go(k, "delete") ELSE End(k)
  /\ UNCHANGED <<user, session, made, accountsHist>>

\* Mutant: the rows stay.
Without_All(u) == session

\* ON DELETE CASCADE, and revoke_all_for_user.
Without(u) == [i \in Sids |-> IF session[i].user = u THEN NoSession ELSE session[i]]

DeleteUser(k) ==
  LET u == call[k].to IN
  /\ call[k].pc = "delete" /\ End(k) /\ There(u)
  /\ user' = [user EXCEPT ![u] = [NoRow EXCEPT !.state = "gone"]]
  /\ session' = Without(u)
  /\ Writes(k, u, {"admins"})
  /\ shown' = [shown EXCEPT ![u] = 0] /\ spent' = [spent EXCEPT ![u] = {}]
  /\ verified' = verified \ {u} /\ lapsed' = lapsed \ {u}
  /\ UNCHANGED made

\* reset_password and change_own_password, after its verify.
WritePassword(k, u) ==
  /\ user' = IF There(u) THEN [user EXCEPT ![u].pw = @ + 1] ELSE user
  /\ user[u].pw < MaxPasswords
  /\ Writes(k, u, {"password"})
  /\ UNCHANGED <<session, made, shown, spent, verified, lapsed>>

ResetPassword(k) ==
  /\ call[k].pc = "reset" /\ There(call[k].to) /\ Go(k, "revoke")
  /\ WritePassword(k, call[k].to)

ChangeLoad(k) ==
  /\ call[k].pc = "load" /\ There(call[k].to) /\ Go(k, "persist")
  /\ UNCHANGED <<user, session, made, accountsHist>>

ChangePersist(k) ==
  /\ call[k].pc = "persist" /\ Go(k, "revoke")
  /\ WritePassword(k, call[k].to)

\* Mutant: the sessions stay.
Revoked_None(u) == session

Revoked(u) == Without(u)

RevokeAll(k) ==
  /\ call[k].pc = "revoke" /\ End(k)
  /\ session' = Revoked(call[k].to)
  /\ UNCHANGED <<user, made, accountsHist>>

----------------------------------------------------------------------------
(* TOTP.                                                                   *)

\* Mutant: totp_enabled is not reset.
Enrolled_On(r) == [r EXCEPT !.secret = TRUE]

\* "We overwrite any previous pending secret on purpose".
Enrolled(r) == [r EXCEPT !.secret = TRUE, !.on = FALSE]

Enroll(k) ==
  LET u == call[k].who IN
  /\ call[k].pc = "enroll" /\ End(k)
  /\ user' = IF There(u) THEN [user EXCEPT ![u] = Enrolled(@)] ELSE user
  /\ verified' = verified \ {u} /\ Writes(k, u, {"secret"})
  /\ UNCHANGED <<session, made, shown, spent, lapsed>>

\* A code of the secret that was read; refused once enabled.
ConfirmSelect(k) ==
  LET u == call[k].who IN
  /\ call[k].pc = "confirm" /\ There(u) /\ ~user[u].on /\ user[u].secret
  /\ Go(k, "enable") /\ verified' = verified \cup {u}
  /\ UNCHANGED <<user, session, made, shown, spent, raced, lapsed>>

\* The list of codes a handler generates for u.
NewCodes(u) == Codes(made[u] + 1)

\* A row of u with the new list is written, and the list shown.
HandOut(k, u, row) ==
  /\ made[u] < MaxLists /\ made' = [made EXCEPT ![u] = @ + 1]
  /\ user' = IF There(u) THEN [user EXCEPT ![u] = row] ELSE user
  /\ shown' = [shown EXCEPT ![u] = made'[u]] /\ spent' = [spent EXCEPT ![u] = {}]
  /\ Writes(k, u, {"codes"})
  /\ UNCHANGED <<session, verified, lapsed>>

Enabled(r, cs) == [r EXCEPT !.on = TRUE, !.codes = cs]

ConfirmEnable(k) ==
  LET u == call[k].who IN
  call[k].pc = "enable" /\ End(k) /\ HandOut(k, u, Enabled(user[u], NewCodes(u)))

\* require_password, before disable and regenerate_backup.
Gate(k, from, to) ==
  /\ call[k].pc = from /\ There(call[k].who) /\ Go(k, to)
  /\ UNCHANGED <<user, session, made, accountsHist>>

Disabled(r) == [r EXCEPT !.on = FALSE, !.secret = FALSE, !.codes = {}]

Disable(k) ==
  LET u == call[k].who IN
  /\ call[k].pc = "disable" /\ End(k)
  /\ user' = IF There(u) THEN [user EXCEPT ![u] = Disabled(@)] ELSE user
  /\ shown' = [shown EXCEPT ![u] = 0] /\ spent' = [spent EXCEPT ![u] = {}]
  /\ verified' = verified \ {u} /\ Writes(k, u, {"secret", "codes"})
  /\ UNCHANGED <<session, made, lapsed>>

\* Only on an account that has TOTP on.
RegenerateFlag(k) ==
  /\ call[k].pc = "flag" /\ There(call[k].who) /\ user[call[k].who].on
  /\ Go(k, "regenerate")
  /\ UNCHANGED <<user, session, made, accountsHist>>

Replaced(r, cs) == [r EXCEPT !.codes = cs]

Regenerate(k) ==
  LET u == call[k].who IN
  call[k].pc = "regenerate" /\ End(k) /\ HandOut(k, u, Replaced(user[u], NewCodes(u)))

\* What the statement it stands before finds makes a handler give up.
Refused(c) ==
  \/ c.pc \in {"delete", "reset"} /\ ~There(c.to)
  \/ c.pc \in {"load", "gate disable", "gate regenerate", "confirm", "flag"} /\ ~There(c.who)
  \/ c.pc = "confirm" /\ (user[c.who].on \/ ~user[c.who].secret)
  \/ c.pc = "flag" /\ ~user[c.who].on

Refuse(k) ==
  /\ Refused(call[k]) /\ End(k)
  /\ UNCHANGED <<user, session, made, accountsHist>>

\* A statement fails, or the client goes and the handler is dropped where it is.
Drop(k) ==
  /\ call[k] # Idle /\ End(k)
  /\ lapsed' = IF call[k].pc = "revoke" THEN lapsed \cup {call[k].to} ELSE lapsed
  /\ UNCHANGED <<user, session, made, shown, spent, verified, raced>>

----------------------------------------------------------------------------
AccountsNext ==
  \/ \E i \in Sids : CloseSession(i)
  \/ \E k \in Handlers :
       \/ \E u \in Users : SetupSnapshot(k, u) \/ LoginSelect(k, u)
       \/ \E u, to \in Users, step \in FirstSteps : Authorise(k, u, to, step)
       \/ SetupInsert(k) \/ LoginBurn(k) \/ OpenSession(k)
       \/ CreateUser(k) \/ DeleteCount(k) \/ DeleteUser(k)
       \/ ResetPassword(k) \/ ChangeLoad(k) \/ ChangePersist(k) \/ RevokeAll(k)
       \/ Enroll(k) \/ ConfirmSelect(k) \/ ConfirmEnable(k)
       \/ Gate(k, "gate disable", "disable") \/ Gate(k, "gate regenerate", "flag")
       \/ Disable(k) \/ RegenerateFlag(k) \/ Regenerate(k)
       \/ Refuse(k) \/ Drop(k)

AccountsSpec == AccountsInit /\ [][AccountsNext]_accountsVars

----------------------------------------------------------------------------
(* Properties.                                                             *)

\* Every variable keeps its type, and a session is always of a user that is there.
AccountsTypeOK ==
  /\ user \in [Users -> UserRows] /\ session \in [Sids -> Sessions]
  /\ \A i \in Sids : session[i] # NoSession => There(session[i].user)
  /\ call \in [Handlers -> Calls]
  /\ made \in [Users -> 0 .. MaxLists]
  /\ shown \in [Users -> 0 .. MaxLists] /\ spent \in [Users -> SUBSET AllCodes]
  /\ verified \subseteq Users /\ raced \subseteq Users \X Facts /\ lapsed \subseteq Users

SetUp == \E u \in Users : user[u].state # "unused"

\* "Never leave the panel admin-less": once there has been a user there is one,
\* whatever is created and deleted ...
AdminRemains == SetUp => Admins # {}

\* ... as the code has it, unless a deletion ran between the COUNT and the
\* DELETE of another one.
AdminRemainsUnraced == SetUp => Admins # {} \/ \E u \in Users : <<u, "admins">> \in raced

\* "One-time backup codes": the codes a row holds are those of the list its user
\* was last shown that no login has used, through enrolments, confirmations and
\* regenerations, unless the column was written while a login held a copy of it.
CodesAreThoseShown ==
  \A u \in Users : There(u) =>
    \/ user[u].codes = IF shown[u] = 0 THEN {} ELSE Codes(shown[u]) \ spent[u]
    \/ <<u, "codes">> \in raced

\* "the old password can't keep anyone signed in": a session was opened with the
\* password its user has now, or a handler is about to revoke it, unless a login
\* had read the old one before the change or the revoking handler was cut short.
SessionsFollowPassword ==
  \A i \in Sids : LET u == session[i].user IN session[i] # NoSession =>
    \/ session[i].pw = user[u].pw
    \/ \E k \in Handlers : call[k].pc = "revoke" /\ call[k].to = u
    \/ u \in lapsed \/ <<u, "password">> \in raced

\* "keeping the old one around would allow confirmation from a stale generator":
\* where TOTP is on, the row's secret is one its user has confirmed, unless it
\* was written between a confirm's read and its update.
GeneratorIsConfirmed ==
  \A u \in Users : user[u].on =>
    (user[u].secret /\ u \in verified) \/ <<u, "secret">> \in raced
============================================================================
