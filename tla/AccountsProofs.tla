--------------------------- MODULE AccountsProofs ---------------------------
(***************************************************************************)
(* Proofs about Accounts, for any users, sessions, requests and bounds.    *)
(***************************************************************************)
EXTENDS Accounts, FiniteSetTheorems, TLAPS

\* A request in flight has a user, one that carries a cookie a target, and all but
\* a setup that has just begun a user who has, or had, a row.
CallShape ==
  \A k \in Handlers :
    /\ call[k].pc # "idle" => call[k].who \in Users
    /\ call[k].pc \in FirstSteps \cup LaterSteps => call[k].to \in Users
    /\ call[k].pc \notin {"idle", "setup"} => user[call[k].who].state # "unused"

SessionShape == \A i \in Sids : session[i] # NoSession => session[i].user \in Users

TypeInv == AccountsTypeOK /\ CallShape /\ SessionShape

----------------------------------------------------------------------------
(* Rows and requests.                                                      *)

\* The codes of a list that can be made are codes.
LEMMA CodesAreCodes == \A n \in 0 .. MaxLists : Codes(n) \subseteq AllCodes
  BY DEF AllCodes

LEMMA NoRowFields ==
  /\ NoRow \in UserRows
  /\ NoRow.state = "unused" /\ NoRow.pw = 0 /\ NoRow.on = FALSE /\ NoRow.codes = {}
  BY AccountsAssumption DEF NoRow, UserRows

\* What each write makes of a row.
LEMMA RowWrites ==
  ASSUME NEW r \in UserRows
  PROVE  /\ [r EXCEPT !.state = "there", !.pw = 1] \in UserRows
         /\ [r EXCEPT !.state = "there", !.pw = 1].state = "there"
         /\ [r EXCEPT !.state = "there", !.pw = 1].pw = 1
         /\ [r EXCEPT !.state = "there", !.pw = 1].on = r.on
         /\ [r EXCEPT !.state = "there", !.pw = 1].codes = r.codes
<1>1. 1 \in 0 .. MaxPasswords
  BY AccountsAssumption
<1>2. QED
  BY <1>1 DEF UserRows

LEMMA FreshFields ==
  /\ Fresh \in UserRows
  /\ Fresh.state = "there" /\ Fresh.pw = 1 /\ Fresh.on = FALSE /\ Fresh.codes = {}
  BY NoRowFields, RowWrites DEF Fresh

LEMMA GoneFields ==
  LET gone == [NoRow EXCEPT !.state = "gone"] IN
  gone \in UserRows /\ gone.state = "gone" /\ gone.on = FALSE
  BY NoRowFields DEF UserRows

LEMMA IdleFields ==
  /\ Idle \in Calls /\ Idle.pc = "idle" /\ Idle.who = NoUser /\ Idle.to = NoUser
  BY AccountsAssumption DEF Idle, Calls

\* What one request does to its own record leaves the others alone.
LEMMA BeginStep ==
  ASSUME call \in [Handlers -> Calls], NEW k \in Handlers, NEW c \in Calls, Begin(k, c)
  PROVE  /\ call[k] = Idle /\ call' \in [Handlers -> Calls] /\ call'[k] = c
         /\ \A j \in Handlers \ {k} : call'[j] = call[j]
  BY DEF Begin

LEMMA GoStep ==
  ASSUME call \in [Handlers -> Calls], NEW k \in Handlers,
         NEW pc \in Unauthed \cup FirstSteps \cup LaterSteps, Go(k, pc)
  PROVE  /\ call' \in [Handlers -> Calls]
         /\ call'[k].pc = pc /\ call'[k].who = call[k].who /\ call'[k].to = call[k].to
         /\ call'[k].pw = call[k].pw /\ call'[k].code = call[k].code /\ call'[k].left = call[k].left
         /\ \A j \in Handlers \ {k} : call'[j] = call[j]
  BY DEF Go, Calls

LEMMA EndStep ==
  ASSUME call \in [Handlers -> Calls], NEW k \in Handlers, End(k)
  PROVE  /\ call' \in [Handlers -> Calls] /\ call'[k] = Idle
         /\ \A j \in Handlers \ {k} : call'[j] = call[j]
  BY IdleFields DEF End

LEMMA WritesKeepType ==
  ASSUME raced \subseteq Users \X Facts, NEW k, NEW u \in Users, NEW facts, Writes(k, u, facts)
  PROVE  raced' \subseteq Users \X Facts
  BY DEF Writes, Holding, Held, Facts

\* What a statement does to a row that is there.
LEMMA RowUpdates ==
  ASSUME NEW r \in UserRows, NEW cs \in SUBSET AllCodes
  PROVE  /\ [r EXCEPT !.codes = cs] \in UserRows /\ [r EXCEPT !.codes = cs].state = r.state
         /\ Enrolled(r) \in UserRows /\ Enrolled(r).state = r.state
         /\ Enabled(r, cs) \in UserRows /\ Enabled(r, cs).state = r.state
         /\ Disabled(r) \in UserRows /\ Disabled(r).state = r.state
         /\ Replaced(r, cs) \in UserRows /\ Replaced(r, cs).state = r.state
  BY DEF UserRows, Enrolled, Enabled, Disabled, Replaced

LEMMA PasswordWrites ==
  ASSUME NEW r \in UserRows, r.pw < MaxPasswords
  PROVE  [r EXCEPT !.pw = @ + 1] \in UserRows /\ [r EXCEPT !.pw = @ + 1].state = r.state
<1>1. r.pw + 1 \in 0 .. MaxPasswords
  BY AccountsAssumption DEF UserRows
<1>2. QED
  BY <1>1 DEF UserRows

----------------------------------------------------------------------------
(* What every statement but the deletion of a user does.                   *)

\* No row goes, and one that appears is of a user who is there.
RowsKept ==
  /\ user' \in [Users -> UserRows]
  /\ \A u \in Users :
       \/ user'[u].state = user[u].state
       \/ user[u].state = "unused" /\ user'[u].state = "there"

\* Request k moves on, by itself, to a record of the right shape.
CallMoves(k) ==
  /\ call' \in [Handlers -> Calls]
  /\ \A j \in Handlers \ {k} : call'[j] = call[j]
  /\ call'[k].pc # "idle" => call'[k].who \in Users
  /\ call'[k].pc \in FirstSteps \cup LaterSteps => call'[k].to \in Users
  /\ call'[k].pc \notin {"idle", "setup"} => user'[call'[k].who].state # "unused"

RacedGrows == raced \subseteq raced' /\ raced' \subseteq Users \X Facts

Calm(k) == RowsKept /\ CallMoves(k) /\ RacedGrows

\* One row is written with a row of the same state.
LEMMA OneRow ==
  ASSUME user \in [Users -> UserRows], NEW u \in Users, NEW r \in UserRows,
         r.state = user[u].state \/ (user[u].state = "unused" /\ r.state = "there"),
         user' = [user EXCEPT ![u] = r]
  PROVE  RowsKept /\ user'[u] = r
  BY DEF RowsKept

LEMMA NoRowWritten ==
  ASSUME user \in [Users -> UserRows], user' = user
  PROVE  RowsKept
  BY DEF RowsKept

LEMMA WritesGrow ==
  ASSUME raced \subseteq Users \X Facts, NEW k, NEW u \in Users, NEW facts, Writes(k, u, facts)
  PROVE  RacedGrows
  BY WritesKeepType DEF Writes, RacedGrows

\* A request that ends, or moves to its next step, keeps its shape.
LEMMA EndMoves ==
  ASSUME TypeInv, RowsKept, NEW k \in Handlers, End(k)
  PROVE  CallMoves(k)
<1>1. call \in [Handlers -> Calls]
  BY DEF TypeInv, AccountsTypeOK
<1>2. QED
  BY <1>1, EndStep, IdleFields DEF CallMoves, FirstSteps, LaterSteps

LEMMA GoMoves ==
  ASSUME TypeInv, RowsKept, NEW k \in Handlers,
         NEW pc \in Unauthed \cup FirstSteps \cup LaterSteps, Go(k, pc),
         call[k].pc # "idle",
         pc \in FirstSteps \cup LaterSteps => call[k].pc \in FirstSteps \cup LaterSteps,
         user'[call[k].who].state # "unused"
  PROVE  CallMoves(k)
<1>1. call \in [Handlers -> Calls]
  BY DEF TypeInv, AccountsTypeOK
<1>2. QED
  BY <1>1, GoStep DEF CallMoves, TypeInv, CallShape

----------------------------------------------------------------------------
(* Each statement but that deletion is calm.                               *)

\* One that writes no row and no history.
LEMMA Reads ==
  ASSUME TypeInv, UNCHANGED <<user, raced>>, NEW k \in Handlers, CallMoves(k)
  PROVE  Calm(k)
  BY NoRowWritten DEF Calm, RacedGrows, TypeInv, AccountsTypeOK

LEMMA BeginMoves ==
  ASSUME TypeInv, UNCHANGED user, NEW k \in Handlers, NEW c \in Calls, Begin(k, c),
         c.who \in Users, c.pc \in FirstSteps \cup LaterSteps => c.to \in Users,
         c.pc # "setup" => user[c.who].state # "unused"
  PROVE  CallMoves(k)
<1>1. call \in [Handlers -> Calls]
  BY DEF TypeInv, AccountsTypeOK
<1>2. QED
  BY <1>1, BeginStep DEF CallMoves

LEMMA SetupSnapshotCalm ==
  ASSUME TypeInv, NEW k \in Handlers, NEW u \in Users, SetupSnapshot(k, u)
  PROVE  Calm(k)
<1> DEFINE c == [Idle EXCEPT !.pc = "setup", !.who = u, !.pw = 1]
<1>1. 1 \in 0 .. MaxPasswords
  BY AccountsAssumption
<1>2. c \in Calls /\ c.pc = "setup" /\ c.who = u
  BY <1>1, IdleFields DEF Calls, Unauthed
<1> HIDE DEF c
<1>3. Begin(k, c) /\ UNCHANGED <<user, raced>>
  BY DEF SetupSnapshot, accountsHist, c
<1>4. CallMoves(k)
  BY <1>2, <1>3, BeginMoves DEF FirstSteps, LaterSteps
<1>5. QED
  BY <1>3, <1>4, Reads

LEMMA LoginSelectCalm ==
  ASSUME TypeInv, NEW k \in Handlers, NEW u \in Users, LoginSelect(k, u)
  PROVE  Calm(k)
<1> DEFINE s == [Idle EXCEPT !.who = u, !.pw = user[u].pw]
           c == [s EXCEPT !.pc = "session"]
           d(e) == [s EXCEPT !.pc = "burn", !.code = e, !.left = user[u].codes \ {e}]
<1>1. user[u] \in UserRows /\ user[u].state = "there" /\ UNCHANGED <<user, raced>>
  BY DEF LoginSelect, There, accountsHist, TypeInv, AccountsTypeOK
<1>2. user[u].pw \in 0 .. MaxPasswords /\ user[u].codes \subseteq AllCodes
  BY <1>1 DEF UserRows
<1>3. c \in Calls /\ c.pc = "session" /\ c.who = u
  BY <1>2, IdleFields DEF Calls, Unauthed
<1>4. \A e \in user[u].codes : d(e) \in Calls /\ d(e).pc = "burn" /\ d(e).who = u
  BY <1>2, IdleFields DEF Calls, Unauthed
<1>5. Begin(k, c) \/ \E e \in user[u].codes : Begin(k, d(e))
  BY DEF LoginSelect
<1> HIDE DEF c, d
<1>6. CASE Begin(k, c)
  BY <1>1, <1>3, <1>6, BeginMoves, Reads DEF FirstSteps, LaterSteps
<1>7. ASSUME NEW e \in user[u].codes, Begin(k, d(e))
      PROVE  Calm(k)
  BY <1>1, <1>4, <1>7, BeginMoves, Reads DEF FirstSteps, LaterSteps
<1>8. QED
  BY <1>5, <1>6, <1>7

LEMMA AuthoriseCalm ==
  ASSUME TypeInv, NEW k \in Handlers, NEW u \in Users, NEW to \in Users,
         NEW step \in FirstSteps, Authorise(k, u, to, step)
  PROVE  Calm(k)
<1> DEFINE c == [Idle EXCEPT !.pc = step, !.who = u, !.to = to]
<1>1. c \in Calls /\ c.pc = step /\ c.who = u /\ c.to = to
  BY IdleFields DEF Calls
<1>2. PICK i \in Sids : session[i].user = u
  BY DEF Authorise, Authorised
<1>3. session[i] # NoSession
  BY <1>2, AccountsAssumption DEF NoSession
<1>4. user[u].state # "unused"
  BY <1>2, <1>3 DEF TypeInv, AccountsTypeOK, There
<1> HIDE DEF c
<1>5. Begin(k, c) /\ UNCHANGED <<user, raced>>
  BY DEF Authorise, accountsHist, c
<1>6. CallMoves(k)
  BY <1>1, <1>4, <1>5, BeginMoves
<1>7. QED
  BY <1>5, <1>6, Reads

\* The statements that only read, or write no row: the request ends ...
LEMMA EndCalm ==
  ASSUME TypeInv, NEW k \in Handlers,
         OpenSession(k) \/ RevokeAll(k) \/ Refuse(k) \/ Drop(k)
  PROVE  Calm(k)
<1>1. End(k) /\ UNCHANGED <<user, raced>>
  BY DEF OpenSession, RevokeAll, Refuse, Drop, accountsHist
<1>2. RowsKept
  BY <1>1, NoRowWritten DEF TypeInv, AccountsTypeOK
<1>3. QED
  BY <1>1, <1>2, EndMoves, Reads

\* ... or goes on to its next step.
LEMMA GoCalm ==
  ASSUME TypeInv, NEW k \in Handlers, NEW pc \in LaterSteps, Go(k, pc),
         call[k].pc \in FirstSteps \cup LaterSteps, UNCHANGED <<user, raced>>
  PROVE  Calm(k)
<1>1. RowsKept
  BY NoRowWritten DEF TypeInv, AccountsTypeOK
<1>2. call[k].pc \notin {"idle", "setup"}
  BY DEF FirstSteps, LaterSteps
<1>3. user'[call[k].who].state # "unused"
  BY <1>2 DEF TypeInv, CallShape
<1>4. CallMoves(k)
  BY <1>1, <1>2, <1>3, GoMoves
<1>5. QED
  BY <1>4, Reads

LEMMA StepCalm ==
  ASSUME TypeInv, NEW k \in Handlers,
         \/ DeleteCount(k) \/ ChangeLoad(k) \/ ConfirmSelect(k) \/ RegenerateFlag(k)
         \/ Gate(k, "gate disable", "disable") \/ Gate(k, "gate regenerate", "flag")
  PROVE  Calm(k)
<1>1. CASE DeleteCount(k) /\ Go(k, "delete")
  BY <1>1, GoCalm DEF DeleteCount, FirstSteps, LaterSteps, accountsHist
<1>2. CASE DeleteCount(k) /\ End(k)
  <2>1. RowsKept /\ UNCHANGED <<user, raced>>
    BY <1>2, NoRowWritten DEF DeleteCount, accountsHist, TypeInv, AccountsTypeOK
  <2>2. QED
    BY <1>2, <2>1, EndMoves, Reads
<1>3. CASE ChangeLoad(k)
  BY <1>3, GoCalm DEF ChangeLoad, FirstSteps, LaterSteps, accountsHist
<1>4. CASE ConfirmSelect(k)
  BY <1>4, GoCalm DEF ConfirmSelect, FirstSteps, LaterSteps
<1>5. CASE RegenerateFlag(k)
  BY <1>5, GoCalm DEF RegenerateFlag, FirstSteps, LaterSteps, accountsHist
<1>6. CASE Gate(k, "gate disable", "disable")
  BY <1>6, GoCalm DEF Gate, FirstSteps, LaterSteps, accountsHist
<1>7. CASE Gate(k, "gate regenerate", "flag")
  BY <1>7, GoCalm DEF Gate, FirstSteps, LaterSteps, accountsHist
<1>8. QED
  BY <1>1, <1>2, <1>3, <1>4, <1>5, <1>6, <1>7 DEF DeleteCount

\* The statements that write a row, or would if it were there.
LEMMA SetupInsertCalm ==
  ASSUME TypeInv, NEW k \in Handlers, SetupInsert(k)
  PROVE  Calm(k)
<1> DEFINE u == call[k].who
<1>1. u \in Users /\ user \in [Users -> UserRows] /\ call[k].pc = "setup"
  BY DEF SetupInsert, TypeInv, AccountsTypeOK, CallShape
<1>2. RacedGrows
  BY DEF SetupInsert, accountsHist, RacedGrows, TypeInv, AccountsTypeOK
<1>3. CASE user[u].state = "unused"
  <2>1. user' = [user EXCEPT ![u] = Fresh] /\ Go(k, "session")
    BY <1>3 DEF SetupInsert
  <2>2. RowsKept /\ user'[u] = Fresh
    BY <1>1, <1>3, <2>1, FreshFields, OneRow
  <2>3. CallMoves(k)
    BY <1>1, <2>1, <2>2, FreshFields, GoMoves DEF Unauthed, FirstSteps, LaterSteps
  <2>4. QED
    BY <1>2, <2>2, <2>3 DEF Calm
<1>4. CASE user[u].state # "unused"
  <2>1. UNCHANGED user /\ End(k)
    BY <1>4 DEF SetupInsert
  <2>2. QED
    BY <1>1, <1>2, <2>1, NoRowWritten, EndMoves DEF Calm
<1>5. QED
  BY <1>3, <1>4

\* A row is written that keeps its state, or none.
RowUpdated(u) ==
  \/ UNCHANGED user
  \/ \E r \in UserRows : r.state = user[u].state /\ user' = [user EXCEPT ![u] = r]

LEMMA UpdateKept ==
  ASSUME TypeInv, NEW u \in Users, RowUpdated(u)
  PROVE  RowsKept /\ \A v \in Users : user'[v].state = user[v].state
<1>1. user \in [Users -> UserRows]
  BY DEF TypeInv, AccountsTypeOK
<1>2. CASE UNCHANGED user
  BY <1>1, <1>2, NoRowWritten
<1>3. ASSUME NEW r \in UserRows, r.state = user[u].state, user' = [user EXCEPT ![u] = r]
      PROVE  RowsKept /\ \A v \in Users : user'[v].state = user[v].state
  BY <1>1, <1>3, OneRow
<1>4. QED
  BY <1>2, <1>3 DEF RowUpdated

\* A request that has a user, after its read of the row: what it writes and does next.
LEMMA UpdateCalm ==
  ASSUME TypeInv, NEW k \in Handlers, NEW u \in Users, NEW facts,
         RowUpdated(u), Writes(k, u, facts), call[k].pc \notin {"idle", "setup"},
         \/ End(k)
         \/ Go(k, "session")
         \/ Go(k, "revoke") /\ call[k].pc \in FirstSteps \cup LaterSteps
  PROVE  Calm(k)
<1>1. RowsKept /\ \A v \in Users : user'[v].state = user[v].state
  BY UpdateKept
<1>2. RacedGrows
  BY WritesGrow DEF TypeInv, AccountsTypeOK
<1>3. user'[call[k].who].state # "unused"
  BY <1>1 DEF TypeInv, CallShape
<1>4. CASE End(k)
  BY <1>1, <1>2, <1>4, EndMoves DEF Calm
<1>5. CASE Go(k, "session")
  <2>1. CallMoves(k)
    BY <1>1, <1>3, <1>5, GoMoves DEF Unauthed, FirstSteps, LaterSteps
  <2>2. QED
    BY <1>1, <1>2, <2>1 DEF Calm
<1>6. CASE Go(k, "revoke") /\ call[k].pc \in FirstSteps \cup LaterSteps
  <2>1. CallMoves(k)
    BY <1>1, <1>3, <1>6, GoMoves DEF LaterSteps
  <2>2. QED
    BY <1>1, <1>2, <2>1 DEF Calm
<1>7. QED
  BY <1>4, <1>5, <1>6

LEMMA RowThere ==
  ASSUME TypeInv, NEW u \in Users
  PROVE  user \in [Users -> UserRows] /\ user[u] \in UserRows
  BY DEF TypeInv, AccountsTypeOK

LEMMA CallThere ==
  ASSUME TypeInv, NEW k \in Handlers, call[k].pc # "idle"
  PROVE  /\ call[k] \in Calls /\ call[k].who \in Users /\ call[k].left \in SUBSET AllCodes
         /\ call[k].pc \in FirstSteps \cup LaterSteps => call[k].to \in Users
<1>1. call[k] \in Calls
  BY DEF TypeInv, AccountsTypeOK
<1>2. QED
  BY <1>1 DEF Calls, TypeInv, CallShape

LEMMA LoginBurnCalm ==
  ASSUME TypeInv, NEW k \in Handlers, LoginBurn(k)
  PROVE  Calm(k)
<1> DEFINE u == call[k].who
<1>1. call[k].pc = "burn" /\ Go(k, "session") /\ Writes(k, u, {"codes"})
  BY DEF LoginBurn
<1>2. u \in Users /\ call[k].left \in SUBSET AllCodes
  BY <1>1, CallThere
<1>3. RowUpdated(u)
  <2> DEFINE r == [user[u] EXCEPT !.codes = call[k].left]
  <2>1. r \in UserRows /\ r.state = user[u].state
    BY <1>2, RowThere, RowUpdates
  <2>2. UNCHANGED user \/ user' = [user EXCEPT ![u] = r]
    BY DEF LoginBurn, Burned
  <2>3. QED
    BY <2>1, <2>2 DEF RowUpdated
<1>4. QED
  BY <1>1, <1>2, <1>3, UpdateCalm

LEMMA PasswordUpdated ==
  ASSUME TypeInv, NEW k \in Handlers, NEW u \in Users, WritePassword(k, u)
  PROVE  RowUpdated(u) /\ Writes(k, u, {"password"})
<1> DEFINE r == [user[u] EXCEPT !.pw = @ + 1]
<1>1. r \in UserRows /\ r.state = user[u].state
  BY RowThere, PasswordWrites DEF WritePassword
<1>2. UNCHANGED user \/ user' = [user EXCEPT ![u] = r]
  BY DEF WritePassword
<1>3. QED
  BY <1>1, <1>2 DEF RowUpdated, WritePassword

LEMMA PasswordCalm ==
  ASSUME TypeInv, NEW k \in Handlers, ResetPassword(k) \/ ChangePersist(k)
  PROVE  Calm(k)
<1>1. /\ call[k].pc \in {"reset", "persist"}
      /\ Go(k, "revoke") /\ WritePassword(k, call[k].to)
  BY DEF ResetPassword, ChangePersist
<1>2. call[k].pc \in FirstSteps \cup LaterSteps /\ call[k].pc \notin {"idle", "setup"}
  BY <1>1 DEF FirstSteps, LaterSteps
<1>3. call[k].to \in Users
  BY <1>2, CallThere
<1>4. QED
  BY <1>1, <1>2, <1>3, PasswordUpdated, UpdateCalm

LEMMA NewCodesAreCodes ==
  ASSUME TypeInv, NEW k, NEW u \in Users, NEW row, HandOut(k, u, row)
  PROVE  NewCodes(u) \in SUBSET AllCodes
<1>1. made[u] + 1 \in 0 .. MaxLists
  BY AccountsAssumption DEF TypeInv, AccountsTypeOK, HandOut
<1>2. QED
  BY <1>1, CodesAreCodes DEF NewCodes

LEMMA TotpCalm ==
  ASSUME TypeInv, NEW k \in Handlers,
         Enroll(k) \/ ConfirmEnable(k) \/ Disable(k) \/ Regenerate(k)
  PROVE  Calm(k)
<1> DEFINE u == call[k].who
<1>1. call[k].pc \in {"enroll", "enable", "disable", "regenerate"} /\ End(k)
  BY DEF Enroll, ConfirmEnable, Disable, Regenerate
<1>2. u \in Users /\ user[u] \in UserRows
  BY <1>1, CallThere, RowThere
<1>3. CASE Enroll(k)
  <2>1. RowUpdated(u)
    BY <1>2, <1>3, RowUpdates DEF Enroll, RowUpdated
  <2>2. QED
    BY <1>1, <1>2, <1>3, <2>1, UpdateCalm DEF Enroll
<1>4. CASE ConfirmEnable(k)
  <2>1. HandOut(k, u, Enabled(user[u], NewCodes(u))) /\ NewCodes(u) \in SUBSET AllCodes
    BY <1>2, <1>4, NewCodesAreCodes DEF ConfirmEnable
  <2>2. RowUpdated(u)
    BY <1>2, <2>1, RowUpdates DEF HandOut, RowUpdated
  <2>3. QED
    BY <1>1, <1>2, <2>1, <2>2, UpdateCalm DEF HandOut
<1>5. CASE Disable(k)
  <2>1. RowUpdated(u)
    BY <1>2, <1>5, RowUpdates DEF Disable, RowUpdated
  <2>2. QED
    BY <1>1, <1>2, <1>5, <2>1, UpdateCalm DEF Disable
<1>6. CASE Regenerate(k)
  <2>1. HandOut(k, u, Replaced(user[u], NewCodes(u))) /\ NewCodes(u) \in SUBSET AllCodes
    BY <1>2, <1>6, NewCodesAreCodes DEF Regenerate
  <2>2. RowUpdated(u)
    BY <1>2, <2>1, RowUpdates DEF HandOut, RowUpdated
  <2>3. QED
    BY <1>1, <1>2, <2>1, <2>2, UpdateCalm DEF HandOut
<1>7. QED
  BY <1>3, <1>4, <1>5, <1>6

LEMMA CreateUserCalm ==
  ASSUME TypeInv, NEW k \in Handlers, CreateUser(k)
  PROVE  Calm(k)
<1> DEFINE u == call[k].to
<1>1. call[k].pc = "create" /\ End(k)
  BY DEF CreateUser
<1>2. u \in Users /\ user[u] \in UserRows /\ user \in [Users -> UserRows]
  BY <1>1, CallThere, RowThere DEF FirstSteps
<1>3. RacedGrows
  BY DEF CreateUser, accountsHist, RacedGrows, TypeInv, AccountsTypeOK
<1>4. RowsKept
  <2>1. CASE user[u].state = "unused"
    BY <1>2, <2>1, FreshFields, OneRow DEF CreateUser
  <2>2. CASE user[u].state # "unused"
    BY <1>2, <2>2, NoRowWritten DEF CreateUser
  <2>3. QED
    BY <2>1, <2>2
<1>5. QED
  BY <1>1, <1>3, <1>4, EndMoves DEF Calm

----------------------------------------------------------------------------
(* Type correctness.                                                       *)

SessionsOK ==
  /\ session \in [Sids -> Sessions]
  /\ \A i \in Sids : session[i] # NoSession => session[i].user \in Users /\ There(session[i].user)

HistoryOK ==
  /\ made \in [Users -> 0 .. MaxLists]
  /\ shown \in [Users -> 0 .. MaxLists] /\ spent \in [Users -> SUBSET AllCodes]
  /\ verified \subseteq Users /\ lapsed \subseteq Users

LEMMA TypeParts ==
  ASSUME TypeInv
  PROVE  /\ SessionsOK /\ HistoryOK
         /\ user \in [Users -> UserRows] /\ call \in [Handlers -> Calls]
         /\ raced \subseteq Users \X Facts
  BY DEF TypeInv, AccountsTypeOK, SessionShape, SessionsOK, HistoryOK

LEMMA ThereKept ==
  ASSUME RowsKept, NEW u \in Users, There(u)
  PROVE  There(u)'
  BY DEF RowsKept, There

LEMMA NoSessionTyped == NoSession \in Sessions
  BY AccountsAssumption DEF NoSession, Sessions

\* Sessions that stay or go are of users who stay.
LEMMA SessionsKept ==
  ASSUME SessionsOK, RowsKept, session' \in [Sids -> Sessions],
         \A i \in Sids : session'[i] \in {session[i], NoSession}
  PROVE  SessionsOK'
<1>1. ASSUME NEW i \in Sids, session'[i] # NoSession
      PROVE  session'[i].user \in Users /\ user'[session'[i].user].state = "there"
  <2>1. session'[i] = session[i]
    BY <1>1
  <2>2. session[i].user \in Users /\ user[session[i].user].state = "there"
    BY <1>1, <2>1 DEF SessionsOK, There
  <2>3. QED
    BY <2>1, <2>2 DEF RowsKept
<1>2. QED
  BY <1>1 DEF SessionsOK, There

LEMMA WithoutTyped ==
  ASSUME SessionsOK, NEW u
  PROVE  /\ Without(u) \in [Sids -> Sessions]
         /\ \A i \in Sids : Without(u)[i] \in {session[i], NoSession}
         /\ \A i \in Sids : Without(u)[i] # NoSession =>
                              Without(u)[i] = session[i] /\ session[i].user # u
  BY NoSessionTyped DEF Without, SessionsOK

LEMMA CalmType ==
  ASSUME TypeInv, NEW k \in Handlers, Calm(k), SessionsOK', HistoryOK'
  PROVE  TypeInv'
<1>1. /\ user' \in [Users -> UserRows] /\ call' \in [Handlers -> Calls]
      /\ raced' \subseteq Users \X Facts
  BY DEF Calm, RowsKept, CallMoves, RacedGrows
<1>2. CallShape'
  <2>1. ASSUME NEW j \in Handlers
        PROVE  /\ call'[j].pc # "idle" => call'[j].who \in Users
               /\ call'[j].pc \in FirstSteps \cup LaterSteps => call'[j].to \in Users
               /\ call'[j].pc \notin {"idle", "setup"} => user'[call'[j].who].state # "unused"
    <3>1. CASE j = k
      BY <3>1 DEF Calm, CallMoves
    <3>2. CASE j # k
      <4>1. call'[j] = call[j]
        BY <3>2 DEF Calm, CallMoves
      <4>2. QED
        BY <4>1 DEF Calm, RowsKept, TypeInv, CallShape
    <3>3. QED
      BY <3>1, <3>2
  <2>2. QED
    BY <2>1 DEF CallShape
<1>3. QED
  BY <1>1, <1>2 DEF TypeInv, AccountsTypeOK, SessionShape, SessionsOK, HistoryOK, There

LEMMA SameSessions ==
  ASSUME SessionsOK, RowsKept, UNCHANGED session
  PROVE  SessionsOK'
<1>1. session' \in [Sids -> Sessions]
  BY DEF SessionsOK
<1>2. QED
  BY <1>1, SessionsKept

LEMMA DeletionType ==
  ASSUME TypeInv, NEW k \in Handlers, DeleteUser(k)
  PROVE  TypeInv'
<1> DEFINE u == call[k].to
           gone == [NoRow EXCEPT !.state = "gone"]
<1>1. call[k].pc = "delete" /\ End(k) /\ u \in Users /\ gone \in UserRows /\ gone.state = "gone"
  BY CallThere, GoneFields DEF DeleteUser, LaterSteps
<1> HIDE DEF gone
<1>2. /\ user' \in [Users -> UserRows]
      /\ \A v \in Users : user'[v] = IF v = u THEN gone ELSE user[v]
  BY <1>1, RowThere DEF DeleteUser, gone
<1>3. SessionsOK'
  <2>1. session' = Without(u) /\ SessionsOK
    BY TypeParts DEF DeleteUser
  <2>2. ASSUME NEW i \in Sids, session'[i] # NoSession
        PROVE  session'[i].user \in Users /\ user'[session'[i].user].state = "there"
    <3>1. session'[i] = session[i] /\ session[i].user # u
      BY <2>1, <2>2, WithoutTyped
    <3>2. QED
      BY <1>2, <2>1, <2>2, <3>1 DEF SessionsOK, There
  <2>3. QED
    BY <2>1, <2>2, WithoutTyped DEF SessionsOK, There
<1>4. raced' \subseteq Users \X Facts
  BY <1>1, WritesGrow DEF DeleteUser, RacedGrows, TypeInv, AccountsTypeOK
<1>5. HistoryOK'
  BY <1>1, TypeParts, AccountsAssumption DEF DeleteUser, HistoryOK
<1>6. call' \in [Handlers -> Calls] /\ call'[k].pc = "idle"
      /\ \A j \in Handlers \ {k} : call'[j] = call[j]
  BY <1>1, TypeParts, EndStep, IdleFields
<1>7. CallShape'
  <2>1. \A v \in Users : user[v].state # "unused" => user'[v].state # "unused"
    BY <1>1, <1>2
  <2>2. QED
    BY <1>6, <2>1 DEF CallShape, TypeInv, FirstSteps, LaterSteps
<1>8. QED
  BY <1>2, <1>3, <1>4, <1>5, <1>6, <1>7
  DEF TypeInv, AccountsTypeOK, SessionShape, SessionsOK, HistoryOK, There

\* The rest of what is typed, for the statements that open or close a session ...
LEMMA SessionStepOK ==
  ASSUME TypeInv, NEW k \in Handlers, RowsKept, OpenSession(k) \/ RevokeAll(k)
  PROVE  SessionsOK' /\ HistoryOK'
<1>1. HistoryOK'
  BY TypeParts DEF OpenSession, RevokeAll, accountsHist, HistoryOK
<1>2. CASE RevokeAll(k)
  BY <1>1, <1>2, TypeParts, WithoutTyped, SessionsKept DEF RevokeAll, Revoked
<1>3. CASE OpenSession(k)
  <2> DEFINE u == call[k].who
             s == [user |-> u, pw |-> call[k].pw]
  <2>1. u \in Users /\ call[k].pw \in 0 .. MaxPasswords
    BY <1>3, CallThere DEF OpenSession, Calls
  <2>2. s \in Sessions /\ s.user = u
    BY <2>1 DEF Sessions
  <2> HIDE DEF s
  <2>3. CASE UNCHANGED session
    BY <1>1, <2>3, TypeParts, SameSessions
  <2>4. ASSUME NEW i \in Sids, There(u), session' = [session EXCEPT ![i] = s]
        PROVE  SessionsOK'
    <3>1. /\ session' \in [Sids -> Sessions]
          /\ \A j \in Sids : session'[j] = IF j = i THEN s ELSE session[j]
      BY <2>2, <2>4, TypeParts DEF SessionsOK
    <3>2. \A j \in Sids \ {i} : session[j] # NoSession =>
             session[j].user \in Users /\ There(session[j].user)
      BY TypeParts DEF SessionsOK
    <3>3. UNCHANGED user
      BY <1>3 DEF OpenSession
    <3>4. ASSUME NEW j \in Sids, session'[j] # NoSession
          PROVE  session'[j].user \in Users /\ user'[session'[j].user].state = "there"
      <4>1. CASE j = i
        BY <2>1, <2>2, <2>4, <3>1, <3>3, <4>1 DEF There
      <4>2. CASE j # i
        BY <3>1, <3>2, <3>3, <3>4, <4>2 DEF There
      <4>3. QED
        BY <4>1, <4>2
    <3>5. QED
      BY <3>1, <3>4 DEF SessionsOK, There
  <2>5. QED
    BY <1>1, <1>3, <2>3, <2>4 DEF OpenSession, s
<1>4. QED
  BY <1>2, <1>3

\* ... and for the others, which leave the sessions alone.
LEMMA HandOutHistory ==
  ASSUME HistoryOK, NEW k, NEW u \in Users, NEW row, HandOut(k, u, row)
  PROVE  HistoryOK' /\ UNCHANGED session
<1>1. made[u] + 1 \in 0 .. MaxLists /\ made' = [made EXCEPT ![u] = made[u] + 1]
  BY AccountsAssumption DEF HandOut, HistoryOK
<1>2. made' \in [Users -> 0 .. MaxLists] /\ made'[u] \in 0 .. MaxLists
  BY <1>1 DEF HistoryOK
<1>3. shown' \in [Users -> 0 .. MaxLists]
  BY <1>2 DEF HandOut, HistoryOK
<1>4. spent' \in [Users -> SUBSET AllCodes]
  BY DEF HandOut, HistoryOK
<1>5. QED
  BY <1>2, <1>3, <1>4 DEF HandOut, HistoryOK

LEMMA BurnHistory ==
  ASSUME TypeInv, NEW k \in Handlers, LoginBurn(k)
  PROVE  HistoryOK' /\ UNCHANGED session
<1> DEFINE u == call[k].who
           used == (spent[u] \cup {call[k].code}) \cap Codes(shown[u])
<1>1. HistoryOK /\ u \in Users
  BY TypeParts, CallThere DEF LoginBurn
<1>2. used \in SUBSET AllCodes
  BY <1>1, CodesAreCodes DEF HistoryOK
<1>3. spent' = [spent EXCEPT ![u] = used]
  BY DEF LoginBurn
<1> HIDE DEF used
<1>4. spent' \in [Users -> SUBSET AllCodes]
  BY <1>1, <1>2, <1>3 DEF HistoryOK
<1>5. QED
  BY <1>1, <1>4 DEF LoginBurn, HistoryOK

LEMMA TotpHistory ==
  ASSUME TypeInv, NEW k \in Handlers,
         Enroll(k) \/ ConfirmSelect(k) \/ ConfirmEnable(k) \/ Disable(k) \/ Regenerate(k)
  PROVE  HistoryOK' /\ UNCHANGED session
<1>1. HistoryOK /\ call[k].who \in Users
  BY TypeParts, CallThere DEF Enroll, ConfirmSelect, ConfirmEnable, Disable, Regenerate
<1>2. CASE Enroll(k)
  BY <1>1, <1>2 DEF Enroll, HistoryOK
<1>3. CASE ConfirmSelect(k)
  BY <1>1, <1>3 DEF ConfirmSelect, HistoryOK
<1>4. CASE ConfirmEnable(k) \/ Regenerate(k)
  BY <1>1, <1>4, HandOutHistory DEF ConfirmEnable, Regenerate
<1>5. CASE Disable(k)
  BY <1>1, <1>5, AccountsAssumption DEF Disable, HistoryOK
<1>6. QED
  BY <1>2, <1>3, <1>4, <1>5

LEMMA PlainHistory ==
  ASSUME HistoryOK, UNCHANGED <<made, accountsHist>>
  PROVE  HistoryOK'
  BY DEF HistoryOK, accountsHist

LEMMA PasswordHistory ==
  ASSUME TypeInv, NEW k \in Handlers, ResetPassword(k) \/ ChangePersist(k)
  PROVE  HistoryOK' /\ UNCHANGED session
  BY TypeParts DEF ResetPassword, ChangePersist, WritePassword, HistoryOK

LEMMA DropHistory ==
  ASSUME TypeInv, NEW k \in Handlers, Drop(k)
  PROVE  HistoryOK' /\ UNCHANGED session
<1>1. call[k].pc = "revoke" => call[k].to \in Users
  BY CallThere DEF LaterSteps
<1>2. QED
  BY <1>1, TypeParts DEF Drop, HistoryOK

\* Every statement of a request, but the deletion of a user.
CalmStep(k) ==
  \/ \E u \in Users : SetupSnapshot(k, u) \/ LoginSelect(k, u)
  \/ \E u, to \in Users, step \in FirstSteps : Authorise(k, u, to, step)
  \/ SetupInsert(k) \/ LoginBurn(k) \/ OpenSession(k)
  \/ CreateUser(k) \/ DeleteCount(k)
  \/ ResetPassword(k) \/ ChangeLoad(k) \/ ChangePersist(k) \/ RevokeAll(k)
  \/ Enroll(k) \/ ConfirmSelect(k) \/ ConfirmEnable(k)
  \/ Gate(k, "gate disable", "disable") \/ Gate(k, "gate regenerate", "flag")
  \/ Disable(k) \/ RegenerateFlag(k) \/ Regenerate(k)
  \/ Refuse(k) \/ Drop(k)

LEMMA NextCases ==
  AccountsNext => \/ \E i \in Sids : CloseSession(i)
                  \/ \E k \in Handlers : DeleteUser(k) \/ CalmStep(k)
  BY DEF AccountsNext, CalmStep

LEMMA CalmStepIsCalm ==
  ASSUME TypeInv, NEW k \in Handlers, CalmStep(k)
  PROVE  Calm(k)
  BY SetupSnapshotCalm, LoginSelectCalm, AuthoriseCalm, EndCalm, StepCalm, SetupInsertCalm,
     LoginBurnCalm, PasswordCalm, TotpCalm, CreateUserCalm DEF CalmStep

LEMMA CalmStepType ==
  ASSUME TypeInv, NEW k \in Handlers, CalmStep(k)
  PROVE  TypeInv'
<1>1. Calm(k) /\ RowsKept /\ SessionsOK /\ HistoryOK
  BY CalmStepIsCalm, TypeParts DEF Calm
<1>2. CASE OpenSession(k) \/ RevokeAll(k)
  BY <1>1, <1>2, SessionStepOK, CalmType
<1>3. CASE LoginBurn(k)
  BY <1>1, <1>3, BurnHistory, SameSessions, CalmType
<1>4. CASE Enroll(k) \/ ConfirmSelect(k) \/ ConfirmEnable(k) \/ Disable(k) \/ Regenerate(k)
  BY <1>1, <1>4, TotpHistory, SameSessions, CalmType
<1>5. CASE ResetPassword(k) \/ ChangePersist(k)
  BY <1>1, <1>5, PasswordHistory, SameSessions, CalmType
<1>6. CASE Drop(k)
  BY <1>1, <1>6, DropHistory, SameSessions, CalmType
<1>7. CASE UNCHANGED <<session, made, accountsHist>>
  BY <1>1, <1>7, PlainHistory, SameSessions, CalmType
<1>8. QED
  BY <1>2, <1>3, <1>4, <1>5, <1>6, <1>7
  DEF CalmStep, SetupSnapshot, LoginSelect, Authorise, SetupInsert, CreateUser, DeleteCount,
      ChangeLoad, Gate, RegenerateFlag, Refuse

LEMMA CloseType ==
  ASSUME TypeInv, NEW i \in Sids, CloseSession(i)
  PROVE  TypeInv'
<1>1. UNCHANGED <<user, call, raced>> /\ HistoryOK'
  BY TypeParts DEF CloseSession, accountsHist, HistoryOK
<1>2. RowsKept
  BY <1>1, TypeParts, NoRowWritten
<1>3. /\ session' \in [Sids -> Sessions]
      /\ \A j \in Sids : session'[j] \in {session[j], NoSession}
  BY TypeParts, NoSessionTyped DEF CloseSession, SessionsOK
<1>4. SessionsOK'
  BY <1>2, <1>3, TypeParts, SessionsKept
<1>5. QED
  BY <1>1, <1>4
  DEF TypeInv, AccountsTypeOK, CallShape, SessionShape, SessionsOK, HistoryOK, There

LEMMA TypeInit ==
  ASSUME AccountsInit
  PROVE  TypeInv
<1>1. user \in [Users -> UserRows] /\ call \in [Handlers -> Calls] /\ session \in [Sids -> Sessions]
  BY NoRowFields, IdleFields, NoSessionTyped DEF AccountsInit
<1>2. HistoryOK /\ raced \subseteq Users \X Facts
  BY AccountsAssumption DEF AccountsInit, HistoryOK
<1>3. \A i \in Sids : session[i] = NoSession
  BY DEF AccountsInit
<1>4. CallShape
  BY IdleFields DEF AccountsInit, CallShape, FirstSteps, LaterSteps
<1>5. QED
  BY <1>1, <1>2, <1>3, <1>4 DEF TypeInv, AccountsTypeOK, SessionShape, HistoryOK

LEMMA TypeStep ==
  ASSUME TypeInv, [AccountsNext]_accountsVars
  PROVE  TypeInv'
<1>1. CASE UNCHANGED accountsVars
  BY <1>1 DEF accountsVars, accountsHist, TypeInv, AccountsTypeOK, CallShape, SessionShape, There
<1>2. CASE AccountsNext
  BY <1>2, NextCases, CloseType, DeletionType, CalmStepType
<1>3. QED
  BY <1>1, <1>2

\* Every variable keeps its type, and no session outlives its user: the statements
\* of sessions.rs, users.rs, auth.rs and totp.rs in any interleaving.
THEOREM AccountsTyped == AccountsSpec => []AccountsTypeOK
<1>1. AccountsInit => TypeInv
  BY TypeInit
<1>2. TypeInv /\ [AccountsNext]_accountsVars => TypeInv'
  BY TypeStep
<1>3. TypeInv => AccountsTypeOK
  BY DEF TypeInv
<1>4. QED
  BY <1>1, <1>2, <1>3, PTL DEF AccountsSpec

----------------------------------------------------------------------------
(* The last administrator.                                                 *)

RacedAdmins == \E u \in Users : <<u, "admins">> \in raced

\* Between its COUNT and its DELETE a handler is still right, or has been raced.
DeleteHolds ==
  \A k \in Handlers : call[k].pc = "delete" =>
    RacedAdmins \/ \E v \in Users \ {call[k].to} : user[v].state = "there"

AdminInv == AdminRemainsUnraced /\ DeleteHolds

\* "SELECT COUNT(*)" found more than one: whoever is to go, another is there.
LEMMA EnoughLeaves ==
  ASSUME user \in [Users -> UserRows], Enough, NEW u
  PROVE  \E v \in Users \ {u} : user[v].state = "there"
<1>1. SUFFICES ASSUME \A v \in Users \ {u} : user[v].state # "there" PROVE FALSE
  OBVIOUS
<1>2. Admins \subseteq {u}
  BY <1>1 DEF Admins, There
<1>3. IsFiniteSet({u}) /\ Cardinality({u}) = 1
  BY FS_Singleton
<1>4. Cardinality(Admins) <= 1 /\ Cardinality(Admins) \in Nat
  BY <1>2, <1>3, FS_Subset, FS_CardinalityType
<1>5. QED
  BY <1>4 DEF Enough

LEMMA StaysThere ==
  ASSUME RowsKept, RacedGrows
  PROVE  /\ RacedAdmins => RacedAdmins'
         /\ \A v \in Users : user[v].state = "there" => user'[v].state = "there"
  BY DEF RacedGrows, RacedAdmins, RowsKept

\* After its SELECT a login burns a code or opens its session.
LEMMA LoginGoesOn ==
  ASSUME TypeInv, NEW k \in Handlers, NEW u \in Users, LoginSelect(k, u)
  PROVE  call'[k].pc \in {"session", "burn"}
<1> DEFINE seen == [Idle EXCEPT !.who = u, !.pw = user[u].pw]
           burn(e) == [seen EXCEPT !.pc = "burn", !.code = e, !.left = user[u].codes \ {e}]
<1>1. [seen EXCEPT !.pc = "session"].pc = "session" /\ \A e : burn(e).pc = "burn"
  BY IdleFields DEF Calls
<1>2. Begin(k, [seen EXCEPT !.pc = "session"]) \/ \E e : Begin(k, burn(e))
  BY DEF LoginSelect
<1>3. PICK c : Begin(k, c) /\ c.pc \in {"session", "burn"}
  BY <1>1, <1>2
<1>4. QED
  BY <1>3, TypeParts DEF Begin

\* A request reaches the DELETE by its COUNT alone.
LEMMA DeleteIsReached ==
  ASSUME TypeInv, NEW k \in Handlers, CalmStep(k), call'[k].pc = "delete"
  PROVE  DeleteCount(k) /\ Enough /\ UNCHANGED user
<1>1. call \in [Handlers -> Calls] /\ Idle.pc = "idle"
  BY TypeParts, IdleFields
<1>2. ~End(k)
  BY <1>1, EndStep
<1>3. ASSUME NEW pc \in Unauthed \cup FirstSteps \cup LaterSteps, pc # "delete"
      PROVE  ~Go(k, pc)
  BY <1>1, <1>3, GoStep
<1>4. \A u \in Users : ~SetupSnapshot(k, u)
  BY <1>1 DEF SetupSnapshot, Begin, Calls, Idle
<1>5. \A u \in Users : ~LoginSelect(k, u)
  BY LoginGoesOn
<1>6. \A u, to \in Users, step \in FirstSteps : ~Authorise(k, u, to, step)
  BY <1>1 DEF Authorise, Begin, Calls, Idle, FirstSteps
<1>7. DeleteCount(k)
  BY <1>2, <1>3, <1>4, <1>5, <1>6
  DEF CalmStep, SetupInsert, LoginBurn, OpenSession, CreateUser, ResetPassword, ChangeLoad,
      ChangePersist, RevokeAll, Enroll, ConfirmSelect, ConfirmEnable, Gate, Disable,
      RegenerateFlag, Regenerate, Refuse, Drop, Unauthed, LaterSteps
<1>8. QED
  BY <1>2, <1>7 DEF DeleteCount

LEMMA AdminCalm ==
  ASSUME TypeInv, AdminInv, NEW k \in Handlers, CalmStep(k)
  PROVE  AdminInv'
<1>1. RowsKept /\ RacedGrows /\ \A j \in Handlers \ {k} : call'[j] = call[j]
  BY CalmStepIsCalm DEF Calm, CallMoves
<1>2. AdminRemainsUnraced'
  <2>1. SUFFICES ASSUME NEW u \in Users, user'[u].state # "unused"
                 PROVE  RacedAdmins' \/ \E v \in Users : user'[v].state = "there"
    BY DEF AdminRemainsUnraced, SetUp, Admins, There, RacedAdmins
  <2>2. CASE user[u].state = "unused"
    BY <1>1, <2>1, <2>2 DEF RowsKept
  <2>3. CASE user[u].state # "unused"
    <3>1. RacedAdmins \/ \E v \in Users : user[v].state = "there"
      BY <2>3 DEF AdminInv, AdminRemainsUnraced, SetUp, Admins, There, RacedAdmins
    <3>2. QED
      BY <1>1, <3>1, StaysThere
  <2>4. QED
    BY <2>2, <2>3
<1>3. DeleteHolds'
  <2>1. SUFFICES ASSUME NEW j \in Handlers, call'[j].pc = "delete"
                 PROVE  RacedAdmins' \/ \E v \in Users \ {call'[j].to} : user'[v].state = "there"
    BY DEF DeleteHolds
  <2>2. CASE j = k
    BY <2>1, <2>2, DeleteIsReached, EnoughLeaves, TypeParts
  <2>3. CASE j # k
    <3>1. RacedAdmins \/ \E v \in Users \ {call'[j].to} : user[v].state = "there"
      BY <1>1, <2>1, <2>3 DEF AdminInv, DeleteHolds
    <3>2. QED
      BY <1>1, <3>1, StaysThere
  <2>4. QED
    BY <2>2, <2>3
<1>4. QED
  BY <1>2, <1>3 DEF AdminInv

LEMMA AdminDeletion ==
  ASSUME TypeInv, AdminInv, NEW k \in Handlers, DeleteUser(k)
  PROVE  AdminInv'
<1> DEFINE u == call[k].to
           gone == [NoRow EXCEPT !.state = "gone"]
<1>1. /\ call[k].pc = "delete" /\ End(k) /\ There(u) /\ u \in Users /\ Writes(k, u, {"admins"})
      /\ user' = [user EXCEPT ![u] = gone]
  BY CallThere DEF DeleteUser, LaterSteps
<1> HIDE DEF gone
<1>2. \A v \in Users \ {u} : user'[v] = user[v]
  BY <1>1, TypeParts
<1>3. RacedGrows
  BY <1>1, TypeParts, WritesGrow
<1>4. RacedAdmins => RacedAdmins'
  BY <1>3 DEF RacedGrows, RacedAdmins
<1>5. RacedAdmins' \/ \E v \in Users : user'[v].state = "there"
  BY <1>1, <1>2, <1>4 DEF AdminInv, DeleteHolds
<1>6. AdminRemainsUnraced'
  BY <1>5 DEF AdminRemainsUnraced, SetUp, Admins, There, RacedAdmins
<1>7. ASSUME NEW j \in Handlers, call'[j].pc = "delete" PROVE RacedAdmins'
  <2>1. j # k /\ call'[j] = call[j]
    BY <1>1, <1>7, TypeParts, EndStep, IdleFields
  <2>2. "admins" \in Held(call[j]) /\ j \in Handlers \ {k}
    BY <1>7, <2>1 DEF Held, Facts
  <2>3. Holding(k, u, "admins")
    BY <2>2 DEF Holding
  <2>4. <<u, "admins">> \in raced'
    BY <1>1, <2>3 DEF Writes
  <2>5. QED
    BY <1>1, <2>4 DEF RacedAdmins
<1>8. QED
  BY <1>6, <1>7 DEF AdminInv, DeleteHolds

\* Once there has been a user there is an administrator, unless a deletion ran
\* between the COUNT and the DELETE of another one (delete, api/users.rs).
THEOREM AdminStays == AccountsSpec => []AdminRemainsUnraced
<1>1. AccountsInit => TypeInv /\ AdminInv
  <2>1. SUFFICES ASSUME AccountsInit PROVE AdminInv
    BY TypeInit
  <2>2. \A u \in Users : user[u].state = "unused"
    BY <2>1, NoRowFields DEF AccountsInit
  <2>3. \A k \in Handlers : call[k].pc # "delete"
    BY <2>1, IdleFields DEF AccountsInit
  <2>4. QED
    BY <2>2, <2>3 DEF AdminInv, AdminRemainsUnraced, SetUp, DeleteHolds
<1>2. TypeInv /\ AdminInv /\ [AccountsNext]_accountsVars => (TypeInv /\ AdminInv)'
  <2>1. SUFFICES ASSUME TypeInv, AdminInv, [AccountsNext]_accountsVars PROVE AdminInv'
    BY TypeStep
  <2>2. CASE UNCHANGED <<user, call, raced>>
    BY <2>1, <2>2
    DEF AdminInv, AdminRemainsUnraced, SetUp, Admins, There, DeleteHolds, RacedAdmins
  <2>3. CASE \E k \in Handlers : DeleteUser(k) \/ CalmStep(k)
    BY <2>1, <2>3, AdminDeletion, AdminCalm
  <2>4. QED
    BY <2>1, <2>2, <2>3, NextCases DEF CloseSession, accountsVars, accountsHist
<1>3. TypeInv /\ AdminInv => AdminRemainsUnraced
  BY DEF AdminInv
<1>4. QED
  BY <1>1, <1>2, <1>3, PTL DEF AccountsSpec

----------------------------------------------------------------------------
(* Sessions and passwords.                                                 *)

\* What each statement makes of the fields of a row.
LEMMA RowFields ==
  ASSUME NEW r \in UserRows, NEW cs \in SUBSET AllCodes
  PROVE  /\ [r EXCEPT !.codes = cs].pw = r.pw /\ [r EXCEPT !.codes = cs].codes = cs
         /\ [r EXCEPT !.codes = cs].on = r.on /\ [r EXCEPT !.codes = cs].secret = r.secret
         /\ Enrolled(r).pw = r.pw /\ Enrolled(r).codes = r.codes /\ ~Enrolled(r).on
         /\ Enabled(r, cs).pw = r.pw /\ Enabled(r, cs).codes = cs
         /\ Enabled(r, cs).secret = r.secret
         /\ Disabled(r).pw = r.pw /\ Disabled(r).codes = {} /\ ~Disabled(r).on
         /\ Replaced(r, cs).pw = r.pw /\ Replaced(r, cs).codes = cs
         /\ Replaced(r, cs).on = r.on /\ Replaced(r, cs).secret = r.secret
  BY DEF UserRows, Enrolled, Enabled, Disabled, Replaced

\* A row that is there keeps its password.
PasswordsKept == \A u \in Users : user[u].state = "unused" \/ user'[u].pw = user[u].pw

LEMMA PasswordsStay ==
  ASSUME TypeInv, NEW k \in Handlers, CalmStep(k), ~ResetPassword(k), ~ChangePersist(k)
  PROVE  PasswordsKept
<1> DEFINE u == call[k].who
           cs == NewCodes(u)
<1>1. user \in [Users -> UserRows]
  BY TypeParts
<1>2. CASE UNCHANGED user
  BY <1>2 DEF PasswordsKept
<1>3. CASE SetupInsert(k) \/ CreateUser(k)
  BY <1>1, <1>3 DEF SetupInsert, CreateUser, PasswordsKept
<1>4. CASE LoginBurn(k)
  <2>1. u \in Users /\ call[k].left \in SUBSET AllCodes
    BY <1>4, CallThere DEF LoginBurn
  <2>2. QED
    BY <1>1, <1>4, <2>1, RowFields DEF LoginBurn, Burned, PasswordsKept
<1>5. CASE Enroll(k) \/ Disable(k)
  <2>1. u \in Users
    BY <1>5, CallThere DEF Enroll, Disable
  <2>2. QED
    BY <1>1, <1>5, <2>1, RowFields DEF Enroll, Disable, PasswordsKept
<1>6. CASE ConfirmEnable(k) \/ Regenerate(k)
  <2>1. u \in Users
    BY <1>6, CallThere DEF ConfirmEnable, Regenerate
  <2>2. cs \in SUBSET AllCodes
    BY <1>6, <2>1, NewCodesAreCodes DEF ConfirmEnable, Regenerate
  <2> HIDE DEF cs
  <2>3. \E r \in {Enabled(user[u], cs), Replaced(user[u], cs)} : HandOut(k, u, r)
    BY <1>6 DEF ConfirmEnable, Regenerate, cs
  <2>4. QED
    BY <1>1, <2>1, <2>2, <2>3, RowFields DEF HandOut, PasswordsKept
<1>7. QED
  BY <1>2, <1>3, <1>4, <1>5, <1>6
  DEF CalmStep, SetupSnapshot, LoginSelect, Authorise, OpenSession, DeleteCount, ChangeLoad,
      RevokeAll, ConfirmSelect, Gate, RegenerateFlag, Refuse, Drop

RacedPassword(u) == <<u, "password">> \in raced

\* A login carries the password its user has, or had when it was raced.
LoginCarries(k) ==
  /\ call[k].pc = "setup" => call[k].pw = 1
  /\ call[k].pc \in {"session", "burn"} =>
       \/ user[call[k].who].state # "there"
       \/ call[k].pw = user[call[k].who].pw
       \/ RacedPassword(call[k].who)

FollowInv == SessionsFollowPassword /\ \A k \in Handlers : LoginCarries(k)

\* How a session can be excused.
Followed(i) ==
  \/ session[i].pw = user[session[i].user].pw
  \/ \E k \in Handlers : call[k].pc = "revoke" /\ call[k].to = session[i].user
  \/ session[i].user \in lapsed \/ RacedPassword(session[i].user)

LEMMA FollowedIs ==
  SessionsFollowPassword <=> \A i \in Sids : session[i] # NoSession => Followed(i)
  BY DEF SessionsFollowPassword, Followed, RacedPassword

LEMMA FollowedIsNext ==
  SessionsFollowPassword' <=> \A i \in Sids : session'[i] # NoSession => Followed(i)'
  BY DEF SessionsFollowPassword, Followed, RacedPassword

\* A session that stays keeps its excuse when passwords, requests to revoke and
\* what lapsed stay.
LEMMA ExcuseKept ==
  ASSUME TypeInv, NEW k \in Handlers, Calm(k), PasswordsKept, lapsed \subseteq lapsed',
         NEW i \in Sids, session[i] # NoSession, session'[i] = session[i], Followed(i),
         call[k].pc = "revoke" => call[k].to \in lapsed' \/ call[k].to # session[i].user
  PROVE  Followed(i)'
<1> DEFINE u == session[i].user
<1>1. u \in Users /\ user[u].state = "there"
  BY TypeParts DEF SessionsOK, There
<1>2. user'[u].pw = user[u].pw
  BY <1>1 DEF PasswordsKept
<1>3. \A j \in Handlers \ {k} : call'[j] = call[j]
  BY DEF Calm, CallMoves
<1>4. RacedPassword(u) => RacedPassword(u)'
  BY DEF Calm, RacedGrows, RacedPassword
<1>5. CASE session[i].pw = user[u].pw
  BY <1>2, <1>5 DEF Followed
<1>6. CASE u \in lapsed \/ RacedPassword(u)
  BY <1>4, <1>6 DEF Followed, RacedPassword
<1>7. ASSUME NEW j \in Handlers, call[j].pc = "revoke", call[j].to = u
      PROVE  Followed(i)'
  BY <1>3, <1>7 DEF Followed
<1>8. QED
  BY <1>5, <1>6, <1>7 DEF Followed

\* The other logins go on carrying it.
LEMMA LoginsKept ==
  ASSUME TypeInv, NEW k \in Handlers, Calm(k), NEW j \in Handlers \ {k}, LoginCarries(j),
         \/ PasswordsKept
         \/ call[j].pc \in {"session", "burn"} =>
              \/ user'[call[j].who].pw = user[call[j].who].pw
              \/ <<call[j].who, "password">> \in raced'
  PROVE  LoginCarries(j)'
<1>1. call'[j] = call[j]
  BY DEF Calm, CallMoves
<1>2. CASE call[j].pc \notin {"session", "burn"}
  BY <1>1, <1>2 DEF LoginCarries
<1>3. CASE call[j].pc \in {"session", "burn"}
  <2> DEFINE u == call[j].who
  <2>1. u \in Users /\ user[u].state # "unused"
    BY <1>3, CallThere DEF TypeInv, CallShape
  <2>2. user'[u].state = user[u].state
    BY <2>1 DEF Calm, RowsKept
  <2>3. <<u, "password">> \in raced => <<u, "password">> \in raced'
    BY DEF Calm, RacedGrows
  <2>4. user'[u].pw = user[u].pw \/ <<u, "password">> \in raced'
    BY <1>1, <1>3, <2>1 DEF PasswordsKept, RacedPassword
  <2>5. QED
    BY <1>1, <1>3, <2>2, <2>3, <2>4 DEF LoginCarries, RacedPassword
<1>4. QED
  BY <1>2, <1>3

\* A password is written: the logins that hold the old one are raced, and the
\* sessions opened with it are about to be revoked.
LEMMA FollowWrite ==
  ASSUME TypeInv, FollowInv, NEW k \in Handlers, ResetPassword(k) \/ ChangePersist(k)
  PROVE  FollowInv'
<1> DEFINE u == call[k].to
<1>1. /\ call[k].pc \in {"reset", "persist"} /\ Go(k, "revoke") /\ WritePassword(k, u)
      /\ UNCHANGED <<session, lapsed>>
  BY DEF ResetPassword, ChangePersist, WritePassword
<1>2. u \in Users
  BY <1>1, CallThere DEF FirstSteps, LaterSteps
<1>3. Calm(k)
  BY PasswordCalm
<1>4. /\ call'[k].pc = "revoke" /\ call'[k].to = u
      /\ \A j \in Handlers \ {k} : call'[j] = call[j]
  BY <1>1, TypeParts, GoStep DEF LaterSteps
<1>5. /\ \A v \in Users \ {u} : user'[v] = user[v]
      /\ user[u].state # "there" => user' = user
  BY <1>1, TypeParts DEF WritePassword, There
<1>6. SessionsFollowPassword'
  <2>1. SUFFICES ASSUME NEW i \in Sids, session[i] # NoSession PROVE Followed(i)'
    BY <1>1, FollowedIsNext
  <2>2. CASE session[i].user = u
    BY <1>1, <1>4, <2>2 DEF Followed
  <2>3. CASE session[i].user # u
    <3>1. session[i].user \in Users
      BY <2>1, TypeParts DEF SessionsOK
    <3>2. user'[session[i].user] = user[session[i].user]
      BY <1>5, <2>3, <3>1
    <3>3. Followed(i) /\ raced \subseteq raced'
      BY <1>3, <2>1, FollowedIs DEF FollowInv, Calm, RacedGrows
    <3>4. ASSUME NEW j \in Handlers, call[j].pc = "revoke", call[j].to = session[i].user
          PROVE  Followed(i)'
      BY <1>1, <1>4, <3>4 DEF Followed
    <3>5. QED
      BY <1>1, <3>2, <3>3, <3>4 DEF Followed, RacedPassword
  <2>4. QED
    BY <2>2, <2>3
<1>7. ASSUME NEW j \in Handlers PROVE LoginCarries(j)'
  <2>1. CASE j = k
    BY <1>4, <2>1 DEF LoginCarries
  <2>2. CASE j # k /\ (call[j].pc \in {"session", "burn"} => call[j].who # u)
    <3>1. call[j].pc \in {"session", "burn"} => user'[call[j].who].pw = user[call[j].who].pw
      BY <1>5, <2>2, CallThere
    <3>2. QED
      BY <1>3, <2>2, <3>1, LoginsKept DEF FollowInv
  <2>3. CASE j # k /\ call[j].pc \in {"session", "burn"} /\ call[j].who = u
    <3>1. CASE user[u].state # "there"
      <4>1. user'[call[j].who].pw = user[call[j].who].pw
        BY <1>5, <3>1
      <4>2. QED
        BY <1>3, <2>3, <4>1, LoginsKept DEF FollowInv
    <3>2. CASE user[u].state = "there"
      <4>1. "password" \in Held(call[j])
        BY <2>3 DEF Held, Facts
      <4>2. Holding(k, u, "password")
        BY <2>3, <4>1 DEF Holding
      <4>3. <<u, "password">> \in raced'
        BY <1>1, <1>2, <3>2, <4>2 DEF WritePassword, Writes, There
      <4>4. QED
        BY <1>3, <2>3, <4>3, LoginsKept DEF FollowInv
    <3>3. QED
      BY <3>1, <3>2
  <2>4. QED
    BY <2>1, <2>2, <2>3
<1>8. QED
  BY <1>6, <1>7 DEF FollowInv

\* A login starts with its SELECT, a setup with its snapshot.
LEMMA LoginIsReached ==
  ASSUME TypeInv, NEW k \in Handlers, CalmStep(k), call'[k].pc \in {"setup", "session", "burn"}
  PROVE  \/ \E u \in Users : SetupSnapshot(k, u) \/ LoginSelect(k, u)
         \/ SetupInsert(k) /\ Go(k, "session")
         \/ LoginBurn(k)
<1>1. call \in [Handlers -> Calls] /\ Idle.pc = "idle"
  BY TypeParts, IdleFields
<1>2. ~End(k)
  BY <1>1, EndStep
<1>3. ASSUME NEW pc \in LaterSteps PROVE ~Go(k, pc)
  BY <1>1, <1>3, GoStep DEF LaterSteps
<1>4. \A u, to \in Users, step \in FirstSteps : ~Authorise(k, u, to, step)
  BY <1>1 DEF Authorise, Begin, Calls, Idle, FirstSteps
<1>5. QED
  BY <1>2, <1>3, <1>4
  DEF CalmStep, SetupInsert, OpenSession, CreateUser, DeleteCount, ResetPassword, ChangeLoad,
      ChangePersist, RevokeAll, Enroll, ConfirmSelect, ConfirmEnable, Gate, Disable,
      RegenerateFlag, Regenerate, Refuse, Drop, LaterSteps

LEMMA LoginStepCarries ==
  ASSUME TypeInv, FollowInv, NEW k \in Handlers, CalmStep(k), ~ResetPassword(k), ~ChangePersist(k)
  PROVE  LoginCarries(k)'
<1>1. SUFFICES ASSUME call'[k].pc \in {"setup", "session", "burn"} PROVE LoginCarries(k)'
  BY DEF LoginCarries
<1>2. call \in [Handlers -> Calls] /\ user \in [Users -> UserRows] /\ Calm(k)
  BY TypeParts, CalmStepIsCalm
<1>3. ASSUME NEW u \in Users, SetupSnapshot(k, u) PROVE LoginCarries(k)'
  <2> DEFINE c == [Idle EXCEPT !.pc = "setup", !.who = u, !.pw = 1]
  <2>1. c.pc = "setup" /\ c.pw = 1
    BY IdleFields DEF Calls
  <2>2. call'[k] = c
    BY <1>2, <1>3 DEF SetupSnapshot, Begin
  <2>3. QED
    BY <2>1, <2>2 DEF LoginCarries
<1>4. ASSUME NEW u \in Users, LoginSelect(k, u) PROVE LoginCarries(k)'
  <2> DEFINE s == [Idle EXCEPT !.who = u, !.pw = user[u].pw]
             c == [s EXCEPT !.pc = "session"]
             d(e) == [s EXCEPT !.pc = "burn", !.code = e, !.left = user[u].codes \ {e}]
  <2>1. /\ c.pc = "session" /\ c.who = u /\ c.pw = user[u].pw
        /\ \A e : d(e).pc = "burn" /\ d(e).who = u /\ d(e).pw = user[u].pw
    BY IdleFields DEF Calls
  <2>2. call'[k] = c \/ \E e : call'[k] = d(e)
    BY <1>2, <1>4 DEF LoginSelect, Begin
  <2>3. UNCHANGED user
    BY <1>4 DEF LoginSelect
  <2> HIDE DEF c, d
  <2>4. call'[k].pc \in {"session", "burn"} /\ call'[k].who = u /\ call'[k].pw = user[u].pw
    BY <2>1, <2>2
  <2>5. QED
    BY <2>3, <2>4 DEF LoginCarries
<1>5. CASE SetupInsert(k) /\ Go(k, "session")
  <2>1. /\ call[k].pc = "setup" /\ call[k].who \in Users
        /\ user[call[k].who].state = "unused" => user' = [user EXCEPT ![call[k].who] = Fresh]
        /\ user[call[k].who].state # "unused" => End(k)
    BY <1>5, CallThere DEF SetupInsert
  <2>2. ~End(k)
    BY <1>1, <1>2, EndStep, IdleFields
  <2>3. user'[call[k].who].pw = 1
    BY <1>2, <2>1, <2>2, FreshFields
  <2>4. call'[k].pc = "session" /\ call'[k].who = call[k].who /\ call'[k].pw = call[k].pw
    BY <1>2, <1>5, GoStep DEF Unauthed
  <2>5. call[k].pw = 1
    BY <2>1 DEF FollowInv, LoginCarries
  <2>6. QED
    BY <2>3, <2>4, <2>5 DEF LoginCarries
<1>6. CASE LoginBurn(k)
  <2> DEFINE u == call[k].who
  <2>1. call[k].pc = "burn" /\ Go(k, "session") /\ u \in Users /\ user[u].state # "unused"
    BY <1>6, CallThere DEF LoginBurn, TypeInv, CallShape
  <2>2. call'[k].pc = "session" /\ call'[k].who = u /\ call'[k].pw = call[k].pw
    BY <1>2, <2>1, GoStep DEF Unauthed
  <2>3. user'[u].pw = user[u].pw /\ user'[u].state = user[u].state /\ raced \subseteq raced'
    BY <1>2, <2>1, PasswordsStay DEF PasswordsKept, Calm, RowsKept, RacedGrows
  <2>4. QED
    BY <2>1, <2>2, <2>3 DEF FollowInv, LoginCarries, RacedPassword
<1>7. QED
  BY <1>1, <1>3, <1>4, <1>5, <1>6, LoginIsReached

LEMMA FollowCalm ==
  ASSUME TypeInv, FollowInv, NEW k \in Handlers, CalmStep(k), ~ResetPassword(k), ~ChangePersist(k)
  PROVE  FollowInv'
<1>1. Calm(k) /\ PasswordsKept /\ LoginCarries(k)'
  BY CalmStepIsCalm, PasswordsStay, LoginStepCarries
<1>2. \A j \in Handlers : LoginCarries(j)'
  <2>1. ASSUME NEW j \in Handlers \ {k} PROVE LoginCarries(j)'
    BY <1>1, LoginsKept DEF FollowInv
  <2>2. QED
    BY <1>1, <2>1
<1>3. SessionsFollowPassword'
  <2>1. SUFFICES ASSUME NEW i \in Sids, session'[i] # NoSession PROVE Followed(i)'
    BY FollowedIsNext
  <2>2. session[i] # NoSession => Followed(i)
    BY FollowedIs DEF FollowInv
  <2>3. CASE OpenSession(k) /\ session'[i] # session[i]
    <3> DEFINE u == call[k].who
               s == [user |-> u, pw |-> call[k].pw]
    <3>1. /\ call[k].pc = "session" /\ user[u].state = "there" /\ UNCHANGED <<user, raced>>
          /\ \E h \in Sids : session' = [session EXCEPT ![h] = s]
      BY <2>3 DEF OpenSession, There, accountsHist
    <3>2. session'[i] = s
      BY <2>3, <3>1, TypeParts DEF SessionsOK
    <3>3. call[k].pw = user[u].pw \/ RacedPassword(u)
      BY <3>1 DEF FollowInv, LoginCarries
    <3>4. QED
      BY <3>1, <3>2, <3>3 DEF Followed, RacedPassword
  <2>4. CASE OpenSession(k) /\ session'[i] = session[i]
    BY <1>1, <2>1, <2>2, <2>4, ExcuseKept DEF OpenSession, accountsHist
  <2>5. CASE RevokeAll(k)
    <3>1. session'[i] = session[i] /\ session[i].user # call[k].to
      BY <2>1, <2>5, TypeParts, WithoutTyped DEF RevokeAll, Revoked
    <3>2. QED
      BY <1>1, <2>1, <2>2, <2>5, <3>1, ExcuseKept DEF RevokeAll, accountsHist
  <2>6. CASE Drop(k)
    BY <1>1, <2>1, <2>2, <2>6, ExcuseKept DEF Drop
  <2>7. CASE UNCHANGED <<session, lapsed>> /\ call[k].pc # "revoke"
    BY <1>1, <2>1, <2>2, <2>7, ExcuseKept
  <2>8. CASE ~OpenSession(k) /\ ~RevokeAll(k) /\ ~Drop(k)
    <3>1. Idle.pc # "revoke"
      BY IdleFields
    <3>2. UNCHANGED <<session, lapsed>> /\ call[k].pc # "revoke"
      BY <2>8, <3>1
      DEF CalmStep, SetupSnapshot, LoginSelect, Authorise, Begin, SetupInsert, LoginBurn,
          CreateUser, DeleteCount, ChangeLoad, Enroll, ConfirmSelect, ConfirmEnable, HandOut,
          Gate, Disable, RegenerateFlag, Regenerate, Refuse, Refused, accountsHist
    <3>3. QED
      BY <2>7, <3>2
  <2>9. QED
    BY <2>3, <2>4, <2>5, <2>6, <2>8
<1>4. QED
  BY <1>2, <1>3 DEF FollowInv

\* What a deletion does, for the invariants that speak of rows and requests.
LEMMA DeletionDoes ==
  ASSUME TypeInv, NEW k \in Handlers, DeleteUser(k)
  PROVE  LET u == call[k].to IN
         /\ u \in Users /\ call[k].pc = "delete" /\ There(u)
         /\ user'[u].state = "gone" /\ ~user'[u].on
         /\ \A v \in Users \ {u} : user'[v] = user[v]
         /\ call'[k].pc = "idle" /\ \A j \in Handlers \ {k} : call'[j] = call[j]
         /\ raced \subseteq raced'
         /\ \A i \in Sids : session'[i] # NoSession =>
                              session'[i] = session[i] /\ session[i].user # u
<1> DEFINE u == call[k].to
           gone == [NoRow EXCEPT !.state = "gone"]
<1>1. /\ call[k].pc = "delete" /\ End(k) /\ There(u) /\ u \in Users
      /\ gone.state = "gone" /\ gone.on = FALSE
  BY CallThere, GoneFields DEF DeleteUser, LaterSteps
<1> HIDE DEF gone
<1>2. /\ user'[u] = gone
      /\ \A v \in Users \ {u} : user'[v] = user[v]
  BY <1>1, TypeParts DEF DeleteUser, gone
<1>3. raced \subseteq raced'
  BY DEF DeleteUser, Writes
<1>4. call'[k].pc = "idle" /\ \A j \in Handlers \ {k} : call'[j] = call[j]
  BY <1>1, TypeParts, EndStep, IdleFields
<1>5. \A i \in Sids : session'[i] # NoSession => session'[i] = session[i] /\ session[i].user # u
  BY TypeParts, WithoutTyped DEF DeleteUser
<1>6. QED
  BY <1>1, <1>2, <1>3, <1>4, <1>5

LEMMA FollowDeletion ==
  ASSUME TypeInv, FollowInv, NEW k \in Handlers, DeleteUser(k)
  PROVE  FollowInv'
<1> DEFINE u == call[k].to
<1>1. /\ u \in Users /\ call[k].pc = "delete" /\ user'[u].state = "gone"
      /\ \A v \in Users \ {u} : user'[v] = user[v]
      /\ call'[k].pc = "idle" /\ \A j \in Handlers \ {k} : call'[j] = call[j]
      /\ raced \subseteq raced'
      /\ \A i \in Sids : session'[i] # NoSession => session'[i] = session[i] /\ session[i].user # u
  BY DeletionDoes
<1>2. ASSUME NEW j \in Handlers PROVE LoginCarries(j)'
  <2>1. CASE j = k
    BY <1>1, <2>1 DEF LoginCarries
  <2>2. CASE j # k /\ (call[j].pc \in {"session", "burn"} => call[j].who # u)
    <3>1. call[j].pc \in {"session", "burn"} => user'[call[j].who] = user[call[j].who]
      BY <1>1, <2>2, CallThere
    <3>2. QED
      BY <1>1, <2>2, <3>1 DEF FollowInv, LoginCarries, RacedPassword
  <2>3. CASE j # k /\ call[j].pc \in {"session", "burn"} /\ call[j].who = u
    BY <1>1, <2>3 DEF LoginCarries
  <2>4. QED
    BY <2>1, <2>2, <2>3
<1>3. SessionsFollowPassword'
  <2>1. SUFFICES ASSUME NEW i \in Sids, session'[i] # NoSession PROVE Followed(i)'
    BY FollowedIsNext
  <2>2. /\ session'[i] = session[i] /\ session[i].user \in Users \ {u}
        /\ session[i] # NoSession /\ Followed(i)
    BY <1>1, <2>1, TypeParts, FollowedIs DEF SessionsOK, FollowInv
  <2>3. user'[session[i].user] = user[session[i].user]
    BY <1>1, <2>2
  <2>4. session[i].user \in lapsed => session[i].user \in lapsed'
    BY <2>2 DEF DeleteUser
  <2>5. ASSUME NEW j \in Handlers, call[j].pc = "revoke", call[j].to = session[i].user
        PROVE  Followed(i)'
    BY <1>1, <2>2, <2>5 DEF Followed
  <2>6. QED
    BY <1>1, <2>2, <2>3, <2>4, <2>5 DEF Followed, RacedPassword
<1>4. QED
  BY <1>2, <1>3 DEF FollowInv

LEMMA FollowClose ==
  ASSUME TypeInv, FollowInv, NEW h \in Sids, CloseSession(h)
  PROVE  FollowInv'
<1>1. /\ UNCHANGED <<user, call, raced, lapsed>>
      /\ \A i \in Sids : session'[i] # NoSession => session'[i] = session[i]
  BY TypeParts DEF CloseSession, accountsHist, SessionsOK
<1>2. SessionsFollowPassword'
  <2>1. ASSUME NEW i \in Sids, session'[i] # NoSession PROVE Followed(i)'
    BY <1>1, <2>1, FollowedIs DEF FollowInv, Followed, RacedPassword
  <2>2. QED
    BY <2>1, FollowedIsNext
<1>3. QED
  BY <1>1, <1>2 DEF FollowInv, LoginCarries, RacedPassword

\* A session was opened with the password its user has now, or is about to be
\* revoked, unless a login held the old one over the change or the revoking handler
\* was cut short (reset_password, change_own_password, login and their SQL).
THEOREM SessionsFollow == AccountsSpec => []SessionsFollowPassword
<1>1. AccountsInit => TypeInv /\ FollowInv
  <2>1. SUFFICES ASSUME AccountsInit PROVE FollowInv
    BY TypeInit
  <2>2. \A k \in Handlers : call[k].pc = "idle"
    BY <2>1, IdleFields DEF AccountsInit
  <2>3. \A i \in Sids : session[i] = NoSession
    BY <2>1 DEF AccountsInit
  <2>4. QED
    BY <2>2, <2>3 DEF FollowInv, LoginCarries, SessionsFollowPassword
<1>2. TypeInv /\ FollowInv /\ [AccountsNext]_accountsVars => (TypeInv /\ FollowInv)'
  <2>1. SUFFICES ASSUME TypeInv, FollowInv, [AccountsNext]_accountsVars PROVE FollowInv'
    BY TypeStep
  <2>2. CASE UNCHANGED accountsVars
    BY <2>1, <2>2
    DEF accountsVars, accountsHist, FollowInv, LoginCarries, SessionsFollowPassword, RacedPassword
  <2>3. CASE AccountsNext
    BY <2>1, <2>3, NextCases, FollowClose, FollowDeletion, FollowWrite, FollowCalm
  <2>4. QED
    BY <2>1, <2>2, <2>3
<1>3. TypeInv /\ FollowInv => SessionsFollowPassword
  BY DEF FollowInv
<1>4. QED
  BY <1>1, <1>2, <1>3, PTL DEF AccountsSpec

----------------------------------------------------------------------------
(* The generator's secret.                                                 *)

Confirmed(u) == (user[u].secret /\ u \in verified) \/ <<u, "secret">> \in raced

\* A confirm that has seen a code has seen one of the row's secret, or is raced.
EnableHolds(k) ==
  call[k].pc = "enable" => user[call[k].who].state # "there" \/ Confirmed(call[k].who)

GeneratorInv ==
  /\ \A u \in Users : user[u].on => user[u].state = "there" /\ Confirmed(u)
  /\ \A k \in Handlers : EnableHolds(k)

\* What u's row says of its secret is kept.
SecretKept(u) ==
  \/ user[u].state = "unused" /\ ~user'[u].on
  \/ /\ user'[u].on => user[u].on
     /\ user[u].secret => user'[u].secret
     /\ u \in verified => u \in verified'

\* What an updating statement writes, for the invariants of the second factor.
LEMMA OtherRows ==
  ASSUME TypeInv, NEW u \in Users, NEW r, user' = [user EXCEPT ![u] = r]
  PROVE  user'[u] = r /\ \A v \in Users \ {u} : user'[v] = user[v]
  BY TypeParts

LEMMA SameRowSecret ==
  ASSUME NEW u, user'[u] = user[u], u \in verified => u \in verified'
  PROVE  SecretKept(u)
  BY DEF SecretKept

LEMMA SecretsStay ==
  ASSUME TypeInv, NEW k \in Handlers, CalmStep(k),
         ~Enroll(k), ~Disable(k), ~ConfirmEnable(k), NEW v \in Users
  PROVE  SecretKept(v)
<1>1. user \in [Users -> UserRows]
  BY TypeParts
<1>2. CASE UNCHANGED user /\ verified \subseteq verified'
  BY <1>2, SameRowSecret
<1>3. CASE SetupInsert(k) \/ CreateUser(k)
  <2>1. UNCHANGED verified
    BY <1>3 DEF SetupInsert, CreateUser, accountsHist
  <2>2. CASE UNCHANGED user
    BY <2>1, <2>2, SameRowSecret
  <2>3. ASSUME NEW u \in Users, user[u].state = "unused", user' = [user EXCEPT ![u] = Fresh]
        PROVE  SecretKept(v)
    <3>1. CASE v = u
      BY <2>3, <3>1, OtherRows, FreshFields DEF SecretKept
    <3>2. CASE v # u
      BY <2>1, <2>3, <3>2, OtherRows, SameRowSecret
    <3>3. QED
      BY <3>1, <3>2
  <2>4. CASE SetupInsert(k)
    BY <2>2, <2>3, <2>4, CallThere DEF SetupInsert
  <2>5. CASE CreateUser(k)
    BY <2>2, <2>3, <2>5, CallThere DEF CreateUser, FirstSteps
  <2>6. QED
    BY <1>3, <2>4, <2>5
<1>4. ASSUME NEW u \in Users, NEW r, UNCHANGED verified,
             UNCHANGED user \/ user' = [user EXCEPT ![u] = r],
             r.on = user[u].on, r.secret = user[u].secret
      PROVE  SecretKept(v)
  BY <1>4, OtherRows, SameRowSecret DEF SecretKept
<1>5. CASE LoginBurn(k)
  <2> DEFINE u == call[k].who
             r == [user[u] EXCEPT !.codes = call[k].left]
  <2>1. u \in Users /\ call[k].left \in SUBSET AllCodes
    BY <1>5, CallThere DEF LoginBurn
  <2>2. r.on = user[u].on /\ r.secret = user[u].secret
    BY <1>1, <2>1, RowFields
  <2>3. UNCHANGED verified /\ (UNCHANGED user \/ user' = [user EXCEPT ![u] = r])
    BY <1>5 DEF LoginBurn, Burned
  <2>4. QED
    BY <1>4, <2>1, <2>2, <2>3
<1>6. CASE ResetPassword(k) \/ ChangePersist(k)
  <2> DEFINE u == call[k].to
             r == [user[u] EXCEPT !.pw = @ + 1]
  <2>1. u \in Users /\ WritePassword(k, u)
    BY <1>6, CallThere DEF ResetPassword, ChangePersist, FirstSteps, LaterSteps
  <2>2. r.on = user[u].on /\ r.secret = user[u].secret
    BY <1>1, <2>1 DEF UserRows
  <2>3. UNCHANGED verified /\ (UNCHANGED user \/ user' = [user EXCEPT ![u] = r])
    BY <2>1 DEF WritePassword
  <2>4. QED
    BY <1>4, <2>1, <2>2, <2>3
<1>7. CASE Regenerate(k)
  <2> DEFINE u == call[k].who
             cs == NewCodes(u)
  <2>1. u \in Users /\ HandOut(k, u, Replaced(user[u], cs))
    BY <1>7, CallThere DEF Regenerate
  <2>2. cs \in SUBSET AllCodes
    BY <2>1, NewCodesAreCodes
  <2> HIDE DEF cs
  <2> DEFINE r == Replaced(user[u], cs)
  <2>3. r.on = user[u].on /\ r.secret = user[u].secret
    BY <1>1, <2>1, <2>2, RowFields
  <2>4. UNCHANGED verified /\ (UNCHANGED user \/ user' = [user EXCEPT ![u] = r])
    BY <2>1 DEF HandOut
  <2> HIDE DEF r
  <2>5. QED
    BY <1>4, <2>1, <2>3, <2>4
<1>8. QED
  BY <1>2, <1>3, <1>5, <1>6, <1>7
  DEF CalmStep, SetupSnapshot, LoginSelect, Authorise, OpenSession, DeleteCount, ChangeLoad,
      RevokeAll, ConfirmSelect, Gate, RegenerateFlag, Refuse, Drop, accountsHist

LEMMA ConfirmedStays ==
  ASSUME NEW u, SecretKept(u), raced \subseteq raced', user[u].state # "unused" \/ user'[u].on,
         Confirmed(u)
  PROVE  (user'[u].secret /\ u \in verified') \/ <<u, "secret">> \in raced'
  BY DEF SecretKept, Confirmed

\* A confirm reaches its UPDATE by its SELECT alone.
LEMMA EnableIsReached ==
  ASSUME TypeInv, NEW k \in Handlers, CalmStep(k), call'[k].pc = "enable"
  PROVE  ConfirmSelect(k) /\ call'[k].who = call[k].who
<1>1. call \in [Handlers -> Calls] /\ Idle.pc = "idle"
  BY TypeParts, IdleFields
<1>2. ~End(k)
  BY <1>1, EndStep
<1>3. ASSUME NEW pc \in Unauthed \cup FirstSteps \cup LaterSteps, pc # "enable"
      PROVE  ~Go(k, pc)
  BY <1>1, <1>3, GoStep
<1>4. \A u \in Users : ~SetupSnapshot(k, u)
  BY <1>1 DEF SetupSnapshot, Begin, Calls, Idle
<1>5. \A u \in Users : ~LoginSelect(k, u)
  BY LoginGoesOn
<1>6. \A u, to \in Users, step \in FirstSteps : ~Authorise(k, u, to, step)
  BY <1>1 DEF Authorise, Begin, Calls, Idle, FirstSteps
<1>7. ConfirmSelect(k)
  BY <1>2, <1>3, <1>4, <1>5, <1>6
  DEF CalmStep, SetupInsert, LoginBurn, OpenSession, CreateUser, DeleteCount, ResetPassword,
      ChangeLoad, ChangePersist, RevokeAll, Enroll, ConfirmEnable, Gate, Disable,
      RegenerateFlag, Regenerate, Refuse, Drop, Unauthed, LaterSteps
<1>8. QED
  BY <1>1, <1>7, GoStep DEF ConfirmSelect, LaterSteps

\* The secrets of all rows are kept: so is the invariant.
LEMMA GeneratorKept ==
  ASSUME TypeInv, GeneratorInv, NEW k \in Handlers, CalmStep(k),
         \A v \in Users : SecretKept(v)
  PROVE  GeneratorInv'
<1>1. RowsKept /\ raced \subseteq raced' /\ \A j \in Handlers \ {k} : call'[j] = call[j]
  BY CalmStepIsCalm DEF Calm, RacedGrows, CallMoves
<1>2. ASSUME NEW u \in Users, user'[u].on
      PROVE  user'[u].state = "there" /\ Confirmed(u)'
  <2>1. user[u].on
    BY <1>2 DEF SecretKept
  <2>2. user[u].state = "there" /\ Confirmed(u)
    BY <2>1 DEF GeneratorInv
  <2>3. user'[u].state = "there"
    BY <1>1, <2>2 DEF RowsKept
  <2>4. QED
    BY <1>1, <1>2, <2>2, <2>3, ConfirmedStays DEF Confirmed
<1>3. ASSUME NEW j \in Handlers PROVE EnableHolds(j)'
  <2>1. CASE j = k
    <3>1. SUFFICES ASSUME call'[k].pc = "enable" PROVE EnableHolds(k)'
      BY <2>1 DEF EnableHolds
    <3>2. ConfirmSelect(k) /\ call'[k].who = call[k].who
      BY <3>1, EnableIsReached
    <3>3. user' = user /\ user[call[k].who].secret /\ call[k].who \in verified'
      BY <3>2 DEF ConfirmSelect
    <3>4. QED
      BY <3>2, <3>3 DEF EnableHolds, Confirmed
  <2>2. CASE j # k /\ call[j].pc = "enable"
    <3> DEFINE u == call[j].who
    <3>1. u \in Users /\ user[u].state # "unused"
      BY <2>2, CallThere DEF TypeInv, CallShape
    <3>2. user'[u].state = user[u].state /\ SecretKept(u)
      BY <1>1, <3>1 DEF RowsKept
    <3>3. user[u].state # "there" \/ Confirmed(u)
      BY <2>2 DEF GeneratorInv, EnableHolds
    <3>4. \/ user'[u].state # "there"
          \/ (user'[u].secret /\ u \in verified') \/ <<u, "secret">> \in raced'
      BY <1>1, <3>1, <3>2, <3>3, ConfirmedStays
    <3>5. QED
      BY <1>1, <2>2, <3>4 DEF EnableHolds, Confirmed
  <2>3. CASE j # k /\ call[j].pc # "enable"
    BY <1>1, <2>3 DEF EnableHolds
  <2>4. QED
    BY <2>1, <2>2, <2>3
<1>4. QED
  BY <1>2, <1>3 DEF GeneratorInv

\* A handler that may hold the secret of a user who is there is raced by its write.
LEMMA SecretRaced ==
  ASSUME NEW k \in Handlers, NEW j \in Handlers \ {k}, NEW facts, "secret" \in facts,
         call[j].pc = "enable", user[call[j].who].state = "there",
         Writes(k, call[j].who, facts)
  PROVE  <<call[j].who, "secret">> \in raced'
<1>1. "secret" \in Held(call[j])
  BY DEF Held, Facts
<1>2. Holding(k, call[j].who, "secret")
  BY <1>1 DEF Holding
<1>3. QED
  BY <1>2 DEF Writes, There

\* Enrolment and disabling: the second factor is off, and a confirm in flight raced.
LEMMA GeneratorReset ==
  ASSUME TypeInv, GeneratorInv, NEW k \in Handlers, Enroll(k) \/ Disable(k)
  PROVE  GeneratorInv'
<1> DEFINE u == call[k].who
<1>1. /\ call[k].pc \in {"enroll", "disable"} /\ End(k) /\ u \in Users /\ user[u] \in UserRows
      /\ \E facts : "secret" \in facts /\ Writes(k, u, facts)
      /\ verified' = verified \ {u}
  BY CallThere, RowThere DEF Enroll, Disable
<1>2. Calm(k)
  BY TotpCalm
<1>3. RowsKept /\ raced \subseteq raced' /\ \A j \in Handlers \ {k} : call'[j] = call[j]
  BY <1>2 DEF Calm, RacedGrows, CallMoves
<1>4. PICK r : /\ UNCHANGED user \/ user' = [user EXCEPT ![u] = r]
               /\ user[u].state = "there" => user' = [user EXCEPT ![u] = r]
               /\ ~r.on
  BY <1>1, RowFields DEF Enroll, Disable, There
<1>5. \A v \in Users \ {u} : user'[v] = user[v] /\ (v \in verified => v \in verified')
  BY <1>1, <1>4, OtherRows
<1>6. ~user'[u].on
  BY <1>1, <1>4, OtherRows DEF GeneratorInv
<1>7. ASSUME NEW v \in Users, user'[v].on
      PROVE  user'[v].state = "there" /\ Confirmed(v)'
  <2>1. v # u
    BY <1>6, <1>7
  <2>2. QED
    BY <1>3, <1>5, <1>7, <2>1 DEF GeneratorInv, Confirmed
<1>8. ASSUME NEW j \in Handlers PROVE EnableHolds(j)'
  <2>1. CASE j = k
    BY <1>1, <2>1, TypeParts, EndStep, IdleFields DEF EnableHolds
  <2>2. CASE j # k /\ call[j].pc # "enable"
    BY <1>3, <2>2 DEF EnableHolds
  <2>3. CASE j # k /\ call[j].pc = "enable" /\ call[j].who # u
    <3>1. call[j].who \in Users \ {u}
      BY <2>3, CallThere
    <3>2. QED
      BY <1>3, <1>5, <2>3, <3>1 DEF GeneratorInv, EnableHolds, Confirmed
  <2>4. CASE j # k /\ call[j].pc = "enable" /\ call[j].who = u
    <3>1. CASE user[u].state # "there"
      <4>1. user[u].state # "unused"
        BY <1>1 DEF TypeInv, CallShape
      <4>2. user'[u].state # "there"
        BY <1>1, <1>3, <3>1, <4>1 DEF RowsKept
      <4>3. QED
        BY <1>3, <2>4, <4>2 DEF EnableHolds
    <3>2. CASE user[u].state = "there"
      BY <1>1, <1>3, <2>4, <3>2, SecretRaced DEF EnableHolds, Confirmed
    <3>3. QED
      BY <3>1, <3>2
  <2>5. QED
    BY <2>1, <2>2, <2>3, <2>4
<1>9. QED
  BY <1>7, <1>8 DEF GeneratorInv

\* The confirm's UPDATE turns on what its SELECT has seen a code of.
LEMMA GeneratorEnabled ==
  ASSUME TypeInv, GeneratorInv, NEW k \in Handlers, ConfirmEnable(k)
  PROVE  GeneratorInv'
<1> DEFINE u == call[k].who
           cs == NewCodes(u)
           r == Enabled(user[u], cs)
<1>1. /\ call[k].pc = "enable" /\ End(k) /\ u \in Users /\ user[u] \in UserRows
      /\ HandOut(k, u, r) /\ verified' = verified
  BY CallThere, RowThere DEF ConfirmEnable, HandOut
<1>2. cs \in SUBSET AllCodes
  BY <1>1, NewCodesAreCodes
<1>3. r.secret = user[u].secret
  BY <1>1, <1>2, RowFields
<1> HIDE DEF r, cs
<1>4. Calm(k)
  BY TotpCalm
<1>5. RowsKept /\ raced \subseteq raced' /\ \A j \in Handlers \ {k} : call'[j] = call[j]
  BY <1>4 DEF Calm, RacedGrows, CallMoves
<1>6. /\ user' = IF user[u].state = "there" THEN [user EXCEPT ![u] = r] ELSE user
      /\ user[u].state # "there" \/ Confirmed(u)
  BY <1>1 DEF HandOut, There, GeneratorInv, EnableHolds
<1>7. /\ \A v \in Users \ {u} : user'[v] = user[v]
      /\ user'[u].secret = user[u].secret
  BY <1>1, <1>3, <1>6, OtherRows
<1>8. ASSUME NEW v \in Users, user'[v].on
      PROVE  user'[v].state = "there" /\ Confirmed(v)'
  <2>1. CASE v = u /\ user[u].state = "there"
    <3>1. user'[u].state = "there"
      BY <1>1, <1>5, <2>1 DEF RowsKept
    <3>2. QED
      BY <1>1, <1>5, <1>6, <1>7, <2>1, <3>1 DEF Confirmed
  <2>2. CASE v # u \/ user[u].state # "there"
    <3>1. user'[v] = user[v]
      BY <1>6, <1>7, <2>2
    <3>2. QED
      BY <1>1, <1>5, <1>8, <3>1 DEF GeneratorInv, Confirmed
  <2>3. QED
    BY <2>1, <2>2
<1>9. ASSUME NEW j \in Handlers PROVE EnableHolds(j)'
  <2>1. CASE j = k
    BY <1>1, <2>1, TypeParts, EndStep, IdleFields DEF EnableHolds
  <2>2. CASE j # k /\ call[j].pc # "enable"
    BY <1>5, <2>2 DEF EnableHolds
  <2>3. CASE j # k /\ call[j].pc = "enable"
    <3> DEFINE v == call[j].who
    <3>1. v \in Users /\ user[v].state # "unused"
      BY <2>3, CallThere DEF TypeInv, CallShape
    <3>2. user'[v].secret = user[v].secret /\ user'[v].state = user[v].state
      BY <1>5, <1>7, <3>1 DEF RowsKept
    <3>3. user[v].state # "there" \/ Confirmed(v)
      BY <2>3 DEF GeneratorInv, EnableHolds
    <3>4. QED
      BY <1>1, <1>5, <2>3, <3>2, <3>3 DEF EnableHolds, Confirmed
  <2>4. QED
    BY <2>1, <2>2, <2>3
<1>10. QED
  BY <1>8, <1>9 DEF GeneratorInv

LEMMA GeneratorDeletion ==
  ASSUME TypeInv, GeneratorInv, NEW k \in Handlers, DeleteUser(k)
  PROVE  GeneratorInv'
<1> DEFINE u == call[k].to
<1>1. /\ u \in Users /\ user'[u].state = "gone" /\ ~user'[u].on
      /\ \A v \in Users \ {u} : user'[v] = user[v]
      /\ call'[k].pc = "idle" /\ \A j \in Handlers \ {k} : call'[j] = call[j]
      /\ raced \subseteq raced' /\ verified' = verified \ {u}
  BY DeletionDoes DEF DeleteUser
<1>2. ASSUME NEW v \in Users, user'[v].on
      PROVE  user'[v].state = "there" /\ Confirmed(v)'
  BY <1>1, <1>2 DEF GeneratorInv, Confirmed
<1>3. ASSUME NEW j \in Handlers PROVE EnableHolds(j)'
  <2>1. CASE j = k \/ call[j].pc # "enable"
    BY <1>1, <2>1 DEF EnableHolds
  <2>2. CASE j # k /\ call[j].pc = "enable" /\ call[j].who = u
    BY <1>1, <2>2 DEF EnableHolds
  <2>3. CASE j # k /\ call[j].pc = "enable" /\ call[j].who # u
    <3>1. call[j].who \in Users \ {u}
      BY <2>3, CallThere
    <3>2. QED
      BY <1>1, <2>3, <3>1 DEF GeneratorInv, EnableHolds, Confirmed
  <2>4. QED
    BY <2>1, <2>2, <2>3
<1>4. QED
  BY <1>2, <1>3 DEF GeneratorInv

\* Where TOTP is on, the row's secret is one its user has confirmed, unless it was
\* written between a confirm's read and its update (enroll, confirm, disable).
THEOREM GeneratorConfirmed == AccountsSpec => []GeneratorIsConfirmed
<1>1. AccountsInit => TypeInv /\ GeneratorInv
  <2>1. SUFFICES ASSUME AccountsInit PROVE GeneratorInv
    BY TypeInit
  <2>2. \A k \in Handlers : call[k].pc = "idle"
    BY <2>1, IdleFields DEF AccountsInit
  <2>3. \A u \in Users : ~user[u].on
    BY <2>1, NoRowFields DEF AccountsInit
  <2>4. QED
    BY <2>2, <2>3 DEF GeneratorInv, EnableHolds
<1>2. TypeInv /\ GeneratorInv /\ [AccountsNext]_accountsVars => (TypeInv /\ GeneratorInv)'
  <2>1. SUFFICES ASSUME TypeInv, GeneratorInv, [AccountsNext]_accountsVars PROVE GeneratorInv'
    BY TypeStep
  <2>2. CASE UNCHANGED <<user, call, verified, raced>>
    BY <2>1, <2>2 DEF GeneratorInv, EnableHolds, Confirmed
  <2>3. ASSUME NEW k \in Handlers, CalmStep(k) PROVE GeneratorInv'
    <3>1. CASE Enroll(k) \/ Disable(k)
      BY <2>1, <3>1, GeneratorReset
    <3>2. CASE ConfirmEnable(k)
      BY <2>1, <3>2, GeneratorEnabled
    <3>3. CASE ~Enroll(k) /\ ~Disable(k) /\ ~ConfirmEnable(k)
      BY <2>1, <2>3, <3>3, SecretsStay, GeneratorKept
    <3>4. QED
      BY <3>1, <3>2, <3>3
  <2>4. CASE \E k \in Handlers : DeleteUser(k)
    BY <2>1, <2>4, GeneratorDeletion
  <2>5. QED
    BY <2>1, <2>2, <2>3, <2>4, NextCases DEF CloseSession, accountsVars, accountsHist
<1>3. TypeInv /\ GeneratorInv => GeneratorIsConfirmed
  BY DEF GeneratorInv, GeneratorIsConfirmed, Confirmed
<1>4. QED
  BY <1>1, <1>2, <1>3, PTL DEF AccountsSpec

----------------------------------------------------------------------------
(* The backup codes.                                                       *)

\* The codes of a row, by the history of its user.
Unspent(u) == IF shown[u] = 0 THEN {} ELSE Codes(shown[u]) \ spent[u]

CodesRaced(u) == <<u, "codes">> \in raced

CodesOf(u) ==
  /\ user[u].state = "unused" => shown[u] = 0
  /\ user[u].state = "there" => user[u].codes = Unspent(u) \/ CodesRaced(u)

\* A login that is to burn a code holds the row's codes without it, or is raced.
BurnHolds(k) ==
  call[k].pc = "burn" =>
    LET u == call[k].who IN
    \/ user[u].state # "there" \/ CodesRaced(u)
    \/ call[k].code \in user[u].codes /\ call[k].left = user[u].codes \ {call[k].code}

CodesInv == (\A u \in Users : CodesOf(u)) /\ \A k \in Handlers : BurnHolds(k)

\* What is said of u's codes is kept.
CodesKept(u) ==
  /\ shown'[u] = shown[u] /\ spent'[u] = spent[u]
  /\ IF user[u].state = "unused" THEN user'[u].state = "there" => user'[u].codes = {}
     ELSE user'[u].codes = user[u].codes

LEMMA CodesOfKept ==
  ASSUME NEW u, RowsKept, u \in Users, raced \subseteq raced', CodesOf(u), CodesKept(u)
  PROVE  CodesOf(u)'
  BY DEF CodesOf, CodesKept, Unspent, CodesRaced, RowsKept

LEMMA BurnKept ==
  ASSUME TypeInv, RowsKept, raced \subseteq raced', NEW j \in Handlers, call'[j] = call[j],
         BurnHolds(j),
         call[j].pc = "burn" =>
           CodesKept(call[j].who) \/ <<call[j].who, "codes">> \in raced'
  PROVE  BurnHolds(j)'
<1>1. CASE call[j].pc # "burn"
  BY <1>1 DEF BurnHolds
<1>2. CASE call[j].pc = "burn"
  <2>1. call[j].who \in Users /\ user[call[j].who].state # "unused"
    BY <1>2, CallThere DEF TypeInv, CallShape
  <2>2. user'[call[j].who].state = user[call[j].who].state
    BY <2>1 DEF RowsKept
  <2>3. QED
    BY <1>2, <2>1, <2>2 DEF BurnHolds, CodesKept, CodesRaced
<1>3. QED
  BY <1>1, <1>2

LEMMA CodesStay ==
  ASSUME TypeInv, NEW k \in Handlers, CalmStep(k),
         ~LoginBurn(k), ~ConfirmEnable(k), ~Regenerate(k), ~Disable(k), NEW v \in Users
  PROVE  CodesKept(v)
<1>1. user \in [Users -> UserRows]
  BY TypeParts
<1>2. UNCHANGED <<shown, spent>>
  BY DEF CalmStep, SetupSnapshot, LoginSelect, Authorise, SetupInsert, OpenSession, CreateUser,
         DeleteCount, ResetPassword, ChangeLoad, ChangePersist, WritePassword, RevokeAll, Enroll,
         ConfirmSelect, Gate, RegenerateFlag, Refuse, Drop, accountsHist
<1>3. CASE UNCHANGED user
  BY <1>1, <1>2, <1>3 DEF CodesKept, RowsKept
<1>4. CASE SetupInsert(k) \/ CreateUser(k)
  <2>1. ASSUME NEW u \in Users, user[u].state = "unused", user' = [user EXCEPT ![u] = Fresh]
        PROVE  CodesKept(v)
    BY <1>2, <2>1, OtherRows, FreshFields DEF CodesKept
  <2>2. CASE SetupInsert(k)
    BY <1>3, <2>1, <2>2, CallThere DEF SetupInsert
  <2>3. CASE CreateUser(k)
    BY <1>3, <2>1, <2>3, CallThere DEF CreateUser, FirstSteps
  <2>4. QED
    BY <1>4, <2>2, <2>3
<1>5. ASSUME NEW u \in Users, NEW r, user[u].state = "there", user' = [user EXCEPT ![u] = r],
             r.codes = user[u].codes
      PROVE  CodesKept(v)
  BY <1>2, <1>5, OtherRows DEF CodesKept
<1>6. CASE Enroll(k)
  <2> DEFINE u == call[k].who
             r == Enrolled(user[u])
  <2>1. u \in Users
    BY <1>6, CallThere DEF Enroll
  <2>2. r.codes = user[u].codes
    BY <1>1, <2>1, RowFields
  <2>3. UNCHANGED user \/ (user[u].state = "there" /\ user' = [user EXCEPT ![u] = r])
    BY <1>6 DEF Enroll, There
  <2> HIDE DEF r
  <2>4. QED
    BY <1>3, <1>5, <2>1, <2>2, <2>3
<1>7. CASE ResetPassword(k) \/ ChangePersist(k)
  <2> DEFINE u == call[k].to
             r == [user[u] EXCEPT !.pw = @ + 1]
  <2>1. u \in Users /\ WritePassword(k, u)
    BY <1>7, CallThere DEF ResetPassword, ChangePersist, FirstSteps, LaterSteps
  <2>2. r.codes = user[u].codes
    BY <1>1, <2>1 DEF UserRows
  <2>3. UNCHANGED user \/ (user[u].state = "there" /\ user' = [user EXCEPT ![u] = r])
    BY <2>1 DEF WritePassword, There
  <2> HIDE DEF r
  <2>4. QED
    BY <1>3, <1>5, <2>1, <2>2, <2>3
<1>8. QED
  BY <1>3, <1>4, <1>6, <1>7
  DEF CalmStep, SetupSnapshot, LoginSelect, Authorise, OpenSession, DeleteCount, ChangeLoad,
      RevokeAll, ConfirmSelect, Gate, RegenerateFlag, Refuse, Drop, accountsHist

\* A login burns what its SELECT has chosen.
LEMMA BurnIsReached ==
  ASSUME TypeInv, NEW k \in Handlers, CalmStep(k), call'[k].pc = "burn"
  PROVE  UNCHANGED user /\ BurnHolds(k)'
<1>1. call \in [Handlers -> Calls]
  BY TypeParts
<1>2. \/ \E u \in Users : SetupSnapshot(k, u) \/ LoginSelect(k, u)
      \/ Go(k, "session")
  BY LoginIsReached DEF LoginBurn
<1>3. ~Go(k, "session")
  BY <1>1, GoStep DEF Unauthed
<1>4. \A u \in Users : ~SetupSnapshot(k, u)
  BY <1>1 DEF SetupSnapshot, Begin, Calls, Idle
<1>5. PICK u \in Users : LoginSelect(k, u)
  BY <1>2, <1>3, <1>4
<1> DEFINE s == [Idle EXCEPT !.who = u, !.pw = user[u].pw]
           c == [s EXCEPT !.pc = "session"]
           d(e) == [s EXCEPT !.pc = "burn", !.code = e, !.left = user[u].codes \ {e}]
<1>6. c.pc = "session" /\ \A e : d(e).who = u /\ d(e).code = e /\ d(e).left = user[u].codes \ {e}
  BY IdleFields DEF Calls
<1>7. UNCHANGED user /\ (call'[k] = c \/ \E e \in user[u].codes : call'[k] = d(e))
  BY <1>1, <1>5 DEF LoginSelect, Begin
<1> HIDE DEF c, d
<1>8. PICK e \in user[u].codes : call'[k] = d(e)
  BY <1>6, <1>7
<1>9. QED
  BY <1>6, <1>7, <1>8 DEF BurnHolds

\* A login in flight of a user who is there is raced by a write of the codes.
LEMMA CodesAreRaced ==
  ASSUME NEW k \in Handlers, NEW j \in Handlers \ {k}, NEW facts, "codes" \in facts,
         call[j].pc = "burn", user[call[j].who].state = "there",
         Writes(k, call[j].who, facts)
  PROVE  <<call[j].who, "codes">> \in raced'
<1>1. "codes" \in Held(call[j])
  BY DEF Held, Facts
<1>2. Holding(k, call[j].who, "codes")
  BY <1>1 DEF Holding
<1>3. QED
  BY <1>2 DEF Writes, There

\* The codes of u are written, with u's history, and the invariant stays.
LEMMA CodesWritten ==
  ASSUME TypeInv, CodesInv, NEW k \in Handlers, Calm(k), NEW u \in Users, NEW facts,
         "codes" \in facts, Writes(k, u, facts), call'[k].pc # "burn", CodesOf(u)',
         user[u].state # "unused",
         \A v \in Users \ {u} : CodesKept(v)
  PROVE  CodesInv'
<1>1. RowsKept /\ raced \subseteq raced' /\ \A j \in Handlers \ {k} : call'[j] = call[j]
  BY DEF Calm, RacedGrows, CallMoves
<1>2. ASSUME NEW v \in Users PROVE CodesOf(v)'
  BY <1>1, CodesOfKept DEF CodesInv
<1>3. ASSUME NEW j \in Handlers PROVE BurnHolds(j)'
  <2>1. CASE j = k
    BY <2>1 DEF BurnHolds
  <2>2. CASE j # k /\ (call[j].pc = "burn" => call[j].who # u)
    <3>1. call[j].pc = "burn" => CodesKept(call[j].who)
      BY <2>2, CallThere
    <3>2. QED
      BY <1>1, <2>2, <3>1, BurnKept DEF CodesInv
  <2>3. CASE j # k /\ call[j].pc = "burn" /\ call[j].who = u
    <3>1. CASE user[u].state = "there"
      BY <1>1, <2>3, <3>1, CodesAreRaced, BurnKept DEF CodesInv
    <3>2. CASE user[u].state # "there"
      <4>1. user'[u].state # "there"
        BY <1>1, <3>2 DEF RowsKept
      <4>2. QED
        BY <1>1, <2>3, <4>1 DEF BurnHolds
    <3>3. QED
      BY <3>1, <3>2
  <2>4. QED
    BY <2>1, <2>2, <2>3
<1>4. QED
  BY <1>2, <1>3 DEF CodesInv

LEMMA CodesBurn ==
  ASSUME TypeInv, CodesInv, NEW k \in Handlers, LoginBurn(k)
  PROVE  CodesInv'
<1>0. PICK u \in Users : u = call[k].who
  BY CallThere DEF LoginBurn
<1> DEFINE r == [user[u] EXCEPT !.codes = call[k].left]
           used == (spent[u] \cup {call[k].code}) \cap Codes(shown[u])
<1>1. /\ call[k].pc = "burn" /\ Go(k, "session") /\ u \in Users /\ user[u] \in UserRows
      /\ user[u].state # "unused" /\ Writes(k, u, {"codes"})
      /\ call[k].left \in SUBSET AllCodes
  BY <1>0, CallThere, RowThere DEF LoginBurn, TypeInv, CallShape
<1>2. r.codes = call[k].left
  BY <1>1, RowFields
<1>3. /\ user' = IF user[u].state = "there" THEN [user EXCEPT ![u] = r] ELSE user
      /\ spent' = [spent EXCEPT ![u] = used] /\ shown' = shown
  BY <1>0 DEF LoginBurn, Burned, There
<1> HIDE DEF r, used
<1>4. Calm(k)
  BY LoginBurnCalm
<1>5. RowsKept /\ raced \subseteq raced'
  BY <1>4 DEF Calm, RacedGrows
<1>6. call'[k].pc = "session"
  BY <1>1, TypeParts, GoStep DEF Unauthed
<1>7. /\ spent'[u] = used
      /\ \A v \in Users \ {u} : user'[v] = user[v] /\ spent'[v] = spent[v]
      /\ user[u].state = "there" => user'[u] = r
  BY <1>1, <1>3, TypeParts, OtherRows DEF HistoryOK
<1>8. \A v \in Users \ {u} : CodesKept(v)
  <2>1. ASSUME NEW v \in Users \ {u}, user[v].state = "unused" PROVE user'[v].state # "there"
    BY <1>7, <2>1
  <2>2. QED
    BY <1>3, <1>7, <2>1 DEF CodesKept
<1>9. CodesOf(u)'
  <2>1. user'[u].state = user[u].state
    BY <1>1, <1>5 DEF RowsKept
  <2>2. CASE user[u].state # "there"
    BY <1>1, <2>1, <2>2 DEF CodesOf
  <2>3. CASE user[u].state = "there" /\ CodesRaced(u)
    <3>1. <<u, "codes">> \in raced'
      BY <1>5, <2>3 DEF CodesRaced
    <3>2. QED
      BY <1>1, <2>1, <3>1 DEF CodesOf, CodesRaced
  <2>4. CASE user[u].state = "there" /\ ~CodesRaced(u)
    <3>1. /\ user[u].codes = Unspent(u)
          /\ call[k].code \in user[u].codes /\ call[k].left = user[u].codes \ {call[k].code}
      BY <1>0, <1>1, <2>4 DEF CodesInv, CodesOf, BurnHolds
    <3>2. shown[u] # 0 /\ user[u].codes = Codes(shown[u]) \ spent[u]
      BY <3>1 DEF Unspent
    <3>3. call[k].left = Codes(shown[u]) \ used
      BY <3>1, <3>2 DEF used
    <3>4. user'[u].codes = Codes(shown'[u]) \ spent'[u] /\ shown'[u] # 0
      BY <1>2, <1>3, <1>7, <2>4, <3>2, <3>3
    <3>5. QED
      BY <1>1, <2>1, <3>4 DEF CodesOf, Unspent, Codes
  <2>5. QED
    BY <2>2, <2>3, <2>4
<1>10. QED
  BY <1>1, <1>4, <1>6, <1>8, <1>9, CodesWritten

\* A new list is handed out, and nothing of it is spent.
LEMMA CodesHandedOut ==
  ASSUME TypeInv, CodesInv, NEW k \in Handlers, ConfirmEnable(k) \/ Regenerate(k)
  PROVE  CodesInv'
<1>0. PICK u \in Users : u = call[k].who
  BY CallThere DEF ConfirmEnable, Regenerate
<1> DEFINE n == made[u] + 1
<1>1. /\ call[k].pc # "idle" /\ call[k].pc # "setup" /\ End(k)
      /\ user[u] \in UserRows /\ user[u].state # "unused" /\ n \in Nat \ {0}
      /\ \E r \in {Enabled(user[u], NewCodes(u)), Replaced(user[u], NewCodes(u))} : HandOut(k, u, r)
  BY <1>0, RowThere, TypeParts DEF ConfirmEnable, Regenerate, TypeInv, CallShape, HistoryOK
<1>2. PICK r \in {Enabled(user[u], NewCodes(u)), Replaced(user[u], NewCodes(u))} : HandOut(k, u, r)
  BY <1>1
<1>3. r.codes = Codes(n)
  <2>1. NewCodes(u) \in SUBSET AllCodes
    BY <1>2, NewCodesAreCodes
  <2>2. r.codes = NewCodes(u)
    BY <1>1, <1>2, <2>1, RowFields
  <2>3. QED
    BY <2>2 DEF NewCodes
<1>4. /\ user' = IF user[u].state = "there" THEN [user EXCEPT ![u] = r] ELSE user
      /\ made' = [made EXCEPT ![u] = n] /\ shown' = [shown EXCEPT ![u] = made'[u]]
      /\ spent' = [spent EXCEPT ![u] = {}] /\ Writes(k, u, {"codes"})
  BY <1>2 DEF HandOut, There
<1> HIDE DEF n
<1>5. shown'[u] = n /\ spent'[u] = {}
  BY <1>4, TypeParts DEF HistoryOK
<1>6. Calm(k) /\ call'[k].pc = "idle"
  BY <1>1, TotpCalm, TypeParts, EndStep, IdleFields
<1>7. user'[u].state = user[u].state
  BY <1>1, <1>6 DEF Calm, RowsKept
<1>8. user[u].state = "there" => user'[u].codes = Codes(n)
  BY <1>3, <1>4, OtherRows
<1>9. CodesOf(u)'
  BY <1>1, <1>5, <1>7, <1>8 DEF CodesOf, Unspent, Codes
<1>10. \A v \in Users \ {u} : CodesKept(v)
  <2>1. ASSUME NEW v \in Users \ {u} PROVE user'[v] = user[v]
    BY <1>4, OtherRows
  <2>2. \A v \in Users \ {u} : shown'[v] = shown[v] /\ spent'[v] = spent[v]
    BY <1>4, TypeParts DEF HistoryOK
  <2>3. QED
    BY <2>1, <2>2 DEF CodesKept
<1>11. QED
  BY <1>1, <1>4, <1>6, <1>9, <1>10, CodesWritten

LEMMA CodesDisabled ==
  ASSUME TypeInv, CodesInv, NEW k \in Handlers, Disable(k)
  PROVE  CodesInv'
<1>0. PICK u \in Users : u = call[k].who
  BY CallThere DEF Disable
<1> DEFINE r == Disabled(user[u])
<1>1. /\ call[k].pc = "disable" /\ End(k) /\ user[u] \in UserRows /\ user[u].state # "unused"
      /\ user' = IF user[u].state = "there" THEN [user EXCEPT ![u] = r] ELSE user
      /\ shown' = [shown EXCEPT ![u] = 0] /\ spent' = [spent EXCEPT ![u] = {}]
      /\ Writes(k, u, {"secret", "codes"})
  BY <1>0, RowThere DEF Disable, There, TypeInv, CallShape
<1>2. r.codes = {}
  BY <1>1, RowFields
<1> HIDE DEF r
<1>3. Calm(k) /\ call'[k].pc = "idle"
  BY <1>1, TotpCalm, TypeParts, EndStep, IdleFields
<1>4. user'[u].state = user[u].state
  BY <1>1, <1>3 DEF Calm, RowsKept
<1>5. shown'[u] = 0 /\ (user[u].state = "there" => user'[u].codes = {})
  BY <1>1, <1>2, TypeParts, OtherRows DEF HistoryOK
<1>6. CodesOf(u)'
  BY <1>4, <1>5 DEF CodesOf, Unspent
<1>7. \A v \in Users \ {u} : CodesKept(v)
  <2>1. ASSUME NEW v \in Users \ {u} PROVE user'[v] = user[v]
    BY <1>1, OtherRows
  <2>2. \A v \in Users \ {u} : shown'[v] = shown[v] /\ spent'[v] = spent[v]
    BY <1>1, TypeParts DEF HistoryOK
  <2>3. QED
    BY <2>1, <2>2 DEF CodesKept
<1>8. QED
  BY <1>1, <1>3, <1>6, <1>7, CodesWritten

LEMMA CodesDeletion ==
  ASSUME TypeInv, CodesInv, NEW k \in Handlers, DeleteUser(k)
  PROVE  CodesInv'
<1>1. PICK u \in Users :
        /\ user'[u].state = "gone" /\ \A v \in Users \ {u} : user'[v] = user[v]
        /\ call'[k].pc = "idle" /\ \A j \in Handlers \ {k} : call'[j] = call[j]
        /\ raced \subseteq raced'
        /\ shown' = [shown EXCEPT ![u] = 0] /\ spent' = [spent EXCEPT ![u] = {}]
  BY DeletionDoes DEF DeleteUser
<1>2. \A v \in Users \ {u} : shown'[v] = shown[v] /\ spent'[v] = spent[v]
  BY <1>1, TypeParts DEF HistoryOK
<1>3. ASSUME NEW v \in Users PROVE CodesOf(v)'
  <2>1. CASE v = u
    BY <1>1, <2>1 DEF CodesOf
  <2>2. CASE v # u
    BY <1>1, <1>2, <2>2 DEF CodesInv, CodesOf, Unspent, CodesRaced
  <2>3. QED
    BY <2>1, <2>2
<1>4. ASSUME NEW j \in Handlers PROVE BurnHolds(j)'
  <2>1. CASE j = k \/ call[j].pc # "burn"
    BY <1>1, <2>1 DEF BurnHolds
  <2>2. CASE j # k /\ call[j].pc = "burn" /\ call[j].who = u
    BY <1>1, <2>2 DEF BurnHolds
  <2>3. CASE j # k /\ call[j].pc = "burn" /\ call[j].who # u
    <3>1. call[j].who \in Users \ {u}
      BY <2>3, CallThere
    <3>2. QED
      BY <1>1, <2>3, <3>1 DEF CodesInv, BurnHolds, CodesRaced
  <2>4. QED
    BY <2>1, <2>2, <2>3
<1>5. QED
  BY <1>3, <1>4 DEF CodesInv

LEMMA CodesCalm ==
  ASSUME TypeInv, CodesInv, NEW k \in Handlers, CalmStep(k),
         ~LoginBurn(k), ~ConfirmEnable(k), ~Regenerate(k), ~Disable(k)
  PROVE  CodesInv'
<1>1. RowsKept /\ raced \subseteq raced' /\ \A j \in Handlers \ {k} : call'[j] = call[j]
  BY CalmStepIsCalm DEF Calm, RacedGrows, CallMoves
<1>2. \A v \in Users : CodesKept(v)
  BY CodesStay
<1>3. \A v \in Users : CodesOf(v)'
  BY <1>1, <1>2, CodesOfKept DEF CodesInv
<1>4. ASSUME NEW j \in Handlers PROVE BurnHolds(j)'
  <2>1. CASE j = k /\ call'[k].pc = "burn"
    BY <2>1, BurnIsReached
  <2>2. CASE j = k /\ call'[k].pc # "burn"
    BY <2>2 DEF BurnHolds
  <2>3. CASE j # k
    <3>1. call[j].pc = "burn" => CodesKept(call[j].who)
      BY <1>2, CallThere
    <3>2. QED
      BY <1>1, <2>3, <3>1, BurnKept DEF CodesInv
  <2>4. QED
    BY <2>1, <2>2, <2>3
<1>5. QED
  BY <1>3, <1>4 DEF CodesInv

\* The codes a row holds are those of the list its user was last shown that no
\* login has used, unless the column was written while a login held a copy of it
\* (login, confirm, disable, regenerate_backup).
THEOREM CodesShown == AccountsSpec => []CodesAreThoseShown
<1>1. AccountsInit => TypeInv /\ CodesInv
  <2>1. SUFFICES ASSUME AccountsInit PROVE CodesInv
    BY TypeInit
  <2>2. \A k \in Handlers : call[k].pc = "idle"
    BY <2>1, IdleFields DEF AccountsInit
  <2>3. \A u \in Users : user[u].state = "unused" /\ shown[u] = 0
    BY <2>1, NoRowFields DEF AccountsInit
  <2>4. QED
    BY <2>2, <2>3 DEF CodesInv, CodesOf, BurnHolds
<1>2. TypeInv /\ CodesInv /\ [AccountsNext]_accountsVars => (TypeInv /\ CodesInv)'
  <2>1. SUFFICES ASSUME TypeInv, CodesInv, [AccountsNext]_accountsVars PROVE CodesInv'
    BY TypeStep
  <2>2. CASE UNCHANGED <<user, call, shown, spent, raced>>
    BY <2>1, <2>2 DEF CodesInv, CodesOf, BurnHolds, Unspent, CodesRaced
  <2>3. ASSUME NEW k \in Handlers, CalmStep(k) PROVE CodesInv'
    BY <2>1, <2>3, CodesBurn, CodesHandedOut, CodesDisabled, CodesCalm
  <2>4. CASE \E k \in Handlers : DeleteUser(k)
    BY <2>1, <2>4, CodesDeletion
  <2>5. QED
    BY <2>1, <2>2, <2>3, <2>4, NextCases DEF CloseSession, accountsVars, accountsHist
<1>3. TypeInv /\ CodesInv => CodesAreThoseShown
  BY DEF CodesInv, CodesOf, CodesAreThoseShown, Unspent, CodesRaced, There
<1>4. QED
  BY <1>1, <1>2, <1>3, PTL DEF AccountsSpec

=============================================================================
