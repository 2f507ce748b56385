------------------------------ MODULE Identity ------------------------------
(***************************************************************************)
(* A server's identity: the admin endpoints that add, rotate and delete a  *)
(* row of servers, the operator who configures hosts with the join tokens  *)
(* they show, the Register RPC with its SELECT and its UPDATE by id, and   *)
(* the agent's process, which registers once, saves its configuration and  *)
(* then opens streams with the server token.                               *)
(*                                                                         *)
(* Tokens are numbered as they are generated, join tokens and server tokens *)
(* apart; 0 is NULL.                                                       *)
(***************************************************************************)
EXTENDS Naturals, Sequences, FiniteSets

CONSTANTS
  Hosts,
  Servers,     \* rows an admin may add
  NoServer,
  MaxJoins,    \* bound: join tokens generated
  MaxServers,  \* bound: server tokens generated
  MaxSetups,   \* bound: runs of the configure command
  MaxFailures  \* bound: processes that end and calls that fail

ASSUME IdentityAssumption ==
  /\ NoServer \notin Servers
  /\ {MaxJoins, MaxServers, MaxSetups, MaxFailures} \subseteq Nat

VARIABLES
  entry,     \* table servers: join_token and server_token
  joins,     \* the servers join tokens were generated for, in order
  issued,    \* server tokens generated so far
  shown,     \* join tokens an operator has seen
  conf,      \* the agent's configuration file
  proc,      \* the agent's process and its copy of the configuration
  online,    \* the server a host's stream is open for
  calls,     \* Register handlers on the panel
  setups,    \* history: runs of the configure command so far
  failures,  \* history: failures so far
  astray,    \* history: server tokens that failed to reach a host, or left it
  spoiled,   \* history: join tokens replaced by an admin, or whose host failed
  raced      \* history: servers written between a Register's SELECT and its UPDATE

tables       == <<entry, joins, issued>>
hosts        == <<conf, proc, online>>
identityHist == <<setups, failures, astray, spoiled, raced>>
identityVars == <<tables, shown, hosts, calls, identityHist>>

Joins   == 0 .. MaxJoins
Now     == Len(joins)  \* the latest join token
Issued  == 0 .. MaxServers
Entries == [state : {"unused", "there", "gone"}, join : Joins, server : Issued]
Config  == [join : Joins, server : Issued]
Procs   == [pc : {"off", "register", "wait", "save", "stream"}, join : Joins, server : Issued]
Calls   == [host : Hosts, waited : BOOLEAN, pc : {"select", "update", "reply"},
            join : Joins, s : Servers \cup {NoServer}, server : Issued]

NoRow(state) == [state |-> state, join |-> 0, server |-> 0]
Blank == [join |-> 0, server |-> 0]
Off   == [pc |-> "off", join |-> 0, server |-> 0]

IdentityInit ==
  /\ entry = [s \in Servers |-> NoRow("unused")]
  /\ joins = <<>> /\ issued = 0 /\ shown = {}
  /\ conf = [h \in Hosts |-> Blank] /\ proc = [h \in Hosts |-> Off]
  /\ online = [h \in Hosts |-> NoServer] /\ calls = {}
  /\ setups = 0 /\ failures = 0 /\ astray = {} /\ spoiled = {} /\ raced = {}

\* Registers of s that have SELECTed the row and not yet UPDATEd it.
Registering(s) == {c \in calls : c.pc = "update" /\ c.s = s}

RacedBy(s, c) == IF Registering(s) \ c = {} THEN raced ELSE raced \cup {s}

NonNull(t) == {t} \ {0}

There(s) == entry[s].state = "there"

TokensOf(s) == {t \in DOMAIN joins : joins[t] = s}

Generate(s) == Now < MaxJoins /\ joins' = Append(joins, s)

----------------------------------------------------------------------------
(* The admin endpoints.                                                    *)

\* The browser may not get to see the answer.
CreateServer(s) ==
  /\ entry[s].state = "unused" /\ Generate(s)
  /\ entry' = [entry EXCEPT ![s] = [state |-> "there", join |-> Now', server |-> 0]]
  /\ shown' \in {shown, shown \cup {Now'}}
  /\ UNCHANGED <<issued, hosts, calls, identityHist>>

\* install_info: a conflict once the row has no join token.
ShowInstall(s) ==
  /\ There(s) /\ entry[s].join # 0
  /\ shown' = shown \cup {entry[s].join}
  /\ UNCHANGED <<tables, hosts, calls, identityHist>>

\* Mutant: the server token stays.
Rotated_Keep(r, t) == [r EXCEPT !.join = t]

\* "Clearing server_token alongside writing a new join_token".
Rotated(r, t) == [r EXCEPT !.join = t, !.server = 0]

RotateInstall(s) ==
  /\ There(s) /\ Generate(s)
  /\ entry' = [entry EXCEPT ![s] = Rotated(@, Now')]
  /\ shown' = shown \cup {Now'}
  /\ spoiled' = spoiled \cup TokensOf(s)
  /\ raced' = RacedBy(s, {})
  /\ UNCHANGED <<issued, hosts, calls, setups, failures, astray>>

\* Ids are never reused.
DeleteServer(s) ==
  /\ There(s)
  /\ entry' = [entry EXCEPT ![s] = NoRow("gone")]
  /\ spoiled' = spoiled \cup TokensOf(s)
  /\ raced' = RacedBy(s, {})
  /\ UNCHANGED <<joins, issued, shown, hosts, calls, setups, failures, astray>>

----------------------------------------------------------------------------
(* The Register RPC.                                                       *)

\* Mutant: any row that has no server token will do.
Joinable_Any(s, t) == There(s) /\ entry[s].server = 0

\* WHERE join_token = $1 AND server_token IS NULL.
Joinable(s, t) == There(s) /\ entry[s].join = t /\ entry[s].server = 0

Refused(c) == IF c.waited THEN [proc EXCEPT ![c.host].pc = "register"] ELSE proc

RegisterSelect(c) ==
  /\ c \in calls /\ c.pc = "select"
  /\ \/ \E s \in Servers :
          /\ Joinable(s, c.join)
          /\ calls' = (calls \ {c}) \cup {[c EXCEPT !.pc = "update", !.s = s]}
          /\ UNCHANGED proc
     \/ /\ \A s \in Servers : ~Joinable(s, c.join)
        /\ calls' = calls \ {c} /\ proc' = Refused(c)
  /\ UNCHANGED <<tables, shown, conf, online, identityHist>>

\* UPDATE ... WHERE id: whatever the row has become, and no error if it is gone.
RegisterUpdate(c) ==
  /\ c \in calls /\ c.pc = "update"
  /\ issued < MaxServers /\ issued' = issued + 1
  /\ entry' = IF There(c.s)
            THEN [entry EXCEPT ![c.s].join = 0, ![c.s].server = issued'] ELSE entry
  /\ calls' = (calls \ {c}) \cup {[c EXCEPT !.pc = "reply", !.server = issued']}
  /\ raced' = RacedBy(c.s, {c})
  /\ UNCHANGED <<joins, shown, hosts, setups, failures, astray, spoiled>>

Lose(server, join) == astray' = astray \cup {server} /\ spoiled' = spoiled \cup {join}

\* The answer is taken by the process that waits for it.
RegisterReply(c) ==
  /\ c \in calls /\ c.pc = "reply" /\ calls' = calls \ {c}
  /\ IF c.waited
     THEN /\ proc' = [proc EXCEPT ![c.host].pc = "save", ![c.host].server = c.server]
          /\ UNCHANGED <<astray, spoiled>>
     ELSE Lose(c.server, c.join) /\ UNCHANGED proc
  /\ UNCHANGED <<tables, shown, conf, online, setups, failures, raced>>

\* The handler is dropped at one of its awaits, or its answer on the way.
CallFails(c) ==
  /\ c \in calls /\ calls' = calls \ {c}
  /\ failures < MaxFailures /\ failures' = failures + 1
  /\ proc' = Refused(c)
  /\ IF c.server = 0 THEN UNCHANGED <<astray, spoiled>> ELSE Lose(c.server, c.join)
  /\ UNCHANGED <<tables, shown, conf, online, setups, raced>>

\* stream: the token must match exactly one row.
Authenticated(s, t) == There(s) /\ t # 0 /\ entry[s].server = t

----------------------------------------------------------------------------
(* The host.                                                               *)

\* cmd_configure: a configuration without a server token.
Configure(h, t) ==
  /\ t \in shown /\ setups < MaxSetups /\ setups' = setups + 1
  /\ conf' = [conf EXCEPT ![h] = [join |-> t, server |-> 0]]
  /\ astray' = astray \cup NonNull(conf[h].server)
  /\ UNCHANGED <<tables, shown, proc, online, calls, failures, spoiled, raced>>

\* cmd_run: a configuration with neither token is refused.
Start(h) ==
  /\ proc[h].pc = "off" /\ conf[h] # Blank
  /\ proc' = [proc EXCEPT ![h] =
       [pc |-> IF conf[h].server = 0 THEN "register" ELSE "stream",
        join |-> conf[h].join, server |-> conf[h].server]]
  /\ UNCHANGED <<tables, shown, conf, online, calls, identityHist>>

\* register_with_retry, with the token the process was started with.
Call(h) ==
  /\ proc[h].pc = "register"
  /\ proc' = [proc EXCEPT ![h].pc = "wait"]
  /\ calls' = calls \cup {[host |-> h, waited |-> TRUE, pc |-> "select",
                           join |-> proc[h].join, s |-> NoServer, server |-> 0]}
  /\ UNCHANGED <<tables, shown, conf, online, identityHist>>

Abandoned(h) == {IF c.host = h THEN [c EXCEPT !.waited = FALSE] ELSE c : c \in calls}

\* The channel's timeout: the handler may still be at work.
Timeout(h) ==
  /\ proc[h].pc = "wait" /\ proc' = [proc EXCEPT ![h].pc = "register"]
  /\ failures < MaxFailures /\ failures' = failures + 1
  /\ calls' = Abandoned(h)
  /\ UNCHANGED <<tables, shown, conf, online, setups, astray, spoiled, raced>>

\* Mutant: the join token is cleared, the server token not yet set.
Saved_Early(p) == [join |-> 0, server |-> 0]

\* What is written by temporary file and rename.
Saved(p) == [join |-> 0, server |-> p.server]

Save(h) ==
  /\ proc[h].pc = "save"
  /\ conf' = [conf EXCEPT ![h] = Saved(proc[h])]
  /\ proc' = [proc EXCEPT ![h].pc = "stream", ![h].join = 0]
  /\ astray' = astray \cup (NonNull(conf[h].server) \ {proc[h].server})
  /\ UNCHANGED <<tables, shown, online, calls, setups, failures, spoiled, raced>>

\* Join tokens of the server a server token is for.
TokensFor(t) == UNION {TokensOf(s) : s \in {s \in Servers : Authenticated(s, t)}}

\* The process ends, as it does when it cannot save.
Stop(h) ==
  /\ proc[h].pc # "off" /\ proc' = [proc EXCEPT ![h] = Off]
  /\ failures < MaxFailures /\ failures' = failures + 1
  /\ online' = [online EXCEPT ![h] = NoServer] /\ calls' = Abandoned(h)
  /\ astray' = IF proc[h].pc = "save" THEN astray \cup {proc[h].server} ELSE astray
  /\ spoiled' = spoiled \cup NonNull(proc[h].join) \cup TokensFor(proc[h].server)
  /\ UNCHANGED <<tables, shown, conf, setups, raced>>

OpenStream(h) ==
  /\ proc[h].pc = "stream" /\ online[h] = NoServer
  /\ \E s \in Servers :
       Authenticated(s, proc[h].server) /\ online' = [online EXCEPT ![h] = s]
  /\ UNCHANGED <<tables, shown, conf, proc, calls, identityHist>>

StreamEnds(h) ==
  /\ online[h] # NoServer /\ online' = [online EXCEPT ![h] = NoServer]
  /\ UNCHANGED <<tables, shown, conf, proc, calls, identityHist>>

----------------------------------------------------------------------------
Handled(c) == RegisterSelect(c) \/ RegisterUpdate(c) \/ RegisterReply(c)

IdentityNext ==
  \/ \E s \in Servers :
       CreateServer(s) \/ ShowInstall(s) \/ RotateInstall(s) \/ DeleteServer(s)
  \/ \E c \in calls : RegisterSelect(c) \/ RegisterUpdate(c) \/ RegisterReply(c) \/ CallFails(c)
  \/ \E h \in Hosts :
       \/ \E t \in shown : Configure(h, t)
       \/ Start(h) \/ Call(h) \/ Timeout(h) \/ Save(h) \/ Stop(h)
       \/ OpenStream(h) \/ StreamEnds(h)

IdentitySpec == IdentityInit /\ [][IdentityNext]_identityVars

\* What has begun goes on: a process retries, a handler runs to its end, and the
\* stream loop reconnects.
IdentityFairness ==
  \A h \in Hosts :
    /\ WF_identityVars(Call(h)) /\ WF_identityVars(Save(h))
    /\ WF_identityVars(OpenStream(h))
    /\ \A w \in BOOLEAN :
         WF_identityVars(\E c \in calls : c.host = h /\ c.waited = w /\ Handled(c))

IdentityFairSpec == IdentitySpec /\ IdentityFairness

----------------------------------------------------------------------------
(* Properties.                                                             *)

\* Every variable keeps its type, and a row has a join token until it has a
\* server token, never both.
IdentityTypeOK ==
  /\ entry \in [Servers -> Entries] /\ \A s \in Servers : entry[s].join = 0 \/ entry[s].server = 0
  /\ joins \in Seq(Servers) /\ Now <= MaxJoins /\ issued \in Issued
  /\ shown \subseteq 1 .. Now
  /\ conf \in [Hosts -> Config] /\ proc \in [Hosts -> Procs]
  /\ online \in [Hosts -> Servers \cup {NoServer}] /\ calls \subseteq Calls
  /\ setups \in 0 .. MaxSetups /\ failures \in 0 .. MaxFailures
  /\ astray \subseteq 1 .. issued /\ spoiled \subseteq 1 .. Now /\ raced \subseteq Servers

\* No registration is half done: the server token a row names is in a host's
\* configuration or on its way there, unless a failure or a new configuration
\* has taken it from the host.
TokenIsHeld ==
  \A s \in Servers : LET t == entry[s].server IN
    \/ t = 0 \/ t \in astray
    \/ \E h \in Hosts : conf[h].server = t \/ (proc[h].pc = "save" /\ proc[h].server = t)
    \/ \E c \in calls : c.server = t

\* "Clearing server_token ... is what makes the registration RPC accept the next
\* agent": a join token an admin was given works until a host registers with it
\* or an admin replaces it, whatever older registrations are still under way ...
FreshJoinStays ==
  [][\A s \in Servers : LET t == entry[s].join IN
       t # 0 =>
         \/ entry'[s].join = t
         \/ t \in spoiled'
         \/ \E c \in calls : c.join = t /\ c.pc = "update" /\ c \notin calls']_identityVars

\* ... as the code has it, unless one of them had read the row before.
FreshJoinStaysUnraced ==
  [][\A s \in Servers \ raced : LET t == entry[s].join IN
       t # 0 =>
         \/ entry'[s].join = t
         \/ t \in spoiled'
         \/ \E c \in calls : c.join = t /\ c.pc = "update" /\ c \notin calls']_identityVars

\* "keep retrying": a host that registers with a row's join token ends with a
\* stream for that server, unless the token is replaced, the host's process ends
\* or the answer is lost, or a registration raced another write of the row.
ServerComesOnline ==
  \A s \in Servers, t \in 1 .. MaxJoins :
    (entry[s].join = t /\ \E h \in Hosts : proc[h].pc \in {"register", "wait"} /\ proc[h].join = t)
      ~> \/ \E h \in Hosts : online[h] = s
         \/ t \in spoiled \/ s \in raced
============================================================================
