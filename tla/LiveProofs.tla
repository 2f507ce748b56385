---------------------------- MODULE LiveProofs ----------------------------
(* Registration and the release poller, as MCLive puts them side by side,   *)
(* for any number of hosts, servers, tokens, releases, agents and failures. *)
(* Registration: types, that the server token a row names is never lost     *)
(* without a trace, and that a fresh join token stays good unless a         *)
(* registration had read its row before.  Releases: types, that the cache   *)
(* is in the order of the releases, and that a rollout has the share of the *)
(* agents that was asked for.                                               *)
EXTENDS MCLive, FiniteSetTheorems, TLAPS

----------------------------------------------------------------------------
(* Records.                                                                 *)

LEMMA Bounds ==
  /\ MaxJoins \in Nat /\ MaxServers \in Nat /\ MaxSetups \in Nat /\ MaxFailures \in Nat
  /\ NoServer \notin Servers
BY IdentityAssumption

\* A call that has found its row.
LEMMA SelectEffect ==
  ASSUME NEW c \in Calls, RegisterSelect(c)
  PROVE  \/ \E s \in Servers, d \in Calls :
               /\ Joinable(s, c.join) /\ UNCHANGED proc
               /\ calls' = (calls \ {c}) \cup {d} /\ d.pc = "update" /\ d.s = s
               /\ d.host = c.host /\ d.waited = c.waited /\ d.join = c.join
               /\ d.server = c.server
         \/ calls' = calls \ {c} /\ proc' = Refused(c)
<1>1. CASE \E s \in Servers :
             /\ Joinable(s, c.join)
             /\ calls' = (calls \ {c}) \cup {[c EXCEPT !.pc = "update", !.s = s]}
             /\ UNCHANGED proc
  <2> PICK s \in Servers : /\ Joinable(s, c.join)
                           /\ calls' = (calls \ {c}) \cup {[c EXCEPT !.pc = "update", !.s = s]}
                           /\ UNCHANGED proc
    BY <1>1
  <2> PICK d : d = [c EXCEPT !.pc = "update", !.s = s]
    OBVIOUS
  <2>1. /\ d \in Calls /\ d.pc = "update" /\ d.s = s
        /\ d.host = c.host /\ d.waited = c.waited /\ d.join = c.join /\ d.server = c.server
    BY DEF Calls
  <2>2. calls' = (calls \ {c}) \cup {d}
    OBVIOUS
  <2> QED
    BY <2>1, <2>2
<1>2. CASE calls' = calls \ {c} /\ proc' = Refused(c)
  BY <1>2
<1> QED
  BY <1>1, <1>2 DEF RegisterSelect

\* A call that has written its row.
LEMMA UpdateEffect ==
  ASSUME NEW c \in Calls, RegisterUpdate(c), issued' \in Issued
  PROVE  \E d \in Calls :
           /\ calls' = (calls \ {c}) \cup {d} /\ d.pc = "reply" /\ d.server = issued'
           /\ d.host = c.host /\ d.waited = c.waited /\ d.join = c.join /\ d.s = c.s
<1> PICK d : d = [c EXCEPT !.pc = "reply", !.server = issued']
  OBVIOUS
<1>1. /\ d \in Calls /\ d.pc = "reply" /\ d.server = issued'
      /\ d.host = c.host /\ d.waited = c.waited /\ d.join = c.join /\ d.s = c.s
  BY DEF Calls
<1>2. calls' = (calls \ {c}) \cup {d}
  BY DEF RegisterUpdate
<1> QED
  BY <1>1, <1>2

\* A call nobody waits for any more.
LEMMA OrphanedCall ==
  ASSUME NEW c \in Calls, NEW d, d = [c EXCEPT !.waited = FALSE]
  PROVE  /\ d \in Calls /\ ~d.waited
         /\ d.host = c.host /\ d.pc = c.pc /\ d.join = c.join /\ d.s = c.s
         /\ d.server = c.server
BY DEF Calls

LEMMA AbandonedCalls ==
  ASSUME calls \subseteq Calls, NEW h \in Hosts
  PROVE  /\ \A d \in Abandoned(h) : \E c \in calls :
              /\ d \in Calls /\ (d.waited => d = c /\ c.host # h)
              /\ d.host = c.host /\ d.pc = c.pc /\ d.join = c.join /\ d.s = c.s
              /\ d.server = c.server
         /\ \A c \in calls : \E d \in Abandoned(h) : d.server = c.server
<1> DEFINE Of(c) == IF c.host = h THEN [c EXCEPT !.waited = FALSE] ELSE c
<1>1. \A c \in calls :
        /\ Of(c) \in Calls /\ (Of(c).waited => Of(c) = c /\ c.host # h)
        /\ Of(c).host = c.host /\ Of(c).pc = c.pc /\ Of(c).join = c.join /\ Of(c).s = c.s
        /\ Of(c).server = c.server
  <2> TAKE c \in calls
  <2>1. c \in Calls
    OBVIOUS
  <2>2. CASE c.host = h
    BY <2>1, <2>2, OrphanedCall
  <2>3. CASE c.host # h
    BY <2>1, <2>3
  <2> QED
    BY <2>2, <2>3
<1>2. Abandoned(h) = {Of(c) : c \in calls}
  BY DEF Abandoned
<1> HIDE DEF Of
<1> QED
  BY <1>1, <1>2

\* A process that goes on to another state.
LEMMA MovedProc ==
  ASSUME proc \in [Hosts -> Procs], NEW h \in Hosts,
         NEW x \in {"off", "register", "wait", "save", "stream"},
         proc' = [proc EXCEPT ![h].pc = x]
  PROVE  /\ proc' \in [Hosts -> Procs] /\ proc'[h].pc = x
         /\ proc'[h].join = proc[h].join /\ proc'[h].server = proc[h].server
         /\ \A g \in Hosts \ {h} : proc'[g] = proc[g]
BY DEF Procs

----------------------------------------------------------------------------
(* Types, and the bounds that the two counters set.                         *)

TokensOK == joins \in Seq(Servers) /\ Now <= MaxJoins /\ issued \in Issued
ShownOK  == shown \subseteq 1 .. Now
EntryOK  ==
  /\ entry \in [Servers -> Entries]
  /\ \A s \in Servers :
       /\ entry[s].join = 0 \/ entry[s].server = 0
       /\ entry[s].join <= Now /\ entry[s].server <= issued
ConfOK ==
  /\ conf \in [Hosts -> Config]
  /\ \A h \in Hosts : conf[h].join <= Now /\ conf[h].server <= issued
\* A process registers with a join token and saves a server token.
ProcOK ==
  /\ proc \in [Hosts -> Procs]
  /\ \A h \in Hosts :
       /\ proc[h].join <= Now /\ proc[h].server <= issued
       /\ proc[h].pc \in {"register", "wait"} => proc[h].join # 0
       /\ proc[h].pc = "save" => proc[h].server # 0
OnlineOK == online \in [Hosts -> Servers \cup {NoServer}]
\* A call has a server token once it has written its row.
CallOK(c) ==
  /\ c.join \in 1 .. Now /\ c.server <= issued
  /\ c.pc = "reply" <=> c.server # 0
  /\ c.pc # "select" => c.s \in Servers
CallsOK == calls \subseteq Calls /\ \A c \in calls : CallOK(c)
CountOK == setups \in 0 .. MaxSetups /\ failures \in 0 .. MaxFailures
HistOK  == astray \subseteq 1 .. issued /\ spoiled \subseteq 1 .. Now /\ raced \subseteq Servers

Types ==
  /\ TokensOK /\ ShownOK /\ EntryOK /\ ConfOK /\ ProcOK /\ OnlineOK /\ CallsOK
  /\ CountOK /\ HistOK

\* Of the calls and the process of a host only one waits for the other.
Waiting ==
  /\ \A c \in calls : c.waited => proc[c.host].pc = "wait"
  /\ \A c, d \in calls : c.waited /\ d.waited /\ c.host = d.host => c = d

LEMMA Numbers ==
  ASSUME Types
  PROVE  /\ Now \in Nat /\ issued \in Nat
         /\ \A s \in Servers : entry[s].join \in Nat /\ entry[s].server \in Nat
         /\ \A h \in Hosts :
              /\ conf[h].join \in Nat /\ conf[h].server \in Nat
              /\ proc[h].join \in Nat /\ proc[h].server \in Nat
         /\ \A c \in calls : c.join \in Nat /\ c.server \in Nat
<1>1. Now \in Nat /\ issued \in Nat
  BY Bounds DEF Types, TokensOK, Now, Issued
<1>2. \A s \in Servers : entry[s].join \in Nat /\ entry[s].server \in Nat
  BY Bounds DEF Types, EntryOK, Entries, Joins, Issued
<1>3. \A h \in Hosts : conf[h].join \in Nat /\ conf[h].server \in Nat
  BY Bounds DEF Types, ConfOK, Config, Joins, Issued
<1>4. \A h \in Hosts : proc[h].join \in Nat /\ proc[h].server \in Nat
  BY Bounds DEF Types, ProcOK, Procs, Joins, Issued
<1>5. \A c \in calls : c.join \in Nat /\ c.server \in Nat
  BY Bounds DEF Types, CallsOK, Calls, Joins, Issued
<1> QED
  BY <1>1, <1>2, <1>3, <1>4, <1>5

\* What is bounded by a counter stays so while the counters only grow.
LEMMA LaterOK ==
  ASSUME Types, Now' \in Nat, issued' \in Nat, Now <= Now', issued <= issued'
  PROVE  /\ UNCHANGED shown => ShownOK'
         /\ UNCHANGED entry => EntryOK'
         /\ UNCHANGED conf => ConfOK'
         /\ UNCHANGED proc => ProcOK'
         /\ \A c \in calls : CallOK(c)'
         /\ UNCHANGED calls => CallsOK'
         /\ astray \subseteq 1 .. issued' /\ spoiled \subseteq 1 .. Now'
<1> USE Numbers
<1>1. UNCHANGED shown => ShownOK'
  BY DEF Types, ShownOK
<1>2. UNCHANGED entry => EntryOK'
  BY DEF Types, EntryOK
<1>3. UNCHANGED conf => ConfOK'
  BY DEF Types, ConfOK
<1>4. UNCHANGED proc => ProcOK'
  BY DEF Types, ProcOK
<1>5. \A c \in calls : CallOK(c)'
  BY DEF Types, CallsOK, CallOK
<1>6. UNCHANGED calls => CallsOK'
  BY <1>5 DEF Types, CallsOK, CallOK
<1>7. astray \subseteq 1 .. issued' /\ spoiled \subseteq 1 .. Now'
  BY DEF Types, HistOK
<1> QED
  BY <1>1, <1>2, <1>3, <1>4, <1>5, <1>6, <1>7

LEMMA RestOK ==
  ASSUME Types
  PROVE  /\ UNCHANGED joins /\ UNCHANGED issued => TokensOK'
         /\ UNCHANGED online => OnlineOK'
         /\ UNCHANGED setups /\ UNCHANGED failures => CountOK'
BY DEF Types, TokensOK, OnlineOK, CountOK, Now

LEMMA SameCounters ==
  ASSUME Types, UNCHANGED <<joins, issued>>
  PROVE  /\ Now' = Now /\ issued' = issued
         /\ Now' \in Nat /\ issued' \in Nat /\ Now <= Now' /\ issued <= issued'
BY Numbers DEF Now

LEMMA InitTypes == IdentityInit => Types /\ Waiting
<1> SUFFICES ASSUME IdentityInit PROVE Types /\ Waiting
  OBVIOUS
<1> USE Bounds
<1>1. Now = 0 /\ issued = 0
  BY DEF IdentityInit, Now
<1>2. 0 \in Joins /\ 0 \in Issued
  BY DEF Joins, Issued
<1>3. TokensOK /\ ShownOK /\ OnlineOK /\ CountOK /\ HistOK
  BY <1>1, <1>2 DEF IdentityInit, TokensOK, ShownOK, OnlineOK, CountOK, HistOK
<1>4. EntryOK
  <2>1. NoRow("unused") \in Entries /\ NoRow("unused").join = 0 /\ NoRow("unused").server = 0
    BY <1>2 DEF NoRow, Entries
  <2> QED
    BY <1>1, <2>1 DEF IdentityInit, EntryOK
<1>5. ConfOK /\ ProcOK
  <2>1. Blank \in Config /\ Blank.join = 0 /\ Blank.server = 0
    BY <1>2 DEF Blank, Config
  <2>2. Off \in Procs /\ Off.join = 0 /\ Off.server = 0 /\ Off.pc = "off"
    BY <1>2 DEF Off, Procs
  <2> QED
    BY <1>1, <2>1, <2>2 DEF IdentityInit, ConfOK, ProcOK
<1>6. CallsOK /\ Waiting
  BY DEF IdentityInit, CallsOK, Waiting
<1> QED
  BY <1>3, <1>4, <1>5, <1>6 DEF Types

----------------------------------------------------------------------------
(* Types, an action at a time.                                              *)

\* A new join token.
LEMMA Generated ==
  ASSUME Types, NEW s \in Servers, Generate(s)
  PROVE  /\ joins' \in Seq(Servers) /\ Now' = Now + 1 /\ Now' \in Nat /\ Now' <= MaxJoins
         /\ joins'[Now'] = s /\ \A t \in 1 .. Now : joins'[t] = joins[t]
BY Numbers, Bounds DEF Types, TokensOK, Generate, Now

LEMMA TokensOfOK ==
  ASSUME Types, NEW s \in Servers
  PROVE  TokensOf(s) \subseteq 1 .. Now
BY DEF Types, TokensOK, TokensOf, Now

LEMMA RacedOK ==
  ASSUME Types, NEW s \in Servers, NEW c
  PROVE  /\ RacedBy(s, c) \subseteq Servers /\ raced \subseteq RacedBy(s, c)
BY DEF Types, HistOK, RacedBy

LEMMA TablesTypes ==
  ASSUME Types, NEW s \in Servers,
         CreateServer(s) \/ ShowInstall(s) \/ RotateInstall(s) \/ DeleteServer(s)
  PROVE  Types'
<1> USE Numbers, Bounds
<1>1. CASE CreateServer(s)
  <2>1. Generate(s)
    BY <1>1 DEF CreateServer
  <2>2. /\ Now' \in Nat /\ issued' \in Nat /\ Now <= Now' /\ issued <= issued' /\ issued' = issued
        /\ 1 <= Now' /\ Now' <= MaxJoins
    BY <1>1, <2>1, Generated DEF CreateServer
  <2>3. TokensOK'
    BY <2>1, <2>2, Generated DEF Types, TokensOK
  <2>4. EntryOK'
    <3> DEFINE r == [state |-> "there", join |-> Now', server |-> 0]
    <3>1. r \in Entries /\ r.join = Now' /\ r.server = 0
      BY <2>2 DEF Entries, Joins, Issued
    <3>2. entry' = [entry EXCEPT ![s] = r]
      BY <1>1 DEF CreateServer
    <3> HIDE DEF r
    <3> QED
      BY <2>2, <3>1, <3>2 DEF Types, EntryOK
  <2>5. ShownOK'
    BY <1>1, <2>2 DEF CreateServer, Types, ShownOK
  <2>6. ConfOK' /\ ProcOK' /\ CallsOK'
    BY <1>1, <2>2, LaterOK DEF CreateServer, hosts
  <2>7. OnlineOK' /\ CountOK'
    BY <1>1, RestOK DEF CreateServer, hosts, identityHist
  <2>8. HistOK'
    BY <1>1, <2>2, LaterOK DEF CreateServer, identityHist, Types, HistOK
  <2> QED
    BY <2>3, <2>4, <2>5, <2>6, <2>7, <2>8 DEF Types
<1>2. CASE ShowInstall(s)
  <2>1. UNCHANGED <<tables, hosts, calls, identityHist>>
    BY <1>2 DEF ShowInstall
  <2>2. UNCHANGED <<entry, joins, issued, conf, proc, online, calls, setups, failures,
                    astray, spoiled, raced>>
    BY <2>1 DEF tables, hosts, identityHist
  <2>3. Now' = Now /\ issued' = issued /\ Now <= Now' /\ issued <= issued'
    BY <2>2, SameCounters
  <2>4. ShownOK'
    <3>1. entry[s].join \in Nat /\ entry[s].join # 0 /\ entry[s].join <= Now /\ Now \in Nat
      BY <1>2 DEF ShowInstall, Types, EntryOK
    <3>2. shown' = shown \cup {entry[s].join}
      BY <1>2 DEF ShowInstall
    <3>3. entry[s].join \in 1 .. Now
      BY <3>1
    <3> QED
      BY <2>3, <3>2, <3>3 DEF Types, ShownOK
  <2>5. HistOK'
    BY <2>2, <2>3 DEF Types, HistOK
  <2> QED
    BY <2>2, <2>3, <2>4, <2>5, LaterOK, RestOK DEF Types
<1>3. CASE RotateInstall(s)
  <2>1. Generate(s)
    BY <1>3 DEF RotateInstall
  <2>2. /\ Now' \in Nat /\ issued' \in Nat /\ Now <= Now' /\ issued <= issued' /\ issued' = issued
        /\ 1 <= Now' /\ Now' <= MaxJoins
    BY <1>3, <2>1, Generated DEF RotateInstall
  <2>3. TokensOK'
    BY <2>1, <2>2, Generated DEF Types, TokensOK
  <2>4. EntryOK'
    <3> DEFINE r == Rotated(entry[s], Now')
    <3>1. entry[s] \in Entries
      BY DEF Types, EntryOK
    <3>2. r \in Entries /\ r.join = Now' /\ r.server = 0
      <4>1. Now' \in Joins /\ 0 \in Issued
        BY <2>2 DEF Joins, Issued
      <4> QED
        BY <3>1, <4>1 DEF Entries, Rotated
    <3>3. entry' = [entry EXCEPT ![s] = r]
      BY <1>3 DEF RotateInstall
    <3> HIDE DEF r
    <3> QED
      BY <2>2, <3>2, <3>3 DEF Types, EntryOK
  <2>5. ShownOK'
    BY <1>3, <2>2 DEF RotateInstall, Types, ShownOK
  <2>6. ConfOK' /\ ProcOK' /\ CallsOK'
    BY <1>3, <2>2, LaterOK DEF RotateInstall, hosts
  <2>7. OnlineOK' /\ CountOK'
    BY <1>3, RestOK DEF RotateInstall, hosts
  <2>8. HistOK'
    <3>0. Now \in Nat /\ 1 .. Now \subseteq 1 .. Now'
      BY <2>2
    <3>1. spoiled' \subseteq 1 .. Now'
      BY <1>3, <3>0, TokensOfOK DEF RotateInstall, Types, HistOK
    <3> QED
      BY <1>3, <2>2, <3>1, LaterOK, RacedOK DEF RotateInstall, Types, HistOK
  <2> QED
    BY <2>3, <2>4, <2>5, <2>6, <2>7, <2>8 DEF Types
<1>4. CASE DeleteServer(s)
  <2>1. UNCHANGED <<joins, issued, shown, conf, proc, online, calls, setups, failures, astray>>
    BY <1>4 DEF DeleteServer, hosts
  <2>2. Now' = Now /\ issued' = issued /\ Now <= Now' /\ issued <= issued'
    BY <2>1, SameCounters
  <2>3. EntryOK'
    <3>1. NoRow("gone") \in Entries /\ NoRow("gone").join = 0 /\ NoRow("gone").server = 0
      BY DEF NoRow, Entries, Joins, Issued
    <3> QED
      BY <1>4, <2>2, <3>1 DEF DeleteServer, Types, EntryOK
  <2>4. HistOK'
    BY <1>4, <2>1, <2>2, TokensOfOK, RacedOK DEF DeleteServer, Types, HistOK
  <2> QED
    BY <2>1, <2>2, <2>3, <2>4, LaterOK, RestOK DEF Types
<1> QED
  BY <1>1, <1>2, <1>3, <1>4

\* A call in the set is replaced by another, or ends.
LEMMA ReplacedCallOK ==
  ASSUME Types, Now' \in Nat, issued' \in Nat, Now <= Now', issued <= issued',
         NEW c, NEW d, calls' = (calls \ {c}) \cup {d}, d \in Calls, CallOK(d)'
  PROVE  CallsOK'
<1>1. \A e \in calls : CallOK(e)'
  BY LaterOK
<1> QED
  BY <1>1 DEF Types, CallsOK

LEMMA EndedCallOK ==
  ASSUME Types, UNCHANGED <<joins, issued>>, NEW c, calls' = calls \ {c}
  PROVE  CallsOK'
<1>1. \A e \in calls : CallOK(e)'
  BY LaterOK, SameCounters
<1> QED
  BY <1>1 DEF Types, CallsOK

\* What becomes of the process when its call ends without an answer.
LEMMA RefusedOK ==
  ASSUME Types, Waiting, NEW c \in calls, proc' = Refused(c), UNCHANGED <<joins, issued>>
  PROVE  ProcOK'
<1>1. c.host \in Hosts /\ (c.waited => proc[c.host].pc = "wait")
  BY DEF Waiting, Types, CallsOK, Calls
<1>2. Now' = Now /\ issued' = issued
  BY SameCounters
<1>3. CASE c.waited
  <2>1. proc' = [proc EXCEPT ![c.host].pc = "register"]
    BY <1>3 DEF Refused
  <2>2. proc \in [Hosts -> Procs]
    BY DEF Types, ProcOK
  <2>3. /\ proc' \in [Hosts -> Procs] /\ proc'[c.host].pc = "register"
        /\ proc'[c.host].join = proc[c.host].join /\ proc'[c.host].server = proc[c.host].server
        /\ \A g \in Hosts \ {c.host} : proc'[g] = proc[g]
    BY <1>1, <2>1, <2>2, MovedProc
  <2> QED
    BY <1>1, <1>2, <1>3, <2>3 DEF Types, ProcOK
<1>4. CASE ~c.waited
  BY <1>2, <1>4 DEF Refused, Types, ProcOK
<1> QED
  BY <1>3, <1>4

LEMMA CallTypes ==
  ASSUME Types, Waiting, NEW c \in calls,
         RegisterSelect(c) \/ RegisterUpdate(c) \/ RegisterReply(c) \/ CallFails(c)
  PROVE  Types'
<1> USE Numbers, Bounds
<1>0. c \in Calls /\ CallOK(c) /\ c.host \in Hosts
  BY DEF Types, CallsOK, Calls
<1>1. CASE RegisterSelect(c)
  <2>1. UNCHANGED <<entry, joins, issued, shown, conf, online, setups, failures,
                    astray, spoiled, raced>>
    BY <1>1 DEF RegisterSelect, tables, identityHist
  <2>2. Now' = Now /\ issued' = issued /\ Now <= Now' /\ issued <= issued'
    BY <2>1, SameCounters
  <2>3. CallsOK' /\ ProcOK'
    <3>1. CASE \E s \in Servers, d \in Calls :
                 /\ UNCHANGED proc
                 /\ calls' = (calls \ {c}) \cup {d} /\ d.pc = "update" /\ d.s = s
                 /\ d.join = c.join /\ d.server = c.server
      <4> PICK s \in Servers, d \in Calls :
            /\ UNCHANGED proc
            /\ calls' = (calls \ {c}) \cup {d} /\ d.pc = "update" /\ d.s = s
            /\ d.join = c.join /\ d.server = c.server
        BY <3>1
      <4>1. c.pc = "select"
        BY <1>1 DEF RegisterSelect
      <4>2. CallOK(d)'
        BY <1>0, <2>2, <4>1 DEF CallOK
      <4> QED
        BY <2>1, <2>2, <4>2, ReplacedCallOK, LaterOK
    <3>2. CASE calls' = calls \ {c} /\ proc' = Refused(c)
      BY <2>1, <3>2, EndedCallOK, RefusedOK
    <3> QED
      BY <1>0, <1>1, <3>1, <3>2, SelectEffect
  <2>4. HistOK'
    BY <2>1, <2>2 DEF Types, HistOK
  <2> QED
    BY <2>1, <2>2, <2>3, <2>4, LaterOK, RestOK DEF Types
<1>2. CASE RegisterUpdate(c)
  <2>1. UNCHANGED <<joins, shown, conf, proc, online, setups, failures, astray, spoiled>>
    BY <1>2 DEF RegisterUpdate, hosts
  <2>2. c.pc = "update" /\ issued < MaxServers /\ issued' = issued + 1
    BY <1>2 DEF RegisterUpdate
  <2>3. Now' = Now /\ Now' \in Nat /\ issued' \in Nat /\ Now <= Now' /\ issued <= issued' /\ issued' \in Issued
    BY <2>1, <2>2 DEF Now, Issued
  <2>4. c.s \in Servers
    BY <1>0, <2>2 DEF CallOK
  <2>5. TokensOK'
    BY <2>1, <2>3 DEF Types, TokensOK
  <2>6. EntryOK'
    <3>1. CASE There(c.s)
      <4> DEFINE r == [entry[c.s] EXCEPT !.join = 0, !.server = issued']
      <4>1. entry[c.s] \in Entries
        BY <2>4 DEF Types, EntryOK
      <4>2. r \in Entries /\ r.join = 0 /\ r.server = issued'
        <5>1. 0 \in Joins
          BY DEF Joins
        <5> QED
          BY <2>3, <4>1, <5>1 DEF Entries
      <4>3. entry' = [entry EXCEPT ![c.s] = r]
        BY <1>2, <2>4, <3>1 DEF RegisterUpdate, Types, EntryOK
      <4> HIDE DEF r
      <4> QED
        BY <2>2, <2>3, <2>4, <4>2, <4>3 DEF Types, EntryOK
    <3>2. CASE ~There(c.s)
      BY <1>2, <2>3, <3>2, LaterOK DEF RegisterUpdate
    <3> QED
      BY <3>1, <3>2
  <2>7. CallsOK'
    <3> PICK d \in Calls :
          /\ calls' = (calls \ {c}) \cup {d} /\ d.pc = "reply" /\ d.server = issued'
          /\ d.join = c.join /\ d.s = c.s
      BY <1>0, <1>2, <2>3, UpdateEffect
    <3>1. CallOK(d)'
      BY <1>0, <2>2, <2>3, <2>4, issued \in Nat DEF CallOK
    <3> QED
      BY <2>3, <3>1, ReplacedCallOK
  <2>8. HistOK'
    BY <1>2, <2>1, <2>3, <2>4, LaterOK, RacedOK DEF RegisterUpdate, Types, HistOK
  <2> QED
    BY <2>1, <2>3, <2>5, <2>6, <2>7, <2>8, LaterOK, RestOK DEF Types
<1>3. CASE RegisterReply(c)
  <2>1. UNCHANGED <<entry, joins, issued, shown, conf, online, setups, failures, raced>>
    BY <1>3 DEF RegisterReply, tables
  <2>2. Now' = Now /\ issued' = issued /\ Now <= Now' /\ issued <= issued'
    BY <2>1, SameCounters
  <2>3. c.pc = "reply" /\ calls' = calls \ {c} /\ c.server \in 1 .. issued /\ c.join \in 1 .. Now
    BY <1>0, <1>3 DEF RegisterReply, CallOK
  <2>4. CallsOK'
    BY <2>1, <2>3, EndedCallOK
  <2>5. ProcOK' /\ HistOK'
    <3>1. CASE c.waited
      <4> DEFINE p == [proc[c.host] EXCEPT !.pc = "save", !.server = c.server]
      <4>1. proc[c.host] \in Procs /\ c.server \in Issued
        BY <1>0 DEF Types, ProcOK, Calls
      <4>2. p \in Procs /\ p.pc = "save" /\ p.server = c.server /\ p.join = proc[c.host].join
        BY <4>1 DEF Procs
      <4>3. proc' = [proc EXCEPT ![c.host] = p]
        BY <1>0, <1>3, <3>1 DEF RegisterReply, Types, ProcOK
      <4>4. UNCHANGED <<astray, spoiled>>
        BY <1>3, <3>1 DEF RegisterReply
      <4> HIDE DEF p
      <4>5. ProcOK'
        BY <1>0, <2>2, <2>3, <4>2, <4>3 DEF Types, ProcOK
      <4>6. HistOK'
        BY <2>1, <2>2, <4>4 DEF Types, HistOK
      <4> QED
        BY <4>5, <4>6
    <3>2. CASE ~c.waited
      BY <1>3, <2>1, <2>2, <2>3, <3>2, LaterOK DEF RegisterReply, Lose, Types, HistOK
    <3> QED
      BY <3>1, <3>2
  <2> QED
    BY <2>1, <2>2, <2>4, <2>5, LaterOK, RestOK DEF Types
<1>4. CASE CallFails(c)
  <2>1. UNCHANGED <<entry, joins, issued, shown, conf, online, setups, raced>>
    BY <1>4 DEF CallFails, tables
  <2>2. Now' = Now /\ issued' = issued /\ Now <= Now' /\ issued <= issued'
    BY <2>1, SameCounters
  <2>3. CallsOK'
    BY <1>4, <2>1, EndedCallOK DEF CallFails
  <2>4. ProcOK'
    BY <1>4, <2>1, RefusedOK DEF CallFails
  <2>5. CountOK'
    BY <1>4, <2>1 DEF CallFails, Types, CountOK
  <2>6. HistOK'
    <3>1. c.server # 0 => c.server \in 1 .. issued
      BY <1>0 DEF CallOK
    <3> QED
      BY <1>0, <1>4, <2>1, <2>2, <3>1 DEF CallFails, Lose, CallOK, Types, HistOK
  <2> QED
    BY <2>1, <2>2, <2>3, <2>4, <2>5, <2>6, LaterOK, RestOK DEF Types
<1> QED
  BY <1>1, <1>2, <1>3, <1>4

LEMMA AbandonedOK ==
  ASSUME Types, NEW h \in Hosts, calls' = Abandoned(h), UNCHANGED <<joins, issued>>
  PROVE  CallsOK'
<1>1. Now' = Now /\ issued' = issued
  BY SameCounters
<1>2. \A d \in calls' : d \in Calls /\ CallOK(d)
  BY AbandonedCalls DEF Types, CallsOK, CallOK
<1> QED
  BY <1>1, <1>2 DEF CallsOK, CallOK

LEMMA TokensForOK ==
  ASSUME Types, NEW t
  PROVE  TokensFor(t) \subseteq 1 .. Now
BY TokensOfOK DEF TokensFor

LEMMA HostTypes ==
  ASSUME Types, NEW h \in Hosts,
         \/ \E t \in shown : Configure(h, t)
         \/ Start(h) \/ Call(h) \/ Timeout(h) \/ Save(h) \/ Stop(h)
         \/ OpenStream(h) \/ StreamEnds(h)
  PROVE  Types'
<1>0. Now \in Nat /\ issued \in Nat /\ Now <= MaxJoins /\ 0 \in Joins /\ 0 \in Issued
  BY Numbers, Bounds DEF Types, TokensOK, Joins, Issued
<1>a. /\ conf[h] \in Config /\ proc[h] \in Procs
      /\ conf[h].join <= Now /\ conf[h].server <= issued
      /\ proc[h].join <= Now /\ proc[h].server <= issued
      /\ proc[h].pc \in {"register", "wait"} => proc[h].join # 0
      /\ proc[h].pc = "save" => proc[h].server # 0
      /\ conf[h].join \in Nat /\ conf[h].server \in Nat
      /\ proc[h].join \in Nat /\ proc[h].server \in Nat
  BY Numbers DEF Types, ConfOK, ProcOK
<1>b. proc \in [Hosts -> Procs]
  BY DEF Types, ProcOK
<1>d. /\ NonNull(conf[h].server) \subseteq 1 .. issued
      /\ NonNull(proc[h].join) \subseteq 1 .. Now
      /\ proc[h].pc = "save" => proc[h].server \in 1 .. issued
  BY <1>0, <1>a DEF NonNull
<1>1. ASSUME NEW t \in shown, Configure(h, t) PROVE Types'
  <2>1. UNCHANGED <<entry, joins, issued, shown, proc, online, calls, failures, spoiled, raced>>
    BY <1>1 DEF Configure, tables
  <2>2. Now' = Now /\ issued' = issued /\ Now <= Now' /\ issued <= issued'
    BY <2>1, SameCounters
  <2>3. ConfOK'
    <3> DEFINE r == [join |-> t, server |-> 0]
    <3>1. t \in 1 .. Now /\ t \in Joins
      BY <1>0, Bounds DEF Types, ShownOK, Joins
    <3>2. r \in Config /\ r.join = t /\ r.server = 0
      BY <1>0, <3>1 DEF Config
    <3>3. conf' = [conf EXCEPT ![h] = r]
      BY <1>1 DEF Configure
    <3> HIDE DEF r
    <3> QED
      BY <1>0, <2>2, <3>1, <3>2, <3>3 DEF Types, ConfOK
  <2>4. CountOK'
    BY <1>1, <2>1, Bounds DEF Configure, Types, CountOK
  <2>5. HistOK'
    BY <1>1, <2>1, <2>2, <1>d DEF Configure, Types, HistOK
  <2> QED
    BY <1>0, <2>1, <2>2, <2>3, <2>4, <2>5, LaterOK, RestOK DEF Types
<1>2. CASE Start(h)
  <2>1. UNCHANGED <<entry, joins, issued, shown, conf, online, calls, setups, failures,
                    astray, spoiled, raced>>
    BY <1>2 DEF Start, tables, identityHist
  <2>2. Now' = Now /\ issued' = issued /\ Now <= Now' /\ issued <= issued'
    BY <2>1, SameCounters
  <2>3. ProcOK'
    <3> DEFINE p == [pc |-> IF conf[h].server = 0 THEN "register" ELSE "stream",
                     join |-> conf[h].join, server |-> conf[h].server]
    <3>1. /\ p \in Procs /\ p.join = conf[h].join /\ p.server = conf[h].server
          /\ p.pc = IF conf[h].server = 0 THEN "register" ELSE "stream"
      BY <1>a DEF Config, Procs
    <3>2. proc' = [proc EXCEPT ![h] = p]
      BY <1>2 DEF Start
    <3>3. conf[h].server = 0 => conf[h].join # 0
      BY <1>2, <1>a DEF Start, Config, Blank
    <3> HIDE DEF p
    <3> QED
      BY <1>0, <1>a, <2>2, <3>1, <3>2, <3>3 DEF Types, ProcOK
  <2> QED
    BY <1>0, <2>1, <2>2, <2>3, LaterOK, RestOK DEF Types, HistOK
<1>3. CASE Call(h)
  <2>1. UNCHANGED <<entry, joins, issued, shown, conf, online, setups, failures,
                    astray, spoiled, raced>>
    BY <1>3 DEF Call, tables, identityHist
  <2>2. Now' = Now /\ issued' = issued /\ Now <= Now' /\ issued <= issued'
    BY <2>1, SameCounters
  <2>3. ProcOK'
    <3>1. proc' = [proc EXCEPT ![h].pc = "wait"] /\ proc[h].pc = "register"
      BY <1>3 DEF Call
    <3>2. /\ proc' \in [Hosts -> Procs] /\ proc'[h].pc = "wait"
          /\ proc'[h].join = proc[h].join /\ proc'[h].server = proc[h].server
          /\ \A g \in Hosts \ {h} : proc'[g] = proc[g]
      BY <1>b, <3>1, MovedProc
    <3> QED
      BY <1>0, <1>a, <2>2, <3>1, <3>2 DEF Types, ProcOK
  <2>4. CallsOK'
    <3> PICK d : d = [host |-> h, waited |-> TRUE, pc |-> "select",
                      join |-> proc[h].join, s |-> NoServer, server |-> 0]
      OBVIOUS
    <3>1. d \in Calls /\ d.pc = "select" /\ d.join = proc[h].join /\ d.server = 0
      BY <1>0, <1>a DEF Calls, Procs
    <3>2. calls' = calls \cup {d} /\ proc[h].pc = "register"
      BY <1>3 DEF Call
    <3>3. CallOK(d)'
      BY <1>0, <1>a, <2>2, <3>1, <3>2 DEF CallOK
    <3>4. \A e \in calls : CallOK(e)'
      BY <1>0, <2>2, LaterOK
    <3> QED
      BY <3>1, <3>2, <3>3, <3>4 DEF Types, CallsOK
  <2> QED
    BY <1>0, <2>1, <2>2, <2>3, <2>4, LaterOK, RestOK DEF Types, HistOK
<1>4. CASE Timeout(h)
  <2>1. UNCHANGED <<entry, joins, issued, shown, conf, online, setups, astray, spoiled, raced>>
    BY <1>4 DEF Timeout, tables
  <2>2. Now' = Now /\ issued' = issued /\ Now <= Now' /\ issued <= issued'
    BY <2>1, SameCounters
  <2>3. ProcOK'
    <3>1. proc' = [proc EXCEPT ![h].pc = "register"] /\ proc[h].pc = "wait"
      BY <1>4 DEF Timeout
    <3>2. /\ proc' \in [Hosts -> Procs] /\ proc'[h].pc = "register"
          /\ proc'[h].join = proc[h].join /\ proc'[h].server = proc[h].server
          /\ \A g \in Hosts \ {h} : proc'[g] = proc[g]
      BY <1>b, <3>1, MovedProc
    <3> QED
      BY <1>0, <1>a, <2>2, <3>1, <3>2 DEF Types, ProcOK
  <2>4. CallsOK'
    BY <1>4, <2>1, AbandonedOK DEF Timeout
  <2>5. CountOK'
    BY <1>4, <2>1, Bounds DEF Timeout, Types, CountOK
  <2> QED
    BY <1>0, <2>1, <2>2, <2>3, <2>4, <2>5, LaterOK, RestOK DEF Types, HistOK
<1>5. CASE Save(h)
  <2>1. UNCHANGED <<entry, joins, issued, shown, online, calls, setups, failures, spoiled, raced>>
    BY <1>5 DEF Save, tables
  <2>2. Now' = Now /\ issued' = issued /\ Now <= Now' /\ issued <= issued'
    BY <2>1, SameCounters
  <2>3. ConfOK'
    <3> DEFINE r == Saved(proc[h])
    <3>1. r \in Config /\ r.join = 0 /\ r.server = proc[h].server
      BY <1>0, <1>a DEF Saved, Config, Procs
    <3>2. conf' = [conf EXCEPT ![h] = r]
      BY <1>5 DEF Save
    <3> HIDE DEF r
    <3> QED
      BY <1>0, <1>a, <2>2, <3>1, <3>2 DEF Types, ConfOK
  <2>4. ProcOK'
    <3> DEFINE p == [proc[h] EXCEPT !.pc = "stream", !.join = 0]
    <3>1. p \in Procs /\ p.pc = "stream" /\ p.join = 0 /\ p.server = proc[h].server
      BY <1>0, <1>a DEF Procs
    <3>2. proc' = [proc EXCEPT ![h] = p]
      BY <1>5, <1>b DEF Save
    <3> HIDE DEF p
    <3> QED
      BY <1>0, <1>a, <2>2, <3>1, <3>2 DEF Types, ProcOK
  <2>5. HistOK'
    BY <1>0, <1>5, <1>a, <2>1, <2>2 DEF Save, NonNull, Types, HistOK
  <2> QED
    BY <1>0, <2>1, <2>2, <2>3, <2>4, <2>5, LaterOK, RestOK DEF Types
<1>6. CASE Stop(h)
  <2>1. UNCHANGED <<entry, joins, issued, shown, conf, setups, raced>>
    BY <1>6 DEF Stop, tables
  <2>2. Now' = Now /\ issued' = issued /\ Now <= Now' /\ issued <= issued'
    BY <2>1, SameCounters
  <2>3. ProcOK'
    <3>1. Off \in Procs /\ Off.join = 0 /\ Off.server = 0 /\ Off.pc = "off"
      BY <1>0 DEF Off, Procs
    <3>2. proc' = [proc EXCEPT ![h] = Off]
      BY <1>6 DEF Stop
    <3> QED
      BY <1>0, <2>2, <3>1, <3>2 DEF Types, ProcOK
  <2>4. CallsOK' /\ OnlineOK' /\ CountOK'
    BY <1>6, <2>1, AbandonedOK, Bounds DEF Stop, Types, OnlineOK, CountOK
  <2>5. astray' \subseteq 1 .. issued
    BY <1>6, <1>d DEF Stop, Types, HistOK
  <2>6. spoiled' \subseteq 1 .. Now
    BY <1>6, <1>d, TokensForOK DEF Stop, Types, HistOK
  <2> QED
    BY <1>0, <2>1, <2>2, <2>3, <2>4, <2>5, <2>6, LaterOK, RestOK DEF Types, HistOK
<1>7. CASE OpenStream(h) \/ StreamEnds(h)
  <2>1. UNCHANGED <<entry, joins, issued, shown, conf, proc, calls, setups, failures,
                    astray, spoiled, raced>>
    BY <1>7 DEF OpenStream, StreamEnds, tables, identityHist
  <2>2. Now' = Now /\ issued' = issued /\ Now <= Now' /\ issued <= issued'
    BY <2>1, SameCounters
  <2>3. OnlineOK'
    BY <1>7 DEF OpenStream, StreamEnds, Types, OnlineOK
  <2> QED
    BY <1>0, <2>1, <2>2, <2>3, LaterOK, RestOK DEF Types, HistOK
<1> QED
  BY <1>1, <1>2, <1>3, <1>4, <1>5, <1>6, <1>7

----------------------------------------------------------------------------
(* One call at most is waited for.                                          *)

LEMMA CallWaiting ==
  ASSUME Types, Waiting, NEW c \in calls,
         RegisterSelect(c) \/ RegisterUpdate(c) \/ RegisterReply(c) \/ CallFails(c), Types'
  PROVE  Waiting'
<1>0. c \in Calls /\ c.host \in Hosts /\ \A d \in calls : d.host \in Hosts
  BY DEF Types, CallsOK, Calls
<1>a. proc \in [Hosts -> Procs]
  BY DEF Types, ProcOK
\* A call that ends takes its claim on the process with it.
<1>1. ASSUME calls' = calls \ {c}, NEW p, proc' = IF c.waited THEN [proc EXCEPT ![c.host] = p] ELSE proc
      PROVE  Waiting'
  BY <1>0, <1>1, <1>a DEF Waiting
<1>2. ASSUME NEW d, calls' = (calls \ {c}) \cup {d}, d.host = c.host, d.waited = c.waited,
             UNCHANGED proc
      PROVE  Waiting'
  BY <1>2 DEF Waiting
<1>3. ASSUME calls' = calls \ {c}, proc' = Refused(c) PROVE Waiting'
  <2>1. Refused(c) = IF c.waited THEN [proc EXCEPT ![c.host] = [proc[c.host] EXCEPT !.pc = "register"]]
                     ELSE proc
    BY <1>0, <1>a DEF Refused
  <2> QED
    BY <1>1, <1>3, <2>1
<1>4. CASE RegisterSelect(c)
  BY <1>0, <1>2, <1>3, <1>4, SelectEffect
<1>5. CASE RegisterUpdate(c)
  <2>1. issued' \in Issued /\ UNCHANGED proc
    BY <1>5 DEF RegisterUpdate, hosts, Types, TokensOK
  <2> QED
    BY <1>0, <1>2, <1>5, <2>1, UpdateEffect
<1>6. CASE RegisterReply(c)
  <2>1. proc' = IF c.waited
                THEN [proc EXCEPT ![c.host] =
                        [proc[c.host] EXCEPT !.pc = "save", !.server = c.server]]
                ELSE proc
    BY <1>0, <1>6, <1>a DEF RegisterReply
  <2> QED
    BY <1>1, <1>6, <2>1 DEF RegisterReply
<1>7. CASE CallFails(c)
  BY <1>3, <1>7 DEF CallFails
<1> QED
  BY <1>4, <1>5, <1>6, <1>7

LEMMA HostWaiting ==
  ASSUME Types, Waiting, NEW h \in Hosts,
         \/ \E t \in shown : Configure(h, t)
         \/ Start(h) \/ Call(h) \/ Timeout(h) \/ Save(h) \/ Stop(h)
         \/ OpenStream(h) \/ StreamEnds(h)
  PROVE  Waiting'
<1>a. proc \in [Hosts -> Procs] /\ \A d \in calls : d \in Calls /\ d.host \in Hosts
  BY DEF Types, ProcOK, CallsOK, Calls
<1>1. CASE UNCHANGED <<proc, calls>>
  BY <1>1 DEF Waiting
\* A process that is not waiting has no call that is waited for.
<1>2. ASSUME proc[h].pc # "wait", UNCHANGED calls, NEW p, proc' = [proc EXCEPT ![h] = p]
      PROVE  Waiting'
  BY <1>2, <1>a DEF Waiting
<1>3. CASE Call(h)
  <2> DEFINE d == [host |-> h, waited |-> TRUE, pc |-> "select",
                   join |-> proc[h].join, s |-> NoServer, server |-> 0]
  <2>1. d.host = h /\ calls' = calls \cup {d} /\ proc[h].pc = "register"
    BY <1>3 DEF Call
  <2>2. proc'[h].pc = "wait" /\ \A g \in Hosts \ {h} : proc'[g] = proc[g]
    BY <1>3, <1>a, MovedProc DEF Call
  <2> HIDE DEF d
  <2>3. \A c \in calls : c.waited => c.host # h /\ proc'[c.host] = proc[c.host]
    BY <1>a, <2>1, <2>2 DEF Waiting
  <2> QED
    BY <1>a, <2>1, <2>2, <2>3 DEF Waiting
<1>4. ASSUME calls' = Abandoned(h), NEW p, proc' = [proc EXCEPT ![h] = p] PROVE Waiting'
  <2>1. \A d \in calls' : d.waited => d \in calls /\ d.host # h
    BY <1>4, <1>a, AbandonedCalls
  <2>2. \A g \in Hosts \ {h} : proc'[g] = proc[g]
    BY <1>4, <1>a
  <2> QED
    BY <1>a, <2>1, <2>2 DEF Waiting
<1>5. CASE \E t \in shown : Configure(h, t)
  BY <1>1, <1>5 DEF Configure
<1>6. CASE Start(h)
  BY <1>2, <1>6 DEF Start
<1>7. CASE Timeout(h)
  <2>1. proc' = [proc EXCEPT ![h] = [proc[h] EXCEPT !.pc = "register"]]
    BY <1>7, <1>a DEF Timeout
  <2> QED
    BY <1>4, <1>7, <2>1 DEF Timeout
<1>8. CASE Save(h)
  <2>1. proc' = [proc EXCEPT ![h] = [proc[h] EXCEPT !.pc = "stream", !.join = 0]]
    BY <1>8, <1>a DEF Save
  <2> QED
    BY <1>2, <1>8, <2>1 DEF Save
<1>9. CASE Stop(h)
  BY <1>4, <1>9 DEF Stop
<1>10. CASE OpenStream(h) \/ StreamEnds(h)
  BY <1>1, <1>10 DEF OpenStream, StreamEnds
<1> QED
  BY <1>3, <1>5, <1>6, <1>7, <1>8, <1>9, <1>10

LEMMA NextTypes == Types /\ Waiting /\ [IdentityNext]_identityVars => Types' /\ Waiting'
<1> SUFFICES ASSUME Types, Waiting, [IdentityNext]_identityVars PROVE Types' /\ Waiting'
  OBVIOUS
<1>1. ASSUME NEW s \in Servers,
             CreateServer(s) \/ ShowInstall(s) \/ RotateInstall(s) \/ DeleteServer(s)
      PROVE  Types' /\ Waiting'
  <2>1. UNCHANGED <<proc, calls>>
    BY <1>1 DEF CreateServer, ShowInstall, RotateInstall, DeleteServer, hosts
  <2> QED
    BY <1>1, <2>1, TablesTypes DEF Waiting
<1>2. ASSUME NEW c \in calls,
             RegisterSelect(c) \/ RegisterUpdate(c) \/ RegisterReply(c) \/ CallFails(c)
      PROVE  Types' /\ Waiting'
  BY <1>2, CallTypes, CallWaiting
<1>3. ASSUME NEW h \in Hosts,
             \/ \E t \in shown : Configure(h, t)
             \/ Start(h) \/ Call(h) \/ Timeout(h) \/ Save(h) \/ Stop(h)
             \/ OpenStream(h) \/ StreamEnds(h)
      PROVE  Types' /\ Waiting'
  BY <1>3, HostTypes, HostWaiting
<1>4. CASE UNCHANGED identityVars
  <2>1. /\ UNCHANGED <<entry, joins, issued, shown, conf, proc, online, calls>>
        /\ UNCHANGED <<setups, failures, astray, spoiled, raced>>
    BY <1>4 DEF identityVars, tables, hosts, identityHist
  <2> QED
    BY <2>1, SameCounters, LaterOK, RestOK DEF Types, HistOK, Waiting
<1> QED
  BY <1>1, <1>2, <1>3, <1>4 DEF IdentityNext

\* The type invariant of Identity: every variable keeps its type, and a row of
\* servers never has a join token and a server token at once.
THEOREM IdentityTypeCorrect == IdentitySpec => []IdentityTypeOK
<1>1. Types => IdentityTypeOK
  BY DEF Types, TokensOK, ShownOK, EntryOK, ConfOK, ProcOK, OnlineOK, CallsOK, CountOK, HistOK,
         IdentityTypeOK
<1> QED
  BY <1>1, InitTypes, NextTypes, PTL DEF IdentitySpec

----------------------------------------------------------------------------
(* Where a server token is.                                                 *)

Held(t) ==
  \/ t \in astray
  \/ \E h \in Hosts : conf[h].server = t \/ (proc[h].pc = "save" /\ proc[h].server = t)
  \/ \E c \in calls : c.server = t

\* A server token that a call carries is taken by the process that waits for it
\* or goes astray with the call.
LEMMA CallHolds ==
  ASSUME Types, Waiting, NEW c \in calls,
         RegisterSelect(c) \/ RegisterUpdate(c) \/ RegisterReply(c) \/ CallFails(c),
         NEW t \in Nat \ {0}, Held(t)
  PROVE  Held(t)'
<1>0. /\ c \in Calls /\ CallOK(c) /\ c.host \in Hosts /\ proc \in [Hosts -> Procs]
      /\ c.waited => proc[c.host].pc = "wait"
  BY DEF Types, CallsOK, Calls, ProcOK, Waiting
\* The host of a call that ends is not saving.
<1>1. ASSUME proc' = Refused(c), NEW h \in Hosts, proc[h].pc = "save"
      PROVE  proc'[h] = proc[h]
  BY <1>0, <1>1 DEF Refused
<1>2. CASE RegisterSelect(c)
  <2>1. UNCHANGED <<astray, conf>> /\ c.server = 0
    BY <1>0, <1>2 DEF RegisterSelect, identityHist, CallOK
  <2>2. \A h \in Hosts : proc[h].pc = "save" => proc'[h] = proc[h]
    BY <1>1, <1>2 DEF RegisterSelect
  <2>3. \A e \in calls : e.server = t => e \in calls'
    BY <1>2, <2>1 DEF RegisterSelect
  <2> QED
    BY <2>1, <2>2, <2>3 DEF Held
<1>3. CASE RegisterUpdate(c)
  <2>1. UNCHANGED <<astray, conf, proc>> /\ c.server = 0
    BY <1>0, <1>3 DEF RegisterUpdate, hosts, CallOK
  <2>2. \A e \in calls : e.server = t => e \in calls'
    BY <1>3, <2>1 DEF RegisterUpdate
  <2> QED
    BY <2>1, <2>2 DEF Held
<1>4. CASE RegisterReply(c)
  <2>1. UNCHANGED conf /\ calls' = calls \ {c}
    BY <1>4 DEF RegisterReply
  <2>2. CASE c.waited
    <3>1. proc'[c.host].pc = "save" /\ proc'[c.host].server = c.server
      BY <1>0, <1>4, <2>2 DEF RegisterReply, Procs
    <3>2. \A h \in Hosts : proc[h].pc = "save" => proc'[h] = proc[h]
      BY <1>0, <1>4, <2>2 DEF RegisterReply
    <3>3. UNCHANGED astray
      BY <1>4, <2>2 DEF RegisterReply
    <3> QED
      BY <1>0, <2>1, <3>1, <3>2, <3>3 DEF Held
  <2>3. CASE ~c.waited
    <3>1. astray' = astray \cup {c.server} /\ UNCHANGED proc
      BY <1>4, <2>3 DEF RegisterReply, Lose
    <3> QED
      BY <2>1, <3>1 DEF Held
  <2> QED
    BY <2>2, <2>3
<1>5. CASE CallFails(c)
  <2>1. UNCHANGED conf /\ calls' = calls \ {c} /\ proc' = Refused(c)
    BY <1>5 DEF CallFails
  <2>2. \A h \in Hosts : proc[h].pc = "save" => proc'[h] = proc[h]
    BY <1>1, <2>1
  <2>3. astray \subseteq astray' /\ (c.server = 0 \/ c.server \in astray')
    BY <1>5 DEF CallFails, Lose
  <2> QED
    BY <2>1, <2>2, <2>3 DEF Held
<1> QED
  BY <1>2, <1>3, <1>4, <1>5

\* A host keeps the server tokens it has, or they go astray.
LEMMA HostHolds ==
  ASSUME Types, NEW h \in Hosts,
         \/ \E t \in shown : Configure(h, t)
         \/ Start(h) \/ Call(h) \/ Timeout(h) \/ Save(h) \/ Stop(h)
         \/ OpenStream(h) \/ StreamEnds(h),
         NEW t \in Nat \ {0}, Held(t)
  PROVE  Held(t)'
<1>0. proc \in [Hosts -> Procs] /\ conf \in [Hosts -> Config] /\ calls \subseteq Calls
  BY DEF Types, ProcOK, ConfOK, CallsOK
\* The process was doing something else than saving.
<1>1. ASSUME UNCHANGED <<conf, astray>>, proc[h].pc # "save",
             \A g \in Hosts \ {h} : proc'[g] = proc[g],
             \A c \in calls : \E d \in calls' : d.server = c.server
      PROVE  Held(t)'
  BY <1>1 DEF Held
<1>2. CASE \E j \in shown : Configure(h, j)
  <2>1. /\ UNCHANGED <<proc, calls>> /\ astray' = astray \cup NonNull(conf[h].server)
        /\ \A g \in Hosts \ {h} : conf'[g] = conf[g]
    BY <1>0, <1>2 DEF Configure
  <2>2. conf[h].server = t => t \in astray'
    BY <2>1 DEF NonNull
  <2> QED
    BY <2>1, <2>2 DEF Held
<1>3. CASE Start(h)
  <2>1. /\ UNCHANGED <<conf, astray, calls>> /\ proc[h].pc # "save"
        /\ \A g \in Hosts \ {h} : proc'[g] = proc[g]
    BY <1>0, <1>3 DEF Start, identityHist
  <2> QED
    BY <1>1, <2>1
<1>4. CASE Call(h)
  <2>1. /\ UNCHANGED <<conf, astray>> /\ calls \subseteq calls' /\ proc[h].pc # "save"
        /\ \A g \in Hosts \ {h} : proc'[g] = proc[g]
    BY <1>0, <1>4 DEF Call, identityHist
  <2> QED
    BY <1>1, <2>1
<1>5. CASE Timeout(h)
  <2>1. /\ UNCHANGED <<conf, astray>> /\ calls' = Abandoned(h) /\ proc[h].pc # "save"
        /\ \A g \in Hosts \ {h} : proc'[g] = proc[g]
    BY <1>0, <1>5 DEF Timeout
  <2>2. \A c \in calls : \E d \in calls' : d.server = c.server
    BY <1>0, <2>1, AbandonedCalls
  <2> QED
    BY <1>1, <2>1, <2>2
<1>6. CASE Save(h)
  <2>1. /\ UNCHANGED calls /\ conf'[h] = Saved(proc[h])
        /\ astray' = astray \cup (NonNull(conf[h].server) \ {proc[h].server})
        /\ \A g \in Hosts \ {h} : proc'[g] = proc[g] /\ conf'[g] = conf[g]
    BY <1>0, <1>6 DEF Save
  <2>2. conf'[h].server = proc[h].server
    BY <2>1 DEF Saved
  <2>3. conf[h].server = t => t \in astray' \/ conf'[h].server = t
    BY <2>1, <2>2 DEF NonNull
  <2> QED
    BY <2>1, <2>2, <2>3 DEF Held
<1>7. CASE Stop(h)
  <2>1. /\ UNCHANGED conf /\ calls' = Abandoned(h)
        /\ astray' = IF proc[h].pc = "save" THEN astray \cup {proc[h].server} ELSE astray
        /\ \A g \in Hosts \ {h} : proc'[g] = proc[g]
    BY <1>0, <1>7 DEF Stop
  <2>2. \A c \in calls : \E d \in calls' : d.server = c.server
    BY <1>0, <2>1, AbandonedCalls
  <2> QED
    BY <2>1, <2>2 DEF Held
<1>8. CASE OpenStream(h) \/ StreamEnds(h)
  <2>1. UNCHANGED <<conf, proc, calls, astray>>
    BY <1>8 DEF OpenStream, StreamEnds, identityHist
  <2> QED
    BY <2>1 DEF Held
<1> QED
  BY <1>2, <1>3, <1>4, <1>5, <1>6, <1>7, <1>8

LEMMA HeldIs == TokenIsHeld <=> \A s \in Servers : entry[s].server # 0 => Held(entry[s].server)
BY DEF TokenIsHeld, Held

LEMMA NextHeld ==
  Types /\ Waiting /\ TokenIsHeld /\ [IdentityNext]_identityVars => TokenIsHeld'
<1> SUFFICES ASSUME Types, Waiting, TokenIsHeld, [IdentityNext]_identityVars PROVE TokenIsHeld'
  OBVIOUS
<1>0. /\ entry \in [Servers -> Entries] /\ \A s \in Servers : entry[s].server \in Nat
      /\ \A s \in Servers : entry[s].server # 0 => Held(entry[s].server)
  BY HeldIs, Numbers DEF Types, EntryOK
\* It is enough that a row names no new token, and that none is dropped.
<1>1. ASSUME \A s \in Servers : entry'[s].server = 0 \/ entry'[s].server = entry[s].server,
             \A t \in Nat \ {0} : Held(t) => Held(t)'
      PROVE  TokenIsHeld'
  <2> SUFFICES ASSUME NEW s \in Servers, NEW t, t = entry'[s].server, t # 0 PROVE Held(t)'
    BY DEF TokenIsHeld, Held
  <2> QED
    BY <1>0, <1>1
<1>2. ASSUME NEW s \in Servers,
             CreateServer(s) \/ ShowInstall(s) \/ RotateInstall(s) \/ DeleteServer(s)
      PROVE  TokenIsHeld'
  <2>1. UNCHANGED <<conf, proc, calls, astray>>
    BY <1>2 DEF CreateServer, ShowInstall, RotateInstall, DeleteServer, hosts, identityHist
  <2>2. \A t \in Nat \ {0} : Held(t) => Held(t)'
    BY <2>1 DEF Held
  <2>3. \A r \in Servers : entry'[r].server = 0 \/ entry'[r].server = entry[r].server
    <3>1. CASE CreateServer(s)
      BY <1>0, <3>1 DEF CreateServer
    <3>2. CASE ShowInstall(s)
      BY <3>2 DEF ShowInstall, tables
    <3>3. CASE RotateInstall(s)
      <4>1. Rotated(entry[s], Now').server = 0
        BY <1>0 DEF Rotated, Entries
      <4> QED
        BY <1>0, <3>3, <4>1 DEF RotateInstall
    <3>4. CASE DeleteServer(s)
      BY <1>0, <3>4 DEF DeleteServer, NoRow
    <3> QED
      BY <1>2, <3>1, <3>2, <3>3, <3>4
  <2> QED
    BY <1>1, <2>2, <2>3
<1>3. ASSUME NEW c \in calls,
             RegisterSelect(c) \/ RegisterUpdate(c) \/ RegisterReply(c) \/ CallFails(c)
      PROVE  TokenIsHeld'
  <2>1. \A t \in Nat \ {0} : Held(t) => Held(t)'
    BY <1>3, CallHolds
  <2>2. CASE UNCHANGED entry
    BY <1>1, <2>1, <2>2
  <2>3. CASE RegisterUpdate(c)
    <3>0. c \in Calls /\ CallOK(c) /\ c.pc = "update" /\ c.s \in Servers
      BY <2>3 DEF RegisterUpdate, Types, CallsOK, CallOK
    <3>1. issued' \in Issued
      BY <2>3, Bounds DEF RegisterUpdate, Types, TokensOK, Issued
    <3>2. ASSUME NEW t, t = issued' PROVE Held(t)'
      <4>1. \E d \in calls' : d.server = t
        BY <2>3, <3>0, <3>1, <3>2, UpdateEffect
      <4> QED
        BY <4>1 DEF Held
    <3>3. \A s \in Servers : entry'[s].server \in {entry[s].server, issued'}
      <4>1. CASE There(c.s)
        <5>1. entry[c.s] \in Entries
          BY <1>0, <3>0
        <5>2. [entry[c.s] EXCEPT !.join = 0, !.server = issued'].server = issued'
          BY <5>1 DEF Entries
        <5>3. entry' = [entry EXCEPT ![c.s] = [entry[c.s] EXCEPT !.join = 0, !.server = issued']]
          BY <1>0, <2>3, <3>0, <4>1 DEF RegisterUpdate
        <5> QED
          BY <1>0, <3>0, <5>2, <5>3
      <4>2. CASE ~There(c.s)
        BY <2>3, <4>2 DEF RegisterUpdate
      <4> QED
        BY <4>1, <4>2
    <3> SUFFICES ASSUME NEW s \in Servers, NEW t, t = entry'[s].server, t # 0 PROVE Held(t)'
      BY DEF TokenIsHeld, Held
    <3> QED
      BY <1>0, <2>1, <3>2, <3>3
  <2> QED
    BY <1>3, <2>2, <2>3 DEF RegisterSelect, RegisterReply, CallFails, tables
<1>4. ASSUME NEW h \in Hosts,
             \/ \E t \in shown : Configure(h, t)
             \/ Start(h) \/ Call(h) \/ Timeout(h) \/ Save(h) \/ Stop(h)
             \/ OpenStream(h) \/ StreamEnds(h)
      PROVE  TokenIsHeld'
  <2>1. \A t \in Nat \ {0} : Held(t) => Held(t)'
    BY <1>4, HostHolds
  <2>2. UNCHANGED entry
    BY <1>4 DEF Configure, Start, Call, Timeout, Save, Stop, OpenStream, StreamEnds, tables
  <2> QED
    BY <1>1, <2>1, <2>2
<1>5. CASE UNCHANGED identityVars
  <2>1. UNCHANGED <<entry, conf, proc, calls, astray>>
    BY <1>5 DEF identityVars, tables, hosts, identityHist
  <2> QED
    BY <2>1 DEF TokenIsHeld
<1> QED
  BY <1>2, <1>3, <1>4, <1>5 DEF IdentityNext

\* No registration is half done: the server token a row names is in a host's
\* configuration or on its way there, unless a failure or a new configuration
\* has taken it from the host, whatever overlaps: retries of a call that timed
\* out, processes that restart, tokens that are rotated.
THEOREM TokensAreHeld == IdentitySpec => []TokenIsHeld
<1>1. IdentityInit => TokenIsHeld
  BY DEF IdentityInit, TokenIsHeld, NoRow
<1> QED
  BY <1>1, InitTypes, NextTypes, NextHeld, PTL DEF IdentitySpec

----------------------------------------------------------------------------
(* Fresh join tokens.                                                       *)

\* A row has the join token that was generated for it, and only while it is there.
RowsTruly ==
  \A s \in Servers :
    /\ entry[s].state # "there" => entry[s].join = 0
    /\ entry[s].join # 0 => joins[entry[s].join] = s

\* A call that has read a row finds it as it was, or the row is among the raced.
SelectedTruly ==
  \A c \in calls :
    c.pc = "update" =>
      /\ entry[c.s].state # "unused"
      /\ c.s \notin raced => entry[c.s].join = c.join

Truly == RowsTruly /\ SelectedTruly

\* Why a row may lose the join token t.
Excused(t) == t \in spoiled' \/ \E c \in calls : c.join = t /\ c.pc = "update" /\ c \notin calls'

LEMMA RacedByOthers ==
  ASSUME NEW s \in Servers, NEW C, NEW c \in calls, c \notin C, c.pc = "update", c.s = s
  PROVE  s \in RacedBy(s, C)
<1>1. c \in Registering(s) \ C
  BY DEF Registering
<1> QED
  BY <1>1 DEF RacedBy

\* The admin endpoints.
LEMMA TablesTruly ==
  ASSUME Types, Truly, NEW s \in Servers,
         CreateServer(s) \/ ShowInstall(s) \/ RotateInstall(s) \/ DeleteServer(s)
  PROVE  /\ Truly'
         /\ \A r \in Servers : entry[r].join # 0 =>
              entry'[r].join = entry[r].join \/ entry[r].join \in spoiled'
<1>0. /\ entry \in [Servers -> Entries] /\ Now \in Nat
      /\ \A r \in Servers : entry[r].join \in Nat /\ entry[r].join <= Now
      /\ \A c \in calls : c.pc = "update" => c.s \in Servers
      /\ DOMAIN joins = 1 .. Now
  BY Numbers DEF Types, EntryOK, CallsOK, CallOK, TokensOK, Now
\* Row s is written, and whoever has read it races.
<1>1. ASSUME NEW e, entry' = [entry EXCEPT ![s] = e], e.state # "unused",
             e.join # 0 => e.state = "there" /\ joins'[e.join] = s,
             \A r \in Servers : entry[r].join # 0 => joins'[entry[r].join] = joins[entry[r].join],
             UNCHANGED calls, raced \subseteq raced',
             \A c \in calls : c.pc = "update" /\ c.s = s => s \in raced',
             entry[s].join # 0 => entry[s].join \in spoiled'
      PROVE  /\ Truly'
             /\ \A r \in Servers : entry[r].join # 0 =>
                  entry'[r].join = entry[r].join \/ entry[r].join \in spoiled'
  <2>1. entry'[s] = e /\ \A r \in Servers \ {s} : entry'[r] = entry[r]
    BY <1>0, <1>1
  <2>2. RowsTruly'
    BY <1>1, <2>1 DEF Truly, RowsTruly
  <2>3. SelectedTruly'
    BY <1>0, <1>1, <2>1 DEF Truly, SelectedTruly
  <2> QED
    BY <1>1, <2>1, <2>2, <2>3 DEF Truly
<1>2. Generate(s) => /\ joins'[Now'] = s /\ Now' # 0
                     /\ \A r \in Servers : entry[r].join # 0 =>
                          joins'[entry[r].join] = joins[entry[r].join]
  BY <1>0, Generated
<1>3. entry[s].join # 0 => entry[s].join \in TokensOf(s)
  BY <1>0 DEF TokensOf, Truly, RowsTruly
<1>4. \A c \in calls : c.pc = "update" /\ c.s = s => s \in RacedBy(s, {})
  BY RacedByOthers
<1>5. CASE CreateServer(s)
  <2> DEFINE e == [state |-> "there", join |-> Now', server |-> 0]
  <2>1. e.state = "there" /\ e.join = Now' /\ entry' = [entry EXCEPT ![s] = e]
    BY <1>5 DEF CreateServer
  <2> HIDE DEF e
  <2>2. UNCHANGED <<calls, raced>> /\ Generate(s) /\ entry[s].state = "unused"
    BY <1>5 DEF CreateServer, identityHist
  <2>3. entry[s].join = 0 /\ \A c \in calls : c.pc = "update" => c.s # s
    BY <2>2 DEF Truly, RowsTruly, SelectedTruly
  <2> QED
    BY <1>1, <1>2, <2>1, <2>2, <2>3
<1>6. CASE ShowInstall(s)
  <2>1. UNCHANGED <<entry, joins, calls, raced>>
    BY <1>6 DEF ShowInstall, tables, identityHist
  <2> QED
    BY <2>1 DEF Truly, RowsTruly, SelectedTruly
<1>7. CASE RotateInstall(s)
  <2> DEFINE e == Rotated(entry[s], Now')
  <2>1. e.state = "there" /\ e.join = Now'
    BY <1>0, <1>7 DEF RotateInstall, Rotated, There, Entries
  <2>2. entry' = [entry EXCEPT ![s] = e]
    BY <1>7 DEF RotateInstall
  <2> HIDE DEF e
  <2>3. /\ UNCHANGED calls /\ Generate(s) /\ raced' = RacedBy(s, {})
        /\ spoiled' = spoiled \cup TokensOf(s)
    BY <1>7 DEF RotateInstall
  <2>4. raced \subseteq raced'
    BY <2>3, RacedOK
  <2> QED
    BY <1>1, <1>2, <1>3, <1>4, <2>1, <2>2, <2>3, <2>4
<1>8. CASE DeleteServer(s)
  <2>1. NoRow("gone").state = "gone" /\ NoRow("gone").join = 0
    BY DEF NoRow
  <2>2. /\ UNCHANGED <<calls, joins>> /\ raced' = RacedBy(s, {})
        /\ spoiled' = spoiled \cup TokensOf(s) /\ entry' = [entry EXCEPT ![s] = NoRow("gone")]
    BY <1>8 DEF DeleteServer
  <2>3. raced \subseteq raced'
    BY <2>2, RacedOK
  <2> QED
    BY <1>1, <1>3, <1>4, <2>1, <2>2, <2>3
<1> QED
  BY <1>5, <1>6, <1>7, <1>8

\* The UPDATE by id writes a row it has found as it read it, or one it races for.
LEMMA UpdateTruly ==
  ASSUME Types, Truly, NEW c \in calls, RegisterUpdate(c)
  PROVE  /\ Truly'
         /\ \A s \in Servers \ raced : entry[s].join # 0 =>
              entry'[s].join = entry[s].join \/ Excused(entry[s].join)
<1>0. /\ c \in Calls /\ c.pc = "update" /\ c.s \in Servers
      /\ entry \in [Servers -> Entries]
      /\ \A d \in calls : d.pc = "update" => d.s \in Servers
  BY DEF RegisterUpdate, Types, CallsOK, CallOK, EntryOK
<1>1. UNCHANGED <<joins, spoiled>> /\ raced' = RacedBy(c.s, {c}) /\ issued' \in Issued
  BY Bounds DEF RegisterUpdate, Types, TokensOK, Issued
<1>2. /\ \A s \in Servers \ {c.s} : entry'[s] = entry[s]
      /\ entry'[c.s].state = entry[c.s].state
      /\ entry'[c.s].join = 0
  <2>1. CASE There(c.s)
    <3> DEFINE e == [entry[c.s] EXCEPT !.join = 0, !.server = issued']
    <3>1. e.join = 0 /\ e.state = entry[c.s].state
      BY <1>0 DEF Entries
    <3>2. entry' = [entry EXCEPT ![c.s] = e]
      BY <1>0, <2>1 DEF RegisterUpdate
    <3> HIDE DEF e
    <3> QED
      BY <1>0, <3>1, <3>2
  <2>2. CASE ~There(c.s)
    BY <1>0, <2>2 DEF RegisterUpdate, There, Truly, RowsTruly
  <2> QED
    BY <2>1, <2>2
<1>3. PICK d \in Calls : calls' = (calls \ {c}) \cup {d} /\ d.pc = "reply"
  BY <1>0, <1>1, UpdateEffect
<1>4. RowsTruly'
  BY <1>1, <1>2 DEF Truly, RowsTruly
<1>5. SelectedTruly'
  <2> SUFFICES ASSUME NEW e \in calls', e.pc = "update"
               PROVE  /\ entry'[e.s].state # "unused"
                      /\ e.s \notin raced' => entry'[e.s].join = e.join
    BY DEF SelectedTruly
  <2>1. e \in calls /\ e # c /\ e.s \in Servers
    BY <1>0, <1>3
  <2>2. entry[e.s].state # "unused" /\ (e.s \notin raced => entry[e.s].join = e.join)
    BY <2>1 DEF Truly, SelectedTruly
  <2>3. raced \subseteq raced'
    BY <1>0, <1>1, RacedOK
  <2>4. CASE e.s = c.s
    <3>1. e.s \in raced'
      BY <1>0, <1>1, <2>1, <2>4, RacedByOthers
    <3> QED
      BY <1>2, <2>2, <2>4, <3>1
  <2>5. CASE e.s # c.s
    BY <1>2, <2>1, <2>2, <2>3, <2>5
  <2> QED
    BY <2>4, <2>5
<1>6. \A s \in Servers \ raced : entry[s].join # 0 =>
        entry'[s].join = entry[s].join \/ Excused(entry[s].join)
  <2> SUFFICES ASSUME NEW s \in Servers \ raced, s = c.s PROVE Excused(entry[s].join)
    BY <1>2
  <2>1. entry[s].join = c.join
    BY <1>0 DEF Truly, SelectedTruly
  <2>2. c \notin calls'
    BY <1>0, <1>3
  <2> QED
    BY <1>0, <2>1, <2>2 DEF Excused
<1> QED
  BY <1>4, <1>5, <1>6 DEF Truly

LEMMA NextTruly ==
  ASSUME Types, Truly, [IdentityNext]_identityVars
  PROVE  /\ Truly'
         /\ \A s \in Servers \ raced : entry[s].join # 0 =>
              entry'[s].join = entry[s].join \/ Excused(entry[s].join)
\* A step that writes no row, and adds no call that has read one.
<1>1. ASSUME UNCHANGED <<entry, joins, raced>>,
             \A d \in calls' : d.pc = "update" =>
               \E c \in calls : c.pc = "update" /\ c.s = d.s /\ c.join = d.join
      PROVE  Truly'
  BY <1>1 DEF Truly, RowsTruly, SelectedTruly
<1>2. ASSUME NEW s \in Servers,
             CreateServer(s) \/ ShowInstall(s) \/ RotateInstall(s) \/ DeleteServer(s)
      PROVE  /\ Truly'
             /\ \A r \in Servers \ raced : entry[r].join # 0 =>
                  entry'[r].join = entry[r].join \/ Excused(entry[r].join)
  BY <1>2, TablesTruly DEF Excused
<1>3. ASSUME NEW c \in calls, RegisterSelect(c) PROVE Truly' /\ UNCHANGED entry
  <2>1. UNCHANGED <<entry, joins, raced>> /\ c \in Calls
    BY <1>3 DEF RegisterSelect, tables, identityHist, Types, CallsOK
  <2>2. CASE calls' = calls \ {c}
    BY <1>1, <2>1, <2>2
  <2>3. CASE \E s \in Servers, d \in Calls :
               /\ Joinable(s, c.join) /\ calls' = (calls \ {c}) \cup {d}
               /\ d.pc = "update" /\ d.s = s /\ d.join = c.join
    <3> PICK s \in Servers, d \in Calls :
          /\ Joinable(s, c.join) /\ calls' = (calls \ {c}) \cup {d}
          /\ d.pc = "update" /\ d.s = s /\ d.join = c.join
      BY <2>3
    <3>1. entry[d.s].state = "there" /\ entry[d.s].join = d.join
      BY DEF Joinable, There
    <3>2. RowsTruly'
      BY <2>1 DEF Truly, RowsTruly
    <3>3. SelectedTruly'
      BY <2>1, <3>1 DEF Truly, SelectedTruly
    <3> QED
      BY <2>1, <3>2, <3>3 DEF Truly
  <2> QED
    BY <1>3, <2>1, <2>2, <2>3, SelectEffect
<1>4. ASSUME NEW c \in calls, RegisterUpdate(c)
      PROVE  /\ Truly'
             /\ \A s \in Servers \ raced : entry[s].join # 0 =>
                  entry'[s].join = entry[s].join \/ Excused(entry[s].join)
  BY <1>4, UpdateTruly
<1>5. ASSUME NEW c \in calls, RegisterReply(c) \/ CallFails(c) PROVE Truly' /\ UNCHANGED entry
  <2>1. UNCHANGED <<entry, joins, raced>> /\ calls' = calls \ {c}
    BY <1>5 DEF RegisterReply, CallFails, tables
  <2> QED
    BY <1>1, <2>1
<1>6. ASSUME NEW h \in Hosts,
             \/ \E t \in shown : Configure(h, t)
             \/ Start(h) \/ Call(h) \/ Timeout(h) \/ Save(h) \/ Stop(h)
             \/ OpenStream(h) \/ StreamEnds(h)
      PROVE  Truly' /\ UNCHANGED entry
  <2>1. UNCHANGED <<entry, joins, raced>>
    BY <1>6 DEF Configure, Start, Call, Timeout, Save, Stop, OpenStream, StreamEnds, tables,
                identityHist
  <2>2. CASE calls' = Abandoned(h)
    <3>1. calls \subseteq Calls
      BY DEF Types, CallsOK
    <3> QED
      BY <1>1, <2>1, <2>2, <3>1, AbandonedCalls
  <2>3. CASE Call(h)
    <3>1. \A d \in calls' : d.pc = "update" => d \in calls
      BY <2>3 DEF Call
    <3> QED
      BY <1>1, <2>1, <3>1
  <2>4. CASE UNCHANGED calls
    BY <1>1, <2>1, <2>4
  <2> QED
    BY <1>6, <2>2, <2>3, <2>4
       DEF Configure, Start, Timeout, Save, Stop, OpenStream, StreamEnds
<1>7. CASE UNCHANGED identityVars
  <2>1. UNCHANGED <<entry, joins, raced, calls>>
    BY <1>7 DEF identityVars, tables, identityHist
  <2> QED
    BY <1>1, <2>1
<1> QED
  BY <1>2, <1>3, <1>4, <1>5, <1>6, <1>7 DEF IdentityNext

\* "Clearing server_token ... is what makes the registration RPC accept the next
\* agent": a join token an admin was given works until a host registers with it or
\* an admin replaces it, unless a Register had read the row before.
THEOREM FreshJoinsStay == IdentitySpec => FreshJoinStaysUnraced
<1>1. IdentityInit => Truly
  BY DEF IdentityInit, Truly, RowsTruly, SelectedTruly, NoRow
<1>2. Types /\ Truly /\ [IdentityNext]_identityVars =>
        [\A s \in Servers \ raced : LET t == entry[s].join IN
           t # 0 =>
             \/ entry'[s].join = t
             \/ t \in spoiled'
             \/ \E c \in calls : c.join = t /\ c.pc = "update" /\ c \notin calls']_identityVars
  BY NextTruly DEF Excused
<1>3. Types /\ Truly /\ [IdentityNext]_identityVars => Truly'
  BY NextTruly
<1> QED
  BY <1>1, <1>2, <1>3, InitTypes, NextTypes, PTL DEF IdentitySpec, FreshJoinStaysUnraced

----------------------------------------------------------------------------
(* Releases: the cache.                                                    *)

\* GitHub's list is in the order of the tags.
GithubOK ==
  /\ github \in Seq(Published) /\ Len(github) <= MaxReleases
  /\ \A i \in DOMAIN github : github[i].tag = Len(github) + 1 - i

NewestFirst(list) == \A i, j \in DOMAIN list : i < j => list[i].tag > list[j].tag

Poll == [pc : {"rest", "list stable", "list all", "sums"}, left : SUBSET Published, got : Seq(Cached)]

\* What a poll has yet to read is older than what it has read; the two together are
\* no more than were listed.
PollOK ==
  /\ poll \in Poll
  /\ IsFiniteSet(poll.left)
  /\ Cardinality(poll.left) + Len(poll.got) <= RecentLimit
  /\ \A r, q \in poll.left : r.tag = q.tag => r = q
  /\ NewestFirst(poll.got)
  /\ \A r \in poll.left, i \in DOMAIN poll.got : r.tag < poll.got[i].tag
  /\ IF poll.pc = "sums" THEN poll.left # {} \/ poll.got # <<>>
                         ELSE poll.left = {} /\ poll.got = <<>>

CacheOK ==
  /\ recent \in Seq(Cached) /\ Len(recent) <= RecentLimit /\ NewestFirst(recent)
  /\ IF recent = <<>> THEN latest = None ELSE latest = Head(recent)

----------------------------------------------------------------------------
(* Releases: the rollouts.                                                 *)

Sampled == [percent : Percents, from : SUBSET Fleet, built : SUBSET Targets, rows : SUBSET Fleet]

\* A request under way is the only one, and what it has chosen is the share.
RequestOK ==
  request # NoRequest =>
    /\ Len(rollouts) < MaxRollouts
    /\ request.pc \in {"eligible", "insert"}
    /\ request.release \in Cached /\ request.percent \in Percents
    /\ request.pc = "insert" =>
         /\ request.from \subseteq Fleet /\ request.from # {}
         /\ request.chosen \subseteq request.from
         /\ Cardinality(request.chosen) = Take(Cardinality(request.from), request.percent)
RolloutsOK == rollouts \in Seq(Sampled) /\ Len(rollouts) <= MaxRollouts
CountsOK == stable \in BOOLEAN /\ edits \in 0 .. MaxEdits /\ outages \in 0 .. MaxOutages

ReleasesInv ==
  GithubOK /\ PollOK /\ CacheOK /\ RequestOK /\ RolloutsOK /\ CountsOK /\ SampleIsTheShare

LEMMA ReleasesBounds ==
  /\ NoTarget \notin Targets /\ TargetOf \in [Fleet -> Targets \cup {NoTarget}]
  /\ IsFiniteSet(Fleet) /\ Percents \subseteq 1 .. 100 /\ Asks \subseteq SUBSET Fleet
  /\ RecentLimit \in Nat /\ RecentLimit > 0
  /\ MaxReleases \in Nat /\ MaxRollouts \in Nat /\ MaxEdits \in Nat /\ MaxOutages \in Nat
BY ReleasesAssumption

\* The share of n agents, in whole agents: the least number that is a share, at least
\* one and at most all.
LEMMA TakeFacts ==
  ASSUME NEW n \in Nat, n > 0, NEW percent \in 1 .. 100
  PROVE  /\ Take(n, percent) \in 1 .. n
         /\ 100 * (Take(n, percent) - 1) < n * percent
         /\ n * percent <= 100 * Take(n, percent)
<1> DEFINE P == n * percent
           c == (P + 99) \div 100
<1>1. P \in Nat /\ P > 0 /\ P <= 100 * n
  OBVIOUS
<1> HIDE DEF P
<1>2. c \in Nat /\ 100 * c <= P + 99 /\ P + 99 < 100 * c + 100
  BY <1>1
<1> HIDE DEF c
<1>3. 1 <= c /\ c <= n /\ 100 * (c - 1) < P /\ P <= 100 * c
  BY <1>1, <1>2
<1>4. Max({1, c}) = c
  <2>1. c \in {1, c} /\ \A y \in {1, c} : c >= y
    BY <1>2, <1>3
  <2>2. Max({1, c}) \in {1, c} /\ \A y \in {1, c} : Max({1, c}) >= y
    BY <2>1 DEF Max
  <2> QED
    BY <1>2, <1>3, <2>2
<1>5. Min({c, n}) = c
  <2>1. c \in {c, n} /\ \A y \in {c, n} : c <= y
    BY <1>2, <1>3
  <2>2. Min({c, n}) \in {c, n} /\ \A y \in {c, n} : Min({c, n}) <= y
    BY <2>1 DEF Min
  <2> QED
    BY <1>2, <1>3, <2>2
<1>6. Take(n, percent) = c
  BY <1>4, <1>5 DEF Take, P, c
<1> QED
  BY <1>2, <1>3, <1>6 DEF P

LEMMA HashedFacts ==
  ASSUME NEW r \in Published, NEW known \in BOOLEAN
  PROVE  Hashed(r, known) \in Cached /\ Hashed(r, known).tag = r.tag
<1> DEFINE assets == [t \in r.files |-> known]
<1>1. r.files \in SUBSET Targets /\ r.tag \in Tags /\ r.pre \in BOOLEAN
  BY DEF Published
<1>2. assets \in [r.files -> BOOLEAN]
  OBVIOUS
<1>3. assets \in Assets
  BY <1>1, <1>2 DEF Assets
<1>4. Hashed(r, known) = [tag |-> r.tag, pre |-> r.pre, assets |-> assets]
  BY DEF Hashed
<1> HIDE DEF assets
<1> QED
  BY <1>1, <1>3, <1>4 DEF Cached

\* What a poll has to read, when the list has come.
LEMMA ListedFacts ==
  ASSUME GithubOK, NEW onlyStable \in BOOLEAN
  PROVE  LET listed == Admitted(ToSet(Listing), onlyStable) IN
         /\ listed \subseteq Published /\ IsFiniteSet(listed) /\ Cardinality(listed) <= RecentLimit
         /\ \A r, q \in listed : r.tag = q.tag => r = q
<1> DEFINE n == Min({RecentLimit, Len(github)})
           S == ToSet(Listing)
<1>1. github \in Seq(Published) /\ Len(github) \in Nat /\ RecentLimit \in Nat
  BY ReleasesBounds DEF GithubOK
<1>2. n \in 0 .. Len(github) /\ n <= RecentLimit
  BY <1>1 DEF Min
<1> HIDE DEF n
<1>3. Listing = SubSeq(github, 1, n)
  BY DEF Listing, n
<1>4. /\ Listing \in Seq(Published) /\ Len(Listing) = n
      /\ \A i \in 1 .. n : Listing[i] = github[i]
  BY <1>1, <1>2, <1>3
<1>5. S = {github[i] : i \in 1 .. n}
  BY <1>4 DEF ToSet
<1>6. 1 .. n \subseteq DOMAIN github
  BY <1>1, <1>2
<1>7. S \subseteq Published
  BY <1>1, <1>5, <1>6
<1>8. \A r, q \in S : r.tag = q.tag => r = q
  <2> SUFFICES ASSUME NEW i \in 1 .. n, NEW j \in 1 .. n, github[i].tag = github[j].tag
               PROVE  i = j
    BY <1>5
  <2>1. github[i].tag = Len(github) + 1 - i /\ github[j].tag = Len(github) + 1 - j
    BY <1>6 DEF GithubOK
  <2>2. i \in Int /\ j \in Int /\ Len(github) \in Int
    BY <1>1, <1>2
  <2>3. Len(github) + 1 - i = Len(github) + 1 - j
    BY <2>1
  <2> QED
    BY <2>2, <2>3
<1>9. IsFiniteSet(S) /\ Cardinality(S) <= n
  <2>1. IsFiniteSet(1 .. n) /\ Cardinality(1 .. n) = n
    BY <1>2, FS_Interval
  <2> DEFINE f == [i \in 1 .. n |-> github[i]]
  <2>2. f \in Surjection(1 .. n, S)
    BY <1>5 DEF Surjection
  <2> HIDE DEF f
  <2> QED
    BY <2>1, <2>2, FS_Surjection
<1> HIDE DEF S
<1> DEFINE L == Admitted(S, onlyStable)
<1>10. L \subseteq S
  BY DEF Admitted
<1> HIDE DEF L
<1>11. IsFiniteSet(L) /\ Cardinality(L) <= Cardinality(S)
  BY <1>9, <1>10, FS_Subset
<1>12. Cardinality(L) <= RecentLimit
  <2>1. Cardinality(L) \in Nat /\ Cardinality(S) \in Nat
    BY <1>9, <1>11, FS_CardinalityType
  <2> QED
    BY <1>1, <1>2, <1>9, <1>11, <2>1
<1>13. /\ L \subseteq Published /\ IsFiniteSet(L) /\ Cardinality(L) <= RecentLimit
       /\ \A r, q \in L : r.tag = q.tag => r = q
  BY <1>7, <1>8, <1>10, <1>11, <1>12
<1> QED
  BY <1>13 DEF L, S

LEMMA InitReleasesInv == ReleasesInit => ReleasesInv
<1> SUFFICES ASSUME ReleasesInit PROVE ReleasesInv
  OBVIOUS
<1>1. /\ \A S : <<>> \in Seq(S)
      /\ Len(<<>>) = 0 /\ DOMAIN <<>> = {}
  OBVIOUS
<1>2. GithubOK
  BY <1>1, ReleasesBounds DEF ReleasesInit, GithubOK
<1>3. PollOK
  <2>1. poll.pc = "rest" /\ poll.left = {} /\ poll.got = <<>>
    BY DEF ReleasesInit, Between
  <2>2. poll \in Poll
    <3>1. <<>> \in Seq(Cached) /\ {} \in SUBSET Published
      OBVIOUS
    <3> QED
      BY <3>1 DEF ReleasesInit, Between, Poll
  <2>3. IsFiniteSet(poll.left) /\ Cardinality(poll.left) = 0
    BY <2>1, FS_EmptySet
  <2>4. Cardinality(poll.left) + Len(poll.got) <= RecentLimit
    BY <1>1, <2>1, <2>3, ReleasesBounds
  <2> QED
    BY <1>1, <2>1, <2>2, <2>3, <2>4 DEF PollOK, NewestFirst
<1>4. CacheOK
  BY <1>1, ReleasesBounds DEF ReleasesInit, CacheOK, NewestFirst
<1>5. RequestOK /\ RolloutsOK /\ CountsOK
  BY <1>1, ReleasesBounds DEF ReleasesInit, RequestOK, RolloutsOK, CountsOK
<1>6. SampleIsTheShare
  BY <1>1 DEF ReleasesInit, SampleIsTheShare
<1> QED
  BY <1>2, <1>3, <1>4, <1>5, <1>6 DEF ReleasesInv

LEMMA NextGithub ==
  ASSUME ReleasesInv, [ReleasesNext]_releasesVars
  PROVE  GithubOK'
<1>1. /\ github \in Seq(Published) /\ Len(github) \in Nat /\ Len(github) <= MaxReleases
      /\ MaxReleases \in Nat /\ DOMAIN github = 1 .. Len(github)
      /\ \A i \in DOMAIN github : github[i].tag = Len(github) + 1 - i
  BY ReleasesBounds DEF ReleasesInv, GithubOK
<1>2. CASE PublishRelease
  <2> DEFINE n == Len(github)
  <2>1. PICK pre \in BOOLEAN :
          github' = <<[tag |-> n + 1, pre |-> pre, files |-> {}, sums |-> FALSE]>> \o github
    BY <1>2 DEF PublishRelease
  <2> DEFINE r == [tag |-> n + 1, pre |-> pre, files |-> {}, sums |-> FALSE]
  <2>2. n < MaxReleases
    BY <1>2 DEF PublishRelease
  <2>3. r \in Published /\ r.tag = n + 1
    <3>1. n + 1 \in Tags /\ {} \in SUBSET Targets
      BY <1>1, <2>2 DEF Tags
    <3> QED
      BY <3>1 DEF Published
  <2>4. github' = <<r>> \o github
    BY <2>1
  <2> HIDE DEF r
  <2>5. /\ github' \in Seq(Published) /\ Len(github') = n + 1 /\ DOMAIN github' = 1 .. n + 1
        /\ github'[1] = r /\ \A i \in 2 .. n + 1 : github'[i] = github[i - 1]
    BY <1>1, <2>3, <2>4
  <2>6. \A i \in 1 .. n + 1 : github'[i].tag = n + 2 - i
    <3> SUFFICES ASSUME NEW i \in 1 .. n + 1 PROVE github'[i].tag = n + 2 - i
      OBVIOUS
    <3>1. CASE i = 1
      BY <1>1, <2>3, <2>5, <3>1
    <3>2. CASE i # 1
      <4>1. i \in 2 .. n + 1 /\ i - 1 \in 1 .. n
        BY <1>1, <3>2
      <4>2. github'[i] = github[i - 1] /\ github[i - 1].tag = n + 1 - (i - 1)
        BY <1>1, <2>5, <4>1
      <4> QED
        BY <1>1, <4>1, <4>2
    <3> QED
      BY <3>1, <3>2
  <2>7. Len(github') + 1 = n + 2 /\ Len(github') <= MaxReleases
    BY <1>1, <2>2, <2>5
  <2> QED
    BY <1>1, <2>5, <2>6, <2>7 DEF GithubOK
<1>3. ASSUME NEW i \in DOMAIN github, Upload(i) PROVE GithubOK'
  <2>1. PICK r \in Published : r.tag = github[i].tag /\ github' = [github EXCEPT ![i] = r]
    <3>0. github[i] \in Published
      BY <1>1
    <3> DEFINE g == github[i]
    <3>1. CASE g.sums
      <4> PICK t \in Targets : github' = [github EXCEPT ![i].files = @ \cup {t}]
        BY <1>3, <3>1 DEF Upload
      <4> DEFINE r == [g EXCEPT !.files = @ \cup {t}]
      <4>1. github' = [github EXCEPT ![i] = r]
        OBVIOUS
      <4>2. r \in Published /\ r.tag = g.tag
        BY <3>0 DEF Published
      <4> QED
        BY <4>1, <4>2
    <3>2. CASE ~g.sums
      <4> DEFINE r == [g EXCEPT !.sums = TRUE]
      <4>1. github' = [github EXCEPT ![i] = r]
        BY <1>3, <3>2 DEF Upload
      <4>2. r \in Published /\ r.tag = g.tag
        BY <3>0 DEF Published
      <4> QED
        BY <4>1, <4>2
    <3> QED
      BY <3>1, <3>2
  <2>2. /\ github' \in Seq(Published) /\ Len(github') = Len(github)
        /\ \A j \in DOMAIN github' : j \in DOMAIN github /\ github'[j].tag = github[j].tag
    BY <1>1, <1>3, <2>1
  <2> QED
    BY <1>1, <2>2 DEF GithubOK
<1>4. CASE UNCHANGED github
  BY <1>1, <1>4 DEF GithubOK
<1> QED
  BY <1>2, <1>3, <1>4 DEF ReleasesNext, releasesVars, ChangeChannel, PollStep, PollStart, PollList,
     PollSums, PollWrite, PollFails, PickRelease, ChooseAgents, InsertRollout, RequestDropped

\* A poll that has nothing to read and has read nothing.
LEMMA EmptyPoll ==
  ASSUME NEW p, p \in Poll, p.pc # "sums", p.left = {}, p.got = <<>>, poll' = p
  PROVE  PollOK'
<1>1. /\ IsFiniteSet({}) /\ Cardinality({}) = 0 /\ Len(<<>>) = 0 /\ DOMAIN <<>> = {}
      /\ RecentLimit \in Nat
  BY FS_EmptySet, ReleasesBounds
<1>2. Cardinality(p.left) + Len(p.got) <= RecentLimit
  BY <1>1
<1> QED
  BY <1>1, <1>2 DEF PollOK, Poll, NewestFirst

\* What follows the newest of what is left.
LEMMA ReadRelease ==
  ASSUME PollOK, poll.pc = "sums", NEW r \in poll.left, Newest(r, poll.left),
         NEW known \in BOOLEAN,
         poll' = [poll EXCEPT !.left = @ \ {r}, !.got = Append(@, Hashed(r, known))]
  PROVE  PollOK'
<1> DEFINE L == poll.left
           G == poll.got
           h == Hashed(r, known)
           M == L \ {r}
           H == Append(G, h)
           n == Len(G)
<1>1. /\ poll \in Poll /\ L \subseteq Published /\ IsFiniteSet(L) /\ G \in Seq(Cached)
      /\ Cardinality(L) + n <= RecentLimit /\ n \in Nat /\ RecentLimit \in Nat
      /\ \A p, q \in L : p.tag = q.tag => p = q
      /\ NewestFirst(G)
      /\ \A p \in L, i \in DOMAIN G : p.tag < G[i].tag
      /\ \A q \in L : q.tag <= r.tag
  <2>1. /\ poll \in Poll /\ L \subseteq Published /\ IsFiniteSet(L) /\ G \in Seq(Cached)
        /\ Cardinality(L) + n <= RecentLimit
        /\ \A p, q \in L : p.tag = q.tag => p = q
        /\ NewestFirst(G)
        /\ \A p \in L, i \in DOMAIN G : p.tag < G[i].tag
    BY DEF PollOK, Poll
  <2>2. \A q \in L : q.tag <= r.tag
    BY DEF Newest
  <2>3. n \in Nat
    BY <2>1
  <2> QED
    BY <2>1, <2>2, <2>3, ReleasesBounds
<1>2. h \in Cached /\ h.tag = r.tag
  BY <1>1, HashedFacts
<1>3. poll' = [poll EXCEPT !.left = M, !.got = H]
  OBVIOUS
<1>5. M \subseteq Published /\ IsFiniteSet(M) /\ Cardinality(M) = Cardinality(L) - 1
  BY <1>1, FS_RemoveElement
<1> HIDE DEF h
<1>6. /\ H \in Seq(Cached) /\ Len(H) = n + 1 /\ DOMAIN H = 1 .. n + 1 /\ DOMAIN G = 1 .. n
      /\ \A i \in 1 .. n : H[i] = G[i]
      /\ H[n + 1] = h
  BY <1>1, <1>2
<1>7. Cardinality(M) + Len(H) <= RecentLimit
  <2>1. Cardinality(L) \in Nat
    BY <1>1, FS_CardinalityType
  <2> QED
    BY <1>1, <1>5, <1>6, <2>1
<1>8. /\ \A q \in L : q.tag \in Nat
      /\ \A i \in 1 .. n : G[i].tag \in Nat
  <2>1. Tags \subseteq Nat
    BY DEF Tags
  <2>2. \A i \in 1 .. n : G[i] \in Cached
    BY <1>1, <1>6
  <2> QED
    BY <1>1, <2>1, <2>2 DEF Published, Cached
<1> HIDE DEF L, G, M, H, n
<1>9. NewestFirst(H)
  <2> SUFFICES ASSUME NEW i \in 1 .. n + 1, NEW j \in 1 .. n + 1, i < j
               PROVE  H[i].tag > H[j].tag
    BY <1>6 DEF NewestFirst
  <2>1. i \in 1 .. n
    BY <1>1
  <2>2. CASE j \in 1 .. n
    BY <1>6, <1>1, <2>1, <2>2 DEF NewestFirst
  <2>3. CASE j = n + 1
    <3>1. r.tag < G[i].tag
      BY <1>1, <1>6, <2>1 DEF L
    <3>2. r \in L
      BY DEF L
    <3> QED
      BY <1>2, <1>6, <1>8, <2>1, <2>3, <3>1, <3>2
  <2> QED
    BY <1>1, <2>2, <2>3
<1>10. \A q \in M, i \in DOMAIN H : q.tag < H[i].tag
  <2> SUFFICES ASSUME NEW q \in M, NEW i \in 1 .. n + 1 PROVE q.tag < H[i].tag
    BY <1>6
  <2>1. q \in L /\ q # r /\ r \in L
    BY DEF M, L
  <2>2. q.tag < r.tag
    BY <1>1, <1>8, <2>1
  <2>3. CASE i \in 1 .. n
    BY <1>1, <1>6, <2>1, <2>3
  <2>4. CASE i = n + 1
    BY <1>2, <1>6, <2>2, <2>4
  <2> QED
    BY <1>1, <2>3, <2>4
<1>11. \A p, q \in M : p.tag = q.tag => p = q
  BY <1>1 DEF M
<1>12. H # <<>>
  BY <1>1, <1>6
<1>13. poll' \in Poll /\ poll'.pc = "sums" /\ poll'.left = M /\ poll'.got = H
  <2>1. M \in SUBSET Published /\ H \in Seq(Cached) /\ poll \in Poll /\ poll.pc = "sums"
    BY <1>1, <1>5, <1>6
  <2> QED
    BY <1>3, <2>1 DEF Poll
<1> QED
  BY <1>5, <1>6, <1>7, <1>9, <1>10, <1>11, <1>12, <1>13 DEF PollOK, Poll

LEMMA NextPollOK ==
  ASSUME ReleasesInv, [ReleasesNext]_releasesVars
  PROVE  PollOK'
<1>1. PollOK /\ GithubOK /\ poll \in Poll
  BY DEF ReleasesInv, PollOK, Poll
<1>2. Between \in Poll /\ Between.pc = "rest" /\ Between.left = {} /\ Between.got = <<>>
  <2>1. {} \in SUBSET Published /\ <<>> \in Seq(Cached)
    OBVIOUS
  <2> QED
    BY <2>1 DEF Between, Poll
<1>3. CASE PollStart
  <2> DEFINE pc == IF stable THEN "list stable" ELSE "list all"
             p  == [Between EXCEPT !.pc = pc]
  <2>1. pc \in {"list stable", "list all"} /\ poll' = p
    BY <1>3 DEF PollStart
  <2> HIDE DEF pc
  <2>2. p \in Poll /\ p.pc = pc /\ p.left = {} /\ p.got = <<>>
    BY <1>2, <2>1 DEF Poll
  <2> HIDE DEF p
  <2> QED
    BY <2>1, <2>2, EmptyPoll
<1>4. CASE PollList
  <2> DEFINE onlyStable == poll.pc = "list stable"
             L  == Admitted(ToSet(Listing), onlyStable)
             pc == IF L = {} THEN NextPoll ELSE "sums"
             p  == [poll EXCEPT !.pc = pc, !.left = L]
  <2>1. poll' = p /\ poll.pc \in {"list stable", "list all"} /\ onlyStable \in BOOLEAN
    BY <1>4 DEF PollList
  <2>2. /\ L \subseteq Published /\ IsFiniteSet(L) /\ Cardinality(L) <= RecentLimit
        /\ \A r, q \in L : r.tag = q.tag => r = q
    <3>1. onlyStable \in BOOLEAN
      BY <2>1
    <3> HIDE DEF onlyStable
    <3> QED
      BY <1>1, <3>1, ListedFacts
  <2> HIDE DEF L
  <2>3. poll.got = <<>>
    BY <1>1, <2>1 DEF PollOK
  <2>4. pc \in {"rest", "sums"} /\ (pc = "rest" <=> L = {})
    BY DEF NextPoll
  <2> HIDE DEF pc
  <2>5. p \in Poll /\ p.pc = pc /\ p.left = L /\ p.got = <<>>
    BY <1>1, <2>2, <2>3, <2>4 DEF Poll
  <2> HIDE DEF p
  <2>6. CASE L = {}
    <3>1. p.pc # "sums"
      BY <2>4, <2>5, <2>6
    <3> QED
      BY <2>1, <2>5, <2>6, <3>1, EmptyPoll
  <2>7. CASE L # {}
    <3>1. pc = "sums" /\ Len(<<>>) = 0 /\ DOMAIN <<>> = {}
      BY <2>4, <2>7
    <3>2. Cardinality(L) \in Nat /\ Cardinality(L) + Len(<<>>) <= RecentLimit
      BY <2>2, <3>1, FS_CardinalityType
    <3>3. NewestFirst(<<>>) /\ \A r \in L, i \in DOMAIN <<>> : r.tag < <<>>[i].tag
      BY <3>1 DEF NewestFirst
    <3> QED
      BY <2>1, <2>2, <2>5, <2>7, <3>1, <3>2, <3>3 DEF PollOK, Poll
  <2> QED
    BY <2>6, <2>7
<1>5. CASE PollSums
  <2> PICK r \in poll.left, known \in {TRUE, FALSE} :
        /\ Newest(r, poll.left)
        /\ poll' = [poll EXCEPT !.left = @ \ {r}, !.got = Append(@, Hashed(r, known))]
    BY <1>5 DEF PollSums
  <2>1. poll.pc = "sums" /\ known \in BOOLEAN
    BY <1>5 DEF PollSums
  <2> QED
    BY <1>1, <2>1, ReadRelease
<1>6. CASE PollWrite
  <2>1. poll' = Between
    BY <1>6 DEF PollWrite
  <2>2. Between.pc # "sums"
    BY <1>2
  <2> QED
    BY <1>2, <2>1, <2>2, EmptyPoll
<1>7. CASE PollFails
  <2> DEFINE p == [Between EXCEPT !.pc = NextPoll]
  <2>1. poll' = p
    BY <1>7 DEF PollFails
  <2>2. p \in Poll /\ p.pc # "sums" /\ p.left = {} /\ p.got = <<>>
    BY <1>2 DEF Poll, NextPoll
  <2> HIDE DEF p
  <2> QED
    BY <2>1, <2>2, EmptyPoll
<1>8. CASE UNCHANGED poll
  BY <1>1, <1>8 DEF PollOK
<1> QED
  BY <1>3, <1>4, <1>5, <1>6, <1>7, <1>8 DEF ReleasesNext, releasesVars, ChangeChannel, PollStep,
     PublishRelease, Upload, PickRelease, ChooseAgents, InsertRollout, RequestDropped

LEMMA NextCache ==
  ASSUME ReleasesInv, [ReleasesNext]_releasesVars
  PROVE  CacheOK'
<1>1. CacheOK
  BY DEF ReleasesInv
<1>2. CASE PollWrite
  <2>1. recent' = poll.got /\ latest' = Head(poll.got) /\ poll.pc = "sums" /\ poll.left = {}
    BY <1>2 DEF PollWrite
  <2>2. /\ poll.got \in Seq(Cached) /\ poll.got # <<>> /\ NewestFirst(poll.got)
        /\ Cardinality({}) + Len(poll.got) <= RecentLimit
    BY <2>1 DEF ReleasesInv, PollOK, Poll
  <2>3. Len(poll.got) <= RecentLimit
    BY <2>2, FS_EmptySet, ReleasesBounds
  <2> QED
    BY <2>1, <2>2, <2>3 DEF CacheOK
<1>3. CASE UNCHANGED cached
  BY <1>1, <1>3 DEF CacheOK, cached
<1> QED
  BY <1>2, <1>3 DEF ReleasesNext, releasesVars, ChangeChannel, PollStep, PollStart, PollList, PollSums,
     PollFails, PublishRelease, Upload, PickRelease, ChooseAgents, InsertRollout, RequestDropped

LEMMA EligibleFacts ==
  ASSUME NEW asked
  PROVE  Eligible(asked) \subseteq Fleet /\ IsFiniteSet(Eligible(asked))
BY ReleasesBounds, FS_Subset DEF Eligible

LEMMA NextRequest ==
  ASSUME ReleasesInv, [ReleasesNext]_releasesVars
  PROVE  RequestOK'
<1>1. RequestOK /\ CacheOK
  BY DEF ReleasesInv
<1>2. CASE PickRelease
  <2> PICK r \in InCache, percent \in Percents, asked \in Asks :
        request' = [pc |-> "eligible", release |-> r, percent |-> percent, asked |-> asked]
    BY <1>2 DEF PickRelease
  <2>1. r \in Cached
    <3>1. CASE recent = <<>>
      BY <1>1, <3>1 DEF CacheOK, InCache
    <3>2. CASE recent # <<>>
      BY <1>1, <3>2 DEF CacheOK, InCache, ToSet
    <3> QED
      BY <3>1, <3>2
  <2>2. Len(rollouts') < MaxRollouts
    BY <1>2 DEF PickRelease
  <2> QED
    BY <2>1, <2>2 DEF RequestOK
<1>3. CASE ChooseAgents
  <2> DEFINE from == Eligible(request.asked)
  <2>1. request.pc = "eligible" /\ rollouts' = rollouts
    BY <1>3 DEF ChooseAgents
  <2>2. request # NoRequest
    BY <2>1 DEF NoRequest
  <2>3. Len(rollouts) < MaxRollouts /\ request.release \in Cached /\ request.percent \in Percents
    BY <1>1, <2>1, <2>2 DEF RequestOK
  <2>4. CASE from = {}
    <3>1. request' = NoRequest
      BY <1>3, <2>4 DEF ChooseAgents
    <3> QED
      BY <3>1 DEF RequestOK
  <2>5. CASE from # {}
    <3> PICK chosen \in kSubset(Take(Cardinality(from), request.percent), from) :
          request' = [pc |-> "insert", release |-> request.release,
                      percent |-> request.percent, from |-> from, chosen |-> chosen]
      BY <1>3, <2>5 DEF ChooseAgents
    <3>1. from \subseteq Fleet
      BY EligibleFacts
    <3>2. chosen \subseteq from /\ Cardinality(chosen) = Take(Cardinality(from), request.percent)
      BY DEF kSubset
    <3> HIDE DEF from
    <3>3. /\ request'.pc = "insert" /\ request'.release = request.release
          /\ request'.percent = request.percent
          /\ request'.from = from /\ request'.chosen = chosen
      OBVIOUS
    <3> QED
      BY <2>1, <2>3, <2>5, <3>1, <3>2, <3>3 DEF RequestOK
  <2> QED
    BY <2>4, <2>5
<1>4. CASE request' = NoRequest
  BY <1>4 DEF RequestOK
<1>5. CASE UNCHANGED <<request, rollouts>>
  BY <1>1, <1>5 DEF RequestOK
<1> QED
  BY <1>2, <1>3, <1>4, <1>5 DEF ReleasesNext, releasesVars, ChangeChannel, PollStep, PollStart,
     PollList, PollSums, PollWrite, PollFails, PublishRelease, Upload, InsertRollout, RequestDropped

----------------------------------------------------------------------------
\* What SampleIsTheShare says of one rollout.
ShareOf(r) ==
  LET n == Cardinality(r.rows)
      share == Cardinality(r.from) * r.percent
  IN /\ r.rows \subseteq r.from /\ n > 0 /\ 100 * (n - 1) < share
     /\ (\A a \in r.from : TargetOf[a] \in r.built) => share <= 100 * n

\* The rollout an insertion leaves.
Inserted(req) ==
  [percent |-> req.percent, from |-> req.from, built |-> DOMAIN req.release.assets,
   rows |-> {a \in req.chosen : TargetOf[a] \in DOMAIN req.release.assets}]

LEMMA InsertedFacts ==
  ASSUME RequestOK, request.pc = "insert", NEW r, r = Inserted(request)
  PROVE  r \in Sampled /\ (r.rows # {} => ShareOf(r))
<1> DEFINE F == request.from
           C == request.chosen
           p == request.percent
           B == DOMAIN request.release.assets
           R == {a \in C : TargetOf[a] \in B}
<1>1. request # NoRequest
  BY DEF NoRequest
<1>2. /\ F \subseteq Fleet /\ F # {} /\ C \subseteq F /\ p \in Percents /\ request.release \in Cached
      /\ Cardinality(C) = Take(Cardinality(F), p)
  BY <1>1 DEF RequestOK
<1>3. B \in SUBSET Targets
  BY <1>2 DEF Cached, Assets
<1>4. r = [percent |-> p, from |-> F, built |-> B, rows |-> R]
  BY DEF Inserted
<1>5. R \subseteq C /\ ((\A a \in F : TargetOf[a] \in B) => R = C)
  BY <1>2
<1> HIDE DEF F, C, p, B, R
<1>6. r \in Sampled /\ r.percent = p /\ r.from = F /\ r.built = B /\ r.rows = R
  BY <1>2, <1>3, <1>4, <1>5 DEF Sampled
<1> DEFINE f == Cardinality(F)
           c == Cardinality(C)
           n == Cardinality(R)
<1>7. /\ IsFiniteSet(F) /\ IsFiniteSet(C) /\ IsFiniteSet(R)
      /\ f \in Nat /\ f > 0 /\ c \in Nat /\ n \in Nat /\ n <= c
  <2>1. IsFiniteSet(F) /\ IsFiniteSet(C) /\ IsFiniteSet(R) /\ n <= c
    BY <1>2, <1>5, ReleasesBounds, FS_Subset
  <2> QED
    BY <1>2, <2>1, FS_CardinalityType, FS_EmptySet
<1>8. R # {} => n > 0
  BY <1>7, FS_EmptySet
<1> HIDE DEF f, n
<1>9. c = Take(f, p) /\ p \in 1 .. 100
  BY <1>2, ReleasesBounds DEF f
<1>10. 100 * (c - 1) < f * p /\ f * p <= 100 * c
  BY <1>7, <1>9, TakeFacts
<1> HIDE DEF c
<1> DEFINE s == f * p
<1>11. s \in Nat
  BY <1>7, <1>9
<1>12. (\A a \in F : TargetOf[a] \in B) => n = c
  BY <1>5 DEF n, c
<1>13. 100 * (c - 1) < s /\ s <= 100 * c
  BY <1>10
<1> HIDE DEF s
<1>14. 100 * (n - 1) < s /\ (n = c => s <= 100 * n)
  BY <1>7, <1>11, <1>13
<1>15. Cardinality(r.rows) = n /\ Cardinality(r.from) * r.percent = s
  BY <1>6 DEF n, f, s
<1> QED
  BY <1>2, <1>5, <1>6, <1>8, <1>12, <1>14, <1>15 DEF ShareOf

LEMMA NextRollouts ==
  ASSUME ReleasesInv, [ReleasesNext]_releasesVars
  PROVE  RolloutsOK' /\ SampleIsTheShare'
<1>1. /\ rollouts \in Seq(Sampled) /\ Len(rollouts) <= MaxRollouts /\ MaxRollouts \in Nat
      /\ \A i \in DOMAIN rollouts : ShareOf(rollouts[i])
  BY ReleasesBounds DEF ReleasesInv, RolloutsOK, SampleIsTheShare, ShareOf
<1>2. CASE InsertRollout
  <2> DEFINE r == Inserted(request)
  <2>1. request.pc = "insert" /\ request # NoRequest
    BY <1>2 DEF InsertRollout, NoRequest
  <2>2. r \in Sampled /\ (r.rows # {} => ShareOf(r))
    BY <2>1, InsertedFacts DEF ReleasesInv
  <2>3. rollouts' = IF r.rows = {} THEN rollouts ELSE Append(rollouts, r)
    BY <1>2 DEF InsertRollout, Inserted
  <2>4. Len(rollouts) < MaxRollouts
    BY <2>1 DEF ReleasesInv, RequestOK
  <2> HIDE DEF r
  <2>5. CASE r.rows = {}
    BY <1>1, <2>3, <2>5 DEF RolloutsOK, SampleIsTheShare, ShareOf
  <2>6. CASE r.rows # {}
    <3>1. /\ rollouts' \in Seq(Sampled) /\ Len(rollouts') = Len(rollouts) + 1
          /\ \A i \in DOMAIN rollouts' : i \in DOMAIN rollouts \/ rollouts'[i] = r
          /\ \A i \in DOMAIN rollouts : rollouts'[i] = rollouts[i]
      BY <1>1, <2>2, <2>3, <2>6
    <3>2. \A i \in DOMAIN rollouts' : ShareOf(rollouts'[i])
      BY <1>1, <2>2, <2>6, <3>1
    <3> QED
      BY <1>1, <2>4, <3>1, <3>2 DEF RolloutsOK, SampleIsTheShare, ShareOf
  <2> QED
    BY <2>5, <2>6
<1>3. CASE UNCHANGED rollouts
  BY <1>1, <1>3 DEF RolloutsOK, SampleIsTheShare, ShareOf
<1> QED
  BY <1>2, <1>3 DEF ReleasesNext, releasesVars, ChangeChannel, PollStep, PollStart, PollList, PollSums,
     PollWrite, PollFails, PublishRelease, Upload, PickRelease, ChooseAgents, RequestDropped

LEMMA NextCounts ==
  ASSUME ReleasesInv, [ReleasesNext]_releasesVars
  PROVE  CountsOK'
<1>1. CountsOK /\ MaxEdits \in Nat /\ MaxOutages \in Nat
  BY ReleasesBounds DEF ReleasesInv
<1>2. CASE ChangeChannel
  BY <1>1, <1>2 DEF CountsOK, ChangeChannel
<1>3. CASE PollSums
  <2> PICK r \in poll.left, known \in {TRUE, FALSE} :
        /\ r.sums /\ ~known => outages < MaxOutages
        /\ outages' = IF r.sums /\ ~known THEN outages + 1 ELSE outages
    BY <1>3 DEF PollSums
  <2>1. outages' \in 0 .. MaxOutages
    BY <1>1 DEF CountsOK
  <2> QED
    BY <1>1, <1>3, <2>1 DEF CountsOK, PollSums
<1>4. CASE PollFails
  BY <1>1, <1>4 DEF CountsOK, PollFails
<1>5. CASE UNCHANGED <<stable, edits, outages>>
  BY <1>1, <1>5 DEF CountsOK
<1> QED
  BY <1>2, <1>3, <1>4, <1>5 DEF ReleasesNext, releasesVars, releasesHist, PollStep, PollStart, PollList,
     PollWrite, PublishRelease, Upload, PickRelease, ChooseAgents, InsertRollout, RequestDropped

LEMMA NextReleasesInv == ReleasesInv /\ [ReleasesNext]_releasesVars => ReleasesInv'
BY NextGithub, NextPollOK, NextCache, NextRequest, NextRollouts, NextCounts DEF ReleasesInv

LEMMA ReleasesInvHolds == ReleasesSpec => []ReleasesInv
<1>1. ReleasesInit => ReleasesInv
  BY InitReleasesInv
<1>2. ReleasesInv /\ [ReleasesNext]_releasesVars => ReleasesInv'
  BY NextReleasesInv
<1> QED
  BY <1>1, <1>2, PTL DEF ReleasesSpec

LEMMA ReleasesTyped == ReleasesInv => ReleasesTypeOK
BY DEF ReleasesInv, ReleasesTypeOK, GithubOK, CacheOK, NewestFirst, RolloutsOK, CountsOK

\* Every rollout has a row for the share of the eligible agents that was asked for,
\* rounded up, or for those of the share that the release has an artefact for, and
\* never for none: what sampling, skipping and inserting do between them.
THEOREM SamplesAreShares == ReleasesSpec => []SampleIsTheShare
<1>1. ReleasesInv => SampleIsTheShare
  BY DEF ReleasesInv
<1> QED
  BY <1>1, ReleasesInvHolds, PTL

\* The release cache holds no more than was listed, newest first, and its two rows
\* agree, whatever is published, uploaded or re-listed while a poll is under way; the
\* counters keep their bounds.
THEOREM ReleasesTypeCorrect == ReleasesSpec => []ReleasesTypeOK
BY ReleasesTyped, ReleasesInvHolds, PTL

----------------------------------------------------------------------------
(* The two side by side, as the run checks them.                           *)

\* Each component of the composition does what its own specification says.
LEMMA LiveAreTheirs == LiveFairSpec => IdentitySpec /\ ReleasesSpec
<1>1. LiveInit => IdentityInit /\ ReleasesInit
  BY DEF LiveInit
<1>2. [LiveNext]_liveVars => [IdentityNext]_identityVars
  BY DEF LiveNext, liveVars
<1>3. [LiveNext]_liveVars => [ReleasesNext]_releasesVars
  BY DEF LiveNext, liveVars
<1> QED
  BY <1>1, <1>2, <1>3, PTL DEF LiveFairSpec, IdentitySpec, ReleasesSpec

\* The types and bounds of registration and of the release poller, in one run.
THEOREM LiveTypeCorrect == LiveFairSpec => []LiveTypeOK
<1>1. IdentityTypeOK /\ ReleasesTypeOK => LiveTypeOK
  BY DEF LiveTypeOK
<1> QED
  BY <1>1, LiveAreTheirs, IdentityTypeCorrect, ReleasesTypeCorrect, PTL
============================================================================
