------------------------------ MODULE Releases ------------------------------
(***************************************************************************)
(* From a published release to the rows of a rollout: the workflow that    *)
(* publishes a release and then uploads its files, the panel's poller and  *)
(* its cache in the settings table, and create_rollout, which takes a      *)
(* release from the cache, samples the eligible agents and writes a row    *)
(* for each one it has an artefact for.                                    *)
(*                                                                         *)
(* Releases are numbered as they are published.  Of an asset matters which *)
(* target it is for, of its hash whether it is known.                      *)
(***************************************************************************)
EXTENDS Integers, Sequences, FiniteSets, FiniteSetsExt, SequencesExt

CONSTANTS
  Fleet,        \* agents with a row in servers
  Targets,      \* target triples a release is built for
  TargetOf,     \* what agent_target_triple makes of an agent's OS and arch
  NoTarget,     \* an OS or arch that is unknown or not supported
  Percents,     \* bound: percentages an admin asks for
  Asks,         \* bound: sets of agents an admin names
  RecentLimit,  \* RECENT_LIMIT, scaled down
  MaxReleases,  \* bound: releases published
  MaxRollouts,  \* bound: rollouts created
  MaxEdits,     \* bound: changes of update_channel
  MaxOutages    \* bound: polls, or reads of a SHA256SUMS, that fail

ASSUME ReleasesAssumption ==
  /\ NoTarget \notin Targets /\ TargetOf \in [Fleet -> Targets \cup {NoTarget}]
  /\ IsFiniteSet(Fleet) /\ Percents \subseteq 1 .. 100 /\ Asks \subseteq SUBSET Fleet
  /\ RecentLimit \in Nat \ {0}
  /\ {MaxReleases, MaxRollouts, MaxEdits, MaxOutages} \subseteq Nat

VARIABLES
  github,   \* releases of the repository, newest first
  stable,   \* settings.update_channel is "stable"
  recent,   \* settings.recent_releases; none is no row
  latest,   \* settings.latest_release; tag 0 is no row
  poll,     \* the poller
  request,  \* a create_rollout under way
  rollouts, \* rollouts created, with what was asked for
  edits,    \* history: changes of the channel so far
  outages   \* history: failures so far

cached       == <<recent, latest>>
releasesHist == <<edits, outages>>
releasesVars == <<github, stable, cached, poll, request, rollouts, releasesHist>>

Tags      == 1 .. MaxReleases
Published == [tag : Tags, pre : BOOLEAN, files : SUBSET Targets, sums : BOOLEAN]
\* A release as it is cached: for each asset whether its hash is known.
Assets    == UNION {[ts -> BOOLEAN] : ts \in SUBSET Targets}
Cached    == [tag : Tags, pre : BOOLEAN, assets : Assets]
None      == [tag |-> 0]
Between   == [pc |-> "rest", left |-> {}, got |-> <<>>]
NoRequest == [pc |-> "none"]

ReleasesInit ==
  /\ github = <<>> /\ stable \in BOOLEAN
  /\ recent = <<>> /\ latest = None /\ poll = Between
  /\ request = NoRequest /\ rollouts = <<>>
  /\ edits = 0 /\ outages = 0

----------------------------------------------------------------------------
(* The release workflow and the settings table.                            *)

\* gh release create.
PublishRelease ==
  /\ Len(github) < MaxReleases
  /\ \E pre \in BOOLEAN :
       github' = <<[tag |-> Len(github) + 1, pre |-> pre, files |-> {}, sums |-> FALSE]>> \o github
  /\ UNCHANGED <<stable, cached, poll, request, rollouts, releasesHist>>

\* gh release upload dist/*, one file after the other; SHA256SUMS sorts first.
Upload(i) ==
  /\ IF github[i].sums
     THEN \E t \in Targets \ github[i].files : github' = [github EXCEPT ![i].files = @ \cup {t}]
     ELSE github' = [github EXCEPT ![i].sums = TRUE]
  /\ UNCHANGED <<stable, cached, poll, request, rollouts, releasesHist>>

\* "bump settings.update_repo/update_channel", in the database.
ChangeChannel ==
  /\ edits < MaxEdits /\ edits' = edits + 1 /\ stable' = ~stable
  /\ UNCHANGED <<github, cached, poll, request, rollouts, outages>>

----------------------------------------------------------------------------
(* poll_once, an await at a time.                                          *)

\* per_page=RECENT_LIMIT: the newest releases.
Listing == SubSeq(github, 1, Min({RecentLimit, Len(github)}))

\* Of the releases listed, those of the channel.
Admitted(releases, onlyStable) == {r \in releases : ~(onlyStable /\ r.pre)}

\* Settings are read, and then the list: a channel changed in between is not seen.
PollStart ==
  /\ poll.pc = "rest"
  /\ poll' = [Between EXCEPT !.pc = IF stable THEN "list stable" ELSE "list all"]
  /\ UNCHANGED <<github, stable, cached, request, rollouts, releasesHist>>

\* Mutant: a poll that finds nothing ends the task.
Next_Stop == "stopped"

\* A poll that fails, or finds nothing, is logged; the next one comes in its time.
NextPoll == "rest"

PollList ==
  /\ poll.pc \in {"list stable", "list all"}
  /\ LET listed == Admitted(ToSet(Listing), poll.pc = "list stable")
     IN poll' = [poll EXCEPT !.pc = IF listed = {} THEN NextPoll ELSE "sums", !.left = listed]
  /\ UNCHANGED <<github, stable, cached, request, rollouts, releasesHist>>

Hashed(r, known) == [tag |-> r.tag, pre |-> r.pre, assets |-> [t \in r.files |-> known]]

Newest(r, releases) == \A q \in releases : q.tag <= r.tag

\* The SHA256SUMS of the next release, in the order of the list: not listed, not read,
\* or read.
PollSums ==
  /\ poll.pc = "sums"
  /\ \E r \in poll.left, known \in {TRUE, FALSE} :
       /\ Newest(r, poll.left)
       /\ known => r.sums
       /\ r.sums /\ ~known => outages < MaxOutages
       /\ outages' = IF r.sums /\ ~known THEN outages + 1 ELSE outages
       /\ poll' = [poll EXCEPT !.left = @ \ {r}, !.got = Append(@, Hashed(r, known))]
  /\ UNCHANGED <<github, stable, cached, request, rollouts, edits>>

\* Both rows in one transaction.
PollWrite ==
  /\ poll.pc = "sums" /\ poll.left = {}
  /\ recent' = poll.got /\ latest' = Head(poll.got) /\ poll' = Between
  /\ UNCHANGED <<github, stable, request, rollouts, releasesHist>>

\* The listing or the transaction fails, or the process ends; the cache stays.
PollFails ==
  /\ poll.pc # "rest" /\ outages < MaxOutages /\ outages' = outages + 1
  /\ poll' = [Between EXCEPT !.pc = NextPoll]
  /\ UNCHANGED <<github, stable, cached, request, rollouts, edits>>

PollStep == PollStart \/ PollList \/ PollSums \/ PollWrite

----------------------------------------------------------------------------
(* create_rollout, an await at a time.                                     *)

\* pick_cached_release: the list, or the one release of an older panel's cache.
InCache == IF recent # <<>> THEN ToSet(recent) ELSE {latest} \ {None}

PickRelease ==
  /\ request = NoRequest /\ Len(rollouts) < MaxRollouts
  /\ \E r \in InCache, percent \in Percents, asked \in Asks :
       request' = [pc |-> "eligible", release |-> r, percent |-> percent, asked |-> asked]
  /\ UNCHANGED <<github, stable, cached, poll, rollouts, releasesHist>>

\* No ids are all of them; an agent without a target is left out.
Eligible(asked) ==
  {a \in Fleet : TargetOf[a] # NoTarget /\ (asked = {} \/ a \in asked)}

\* Mutant: the share is rounded down.
Take_Floor(n, percent) == Max({1, (n * percent) \div 100})

\* The share of n agents, rounded up.
Take(n, percent) == Min({Max({1, (n * percent + 99) \div 100}), n})

\* shuffle and truncate.
ChooseAgents ==
  /\ request.pc = "eligible"
  /\ LET from == Eligible(request.asked) IN
     IF from = {}
     THEN request' = NoRequest
     ELSE \E chosen \in kSubset(Take(Cardinality(from), request.percent), from) :
            request' = [pc |-> "insert", release |-> request.release,
                        percent |-> request.percent, from |-> from, chosen |-> chosen]
  /\ UNCHANGED <<github, stable, cached, poll, rollouts, releasesHist>>

\* A chosen agent without an artefact is skipped; without any row there is no rollout.
\* The others' rows copy the asset's URL and hash, known or not.
InsertRollout ==
  /\ request.pc = "insert" /\ request' = NoRequest
  /\ LET release == request.release
         given   == {a \in request.chosen : TargetOf[a] \in DOMAIN release.assets}
     IN rollouts' = IF given = {} THEN rollouts
                    ELSE Append(rollouts, [percent |-> request.percent,
                                           from    |-> request.from,
                                           built   |-> DOMAIN release.assets,
                                           rows    |-> given])
  /\ UNCHANGED <<github, stable, cached, poll, releasesHist>>

\* The handler is dropped, or a statement fails.
RequestDropped ==
  /\ request # NoRequest /\ request' = NoRequest
  /\ UNCHANGED <<github, stable, cached, poll, rollouts, releasesHist>>

----------------------------------------------------------------------------
ReleasesNext ==
  \/ PublishRelease \/ (\E i \in DOMAIN github : Upload(i)) \/ ChangeChannel
  \/ PollStep \/ PollFails
  \/ PickRelease \/ ChooseAgents \/ InsertRollout \/ RequestDropped

ReleasesSpec == ReleasesInit /\ [][ReleasesNext]_releasesVars

\* The poller's timer comes round and its requests are answered.
ReleasesFairness == WF_releasesVars(PollStep)

ReleasesFairSpec == ReleasesSpec /\ ReleasesFairness

----------------------------------------------------------------------------
(* Properties.                                                             *)

\* Every variable keeps its type; the two rows of the cache agree, newest first.
ReleasesTypeOK ==
  /\ github \in Seq(Published) /\ stable \in BOOLEAN
  /\ recent \in Seq(Cached) /\ Len(recent) <= RecentLimit
  /\ IF recent = <<>> THEN latest = None ELSE latest = Head(recent)
  /\ \A i, j \in DOMAIN recent : i < j => recent[i].tag > recent[j].tag
  /\ Len(rollouts) <= MaxRollouts
  /\ edits \in 0 .. MaxEdits /\ outages \in 0 .. MaxOutages

\* "the panel picks `ceil(percent x |agent_ids|)` agents": where the release has an
\* artefact for every eligible agent, a rollout has that many rows, all of eligible
\* agents; where it has not, a rollout may have fewer but never none or more.
SampleIsTheShare ==
  \A i \in DOMAIN rollouts :
    LET r == rollouts[i]
        n == Cardinality(r.rows)
        share == Cardinality(r.from) * r.percent
    IN /\ r.rows \subseteq r.from /\ n > 0 /\ 100 * (n - 1) < share
       /\ (\A a \in r.from : TargetOf[a] \in r.built) => share <= 100 * n

\* What a poll would write now.
Listed(r) == Hashed(r, r.sums)
Fresh     == LET list == SelectSeq(Listing, LAMBDA r : r \in Admitted({r}, stable))
             IN [i \in DOMAIN list |-> Listed(list[i])]

\* "the panel's release poller picks it up": when releases, the channel and the
\* network have settled, so has the cache: a release seen half uploaded, without its
\* hashes or on another channel is corrected.
CacheSettles == <>[](Fresh # <<>> => recent = Fresh)
============================================================================
