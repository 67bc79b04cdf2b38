------------------------------- MODULE Topics -------------------------------
(***************************************************************************)
(* Research topics: who owns them and who belongs to them, the migration   *)
(* that every server start runs over them, and the settings page of one    *)
(* researcher.                                                             *)
(*                                                                         *)
(*   packages/db/research-topics-store.ts, mkt-research-topics.sql         *)
(*   apps/server/src/api/research-topics.ts                                *)
(*   apps/web/src/context/TopicContext.tsx, pages/settings.tsx             *)
(*                                                                         *)
(* One tenant.  Every statement is a step of its own; the migration's DO   *)
(* block is one.  The page's POST bodies carry neither the tenant_id nor   *)
(* the researcher_id the API asks for, and its list of members has no      *)
(* route: those three requests are refused and change nothing, so that of  *)
(* the page only the list, the rename and the removal are steps here.      *)
(***************************************************************************)
EXTENDS Naturals, FiniteSets

CONSTANTS
  Topics,       \* ids
  Names,        \* names, `Default` among them
  Default,
  People,       \* researchers: the users of the tenant
  Me,           \* the one whose settings page is open
  TopicCalls,   \* requests: each runs once
  Placed,       \* rows of the tables that carry a topic_id
  MaxStarts,    \* bound: server starts
  NoTopic, NoName, NoPerson

ASSUME TopicsAssumption == Me \in People /\ Default \in Names /\ NoName \notin Names

VARIABLES
  name,      \* research_topics: the name of each, or NoName
  role,      \* topic_members: of each topic and person "owner", "member" or "none"
  home,      \* topic_id of each row, NoTopic when NULL, "absent" when there is no row
  topicCall, \* of each request: its step, what it is about and what it has read
  context,   \* the topics the page's provider has loaded
  local,     \* the copy the settings list shows
  active,    \* the provider's active topic
  starts,
  ownerless, \* history: topics whose creation stopped before its owner was there
  given,     \* history: topics an owner left or stepped down from, or that someone changed
             \* who was no owner any more
  elsewhere  \* history: topics renamed by another request than the page's since it loaded

serverVars == <<name, role, home, ownerless, given>>
screenVars == <<context, local, active>>
topicsVars == <<serverVars, screenVars, topicCall, starts, elsewhere>>

NoNames == [t \in Topics |-> NoName]
Resting == [at |-> "idle", by |-> NoPerson, topic |-> NoTopic, name |-> NoName, whom |-> NoPerson,
            role |-> "none", was |-> "none"]

TopicsInit ==
  /\ name = NoNames /\ role = [t \in Topics |-> [u \in People |-> "none"]]
  /\ home = [r \in Placed |-> "absent"]
  /\ topicCall = [c \in TopicCalls |-> Resting]
  /\ context = NoNames /\ local = NoNames /\ active = NoTopic
  /\ starts = 0 /\ ownerless = {} /\ given = {} /\ elsewhere = {}

Existing   == {t \in Topics : name[t] # NoName}
Taken(n)   == \E t \in Topics : name[t] = n
Owners(t)  == {u \in People : role[t][u] = "owner"}
Begin(c, call) == topicCall[c].at = "idle" /\ topicCall' = [topicCall EXCEPT ![c] = call]
Finish(c)  == topicCall' = [topicCall EXCEPT ![c] = [Resting EXCEPT !.at = "done"]]

-----------------------------------------------------------------------------
(* POST /api/research-topics.                                              *)

\* UNIQUE (tenant_id, name): the insertion of a name that is taken fails.
CreateResearchTopic(c, u, t, n) ==
  /\ name[t] = NoName /\ ~Taken(n)
  /\ name' = [name EXCEPT ![t] = n]
  /\ Begin(c, [Resting EXCEPT !.at = "seed", !.by = u, !.topic = t])
  /\ UNCHANGED <<role, home, ownerless, given, screenVars, starts, elsewhere>>

\* ON CONFLICT DO NOTHING.
SeedOwner(c) ==
  LET call == topicCall[c] IN
  /\ call.at = "seed"
  /\ role' = [role EXCEPT ![call.topic][call.by] = IF @ = "none" THEN "owner" ELSE @]
  /\ Finish(c)
  /\ UNCHANGED <<name, home, ownerless, given, screenVars, starts, elsewhere>>

-----------------------------------------------------------------------------
(* PATCH /:id, POST /:id/members and DELETE /:id/members/:researcher: the  *)
(* topic and the caller's role are read, then one statement writes.        *)

CallerMayWrong(t, u) == role[t][u] # "none"
CallerMay(t, u) == role[t][u] = "owner"

CheckToRename(c, u, t, n) ==
  /\ t \in Existing /\ CallerMay(t, u)
  /\ Begin(c, [Resting EXCEPT !.at = "rename", !.by = u, !.topic = t, !.name = n])
  /\ UNCHANGED <<serverVars, screenVars, starts, elsewhere>>

CheckToAdd(c, u, t, whom, as) ==
  /\ t \in Existing /\ CallerMay(t, u)
  /\ Begin(c, [Resting EXCEPT !.at = "add", !.by = u, !.topic = t, !.whom = whom, !.role = as,
                          !.was = role[t][u]])
  /\ UNCHANGED <<serverVars, screenVars, starts, elsewhere>>

\* Whoever removes himself need not be an owner.
CheckToRemove(c, u, t, whom) ==
  /\ t \in Existing /\ (whom = u \/ CallerMay(t, u))
  /\ Begin(c, [Resting EXCEPT !.at = "remove", !.by = u, !.topic = t, !.whom = whom, !.was = role[t][u]])
  /\ UNCHANGED <<serverVars, screenVars, starts, elsewhere>>

\* A change of someone's role to less than owner, by himself or by a caller whose own
\* role went between the check and the write.
Gives(call) ==
  \/ call.whom = call.by
  \/ call.was = "owner" /\ role[call.topic][call.by] # "owner"

\* onRenamed: the page renames the row that it shows.
HandleRenamed(t, n) == local' = [local EXCEPT ![t] = IF @ = NoName THEN @ ELSE n]

\* updateResearchTopic; a taken name fails.  The page's own answer ends in onRenamed.
UpdateResearchTopic(c) ==
  LET call == topicCall[c] IN
  /\ call.at = "rename"
  /\ \/ /\ \A t \in Topics \ {call.topic} : name[t] # call.name
        /\ name' = [name EXCEPT ![call.topic] = call.name]
        /\ IF call.by = Me
             THEN HandleRenamed(call.topic, call.name) /\ UNCHANGED elsewhere
             ELSE elsewhere' = elsewhere \cup {call.topic} /\ UNCHANGED local
     \/ /\ \E t \in Topics \ {call.topic} : name[t] = call.name
        /\ UNCHANGED <<name, local, elsewhere>>
  /\ Finish(c)
  /\ UNCHANGED <<role, home, ownerless, given, context, active, starts>>

\* ON CONFLICT DO UPDATE SET role.
AddTopicMember(c) ==
  LET call == topicCall[c] IN
  /\ call.at = "add"
  /\ role' = [role EXCEPT ![call.topic][call.whom] = call.role]
  /\ given' = given \cup (IF call.role = "member" /\ Gives(call) THEN {call.topic} ELSE {})
  /\ Finish(c)
  /\ UNCHANGED <<name, home, ownerless, screenVars, starts, elsewhere>>

\* No row is a 404.
RemoveTopicMember(c) ==
  LET call == topicCall[c] IN
  /\ call.at = "remove"
  /\ role' = [role EXCEPT ![call.topic][call.whom] = "none"]
  /\ given' = given \cup (IF Gives(call) THEN {call.topic} ELSE {})
  /\ Finish(c)
  /\ UNCHANGED <<name, home, ownerless, screenVars, starts, elsewhere>>

\* The server dies between two statements of a request.
TopicCallStops(c) ==
  /\ topicCall[c].at \notin {"idle", "done"}
  /\ ownerless' = ownerless \cup (IF topicCall[c].at = "seed" THEN {topicCall[c].topic} ELSE {})
  /\ Finish(c)
  /\ UNCHANGED <<name, role, home, given, screenVars, starts, elsewhere>>

-----------------------------------------------------------------------------
(* Rows with a topic, and the migration.                                   *)

DefaultTopics == {t \in Topics : name[t] = Default}

\* A source is registered under the Default topic when there is one; the other writers
\* leave the column NULL.
InsertRow(r, t) ==
  /\ home[r] = "absent"
  /\ t = NoTopic \/ t \in DefaultTopics
  /\ home' = [home EXCEPT ![r] = t]
  /\ UNCHANGED <<name, role, ownerless, given, topicCall, screenVars, starts, elsewhere>>

\* A tenant with rows has a Default topic, its rows without one join it, and every user of
\* the tenant without a row among its members becomes an owner.
MigrateResearchTopics(t) ==
  /\ starts < MaxStarts /\ starts' = starts + 1
  /\ \E r \in Placed : home[r] # "absent"
  /\ IF DefaultTopics # {} THEN t \in DefaultTopics ELSE t \in Topics \ Existing
  /\ name' = [name EXCEPT ![t] = Default]
  /\ home' = [r \in Placed |-> IF home[r] = NoTopic THEN t ELSE home[r]]
  /\ role' = [role EXCEPT ![t] = [u \in People |-> IF @[u] = "none" THEN "owner" ELSE @[u]]]
  /\ UNCHANGED <<ownerless, given, topicCall, screenVars, elsewhere>>

-----------------------------------------------------------------------------
(* The page.                                                               *)

Mine == [t \in Topics |-> IF role[t][Me] # "none" THEN name[t] ELSE NoName]

\* fetchTopics, when the page opens and when it is reloaded; the effect on `topics` copies
\* them, and the active topic is kept while it is among them.
LoadTopics ==
  /\ context' = Mine /\ local' = Mine
  /\ active' \in IF active # NoTopic /\ Mine[active] # NoName THEN {active}
                 ELSE IF \A t \in Topics : Mine[t] = NoName THEN {NoTopic}
                 ELSE {t \in Topics : Mine[t] # NoName}
  /\ elsewhere' = {}
  /\ UNCHANGED <<serverVars, topicCall, starts>>

\* The switcher is there when there is a choice.
SetActiveTopicId(t) ==
  /\ context[t] # NoName /\ \E other \in Topics \ {t} : context[other] # NoName
  /\ active' = t
  /\ UNCHANGED <<serverVars, context, local, topicCall, starts, elsewhere>>

-----------------------------------------------------------------------------
TopicsNext ==
  \/ \E c \in TopicCalls :
       \/ \E u \in People, t \in Topics :
            \/ \E n \in Names : CreateResearchTopic(c, u, t, n) \/ CheckToRename(c, u, t, n)
            \/ \E whom \in People :
                 \/ \E as \in {"member", "owner"} : CheckToAdd(c, u, t, whom, as)
                 \/ CheckToRemove(c, u, t, whom)
       \/ SeedOwner(c) \/ UpdateResearchTopic(c) \/ AddTopicMember(c) \/ RemoveTopicMember(c)
       \/ TopicCallStops(c)
  \/ \E r \in Placed, t \in Topics \cup {NoTopic} : InsertRow(r, t)
  \/ \E t \in Topics : MigrateResearchTopics(t)
  \/ LoadTopics
  \/ \E t \in Topics : SetActiveTopicId(t)

TopicsSpec == TopicsInit /\ [][TopicsNext]_topicsVars

-----------------------------------------------------------------------------
TopicsTypeOK ==
  /\ name \in [Topics -> Names \cup {NoName}]
  /\ role \in [Topics -> [People -> {"none", "member", "owner"}]]
  /\ home \in [Placed -> Topics \cup {NoTopic, "absent"}]
  /\ active \in Topics \cup {NoTopic}

\* A topic is without an owner only while or because its creation stopped half way, or because
\* one gave it up; nobody takes the last one away.  A row belongs to a topic that is there.
\* And the settings list shows the name each topic has, unless someone else renamed it.
TopicsSound ==
  /\ \A t \in Existing \ (ownerless \cup given) :
       Owners(t) # {} \/ \E c \in TopicCalls : topicCall[c].at = "seed" /\ topicCall[c].topic = t
  /\ \A r \in Placed : home[r] \in Existing \cup {NoTopic, "absent"}
  /\ \A t \in Topics : local[t] # NoName /\ t \notin elsewhere => local[t] = name[t]
=============================================================================
