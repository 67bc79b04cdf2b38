------------------------------- MODULE Genesis -------------------------------
(***************************************************************************)
(* The initialisation of the databases, run as a job that is retried, and  *)
(* the migrations of a server that starts beside it.                       *)
(*                                                                         *)
(*   packages/db/init-remote.ts   packages/db/index.ts                     *)
(*   k8s/db-init-job.yaml         apps/server/src/index.ts                 *)
(*                                                                         *)
(* The catalog is a set of objects.  A run is a script of calls; what one  *)
(* call sends is one implicit transaction.  Any call may fail, and the job *)
(* then starts over; a later release runs the script on a live database.   *)
(***************************************************************************)
EXTENDS Naturals, Sequences, SequencesExt

CONSTANTS
  MaxRuns,      \* bound: releases that run the job
  MaxFailures   \* bound: calls that fail for no reason in the catalog

ASSUME GenesisAssumption == MaxRuns \in Nat \ {0} /\ MaxFailures \in Nat

VARIABLES
  catalog,   \* what the cluster's databases hold
  env,       \* the environment variables the job is given
  run,       \* the job: the next call, where it stands, and its runs so far
  boot,      \* the server: the next of its migrations, 0 when it is up
  failures   \* bound: failures so far

genesisVars == <<catalog, env, run, boot, failures>>

Databases   == <<"app", "audit", "analytics", "dictionary">>
AppTables   == <<"entities", "relations", "task_queue", "business_journal",
                 "wiki_page_versions", "golden_documents", "golden_document_sections", "legal_holds">>
MktTables   == <<"wiki_pages", "wiki_page_versions_mkt", "signals">>
TopicTables == <<"research_topics", "topic_members">>

\* What loadInitRemoteConfig requires, and what the job is given by k8s/db-init-job.yaml.
Credentials == {"ADMIN_DATABASE_URL", "APP_RW_PASSWORD", "AUDIT_W_PASSWORD", "ANALYTICS_W_PASSWORD",
                "DICT_RW_PASSWORD", "AGENT_EMAIL_INGEST_PASSWORD"}
Manifest    == Credentials \ {"DICT_RW_PASSWORD"}

Table(t)  == <<"table", t>>
Role(r)   == <<"role", r>>
Db(d)     == <<"database", d>>

-----------------------------------------------------------------------------
(* Calls: what one needs to succeed, and what it does.                     *)

Add(needs, x)    == [kind |-> "add",    needs |-> needs, object |-> x]
Create(needs, x) == [kind |-> "create", needs |-> needs, object |-> x]
Discard(needs, x) == [kind |-> "drop",   needs |-> needs, object |-> x]

\* CREATE TABLE IF NOT EXISTS, as app_rw, who may then write the table.
MakeTable(t) == [kind |-> "table", needs |-> {Role("app"), <<"connect", "app">>}, object |-> Table(t)]

\* DROP POLICY IF EXISTS, then CREATE POLICY.
Policy(t, p) == <<Discard({Table(t)}, <<"policy", t, p>>), Create({Table(t)}, <<"policy", t, p>>)>>

\* ENABLE, then FORCE ROW LEVEL SECURITY.
Secure(t) == <<Add({Table(t)}, <<"rls", t>>), Add({Table(t), <<"rls", t>>}, <<"forced", t>>)>>

Each(S, Op(_)) == [i \in 1..Len(S) |-> Op(S[i])]

-----------------------------------------------------------------------------
(* The script of runInitRemote.                                            *)

EnsureRoles     == Each(Databases, LAMBDA d : Add({}, Role(d)))
EnsureDatabases == FlattenSeq(Each(Databases, LAMBDA d :
                     <<Add({}, Db(d)), Add({Db(d)}, <<"private", d>>)>>))
GrantConnects   == Each(Databases, LAMBDA d : Add({Db(d), Role(d)}, <<"connect", d>>))

ConfigureApp == <<
  Add({Db("app")}, <<"extension", "vector">>),
  [kind |-> "grant all", needs |-> {Db("app"), Role("app")}, object |-> <<"grant", "app">>]>>

ConfigureAudit      == <<Add({Db("audit"), Role("audit")}, Table("audit_events"))>>
ConfigureAnalytics  == <<Add({Db("analytics"), Role("analytics")}, Table("analytics_events"))>>
ConfigureDictionary == <<Add({Db("dictionary"), Role("dictionary")}, Table("identity_tokens"))>>

MigrateAppSchema == Each(AppTables, MakeTable)

\* REVOKE UPDATE, DELETE ON business_journal.
SealJournal == <<Discard({Table("business_journal")}, <<"mutable", "business_journal">>)>>

AgentRoles == <<
  Add({}, Role("agent_worker")),
  Add({Role("agent_worker")}, Role("agent_email_ingest")),
  Add({Table("task_queue")}, <<"rls", "task_queue">>),
  Add({Db("app"), Role("agent_email_ingest")}, <<"connect", "agent_email_ingest">>),
  Add({Table("task_queue"), Role("agent_email_ingest")}, <<"grant", "task_queue_view_email_ingest">>)>>
  \o Policy("task_queue", "email_ingest_read")

CustomerScopedRls ==
  Secure("entities") \o Policy("entities", "tenant_isolation")
  \o Secure("relations") \o Policy("relations", "tenant_isolation")
  \o Secure("wiki_page_versions") \o Policy("wiki_page_versions", "rm_isolation")
  \o Policy("wiki_page_versions", "insert_bypass") \o Policy("wiki_page_versions", "update_bypass")

BdmRls == Policy("entities", "bdm_block") \o Policy("relations", "bdm_block")
          \o Policy("wiki_page_versions", "bdm_block")

GoldenDocumentsRls ==
  Secure("golden_documents") \o Policy("golden_documents", "tenant_isolation")
  \o Policy("golden_documents", "researcher_only")
  \o Secure("golden_document_sections") \o Policy("golden_document_sections", "tenant_isolation")
  \o Policy("golden_document_sections", "researcher_only")

ComplianceOfficer ==
  <<Add({}, Role("compliance")),
    Add({Role("compliance"), Role("app"), Table("legal_holds"), Table("entities")}, <<"grant", "compliance">>),
    Add({Role("compliance"), Table("audit_events")}, <<"grant", "compliance audit">>)>>
  \o Policy("entities", "compliance_block") \o Policy("relations", "compliance_block")
  \o Policy("wiki_page_versions", "compliance_block")

ResearchTopicsRls ==
  FlattenSeq(Each(TopicTables, LAMBDA t : Secure(t) \o Policy(t, "tenant_isolation")))
  \o FlattenSeq(Each(MktTables, LAMBDA t :
       Secure(t) \o Policy(t, "topic_membership")
       \o Policy(t, "insert_bypass") \o Policy(t, "update_bypass")))

Basics == EnsureRoles \o EnsureDatabases \o GrantConnects

Rest == AgentRoles \o CustomerScopedRls \o BdmRls \o GoldenDocumentsRls \o ComplianceOfficer

\* The calls before the try; a failure of one ends the run.
Required ==
  Basics \o ConfigureApp \o ConfigureAudit \o ConfigureAnalytics \o ConfigureDictionary
  \o MigrateAppSchema \o SealJournal \o Rest

\* The calls inside it are given up at the first that fails.
Script   == Required \o ResearchTopicsRls
VerifyAt == Len(Script) + 1

\* What the order of the calls has to guarantee (a closed formula): the required ones come
\* first, one makes the journal, and none drops what one before it is for.
ASSUME ScriptAssumption ==
  /\ Len(Required) \in Nat /\ VerifyAt \in Nat /\ Len(Required) < VerifyAt
  /\ DOMAIN Required = 1..Len(Required)
  /\ \A i \in DOMAIN Required : Script[i] = Required[i]
  /\ \A i \in 1..VerifyAt - 1 : Script[i].kind \in {"add", "create", "drop", "grant all", "table"}
  /\ \E i \in DOMAIN Required :
       Required[i].kind # "drop" /\ Required[i].object = Table("business_journal")
  /\ \A i \in DOMAIN Required : \A j \in i + 1..VerifyAt - 1 :
       Required[i].kind # "drop" /\ Script[j].kind = "drop" => Script[j].object # Required[i].object

-----------------------------------------------------------------------------
(* The effect of a call on the catalog.                                    *)

Fails(call) == ~(call.needs \subseteq catalog) \/ (call.kind = "create" /\ call.object \in catalog)

\* GRANT ... ON ALL TABLES reaches the tables that exist.
Mutable(cat) == {<<"mutable", t>> : t \in {t \in ToSet(AppTables) : Table(t) \in cat}}

Effect(call, cat) ==
  CASE call.kind \in {"add", "create"} -> cat \cup {call.object}
    [] call.kind = "drop"      -> cat \ {call.object}
    [] call.kind = "grant all" -> cat \cup {call.object} \cup Mutable(cat)
    [] call.kind = "table"     ->
         IF call.object \in cat THEN cat
         ELSE cat \cup {call.object} \cup (Mutable(cat \cup {call.object}) \ Mutable(cat))

\* verifyInitRemote: the objects it asks for.
Verified ==
  {Role(d) : d \in ToSet(Databases) \cup {"compliance", "agent_worker", "agent_email_ingest"}}
  \cup {Db(d) : d \in ToSet(Databases)} \cup {<<"connect", d>> : d \in ToSet(Databases)}
  \cup {Table(t) : t \in {"audit_events", "analytics_events", "identity_tokens", "business_journal"}}
  \cup {<<"rls", t>> : t \in {"task_queue", "entities", "relations", "wiki_page_versions", "golden_documents"}}
  \cup {<<"policy", t, p>> : t \in {"entities", "relations"},
                             p \in {"tenant_isolation", "bdm_block", "compliance_block"}}
  \cup {<<"policy", "wiki_page_versions", p>> : p \in {"rm_isolation", "bdm_block", "compliance_block"}}
  \cup {<<"policy", "golden_documents", p>> : p \in {"tenant_isolation", "researcher_only"}}
  \cup {<<"policy", "task_queue", "email_ingest_read">>}
  \cup {<<"grant", g>> : g \in {"compliance", "compliance audit", "task_queue_view_email_ingest"}}

VerifyFails == ~(Verified \subseteq catalog) \/ <<"mutable", "business_journal">> \in catalog

-----------------------------------------------------------------------------
GenesisInit ==
  /\ catalog = {} /\ failures = 0
  /\ env \in {Manifest, Credentials}
  /\ run  = [pc |-> 0, status |-> "running", runs |-> 1]
  /\ boot = 1

\* loadInitRemoteConfig, before the first connection is made.
LoadConfig ==
  /\ run.status = "running" /\ run.pc = 0
  /\ run' = IF Credentials \subseteq env THEN [run EXCEPT !.pc = 1] ELSE [run EXCEPT !.status = "failed"]
  /\ UNCHANGED <<catalog, env, boot, failures>>

\* One call of the script.
Call ==
  /\ run.status = "running" /\ run.pc \in 1..VerifyAt - 1
  /\ ~Fails(Script[run.pc])
  /\ catalog' = Effect(Script[run.pc], catalog)
  /\ run' = [run EXCEPT !.pc = @ + 1]
  /\ UNCHANGED <<env, boot, failures>>

\* As CallFails below, had main only logged what it caught.
CallFailsWrong ==
  /\ run.status = "running" /\ run.pc \in 1..VerifyAt - 1
  /\ \/ Fails(Script[run.pc]) /\ UNCHANGED failures
     \/ failures < MaxFailures /\ failures' = failures + 1
  /\ run' = IF run.pc > Len(Required) THEN [run EXCEPT !.pc = VerifyAt]
                                      ELSE [run EXCEPT !.status = "done"]
  /\ UNCHANGED <<catalog, env, boot>>

\* A call that throws: the catch around the topics swallows it, elsewhere it ends the run.
CallFails ==
  /\ run.status = "running" /\ run.pc \in 1..VerifyAt - 1
  /\ \/ Fails(Script[run.pc]) /\ UNCHANGED failures
     \/ failures < MaxFailures /\ failures' = failures + 1
  /\ run' = IF run.pc > Len(Required) THEN [run EXCEPT !.pc = VerifyAt]
                                      ELSE [run EXCEPT !.status = "failed"]
  /\ UNCHANGED <<catalog, env, boot>>

Verify ==
  /\ run.status = "running" /\ run.pc = VerifyAt
  /\ run' = [run EXCEPT !.status = IF VerifyFails THEN "failed" ELSE "done"]
  /\ UNCHANGED <<catalog, env, boot, failures>>

\* restartPolicy: OnFailure.
Retry ==
  /\ run.status = "failed"
  /\ run' = [run EXCEPT !.status = "running", !.pc = 0]
  /\ UNCHANGED <<catalog, env, boot, failures>>

\* The job of a later release.
RunAgain ==
  /\ run.status = "done" /\ run.runs < MaxRuns
  /\ run' = [pc |-> 0, status |-> "running", runs |-> run.runs + 1]
  /\ UNCHANGED <<catalog, env, boot, failures>>

\* The tables of the server's migrations, in the order of its start.
BootTables == AppTables \o MktTables \o TopicTables

\* migrate, migrateMkt and migrateResearchTopics; the second and third may be skipped.
BootStep ==
  /\ boot > 0
  /\ LET call == MakeTable(BootTables[boot])
         next == IF boot = Len(BootTables) THEN 0 ELSE boot + 1 IN
     \/ ~Fails(call) /\ catalog' = Effect(call, catalog) /\ boot' = next /\ UNCHANGED failures
     \/ /\ failures < MaxFailures /\ failures' = failures + 1 /\ UNCHANGED catalog
        /\ boot' = IF boot <= Len(AppTables) THEN 1
                   ELSE IF boot <= Len(AppTables \o MktTables) THEN Len(AppTables \o MktTables) + 1 ELSE 0
  /\ UNCHANGED <<env, run>>

ServerRestarts ==
  /\ boot = 0 /\ boot' = 1
  /\ UNCHANGED <<catalog, env, run, failures>>

RunStep == LoadConfig \/ Call \/ CallFails \/ Verify \/ Retry

GenesisNext == RunStep \/ RunAgain \/ BootStep \/ ServerRestarts

GenesisSpec == GenesisInit /\ [][GenesisNext]_genesisVars

-----------------------------------------------------------------------------
GenesisTypeOK ==
  /\ env \subseteq Credentials /\ run.pc \in 0..VerifyAt /\ run.status \in {"running", "failed", "done"}
  /\ run.runs \in 1..MaxRuns /\ boot \in 0..Len(BootTables) /\ failures \in 0..MaxFailures

\* What the required part of the script is for.
Whole == {Required[i].object : i \in {i \in DOMAIN Required : Required[i].kind # "drop"}}

\* A run that reports success leaves everything the required calls are for, and a
\* journal the application may only append to, although its verification looks at a
\* part only: whatever calls failed in the runs before it, on a live database that a
\* server migrates meanwhile.
GenesisWhole ==
  run.status = "done" => Whole \subseteq catalog /\ <<"mutable", "business_journal">> \notin catalog
=============================================================================
