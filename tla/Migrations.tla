----------------------------- MODULE Migrations -----------------------------
(***************************************************************************)
(* The migrations of the database schema: the chain of scripts under       *)
(* prism_inspire/alembic/versions and the commands `alembic upgrade` and   *)
(* `alembic downgrade` that run them.  One command is one transaction      *)
(* (env.py: context.begin_transaction()), and PostgreSQL takes a failed    *)
(* transaction back as a whole.                                            *)
(*                                                                         *)
(* Of the schema the model keeps what the scripts touch again: the tables, *)
(* their foreign keys, the columns and rules (NOT NULL, UNIQUE) that some  *)
(* later script names, the indexes and the enumeration types.  Of the data *)
(* it keeps which tables hold rows, and which rules not in force the rows  *)
(* break: that is what makes a script fail on a database in use.           *)
(***************************************************************************)
EXTENDS Integers, Sequences, FiniteSets, SequencesExt

CONSTANT
    Filled,      \* the tables whose rows the model follows
    Targets      \* the revisions that commands name, `head` and `base` among them

VARIABLES
    database,    \* the schema, and what is known of its rows
    revision,    \* how many scripts of the chain are applied (alembic_version)
    refused      \* {r} if the last command was for revision r and failed

migrationVars == <<database, revision, refused>>

-----------------------------------------------------------------------------
(* The operations of alembic's `op`, as records.                           *)

Ref(column, table)   == <<column, table, "restrict">>
Owned(column, table) == <<column, table, "cascade">>
Loose(column, table) == <<column, table, "set null">>

TableOf(t, keys, columns, rules, enums) ==
    [do |-> "create table", table |-> t, keys |-> keys,
     columns |-> columns \cup {k[1] : k \in keys}, rules |-> rules, enums |-> enums]
Table(t, keys)        == TableOf(t, keys, {}, {}, {})
DropTable(t)          == [do |-> "drop table", table |-> t]
Column(t, c)          == [do |-> "add column", table |-> t, column |-> c, required |-> FALSE]
RequiredColumn(t, c)  == [do |-> "add column", table |-> t, column |-> c, required |-> TRUE]
DropColumn(t, c)      == [do |-> "drop column", table |-> t, column |-> c]
Key(t, key)           == [do |-> "add key", table |-> t, key |-> key]
DropKey(t, c)         == [do |-> "drop key", table |-> t, column |-> c]
Rule(t, c, kind)      == [do |-> "add rule", rule |-> <<t, c, kind>>]
DropRule(t, c, kind)  == [do |-> "drop rule", rule |-> <<t, c, kind>>]
Index(i, t)           == [do |-> "index", index |-> <<i, t>>, columns |-> {}, lenient |-> FALSE]
IndexIfNew(i, t, cs)  == [do |-> "index", index |-> <<i, t>>, columns |-> cs, lenient |-> TRUE]
DropIndex(i, t)       == [do |-> "drop index", index |-> <<i, t>>]
Enums(es)             == [do |-> "types", enums |-> es]
DropEnums(es)         == [do |-> "drop types", enums |-> es]
Recast(t, c, using)   == [do |-> "recast", table |-> t, column |-> c, using |-> using]
Fill(t, c)            == [do |-> "fill", table |-> t, column |-> c]
Seed(t)               == [do |-> "seed", table |-> t]

(* The rules that some script imposes on a column that is already there.   *)
Tightened == {<<"files", "s3url", "required">>, <<"alex_chat_messages", "message_type", "required">>,
              <<"issues", "reported_by", "required">>, <<"organization", "type", "required">>,
              <<"user_preferences", "user_id", "unique">>}

(* PostgreSQL executes the operation, or raises and ends the transaction:  *)
(* no second table, index or type of a name, nothing missing is dropped, a *)
(* table another one refers to stays, and one enumeration becomes another  *)
(* only by an explicit USING.  Of the rows, a new column without a default *)
(* can only be NOT NULL in an empty table, and a rule needs rows that keep *)
(* it.  A CREATE TABLE also creates its enumeration types; a DROP TABLE    *)
(* leaves them.                                                            *)
Fits(db, op) ==
    CASE op.do = "create table" -> /\ op.table \notin db.tables
                                   /\ {k[2] : k \in op.keys} \subseteq db.tables \cup {op.table}
                                   /\ op.enums \cap db.enums = {}
      [] op.do = "drop table"   -> /\ op.table \in db.tables
                                   /\ \A k \in db.keys : k[3] = op.table => k[1] = op.table
      [] op.do = "add column"   -> /\ op.table \in db.tables
                                   /\ <<op.table, op.column>> \notin db.columns
      [] op.do = "drop column"  -> <<op.table, op.column>> \in db.columns
      [] op.do = "add key"      -> {op.table, op.key[2]} \subseteq db.tables
      [] op.do = "drop key"     -> \E k \in db.keys : k[1] = op.table /\ k[2] = op.column
      [] op.do = "add rule"     -> op.rule \notin db.rules
      [] op.do = "drop rule"    -> op.rule \in db.rules
      [] op.do = "index"        -> \/ op.lenient /\ op.index[1] \in {i[1] : i \in db.indexes}
                                   \/ /\ op.index[1] \notin {i[1] : i \in db.indexes}
                                      /\ op.index[2] \in db.tables
                                      /\ \A c \in op.columns : <<op.index[2], c>> \in db.columns
      [] op.do = "drop index"   -> op.index \in db.indexes
      [] op.do = "recast"       -> <<op.table, op.column>> \in db.columns /\ op.using
      [] OTHER                  -> TRUE

Allowed(db, op) ==
    /\ op.do = "add column" /\ op.required => op.table \notin db.rows
    /\ op.do = "add rule" => op.rule \notin db.breaks

Possible(db, op) == Fits(db, op) /\ Allowed(db, op)

(* What becomes of the schema; a table takes along what belongs to it, and *)
(* so does a column.                                                       *)
WithoutColumn(db, c) ==
    LET of(set) == {x \in set : <<x[1], x[2]>> # c}
    IN  [db EXCEPT !.columns = of(@), !.keys = of(@), !.rules = of(@)]

WithoutTable(db, t) ==
    LET of(set) == {x \in set : x[1] # t}
    IN  [db EXCEPT !.tables = @ \ {t}, !.columns = of(@), !.keys = of(@), !.rules = of(@),
                   !.indexes = {i \in @ : i[2] # t}]

Altered(db, op) ==
    CASE op.do = "create table" ->
            [db EXCEPT !.tables = @ \cup {op.table}, !.enums = @ \cup op.enums,
                       !.columns = @ \cup {<<op.table, c>> : c \in op.columns},
                       !.keys = @ \cup {<<op.table>> \o k : k \in op.keys},
                       !.rules = @ \cup {<<op.table>> \o r : r \in op.rules}]
      [] op.do = "drop table"   -> WithoutTable(db, op.table)
      [] op.do = "add column"   ->
            [db EXCEPT !.columns = @ \cup {<<op.table, op.column>>},
                       !.rules = IF op.required THEN @ \cup {<<op.table, op.column, "required">>} ELSE @]
      [] op.do = "drop column"  -> WithoutColumn(db, <<op.table, op.column>>)
      [] op.do = "add key"      -> [db EXCEPT !.keys = @ \cup {<<op.table>> \o op.key}]
      [] op.do = "drop key"     ->
            [db EXCEPT !.keys = {k \in @ : <<k[1], k[2]>> # <<op.table, op.column>>}]
      [] op.do = "add rule"     -> [db EXCEPT !.rules = @ \cup {op.rule}]
      [] op.do = "drop rule"    -> [db EXCEPT !.rules = @ \ {op.rule}]
      [] op.do = "index"        ->
            IF \E i \in db.indexes : i[1] = op.index[1] THEN db
            ELSE [db EXCEPT !.indexes = @ \cup {op.index}]
      [] op.do = "drop index"   -> [db EXCEPT !.indexes = @ \ {op.index}]
      [] op.do = "types"        -> [db EXCEPT !.enums = @ \cup op.enums]
      [] op.do = "drop types"   -> [db EXCEPT !.enums = @ \ op.enums]
      [] OTHER                  -> db

(* And what becomes of the rows.  A new column that is not required is     *)
(* empty in the rows there are, and breaks the rule to come.               *)
Executed(db, op) ==
    LET after == Altered(db, op)
    IN  CASE op.do = "drop table"  -> [after EXCEPT !.rows = @ \ {op.table},
                                                    !.breaks = {r \in @ : r[1] # op.table}]
          [] op.do = "add column"  ->
                [after EXCEPT !.breaks = IF op.table \in db.rows
                     THEN @ \cup ({<<op.table, op.column, "required">>} \cap Tightened) ELSE @]
          [] op.do = "drop column" ->
                [after EXCEPT !.breaks = {r \in @ : <<r[1], r[2]>> # <<op.table, op.column>>}]
          [] op.do = "fill"        ->
                [after EXCEPT !.breaks = @ \ {<<op.table, op.column, "required">>}]
          [] op.do = "seed"        -> [after EXCEPT !.rows = @ \cup ({op.table} \cap Filled)]
          [] OTHER                 -> after

(* The operations one after the other, until one of them raises.           *)
Run(start, ops) ==
    LET after[i \in 0..Len(ops)] ==
            IF i = 0 THEN [ok |-> TRUE, db |-> start]
            ELSE LET before == after[i - 1]
                 IN  IF before.ok /\ Possible(before.db, ops[i])
                     THEN [ok |-> TRUE, db |-> Executed(before.db, ops[i])]
                     ELSE [ok |-> FALSE, db |-> before.db]
    IN  after[Len(ops)]

-----------------------------------------------------------------------------
(* The scripts, in the order of their down_revision: up and down.          *)

Message ==
    [up |-> <<Table("groups", {}), Table("organization", {}), Table("relationship", {}), Table("roles", {}),
              TableOf("users", {}, {"email"}, {}, {"auth_provider_enum"}),
              Table("permissions", {Ref("created_by", "users")}),
              TableOf("user_profiles", {Owned("org_id", "organization"), Owned("role", "roles"),
                      Owned("user_group", "groups"), Owned("user_id", "users")}, {"name"}, {}, {}),
              Table("group_permission", {Ref("created_by", "users"), Ref("group_id", "groups"),
                                         Ref("permission_id", "permissions")}),
              Table("role_permission", {Ref("created_by", "users"), Ref("permission_id", "permissions"),
                                        Ref("role_id", "roles")})>>,
     down |-> <<DropTable("role_permission"), DropTable("group_permission"), DropTable("user_profiles"),
                DropTable("permissions"), DropTable("users"), DropTable("roles"),
                DropTable("relationship"), DropTable("organization"), DropTable("groups")>>]

InitialModels ==
    [up |-> <<Table("accents", {}), Table("categories", {}), Table("questions", {}), Table("tones", {}),
              Table("agents", {Ref("category_id", "categories")}),
              TableOf("files", {Ref("category_id", "categories")}, {"s3url"}, {<<"s3url", "required">>}, {}),
              TableOf("user_preferences", {Ref("accent_id", "accents"), Ref("agent_id", "agents"),
                      Ref("tone_id", "tones"), Owned("user_id", "users")}, {}, {<<"user_id", "unique">>}, {}),
              Column("user_profiles", "is_profile_complete"), Column("user_profiles", "has_submitted_survey")>>,
     down |-> <<DropColumn("user_profiles", "has_submitted_survey"),
                DropColumn("user_profiles", "is_profile_complete"), DropTable("user_preferences"),
                DropTable("files"), DropTable("agents"), DropTable("tones"), DropTable("questions"),
                DropTable("categories"), DropTable("accents")>>]

PerAgentPreferences ==
    [up   |-> <<DropRule("user_preferences", "user_id", "unique"),
                Rule("user_preferences", "user_id agent_id", "unique")>>,
     down |-> <<DropRule("user_preferences", "user_id agent_id", "unique"),
                Rule("user_preferences", "user_id", "unique")>>]

FileOwners ==
    [up   |-> <<RequiredColumn("files", "user_id"), Key("files", Owned("user_id", "users"))>>,
     down |-> <<DropKey("files", "user_id"), DropColumn("files", "user_id")>>]

FileServices ==
    [up   |-> <<DropTable("questions"), RequiredColumn("files", "file_type"), Column("files", "file_key"),
                Column("files", "exception"), DropRule("files", "s3url", "required")>>,
     down |-> <<Rule("files", "s3url", "required"), DropColumn("files", "exception"),
                DropColumn("files", "file_key"), DropColumn("files", "file_type"), Table("questions", {})>>]

AgentPrompts ==
    [up   |-> <<TableOf("prompts", {Ref("agent_id", "agents")}, {"name"}, {<<"name", "required">>}, {}),
                Column("user_preferences", "prompt_id"), Key("user_preferences", Ref("prompt_id", "prompts"))>>,
     down |-> <<DropKey("user_preferences", "prompt_id"), DropColumn("user_preferences", "prompt_id"),
                DropTable("prompts")>>]

VectorStores ==
    [up |-> <<Table("vector_stores", {Owned("user_id", "users")})>>, down |-> <<DropTable("vector_stores")>>]

PromptText ==
    [up   |-> <<RequiredColumn("prompts", "prompt"), DropColumn("prompts", "name")>>,
     down |-> <<RequiredColumn("prompts", "name"), DropColumn("prompts", "prompt")>>]

ChatTables ==
    [up |-> <<TableOf("conversations", {Loose("agent_id", "agents"), Owned("user_id", "users")}, {"status"}, {},
                      {"conversation_status_enum"}),
              TableOf("chat_messages", {Owned("conversation_id", "conversations"),
                      Loose("parent_message_id", "chat_messages"), Owned("user_id", "users")},
                      {"message_type", "audio_type", "status"}, {},
                      {"message_type_enum", "audio_type_enum", "message_status_enum"})>>,
     down |-> <<DropTable("chat_messages"), DropTable("conversations")>>]

AlexChatAdded ==
    [up   |-> <<TableOf("alex_chat_messages", {}, {"message_type"}, {<<"message_type", "required">>},
                        {"message_type"})>>,
     down |-> <<DropTable("alex_chat_messages")>>]

AlexChat ==
    [up   |-> <<DropRule("alex_chat_messages", "message_type", "required")>>,
     down |-> <<Rule("alex_chat_messages", "message_type", "required")>>]

ReportTable ==
    [up   |-> <<Table("reports", {Owned("file_id", "files")}), DropTable("vector_stores")>>,
     down |-> <<Table("vector_stores", {Owned("user_id", "users")}), DropTable("reports")>>]

(* The way back recasts the four columns without a USING.                  *)
Businesses ==
    LET new    == {"messagetypeenum", "audiotypeenum", "messagestatusenum", "conversationstatusenum",
                   "rolelevelenum"}
        recasts(using) == <<Recast("chat_messages", "message_type", using),
                            Recast("chat_messages", "audio_type", using),
                            Recast("chat_messages", "status", using), Recast("conversations", "status", using)>>
        added  == <<"business_id", "assigned_by", "assigned_at", "expires_at", "is_active">>
    IN  [up |-> <<Enums(new),
                  TableOf("business", {Owned("organization_id", "organization")}, {}, {}, {"businesstypeenum"}),
                  Table("organization_admin", {Ref("assigned_by", "users"), Owned("user_id", "users"),
                                               Owned("organization_id", "organization")}),
                  Table("employee_profiles", {Ref("manager_id", "user_profiles"),
                                              Owned("user_profile_id", "user_profiles")}),
                  Table("student_profiles", {Ref("parent_contact_id", "user_profiles"),
                                             Owned("user_profile_id", "user_profiles")}),
                  Table("teacher_profiles", {Owned("user_profile_id", "user_profiles")}),
                  DropTable("relationship")>>
                \o recasts(TRUE)
                \o <<Column("organization", "email"), Column("organization", "address"),
                     RequiredColumn("roles", "role_level")>>
                \o [i \in 1..5 |-> Column("user_profiles", added[i])]
                \o <<Key("user_profiles", Ref("assigned_by", "users")),
                     Key("user_profiles", Owned("business_id", "business"))>>,
         down |-> <<DropKey("user_profiles", "business_id"), DropKey("user_profiles", "assigned_by")>>
                  \o [i \in 1..5 |-> DropColumn("user_profiles", added[6 - i])]
                  \o <<DropColumn("roles", "role_level"), DropColumn("organization", "address"),
                       DropColumn("organization", "email")>>
                  \o Reverse(recasts(FALSE))
                  \o <<Table("relationship", {}), DropTable("teacher_profiles"), DropTable("student_profiles"),
                       DropTable("employee_profiles"), DropTable("organization_admin"),
                       DropTable("business"), DropEnums(new)>>]

IssuesAndLicenses ==
    [up |-> <<Table("licenses", {Ref("organization_id", "organization")}),
              TableOf("issues", {Ref("business_id", "business"), Ref("organization_id", "organization"),
                      Ref("reported_by", "users")}, {"title", "resolution_notes"},
                      {<<"title", "required">>, <<"reported_by", "required">>}, {}),
              Table("organization_agents", {Owned("agent_id", "agents"), Ref("assigned_by", "users"),
                                            Owned("organization_id", "organization")}),
              TableOf("user_invitations", {Owned("business_id", "business"), Ref("invited_by", "users"),
                      Owned("organization_id", "organization"), Owned("role_id", "roles")}, {}, {},
                      {"invitationstatusenum"}),
              Table("issue_comments", {Ref("commented_by", "users"), Ref("issue_id", "issues")}),
              Column("organization", "website_url"), Column("organization", "logo")>>,
     down |-> <<DropColumn("organization", "logo"), DropColumn("organization", "website_url"),
                DropTable("issue_comments"), DropTable("user_invitations"), DropTable("organization_agents"),
                DropTable("issues"), DropTable("licenses")>>]

DisplayName ==
    [up |-> <<Column("categories", "display_name")>>, down |-> <<DropColumn("categories", "display_name")>>]

AgentType ==
    [up   |-> <<Column("agents", "type"), Column("agents", "is_active"), Column("categories", "type")>>,
     down |-> <<DropColumn("categories", "type"), DropColumn("agents", "is_active"),
                DropColumn("agents", "type")>>]

ProfilesAndGenders ==
    [up |-> <<Table("genders", {}),
              Table("user_preference_tones", {Owned("tone_id", "tones"),
                                              Owned("user_preference_id", "user_preferences")}),
              DropTable("reports"), Column("user_preferences", "gender_id"),
              DropKey("user_preferences", "tone_id"), Key("user_preferences", Ref("gender_id", "genders")),
              DropColumn("user_preferences", "tone_id"), Column("user_profiles", "first_name"),
              Column("user_profiles", "last_name"), Column("user_profiles", "date_of_birth"),
              Column("user_profiles", "additional_info"), DropColumn("user_profiles", "name")>>,
     down |-> <<Column("user_profiles", "name"), DropColumn("user_profiles", "additional_info"),
                DropColumn("user_profiles", "date_of_birth"), DropColumn("user_profiles", "last_name"),
                DropColumn("user_profiles", "first_name"), Column("user_preferences", "tone_id"),
                DropKey("user_preferences", "gender_id"), Key("user_preferences", Ref("tone_id", "tones")),
                DropColumn("user_preferences", "gender_id"), Table("reports", {Owned("file_id", "files")}),
                DropTable("user_preference_tones"), DropTable("genders")>>]

IssueTypes ==
    [up |-> <<Table("issue_types", {}), RequiredColumn("issue_comments", "is_admin_comment"),
              RequiredColumn("issues", "subject"), Column("issues", "issue_type_id"),
              Key("issues", Ref("issue_type_id", "issue_types")), DropColumn("issues", "title"),
              DropColumn("issues", "resolution_notes")>>,
     down |-> <<Column("issues", "resolution_notes"), RequiredColumn("issues", "title"),
                DropKey("issues", "issue_type_id"), DropColumn("issues", "issue_type_id"),
                DropColumn("issues", "subject"), DropColumn("issue_comments", "is_admin_comment"),
                DropTable("issue_types")>>]

AttachmentIndexes == <<"ix_issue_attachments_issue_id", "ix_issue_attachments_uploaded_by",
                       "ix_issue_attachments_is_deleted">>

IssueAttachments ==
    [up   |-> <<Table("issue_attachments", {Owned("issue_id", "issues"), Owned("uploaded_by", "users")})>>
              \o [i \in 1..3 |-> Index(AttachmentIndexes[i], "issue_attachments")],
     down |-> [i \in 1..3 |-> DropIndex(AttachmentIndexes[4 - i], "issue_attachments")]
              \o <<DropTable("issue_attachments")>>]

AttachmentKeys ==
    LET t == "issue_attachments"
    IN  [up   |-> <<DropIndex(AttachmentIndexes[3], t), DropIndex(AttachmentIndexes[1], t),
                    DropIndex(AttachmentIndexes[2], t), DropKey(t, "uploaded_by"), DropKey(t, "issue_id"),
                    Key(t, Ref("issue_id", "issues")), Key(t, Ref("uploaded_by", "users"))>>,
         down |-> <<DropKey(t, "uploaded_by"), DropKey(t, "issue_id"), Key(t, Owned("issue_id", "issues")),
                    Key(t, Owned("uploaded_by", "users")), Index(AttachmentIndexes[2], t),
                    Index(AttachmentIndexes[1], t), Index(AttachmentIndexes[3], t)>>]

FrontendTexts == [up |-> <<>>, down |-> <<>>]

FrontendTextsTable ==
    [up |-> <<Table("frontend_texts", {})>>, down |-> <<DropTable("frontend_texts")>>]

OrganizationTones ==
    LET t == "organization_agents"
    IN  [up   |-> <<Table("organization_agent_preference_tones", {Owned("organization_agent_id", t),
                                                                  Owned("tone_id", "tones")}),
                    Column(t, "accent_id"), Column(t, "gender_id"), Key(t, Ref("accent_id", "accents")),
                    Key(t, Ref("gender_id", "genders"))>>,
         down |-> <<DropKey(t, "gender_id"), DropKey(t, "accent_id"), DropColumn(t, "gender_id"),
                    DropColumn(t, "accent_id"), DropTable("organization_agent_preference_tones")>>]

OrganizationType ==
    [up   |-> <<Enums({"organizationtypeenum"}), Column("organization", "type"), Fill("organization", "type"),
                Rule("organization", "type", "required"), Column("business", "is_onboarded"),
                Column("organization", "is_onboarded")>>,
     down |-> <<DropColumn("organization", "is_onboarded"), DropColumn("organization", "type"),
                DropColumn("business", "is_onboarded"), DropEnums({"organizationtypeenum"})>>]

BusinessAgents ==
    [up   |-> <<Table("business_agents", {Owned("agent_id", "agents"), Owned("business_id", "business")})>>,
     down |-> <<DropTable("business_agents")>>]

ReportsAgain ==
    [up |-> <<Table("reports", {Owned("file_id", "files")})>>, down |-> <<DropTable("reports")>>]

UserAgentAssignments ==
    [up   |-> <<Table("user_agent_assignments", {Owned("agent_id", "agents"), Owned("user_id", "users")})>>,
     down |-> <<DropTable("user_agent_assignments")>>]

AgentInformation ==
    [up |-> <<Column("agents", "information")>>, down |-> <<DropColumn("agents", "information")>>]

ConvertedKey ==
    [up |-> <<Column("files", "converted_file_key")>>, down |-> <<DropColumn("files", "converted_file_key")>>]

MultiRole ==
    [up |-> <<Index("ix_roles_name", "roles"), Seed("roles")>>, down |-> <<DropIndex("ix_roles_name", "roles")>>]

-----------------------------------------------------------------------------
(* Phase 2 and phase 3 both hold the tables of managers, practitioners and *)
(* distributors, each in a copy of its own; the copies agree on what the   *)
(* model keeps of a table.                                                 *)
ManagerTables ==
    <<Table("training_assignments", {Ref("manager_id", "users"), Ref("user_id", "users")}),
      Table("hiring_positions", {Ref("manager_id", "users"), Ref("organization_id", "organization")}),
      Table("candidates", {Owned("position_id", "hiring_positions")}),
      Table("interviews", {Owned("candidate_id", "candidates"), Ref("interviewer_id", "users")})>>

PractitionerTables ==
    <<Table("practitioner_clients", {Ref("practitioner_id", "users"), Ref("client_id", "users")}),
      Table("coaching_sessions", {Owned("practitioner_client_id", "practitioner_clients"),
                                  Ref("practitioner_id", "users"), Ref("client_id", "users")}),
      Table("practitioner_credits", {Ref("practitioner_id", "users")}),
      Table("follow_ups", {Ref("practitioner_id", "users"), Ref("client_id", "users")})>>

DistributorTables ==
    <<Table("distributor_territories", {Ref("distributor_id", "users")}),
      Table("distributor_practitioners", {Ref("distributor_id", "users"), Ref("practitioner_id", "users")}),
      Table("distributor_credits", {Ref("distributor_id", "users")}),
      Table("credit_transactions", {Ref("distributor_id", "users"), Ref("practitioner_id", "users")})>>

Dropped(tables) == [i \in DOMAIN tables |-> DropTable(tables[Len(tables) + 1 - i].table)]

Phase2Indexes ==
    <<Index("ix_training_assignments_manager", "training_assignments"),
      Index("ix_training_assignments_user", "training_assignments"),
      Index("ix_hiring_positions_manager", "hiring_positions"), Index("ix_candidates_position", "candidates"),
      Index("ix_interviews_interviewer", "interviews"), Index("ix_interviews_scheduled", "interviews"),
      Index("ix_practitioner_clients_practitioner", "practitioner_clients"),
      Index("ix_coaching_sessions_practitioner", "coaching_sessions"),
      Index("ix_coaching_sessions_scheduled", "coaching_sessions"),
      Index("ix_follow_ups_practitioner", "follow_ups"), Index("ix_follow_ups_due_date", "follow_ups"),
      Index("ix_distributor_practitioners_dist", "distributor_practitioners"),
      Index("ix_credit_transactions_dist", "credit_transactions")>>

Phase2 ==
    LET tables == ManagerTables \o PractitionerTables \o DistributorTables
    IN  [up   |-> <<Seed("roles")>> \o tables \o Phase2Indexes,
         down |-> [i \in 1..13 |-> [Phase2Indexes[14 - i] EXCEPT !.do = "drop index"]] \o Dropped(tables)]

Phase3Shared ==
    <<Table("user_goals", {Ref("user_id", "users")}), Table("user_activities", {Ref("user_id", "users")}),
      Table("cost_records", {Ref("organization_id", "organization"), Ref("user_id", "users")}),
      Table("org_nodes", {Ref("organization_id", "organization"), Ref("parent_id", "org_nodes"),
                          Ref("user_id", "users")})>>

Phase3Indexes ==
    <<Index("ix_training_assignments_manager", "training_assignments"),
      Index("ix_training_assignments_user", "training_assignments"),
      Index("ix_hiring_positions_manager", "hiring_positions"),
      Index("ix_candidates_position", "candidates"), Index("ix_interviews_interviewer", "interviews"),
      Index("ix_interviews_scheduled", "interviews"),
      Index("ix_practitioner_clients_pract", "practitioner_clients"),
      Index("ix_coaching_sessions_pract", "coaching_sessions"),
      Index("ix_coaching_sessions_scheduled", "coaching_sessions"),
      Index("ix_follow_ups_pract", "follow_ups"), Index("ix_follow_ups_due", "follow_ups"),
      Index("ix_dist_practitioners_dist", "distributor_practitioners"),
      Index("ix_credit_txn_dist", "credit_transactions"), Index("ix_user_goals_user", "user_goals"),
      Index("ix_user_activities_user_date", "user_activities"),
      Index("ix_cost_records_scope_org", "cost_records"), Index("ix_org_nodes_org", "org_nodes"),
      Index("ix_org_nodes_parent", "org_nodes")>>

(* An error of CREATE INDEX is caught in Python, but the transaction has   *)
(* failed all the same: every later statement of it raises.                *)
Phase3 ==
    LET tables == ManagerTables \o PractitionerTables \o DistributorTables \o Phase3Shared
    IN  [up   |-> <<Seed("roles"), Index("ix_roles_name", "roles")>> \o tables \o Phase3Indexes,
         down |-> Dropped(tables)]

Phase4Tables ==
    <<TableOf("feedback", {Owned("user_id", "users"), Loose("agent_id", "agents")}, {"feedback_type"}, {}, {}),
      TableOf("feedback_corrections", {Owned("feedback_id", "feedback"), Loose("reviewed_by", "users")},
              {"status"}, {}, {}),
      TableOf("prompt_templates", {Loose("agent_id", "agents"), Loose("created_by", "users"),
              Loose("parent_id", "prompt_templates")}, {"name", "version", "status"}, {}, {}),
      Table("agent_memories", {Owned("agent_id", "agents")})>>

Phase4Indexes ==
    <<Index("ix_feedback_user_id", "feedback"), Index("ix_feedback_agent_id", "feedback"),
      Index("ix_feedback_type", "feedback"), Index("ix_feedback_created_at", "feedback"),
      Index("ix_feedback_corrections_feedback_id", "feedback_corrections"),
      Index("ix_feedback_corrections_status", "feedback_corrections"),
      Index("ix_prompt_templates_agent_id", "prompt_templates"),
      Index("ix_prompt_templates_status", "prompt_templates"),
      Index("ix_agent_memories_agent_id", "agent_memories"),
      Index("ix_agent_memories_memory_type", "agent_memories"),
      Index("ix_agent_memories_is_active", "agent_memories")>>

Phase4 == [up |-> Phase4Tables \o Phase4Indexes, down |-> Dropped(Phase4Tables)]

Phase5 ==
    LET a == "analytics_reports"
        e == "export_jobs"
    IN  [up |-> <<Table(a, {Owned("user_id", "users")}), Index("ix_analytics_reports_user_id", a),
                  Index("ix_analytics_reports_status", a), Index("ix_analytics_reports_created_at", a),
                  Table(e, {Owned("user_id", "users")}), Index("ix_export_jobs_user_id", e),
                  Index("ix_export_jobs_status", e), Index("ix_export_jobs_created_at", e)>>,
         down |-> <<DropIndex("ix_export_jobs_created_at", e), DropIndex("ix_export_jobs_status", e),
                    DropIndex("ix_export_jobs_user_id", e), DropTable(e),
                    DropIndex("ix_analytics_reports_created_at", a), DropIndex("ix_analytics_reports_status", a),
                    DropIndex("ix_analytics_reports_user_id", a), DropTable(a)>>]

(* Only where no index of the name is there; the way back drops them all.  *)
Phase6 ==
    LET new == <<IndexIfNew("ix_feedback_user_id", "feedback", {"user_id"}),
                 IndexIfNew("ix_feedback_agent_id", "feedback", {"agent_id"}),
                 IndexIfNew("ix_feedback_type", "feedback", {"feedback_type"}),
                 IndexIfNew("ix_feedback_corrections_status", "feedback_corrections", {"status"}),
                 IndexIfNew("ix_prompt_templates_name_version", "prompt_templates", {"name", "version"}),
                 IndexIfNew("ix_prompt_templates_status", "prompt_templates", {"status"}),
                 IndexIfNew("ix_agent_memories_agent", "agent_memories", {"agent_id"}),
                 IndexIfNew("ix_reports_user_status", "reports", {"user_id", "status"}),
                 IndexIfNew("ix_export_jobs_user", "export_jobs", {"user_id"}),
                 IndexIfNew("ix_users_email", "users", {"email"})>>
    IN  [up |-> new, down |-> [i \in 1..10 |-> DropIndex(new[11 - i].index[1], new[11 - i].index[2])]]

AuditKeys ==
    LET reported == Ref("reported_by", "users")
        assigned == Ref("assigned_by", "users")
    IN  [up   |-> <<DropRule("issues", "reported_by", "required"), DropKey("issues", "reported_by"),
                    Key("issues", Loose("reported_by", "users")), DropKey("organization_agents", "assigned_by"),
                    Key("organization_agents", Loose("assigned_by", "users"))>>,
         down |-> <<DropKey("organization_agents", "assigned_by"), Key("organization_agents", assigned),
                    DropKey("issues", "reported_by"), Key("issues", reported),
                    Rule("issues", "reported_by", "required")>>]

Scripts == <<Message, InitialModels, PerAgentPreferences, FileOwners, FileServices, AgentPrompts, VectorStores,
             PromptText, ChatTables, AlexChatAdded, AlexChat, ReportTable, Businesses, IssuesAndLicenses,
             DisplayName, AgentType, ProfilesAndGenders, IssueTypes, IssueAttachments, AttachmentKeys,
             FrontendTexts, FrontendTextsTable, OrganizationTones, OrganizationType, BusinessAgents,
             ReportsAgain, UserAgentAssignments, AgentInformation, ConvertedKey, MultiRole, Phase2, Phase3,
             Phase4, Phase5, Phase6, AuditKeys>>

Latest == Len(Scripts)

ASSUME TargetsAreRevisions == Targets \subseteq 0..Latest

-----------------------------------------------------------------------------
Blank == [tables |-> {}, columns |-> {}, keys |-> {}, rules |-> {}, indexes |-> {}, enums |-> {},
          rows |-> {}, breaks |-> {}]

MigrationsInit == database = Blank /\ revision = 0 /\ refused = {}

(* The scripts of one command, from one revision to another.               *)
Path(from, to) ==
    IF from < to THEN [i \in 1..(to - from) |-> Scripts[from + i].up]
    ELSE [i \in 1..(from - to) |-> Scripts[from + 1 - i].down]

(* What they leave: all of them are applied, in one transaction, or none.  *)
Applied(db, from, to) ==
    LET scripts == Path(from, to)
        after[i \in 0..Len(scripts)] ==
            IF i = 0 THEN [ok |-> TRUE, db |-> db]
            ELSE LET before == after[i - 1]
                 IN  IF before.ok THEN Run(before.db, scripts[i]) ELSE before
    IN  after[Len(scripts)]

(* Mutant: without the transaction, what was done before the failure stays. *)
MigrateInPieces(to) ==
    LET result == Applied(database, revision, to)
    IN  IF result.ok THEN database' = result.db /\ revision' = to /\ refused' = {}
        ELSE refused' = {to} /\ database' = result.db /\ UNCHANGED revision

Migrate(to) ==
    LET result == Applied(database, revision, to)
    IN  IF result.ok THEN database' = result.db /\ revision' = to /\ refused' = {}
        ELSE refused' = {to} /\ UNCHANGED <<database, revision>>

Upgrade(to)   == to > revision /\ to <= Latest /\ Migrate(to)
Downgrade(to) == to < revision /\ to >= 0 /\ Migrate(to)

(* The application stores the first row of a table, or rows that break a   *)
(* rule that is not in force; and it removes the rows again.               *)
Store(t) ==
    /\ t \in Filled \cap database.tables
    /\ \E broken \in SUBSET {r \in Tightened \ database.rules :
                                r[1] = t /\ <<t, r[2]>> \in database.columns} :
          database' = [database EXCEPT !.rows = @ \cup {t}, !.breaks = @ \cup broken]
    /\ UNCHANGED <<revision, refused>>

Clear(t) ==
    /\ t \in database.rows
    /\ database' = [database EXCEPT !.rows = @ \ {t}, !.breaks = {r \in @ : r[1] # t}]
    /\ UNCHANGED <<revision, refused>>

MigrationsNext ==
    \/ \E to \in Targets \cup {revision - 1, revision + 1} : Upgrade(to) \/ Downgrade(to)
    \/ \E t \in Filled : Store(t) \/ Clear(t)

-----------------------------------------------------------------------------
(* Properties.                                                             *)

Structure(db) == <<db.tables, db.columns, db.keys, db.rules, db.indexes>>

(* The schema alone, through the operations of a script.                   *)
Drafted(start, ops) ==
    LET after[i \in 0..Len(ops)] ==
            IF i = 0 THEN [ok |-> TRUE, db |-> start]
            ELSE LET before == after[i - 1]
                 IN  IF before.ok /\ Fits(before.db, ops[i])
                     THEN [ok |-> TRUE, db |-> Altered(before.db, ops[i])]
                     ELSE [ok |-> FALSE, db |-> before.db]
    IN  after[Len(ops)]

(* The schema of each revision: that of a new database, upgraded without a *)
(* way back, as far as the scripts can be applied.                         *)
Draft ==
    LET draft[r \in 0..Latest] ==
            IF r = 0 THEN [ok |-> TRUE, db |-> Blank]
            ELSE LET before == draft[r - 1]
                 IN  IF before.ok THEN Drafted(before.db, Scripts[r].up) ELSE before
    IN  draft

Built == [r \in 0..Latest |-> Structure(Draft[r].db)]

(* Each script's way back leads to the schema its way up started from, and *)
(* leaves at least the types that were there, where the schema lets all of *)
(* its operations through.  The scripts are given, so that this is a       *)
(* matter of evaluation; nothing is said of rows, of types that earlier    *)
(* downgrades left, of commands over several revisions or of failed ones.  *)
ASSUME ScriptsReturn ==
    \A r \in 1..Latest :
        LET back == Drafted(Draft[r].db, Scripts[r].down)
        IN  Draft[r].ok /\ back.ok => /\ Structure(back.db) = Built[r - 1]
                                      /\ Draft[r - 1].db.enums \subseteq back.db.enums

(* The number in alembic_version tells the schema: whatever commands led   *)
(* to a revision, forward and back and with whatever rows, the tables, the *)
(* columns, the foreign keys with their ON DELETE, the rules and the       *)
(* indexes are those of a new database at that revision.  A downgrade that *)
(* leaves something behind, or brings it back differently, breaks it.      *)
SchemaOfRevision == Structure(database) = Built[revision]

(* readme.md:111-117: `alembic upgrade head` creates the tables, `head`    *)
(* being the latest version: on a database without rows it succeeds.       *)
HeadApplies == Latest \in refused => database.rows # {}
=============================================================================
