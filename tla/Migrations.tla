----------------------------- MODULE Migrations -----------------------------
(***************************************************************************)
(* The nineteen Alembic revisions of src/alembic/versions as functions of  *)
(* a database, and the runs of `alembic upgrade` and `alembic downgrade`   *)
(* that apply them, one after the other, in one transaction (env.py).      *)
(*                                                                         *)
(* Of a schema the model holds the tables with the tables they refer to,   *)
(* the tables that carry a tenant key, row-level security, the rights of   *)
(* app_runtime, the seeded permissions and, of columns, indexes and        *)
(* constraints, those that some later statement names again; the others    *)
(* come and go with their table.  Permissions are held by family, the set  *)
(* that a revision inserts and deletes together.  Of the data it holds     *)
(* what the revisions move: customers, partners and their roles, Customer  *)
(* POs and EDI messages.                                                   *)
(***************************************************************************)
EXTENDS Integers, FiniteSets, Sequences, Functions, TLC

CONSTANTS
  Ids,          \* ids of customers that the program creates
  Tenants,      \* tenants; the seeds belong to Home
  Home,
  Senders,      \* EDI trading partners
  Exts,         \* external message ids
  Logs,         \* values of edi_log_id before revision 0018
  None,
  HandFamilies, \* permission families that a developer may insert by hand
  Targets,      \* revisions that a run may be asked for
  MaxWrites     \* bound: writes of the program between the runs

ASSUME TargetsAssumption == Targets \subseteq 0..19 /\ MaxWrites \in Nat
ASSUME HomeAssumption == Home \in Tenants

\* A customer code as it is typed, and upper(trim(code)); "4you" does not
\* match '^[A-Z][A-Z0-9_-]*$'.
Codes == {"acme", "ACME", "4you", "WPG"}
Upper(c) == IF c = "acme" THEN "ACME" ELSE c
LegalCode(c) == Upper(c) # "4you"

SeedId == "seed"       \* the customers that revision 0001 inserts
WpgId == "wpg99"       \* WPG_PARTNER_ID of revision 0017
ASSUME SeedsAssumption == WpgId \notin Ids

VARIABLES
  db,        \* the committed database
  work,      \* the database inside the transaction of the current run
  goal,      \* the revision the current run was asked for, or -1
  env,       \* settings.app_env of the current run
  ledger,    \* history: the customers that the program has written
  writes     \* history: number of writes of the program
vars == <<db, work, goal, env, ledger, writes>>

-----------------------------------------------------------------------------
(* Statements.  Each maps a database to the one it leaves; a statement that *)
(* fails leaves its cause in `fail`, and nothing runs after it.             *)

Empty == [rev |-> 0, fail |-> "", refs |-> <<>>, keyed |-> {}, rls |-> {},
          grants |-> {}, named |-> {}, perms |-> {}, maps |-> {},
          customers |-> {}, partners |-> {}, roles |-> {},
          orders |-> {}, messages |-> {}]

Sound(d) == d.fail = ""   \* no statement has failed
Run(d, condition, cause, next) ==
  IF ~Sound(d) THEN d ELSE IF condition THEN next ELSE [d EXCEPT !.fail = cause]

\* A table: its name, the tables it refers to, whether it has a tenant_id.
Keyed(name, parents) == [name |-> name, refs |-> parents \cup {"tenants"}, keyed |-> TRUE]
Plain(name, parents) == [name |-> name, refs |-> parents, keyed |-> FALSE]
\* A table whose tenant_id is part of its composite references only.
Composite(name, parents) == [name |-> name, refs |-> parents, keyed |-> TRUE]

\* CREATE TABLE, one after the other: a table refers to itself, to what is there and to
\* what was created before it.
Create(d, tables) ==
  LET made(k) == {tables[j].name : j \in 1..k}
      new     == made(Len(tables))
  IN  Run(d, \A k \in DOMAIN tables :
               /\ tables[k].name \notin DOMAIN d.refs \cup made(k - 1)
               /\ tables[k].refs \subseteq DOMAIN d.refs \cup made(k), "schema",
          [d EXCEPT !.refs = [n \in DOMAIN @ \cup new |->
                                IF n \in DOMAIN @ THEN @[n]
                                ELSE UNION {t.refs \ {n} : t \in {x \in Range(tables) : x.name = n}}],
                    !.keyed = @ \cup {t.name : t \in {x \in Range(tables) : x.keyed}}])

\* DROP TABLE, one after the other: what still refers to a table was dropped before it.
Drop(d, names) ==
  Run(d, \A k \in DOMAIN names :
           /\ names[k] \in DOMAIN d.refs
           /\ \A t \in DOMAIN d.refs : names[k] \in d.refs[t] => t \in {names[j] : j \in 1..k - 1},
      "schema",
      [d EXCEPT !.refs = [t \in DOMAIN @ \ Range(names) |-> @[t]],
                !.keyed = @ \ Range(names), !.rls = @ \ Range(names),
                !.grants = {g \in @ : g[1] \notin Range(names)},
                !.named = {n \in @ : n[1] \notin Range(names)}])

\* Columns, indexes or constraints of some tables, the same of each.
AddObjects(d, tables, names) ==
  Run(d, tables \subseteq DOMAIN d.refs /\ (tables \X names) \cap d.named = {}, "schema",
      [d EXCEPT !.named = @ \cup (tables \X names)])
DropObjects(d, tables, names) ==
  Run(d, tables \X names \subseteq d.named, "schema", [d EXCEPT !.named = @ \ (tables \X names)])
AddReference(d, tables, name, parent) ==
  LET named == AddObjects(d, tables, {name})
  IN  Run(named, parent \in DOMAIN d.refs, "schema",
          [named EXCEPT !.refs = [t \in DOMAIN @ |-> IF t \in tables THEN @[t] \cup {parent} ELSE @[t]]])
RemoveReference(d, tables, name, parent) ==
  LET freed == DropObjects(d, tables, {name})
  IN  Run(freed, TRUE, "",
          [freed EXCEPT !.refs = [t \in DOMAIN @ |-> IF t \in tables THEN @[t] \ {parent} ELSE @[t]]])
Rename(d, table, old, new) == AddObjects(DropObjects(d, {table}, {old}), {table}, {new})

EnableRls(d, tables) ==
  Run(d, tables \subseteq d.keyed \cup {"audit_changes"}, "schema", [d EXCEPT !.rls = @ \cup tables])
\* Rights are given only when the role exists: sql/README.md has it created first.
Grant(d, rights, tables) ==
  Run(d, tables \subseteq DOMAIN d.refs, "schema",
      [d EXCEPT !.grants = @ \cup (tables \X rights)])
Revoke(d, rights, tables) == Run(d, TRUE, "", [d EXCEPT !.grants = @ \ (tables \X rights)])

\* INSERT of permissions and of the administrators' policy for them.
Seed(d, families) ==
  Run(d, families \cap d.perms = {}, "data",
      [d EXCEPT !.perms = @ \cup families, !.maps = @ \cup ({"admin"} \X families)])
\* The same with ON CONFLICT (code) DO UPDATE.
Adopt(d, families) ==
  Run(d, TRUE, "", [d EXCEPT !.perms = @ \cup families, !.maps = @ \cup ({"admin"} \X families)])
\* DELETE of the administrators' mapping, then of the permissions: refused
\* while another policy maps one of them.
Unseed(d, families) ==
  Run(d, \A m \in d.maps : m[2] \in families => m[1] = "admin", "data",
      [d EXCEPT !.perms = @ \ families, !.maps = {m \in @ : m[2] \notin families}])
\* DELETE of every mapping of the permissions first.
UnseedForAll(d, families) ==
  Run(d, TRUE, "", [d EXCEPT !.perms = @ \ families, !.maps = {m \in @ : m[2] \notin families}])

ReadOnly == {"SELECT"}
Append2 == {"SELECT", "INSERT"}
Write3 == {"SELECT", "INSERT", "UPDATE"}
All4 == Write3 \cup {"DELETE"}
PoTable == "customer_purchase_orders"
Assignments == {"customer_user_assignments", "customer_group_assignments"}

-----------------------------------------------------------------------------
(* 0001: identity, policies and the customers of the first release.         *)

IamTables0001 ==
  << Plain("tenants", {}), Plain("roles", {}), Keyed("groups", {}),
     Keyed("profiles", {"roles"}), Plain("user_groups", {"profiles", "groups"}),
     Plain("permissions", {}), Keyed("policies", {}),
     Plain("policy_permissions", {"policies", "permissions"}),
     Plain("role_policies", {"roles", "policies"}),
     Plain("group_policies", {"groups", "policies"}),
     Plain("user_policies", {"profiles", "policies"}),
     Keyed("audit_logs", {"profiles"}) >>
CustomerTables0001 ==
  << Keyed("customers", {"profiles"}),
     Plain("customer_user_assignments", {"customers", "profiles"}),
     Plain("customer_group_assignments", {"customers", "groups"}) >>
Customer(i, tenant, code, gone, version) ==
  [id |-> i, tenant |-> tenant, code |-> code, gone |-> gone, version |-> version]
\* The demonstration customers CUST001 to CUST004 stand for one.
SeedData0001(d) ==
  LET seeded == Seed(d, {"customers", "inventory", "shipments"})
  IN  Run(seeded, TRUE, "",
          [seeded EXCEPT !.customers = @ \cup {Customer(SeedId, Home, "CUST001", FALSE, 1)}])
Up0001(d) ==
  LET tables == Create(d, IamTables0001 \o CustomerTables0001)
      keys   == AddObjects(tables, Assignments, {"customer_id_fkey"})
      index  == AddObjects(keys, {"customers"}, {"ix_customers_tenant_owner", "ix_customers_tenant_status"})
      read   == Grant(SeedData0001(index), ReadOnly,
                      {IamTables0001[k].name : k \in DOMAIN IamTables0001} \cup Assignments)
  IN  Grant(read, Write3, {"customers"})
Down0001(d) ==
  LET index == DropObjects(Drop(d, <<"customer_group_assignments", "customer_user_assignments">>),
                      {"customers"}, {"ix_customers_tenant_owner", "ix_customers_tenant_status"})
      gone  == Drop(index, <<"customers", "audit_logs", "user_policies", "group_policies",
                             "role_policies", "policy_permissions", "policies", "permissions",
                             "user_groups", "profiles", "groups", "roles", "tenants">>)
  IN  Run(gone, TRUE, "", [gone EXCEPT !.customers = {}, !.perms = {}, !.maps = {}])

(* 0002: a customer becomes a business partner with a role.                 *)

PartnerTables0002 ==
  << Keyed("payment_terms", {}), Keyed("business_partners", {"payment_terms", "profiles"}),
     Composite("partner_roles", {"business_partners", "profiles"}),
     Composite("partner_addresses", {"business_partners"}) >>
PartnerIndexes == {"ix_business_partners_tenant_owner", "ix_business_partners_tenant_status"}
Partner(c) == [id |-> c.id, tenant |-> c.tenant, code |-> Upper(c.code), version |-> c.version]
Role(partner, type, gone, seeded) ==
  [partner |-> partner, type |-> type, gone |-> gone, seeded |-> seeded]
\* Every code must be legal once it is normalised, and no two customers of a
\* tenant may come to have the same one (uq_business_partners_tenant_code).
Convertible(customers) ==
  /\ \A c \in customers : LegalCode(c.code)
  /\ \A c1, c2 \in customers :
       (c1.tenant = c2.tenant /\ Upper(c1.code) = Upper(c2.code)) => c1 = c2
\* Mutant: the deletion mark is not carried over.
MoveLivingCustomers(d) ==
  Run(d, Convertible(d.customers), "data",
      [d EXCEPT !.partners = {Partner(c) : c \in d.customers},
                !.roles = {Role(c.id, "CUSTOMER", FALSE, FALSE) : c \in d.customers},
                !.customers = {}])
MoveCustomers(d) ==
  Run(d, Convertible(d.customers), "data",
      [d EXCEPT !.partners = {Partner(c) : c \in d.customers},
                !.roles = {Role(c.id, "CUSTOMER", c.gone, FALSE) : c \in d.customers},
                !.customers = {}])
\* The assignments refer to another table from now on.
Repoint(d, old, new) ==
  AddReference(RemoveReference(d, Assignments, "customer_id_fkey", old),
               Assignments, "customer_id_fkey", new)
Up0002(d) ==
  LET tables == AddObjects(Create(d, PartnerTables0002), {"business_partners"}, PartnerIndexes)
      moved  == Repoint(MoveCustomers(tables), "customers", "business_partners")
      index  == DropObjects(moved, {"customers"}, {"ix_customers_tenant_status", "ix_customers_tenant_owner"})
      guard  == EnableRls(Drop(index, <<"customers">>),
                          {"business_partners", "partner_roles", "partner_addresses", "payment_terms"})
  IN  Grant(Grant(guard, Write3, {"business_partners", "partner_roles", "partner_addresses"}),
            ReadOnly, {"payment_terms"})
\* Partners without a CUSTOMER role are not carried over.
CustomersOf(partners, roles) ==
  UNION {{Customer(b.id, b.tenant, b.code, r.gone, b.version) :
            r \in {q \in roles : q.partner = b.id /\ q.type = "CUSTOMER"}} : b \in partners}
RestoreCustomers(d) ==
  Run(d, TRUE, "", [d EXCEPT !.customers = CustomersOf(d.partners, d.roles),
                             !.partners = {}, !.roles = {}])
Down0002(d) ==
  LET table == Create(d, << Keyed("customers", {"profiles"}) >>)
      index == AddObjects(RestoreCustomers(table), {"customers"},
                   {"ix_customers_tenant_owner", "ix_customers_tenant_status"})
      keys  == Repoint(index, "business_partners", "customers")
      roles == Drop(keys, <<"partner_addresses", "partner_roles">>)
  IN  Drop(DropObjects(roles, {"business_partners"}, PartnerIndexes),
           <<"business_partners", "payment_terms">>)

(* 0003 to 0005: authentication, audit trail, IAM read permissions.         *)

TokenIndexes == {"ix_refresh_tokens_profile_id", "ix_refresh_tokens_expires_at"}
Up0003(d) ==
  LET tables == Create(d, << Plain("user_credentials", {"profiles"}),
                             Plain("refresh_tokens", {"profiles"}) >>)
  IN  Grant(Grant(AddObjects(tables, {"refresh_tokens"}, TokenIndexes), ReadOnly, {"user_credentials"}),
            Write3, {"refresh_tokens"})
Down0003(d) == Drop(DropObjects(d, {"refresh_tokens"}, TokenIndexes), <<"refresh_tokens", "user_credentials">>)

AuditTables == {"audit_events", "audit_changes"}
Up0004(d) ==
  LET tables == Create(d, << Keyed("audit_events", {"profiles"}),
                             Plain("audit_changes", {"audit_events"}) >>)
  IN  Grant(Seed(EnableRls(tables, AuditTables), {"audit"}), Append2, AuditTables)
Down0004(d) == Drop(UnseedForAll(d, {"audit"}), <<"audit_changes", "audit_events">>)

Up0005(d) == Seed(d, {"iam"})
Down0005(d) == Unseed(d, {"iam"})

(* 0006 to 0012: Customer POs, timestamps, actor type, indexes, dashboard   *)
(* permission, event timeline, attachments.                                 *)

PoTables == {PoTable, "customer_purchase_order_lines", "customer_po_status_events"}
Up0006(d) ==
  LET tables == Create(d, << Keyed(PoTable, {"profiles", "business_partners", "payment_terms"}),
                             Composite("customer_purchase_order_lines", {PoTable}),
                             Composite("customer_po_status_events", {PoTable, "profiles"}) >>)
      named  == AddObjects(AddObjects(tables, {PoTable, "customer_po_status_events"}, {"edi_log_id"}),
                           {PoTable}, {"ix_customer_pos_edi_log_id"})
      seeded == Seed(EnableRls(named, PoTables), {"customer_pos"})
  IN  Grant(Grant(seeded, Write3, PoTables), {"DELETE"}, {"customer_purchase_order_lines"})
Down0006(d) ==
  LET gone == Drop(Unseed(d, {"customer_pos"}),
                   <<"customer_po_status_events", "customer_purchase_order_lines", PoTable>>)
  IN  Run(gone, TRUE, "", [gone EXCEPT !.orders = {}])

Timestamps == {"created_at", "updated_at"}
Up0007(d) == AddObjects(d, {"groups", "roles", "policies"}, Timestamps)
\* Mutant: one table of the three is forgotten.
Down0007Partly(d) == DropObjects(d, {"roles", "groups"}, Timestamps)
Down0007(d) == DropObjects(d, {"policies", "roles", "groups"}, Timestamps)

Up0008(d) == AddObjects(d, {"audit_events"}, {"actor_type", "ck_audit_events_actor_type"})
Down0008(d) == DropObjects(d, {"audit_events"}, {"ck_audit_events_actor_type", "actor_type"})

DateIndexes == {"ix_business_partners_tenant_created_at", "ix_business_partners_tenant_updated_at"}
Up0009(d) == AddObjects(d, {"business_partners"}, DateIndexes)
Down0009(d) == DropObjects(d, {"business_partners"}, DateIndexes)

Up0010(d) == Seed(d, {"dashboard"})
Down0010(d) == UnseedForAll(d, {"dashboard"})

Up0011(d) ==
  LET table == Create(d, << Composite("customer_po_events", {PoTable, "profiles"}) >>)
      grant == Grant(EnableRls(table, {"customer_po_events"}), Append2, {"customer_po_events"})
  IN  Revoke(grant, {"UPDATE", "DELETE"}, {"customer_po_events"})
Down0011(d) == Drop(d, <<"customer_po_events">>)

Up0012(d) ==
  LET table == Create(d, << Keyed("attachments", {"profiles"}) >>)
      grant == Grant(EnableRls(table, {"attachments"}), Write3, {"attachments"})
  IN  Revoke(grant, {"DELETE"}, {"attachments"})
Down0012(d) == Drop(d, <<"attachments">>)

(* 0013 to 0016: suppliers, products, the identity of an EDI order.         *)

SupplierTables == {"supplier_user_assignments", "supplier_group_assignments"}
\* Mutant: row-level security is not enabled.
Up0013Open(d) ==
  LET tables == Create(d, << Composite("supplier_user_assignments", {"profiles", "business_partners"}),
                             Composite("supplier_group_assignments", {"groups", "business_partners"}) >>)
  IN  Adopt(Grant(tables, All4, SupplierTables), {"suppliers"})
Up0013(d) ==
  LET tables == Create(d, << Composite("supplier_user_assignments", {"profiles", "business_partners"}),
                             Composite("supplier_group_assignments", {"groups", "business_partners"}) >>)
  IN  Adopt(Grant(EnableRls(tables, SupplierTables), All4, SupplierTables), {"suppliers"})
Down0013(d) ==
  Drop(Unseed(d, {"suppliers"}), <<"supplier_group_assignments", "supplier_user_assignments">>)

Up0014(d) == Adopt(d, {"suppliers.export"})
Down0014(d) == Unseed(d, {"suppliers.export"})

ProductTables == {"products", "product_user_assignments", "product_group_assignments"}
Up0015(d) ==
  LET tables == Create(d, << Keyed("products", {"profiles"}),
                             Composite("product_user_assignments", {"profiles", "products"}),
                             Composite("product_group_assignments", {"groups", "products"}) >>)
  IN  Adopt(Grant(EnableRls(tables, ProductTables), All4, ProductTables), {"products"})
Down0015(d) ==
  Drop(Unseed(d, {"products"}),
       <<"product_group_assignments", "product_user_assignments", "products">>)

\* The unique index cannot be built over orders that share an identity.
Identified(orders) ==
  \A o1, o2 \in orders :
    (o1.tenant = o2.tenant /\ o1.sender = o2.sender /\ o1.ext = o2.ext) => o1 = o2
Up0016(d) ==
  Run(d, Identified(d.orders), "data", AddObjects(d, {PoTable}, {"uq_customer_pos_edi_external_message"}))
Down0016(d) == DropObjects(d, {PoTable}, {"uq_customer_pos_edi_external_message"})

(* 0017: the WPG demonstration customer, in local and test databases.       *)

\* The partner that has the code WPG: one that is there is left as it is.
WpgPartners(d) ==
  IF \E p \in d.partners : p.tenant = Home /\ p.code = "WPG" THEN d.partners
  ELSE d.partners \cup {[id |-> WpgId, tenant |-> Home, code |-> "WPG", version |-> 1]}
WpgRoles(partners, roles) ==
  roles \cup {Role(p.id, "CUSTOMER", FALSE, TRUE) :
                p \in {q \in partners : /\ q.tenant = Home /\ q.code = "WPG"
                                        /\ \A r \in roles : r.partner = q.id => r.type # "CUSTOMER"}}
Up0017(d) ==
  IF env = "prod" THEN d
  ELSE Run(d, TRUE, "", [d EXCEPT !.partners = WpgPartners(d),
                                  !.roles = WpgRoles(WpgPartners(d), d.roles)])
\* Rows are deleted by the seeds' ids; orders and other roles hold the partner.
Down0017(d) ==
  LET roles == {r \in d.roles : ~r.seeded}
  IN  IF env = "prod" THEN d
      ELSE Run(d, \/ \A p \in d.partners : p.id # WpgId
                  \/ /\ \A r \in roles : r.partner # WpgId
                     /\ \A o \in d.orders : o.customer # WpgId, "data",
               [d EXCEPT !.roles = roles, !.partners = {p \in @ : p.id # WpgId}])

(* 0018 and 0019: EDI messages, and the link of an order to its message.    *)

EdiTables == {"edi_messages", "edi_message_events"}
Message(i, tenant, ext, legacy) == [id |-> i, tenant |-> tenant, ext |-> ext, legacy |-> legacy]
\* SELECT DISTINCT ON (edi_log_id) ... ORDER BY edi_log_id, created_at: orders
\* are numbered as they were created.
FirstOf(orders, log) ==
  CHOOSE o \in orders : o.link = log /\ \A p \in orders : p.link = log => o.id <= p.id
\* Mutant: only the seeds' tenant is imported.
MessagesOfHome(orders) ==
  {Message(log, FirstOf(orders, log).tenant, FirstOf(orders, log).ext, TRUE) :
     log \in {o.link : o \in {p \in orders : p.tenant = Home}} \ {None}}
LegacyMessages(orders) ==
  {Message(log, FirstOf(orders, log).tenant, FirstOf(orders, log).ext, TRUE) :
     log \in {o.link : o \in orders} \ {None}}
\* uq_edi_messages_external_identity; ON CONFLICT (id) does not speak of it.
OneMessagePerExternalId(messages) ==
  \A m1, m2 \in messages : (m1.tenant = m2.tenant /\ m1.ext = m2.ext) => m1 = m2
ImportMessages(d) ==
  Run(d, OneMessagePerExternalId(LegacyMessages(d.orders)), "data",
      [d EXCEPT !.messages = LegacyMessages(d.orders)])
Up0018(d) ==
  LET tables == Create(d, << Keyed("edi_messages", {}), Composite("edi_message_events", {"edi_messages"}) >>)
      freed  == DropObjects(ImportMessages(tables), {PoTable}, {"ix_customer_pos_edi_log_id"})
      named  == Rename(Rename(freed, PoTable, "edi_log_id", "edi_message_id"),
                       "customer_po_status_events", "edi_log_id", "edi_message_id")
      linked == AddReference(AddObjects(named, {PoTable}, {"ix_customer_pos_edi_message_id"}),
                             {PoTable}, "fk_customer_pos_edi_message", "edi_messages")
      guard  == EnableRls(linked, EdiTables)
  IN  Seed(Grant(Grant(guard, Write3, {"edi_messages"}), Append2, {"edi_message_events"}),
           {"edi_messages"})
\* Mutant: the tables go before the references to them.
Down0018TablesFirst(d) ==
  LET tables == Drop(Unseed(d, {"edi_messages"}), <<"edi_message_events", "edi_messages">>)
      freed  == RemoveReference(tables, {PoTable}, "fk_customer_pos_edi_message", "edi_messages")
      named  == Rename(Rename(DropObjects(freed, {PoTable}, {"ix_customer_pos_edi_message_id"}),
                              "customer_po_status_events", "edi_message_id", "edi_log_id"),
                       PoTable, "edi_message_id", "edi_log_id")
      gone   == AddObjects(named, {PoTable}, {"ix_customer_pos_edi_log_id"})
  IN  Run(gone, TRUE, "", [gone EXCEPT !.messages = {}])
Down0018(d) ==
  LET freed == RemoveReference(Unseed(d, {"edi_messages"}), {PoTable},
                               "fk_customer_pos_edi_message", "edi_messages")
      named == Rename(Rename(DropObjects(freed, {PoTable}, {"ix_customer_pos_edi_message_id"}),
                             "customer_po_status_events", "edi_message_id", "edi_log_id"),
                      PoTable, "edi_message_id", "edi_log_id")
      gone  == Drop(AddObjects(named, {PoTable}, {"ix_customer_pos_edi_log_id"}),
                    <<"edi_message_events", "edi_messages">>)
  IN  Run(gone, TRUE, "", [gone EXCEPT !.messages = {}])

\* The composite reference is checked against the rows that are there.
LinksStayInTenant(d) ==
  \A o \in d.orders : \A m \in d.messages : o.link = m.id => o.tenant = m.tenant
Up0019(d) ==
  LET freed == RemoveReference(d, {PoTable}, "fk_customer_pos_edi_message", "edi_messages")
  IN  Run(freed, LinksStayInTenant(d), "data",
          AddReference(freed, {PoTable}, "fk_customer_pos_tenant_edi_message", "edi_messages"))
Down0019(d) ==
  AddReference(RemoveReference(d, {PoTable}, "fk_customer_pos_tenant_edi_message", "edi_messages"),
               {PoTable}, "fk_customer_pos_edi_message", "edi_messages")

Upgrade(r, d) ==
  CASE r = 1 -> Up0001(d)   [] r = 2 -> Up0002(d)   [] r = 3 -> Up0003(d)   [] r = 4 -> Up0004(d)
    [] r = 5 -> Up0005(d)   [] r = 6 -> Up0006(d)   [] r = 7 -> Up0007(d)   [] r = 8 -> Up0008(d)
    [] r = 9 -> Up0009(d)   [] r = 10 -> Up0010(d)  [] r = 11 -> Up0011(d)  [] r = 12 -> Up0012(d)
    [] r = 13 -> Up0013(d)  [] r = 14 -> Up0014(d)  [] r = 15 -> Up0015(d)  [] r = 16 -> Up0016(d)
    [] r = 17 -> Up0017(d)  [] r = 18 -> Up0018(d)  [] OTHER -> Up0019(d)
Downgrade(r, d) ==
  CASE r = 1 -> Down0001(d)   [] r = 2 -> Down0002(d)   [] r = 3 -> Down0003(d)
    [] r = 4 -> Down0004(d)   [] r = 5 -> Down0005(d)   [] r = 6 -> Down0006(d)
    [] r = 7 -> Down0007(d)   [] r = 8 -> Down0008(d)   [] r = 9 -> Down0009(d)
    [] r = 10 -> Down0010(d)  [] r = 11 -> Down0011(d)  [] r = 12 -> Down0012(d)
    [] r = 13 -> Down0013(d)  [] r = 14 -> Down0014(d)  [] r = 15 -> Down0015(d)
    [] r = 16 -> Down0016(d)  [] r = 17 -> Down0017(d)  [] r = 18 -> Down0018(d)
    [] OTHER -> Down0019(d)

-----------------------------------------------------------------------------
(* Runs of alembic: every pending revision in one transaction.              *)

Idle == -1
\* The environment matters to the runs that pass 0017.
Begin(target, environment) ==
  /\ goal = Idle /\ target # db.rev
  /\ environment = "local" \/ (target >= 17) # (db.rev >= 17)
  /\ goal' = target /\ env' = environment /\ work' = db
  /\ UNCHANGED <<db, ledger, writes>>
\* A revision runs and the version table is updated with it.
Step ==
  /\ goal # Idle /\ work.rev # goal /\ Sound(work)
  /\ LET up   == goal > work.rev
         next == IF up THEN Upgrade(work.rev + 1, work) ELSE Downgrade(work.rev, work)
     IN  work' = [next EXCEPT !.rev = IF up THEN @ + 1 ELSE @ - 1]
  /\ UNCHANGED <<db, goal, env, ledger, writes>>
Commit ==
  /\ goal # Idle /\ work.rev = goal /\ Sound(work)
  /\ db' = work /\ goal' = Idle /\ env' = "local" /\ work' = Empty
  /\ ledger' = IF goal = 0 THEN {} ELSE ledger
  /\ UNCHANGED writes
\* A statement failed, or the process ended: the transaction is rolled back.
Rollback ==
  /\ goal # Idle
  /\ goal' = Idle /\ env' = "local" /\ work' = Empty
  /\ UNCHANGED <<db, ledger, writes>>

-----------------------------------------------------------------------------
(* What the program and people write between the runs.                      *)

Write(d) ==
  /\ goal = Idle /\ writes < MaxWrites
  /\ db' = d /\ writes' = writes + 1
  /\ UNCHANGED <<work, goal, env>>
CodesInUse(tenant) ==
  IF db.rev = 1 THEN {c.code : c \in {x \in db.customers : x.tenant = tenant}}
  ELSE {p.code : p \in {x \in db.partners : x.tenant = tenant}}
Fresh(i) ==
  i \notin {c.id : c \in db.customers} \cup {p.id : p \in db.partners} \cup {c.id : c \in ledger}
CreateCustomer(i, tenant, code) ==
  LET c == Customer(i, tenant, code, FALSE, 1)
  IN  /\ db.rev >= 1 /\ Fresh(i) /\ code \notin CodesInUse(tenant)
      /\ db.rev >= 2 => LegalCode(code) /\ code = Upper(code)
      /\ ledger' = ledger \cup {c}
      /\ Write(IF db.rev = 1 THEN [db EXCEPT !.customers = @ \cup {c}]
               ELSE [db EXCEPT !.partners = @ \cup {Partner(c)},
                               !.roles = @ \cup {Role(i, "CUSTOMER", FALSE, FALSE)}])
CreateSupplier(i, tenant, code) ==
  /\ db.rev >= 13 /\ Fresh(i) /\ code \notin CodesInUse(tenant)
  /\ LegalCode(code) /\ code = Upper(code)
  /\ Write([db EXCEPT !.partners = @ \cup {Partner(Customer(i, tenant, code, FALSE, 1))},
                      !.roles = @ \cup {Role(i, "SUPPLIER", FALSE, FALSE)}])
  /\ UNCHANGED ledger
Deleted(c) == [c EXCEPT !.gone = TRUE, !.version = @ + 1]
SoftDeleteCustomer(c) ==
  /\ db.rev >= 1 /\ ~c.gone
  /\ ledger' = (ledger \ {c}) \cup {Deleted(c)}
  /\ Write(IF db.rev = 1 THEN [db EXCEPT !.customers = {IF x.id = c.id THEN Deleted(x) ELSE x : x \in @}]
           ELSE [db EXCEPT !.partners = {IF x.id = c.id THEN [x EXCEPT !.version = @ + 1] ELSE x : x \in @},
                           !.roles = {IF x.partner = c.id THEN [x EXCEPT !.gone = TRUE] ELSE x : x \in @}])
\* An order that came by EDI.  Before 0016 nothing keeps its identity unique;
\* edi_log_id was reserved for the log of the transmission.
CreateOrder(p, sender, ext, log) ==
  /\ db.rev \in 6..17
  /\ Write([db EXCEPT !.orders = @ \cup {[id |-> Cardinality(@) + 1, tenant |-> p.tenant, customer |-> p.id,
                                          sender |-> sender, ext |-> ext, link |-> log]}])
  /\ db.rev >= 16 => Identified(db'.orders)
  /\ UNCHANGED ledger
\* The reception of a document: a message, and the order that is linked to it.
ReceiveDocument(p, sender, ext) ==
  LET id == Cardinality(db.orders) + 1
      m  == Message(id, p.tenant, ext, FALSE)
  IN  /\ db.rev >= 18
      /\ \A x \in db.messages : x.tenant = p.tenant => x.ext # ext
      /\ Write([db EXCEPT !.messages = @ \cup {m},
                          !.orders = @ \cup {[id |-> id, tenant |-> p.tenant, customer |-> p.id,
                                              sender |-> sender, ext |-> ext, link |-> id]}])
      /\ Identified(db'.orders)
      /\ UNCHANGED ledger
\* By hand: a permission ahead of its revision, or a mapping of another policy.
RegisterPermission(f) ==
  /\ db.rev >= 1 /\ f \notin db.perms /\ Write([db EXCEPT !.perms = @ \cup {f}]) /\ UNCHANGED ledger
MapPermission(f) ==
  /\ f \in db.perms /\ <<"other", f>> \notin db.maps
  /\ Write([db EXCEPT !.maps = @ \cup {<<"other", f>>}]) /\ UNCHANGED ledger

Customers == {p \in db.partners : \E r \in db.roles : r.partner = p.id /\ r.type = "CUSTOMER" /\ ~r.gone}

Init ==
  /\ db = Empty /\ work = Empty /\ goal = Idle /\ env = "local"
  /\ ledger = {} /\ writes = 0
Next ==
  \/ \E t \in Targets, e \in {"local", "prod"} : Begin(t, e)
  \/ Step
  \/ Commit
  \/ Rollback
  \/ \E i \in Ids, t \in Tenants, c \in Codes : CreateCustomer(i, t, c) \/ CreateSupplier(i, t, c)
  \/ \E c \in ledger : SoftDeleteCustomer(c)
  \/ \E p \in Customers, s \in Senders, x \in Exts :
       (\E l \in Logs \cup {None} : CreateOrder(p, s, x, l)) \/ ReceiveDocument(p, s, x)
  \/ \E f \in HandFamilies : RegisterPermission(f) \/ MapPermission(f)
Spec == Init /\ [][Next]_vars

-----------------------------------------------------------------------------
(* Properties                                                               *)

\* No run ever fails for the schema's sake: whatever the revisions a database
\* went through, each creates what is not there and drops what is there and
\* nothing else refers to.  Only data can stop a run.
SchemaStepsFit == work.fail # "schema"

\* An upgrade that its downgrade follows leaves the schema as it was: tables,
\* references, row-level security, named objects, rights, seeded permissions
\* and mappings.  Two things are not put back: the rights on customers, which
\* 0002's downgrade creates again and does not grant, and a permission that a
\* developer had registered by hand and the downgrade deletes.
DowngradeUndoes ==
  LET up   == Upgrade(work.rev + 1, work)
      back == Downgrade(work.rev + 1, up)
  IN  (goal # Idle /\ work.rev < 19 /\ Sound(work) /\ Sound(back)) =>
      /\ back.refs = work.refs /\ back.keyed = work.keyed
      /\ back.rls = work.rls /\ back.named = work.named
      /\ back.grants \subseteq work.grants
      /\ work.grants \ back.grants \subseteq {"customers"} \X Write3
      /\ back.perms \subseteq work.perms /\ work.perms \ back.perms \subseteq HandFamilies
      /\ back.maps = {m \in work.maps : m[2] \in back.perms}

\* What the statements of src/app/modules need of app_runtime, and what an
\* append-only table must refuse it.
Needs ==
  ({"business_partners", "partner_roles", "partner_addresses", "refresh_tokens",
    PoTable, "customer_purchase_order_lines", "attachments", "products",
    "edi_messages"} \X Write3)
  \cup ({"customer_po_status_events", "audit_events", "audit_changes", "customer_po_events",
         "edi_message_events"} \X Append2)
  \cup {<<"customer_purchase_order_lines", "DELETE">>, <<"user_credentials", "SELECT">>}
  \cup (({"payment_terms", "profiles", "roles", "groups", "policies", "permissions"}
         \cup Assignments \cup SupplierTables \cup (ProductTables \ {"products"})) \X ReadOnly)
AppendOnly == {"audit_events", "audit_changes", "customer_po_events", "edi_message_events"}

\* At the last revision, on whatever way it was reached, app_runtime may do
\* what the program does; it may not change what is append-only; and every
\* table of business data with a tenant key has row-level security since 0002.
RuntimeIsConfined ==
  /\ db.rev = 19 => Needs \subseteq db.grants
  /\ db.grants \cap (AppendOnly \X {"UPDATE", "DELETE"}) = {}
  /\ db.rev >= 2 => db.keyed \ {"groups", "profiles", "policies", "audit_logs"} \subseteq db.rls

\* No customer that the program wrote is lost, duplicated, revived or put back
\* to an earlier version by any sequence of runs that does not undo 0001; its
\* code is the normalised one once 0002 has run.  Other customers are seeds.
CustomersSurvive ==
  LET normal(c) == [c EXCEPT !.code = Upper(@)]
      view == IF db.rev <= 1 THEN db.customers ELSE CustomersOf(db.partners, db.roles)
  IN  db.rev >= 1 =>
      /\ {normal(c) : c \in ledger} \subseteq {normal(c) : c \in view}
      /\ \A c \in view : \/ c.id \in {x.id : x \in ledger}
                         \/ c.code \in {"CUST001", "WPG"}
      /\ \A c1, c2 \in view : c1.id = c2.id => c1 = c2

\* From 0018 on every order that carries a link has its message, and from 0019
\* on in its own tenant, also when messages were dropped by a downgrade and
\* made again from the orders: the references that 0018 and 0019 create find
\* their rows, or the run is refused.
LinksResolve ==
  \A d \in {db, work} : (d.rev >= 18 /\ Sound(d)) =>
    \A o \in d.orders : o.link # None =>
      \E m \in d.messages : m.id = o.link /\ (d.rev = 19 => m.tenant = o.tenant)
=============================================================================
