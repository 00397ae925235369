---------------------------- MODULE Provisioning ----------------------------
(***************************************************************************)
(* Creating a company (create_tenant) writes a row, its domain and its     *)
(* configuration, makes a schema, fills it and appoints an administrator,  *)
(* each in a transaction of its own.  When a step fails what was made is   *)
(* dropped, the schema before the row; when the process dies it stays.     *)
(* Superusers, the command line and the demo command may all create at     *)
(* once, and name the same schema, domain or administrator.                *)
(***************************************************************************)
EXTENDS Naturals, FiniteSets

CONSTANTS Names,        \* names of schemas
          Domains,
          People,       \* usernames
          Nothing,      \* no administrator, or nothing asked for yet
          Ids,          \* the creations, numbered as they arrive
          NoId          \* the id of a row that does not exist

ASSUME IdAssumption == NoId \notin Ids /\ "before" \notin Ids \union {NoId}
ASSUME NothingAssumption == Nothing \notin People

VARIABLES clients,  \* the creation whose company holds a schema name
          domains,  \* and a domain: both columns are unique
          schemas,  \* the creation that made the schema of a name
          seeded,   \* the names whose schema has its pipelines and objects
          users,    \* the creation that made a global user, SomeoneElse, or NoId
          owners,   \* memberships: the pairs of a creation and a user
          job       \* the progress of every creation

vars == <<clients, domains, schemas, seeded, users, owners, job>>

SomeoneElse == "before"
Creation(do, name, domain, admin, who) ==
  [do |-> do, name |-> name, domain |-> domain, admin |-> admin, who |-> who,
   made |-> FALSE, kept |-> FALSE]
Unborn == Creation("unborn", Nothing, Nothing, Nothing, NoId)
Steps == {"client", "domain", "config", "schema", "seed", "find", "user", "join",
          "wipe", "event", "drop schema", "drop row"}
Ends == {"refused", "created", "dead", "stuck"}

Running(i) == job[i].do \in Steps
Go(i, to) == job' = [job EXCEPT ![i].do = to]
Rows == <<clients, domains, schemas, seeded, users, owners>>

(***************************************************************************)
(* What was asked is validated against the rows; a username is looked up   *)
(* here, and again when the administrator is appointed.                    *)
(***************************************************************************)
Ask(i) ==
  /\ job[i].do = "unborn"
  /\ \E n \in Names, d \in Domains, p \in People \union {Nothing} :
       /\ clients[n] = NoId /\ domains[d] = NoId
       /\ job' = [job EXCEPT ![i] = Creation("client", n, d, p,
                                        IF p = Nothing THEN NoId ELSE users[p])]
  /\ UNCHANGED Rows

\* The row is refused when the name was taken in between: there is nothing to
\* drop.  (Another failure of this statement looks the same.)
SaveClient(i) ==
  /\ job[i].do = "client"
  /\ \/ /\ clients[job[i].name] = NoId
        /\ clients' = [clients EXCEPT ![job[i].name] = i]
        /\ Go(i, "domain")
     \/ Go(i, "refused") /\ UNCHANGED clients
  /\ UNCHANGED <<domains, schemas, seeded, users, owners>>

SaveDomain(i) ==
  /\ job[i].do = "domain"
  /\ domains[job[i].domain] = NoId
  /\ domains' = [domains EXCEPT ![job[i].domain] = i]
  /\ Go(i, "config")
  /\ UNCHANGED <<clients, schemas, seeded, users, owners>>

\* The configuration's row and the first event have no life of their own: they
\* come and go with the company's.
SaveConfig(i) ==
  /\ job[i].do = "config"
  /\ Go(i, "schema")
  /\ UNCHANGED Rows

\* A schema that already exists would be taken as it is.
CreateSchema(i) ==
  /\ job[i].do = "schema"
  /\ schemas' = [schemas EXCEPT ![job[i].name] = IF @ = NoId THEN i ELSE @]
  /\ \/ Go(i, "seed")
     \/ Go(i, "drop schema")   \* made, but its migrations fail
  /\ UNCHANGED <<clients, domains, seeded, users, owners>>

Seed(i) ==
  /\ job[i].do = "seed"
  /\ seeded' = seeded \union {job[i].name}
  /\ \/ Go(i, IF job[i].admin = Nothing THEN "created" ELSE "find")
     \/ Go(i, "drop schema")   \* the last of its statements fails
  /\ UNCHANGED <<clients, domains, schemas, users, owners>>

(***************************************************************************)
(* ensure_tenant_admin_membership.                                         *)
(***************************************************************************)
FindUser(i) ==
  /\ job[i].do = "find"
  /\ LET who == IF job[i].who # NoId THEN job[i].who ELSE users[job[i].admin]
     IN job' = [job EXCEPT ![i].do = IF who = NoId THEN "user" ELSE "join", ![i].who = who]
  /\ UNCHANGED Rows

MakeUser(i) ==
  /\ job[i].do = "user"
  /\ users[job[i].admin] = NoId
  /\ users' = [users EXCEPT ![job[i].admin] = i]
  /\ job' = [job EXCEPT ![i].do = "join", ![i].who = i, ![i].made = TRUE]
  /\ UNCHANGED <<clients, domains, schemas, seeded, owners>>

\* The membership needs its user, who may have been wiped since.
Join(i) ==
  /\ job[i].do = "join"
  /\ users[job[i].admin] = job[i].who
  /\ owners' = owners \union {<<i, job[i].admin>>}
  /\ Go(i, "event")
  /\ UNCHANGED <<clients, domains, schemas, seeded, users>>

\* Mutants: the user is deleted whoever made it; it is not deleted.
JoinFailsWipesAnyone(i) ==
  /\ job[i].do = "join"
  /\ Go(i, "wipe")
  /\ UNCHANGED Rows

JoinFailsKeepsUser(i) ==
  /\ job[i].do = "join"
  /\ Go(i, "drop schema")
  /\ UNCHANGED Rows

\* When the membership fails, a user made for it is deleted again, with every
\* membership of that user.
JoinFails(i) ==
  /\ job[i].do = "join"
  /\ Go(i, IF job[i].made THEN "wipe" ELSE "drop schema")
  /\ UNCHANGED Rows

Wipe(i) ==
  /\ job[i].do = "wipe"
  /\ users' = [users EXCEPT ![job[i].admin] = NoId]
  /\ owners' = {o \in owners : o[2] # job[i].admin}
  /\ Go(i, "drop schema")
  /\ UNCHANGED <<clients, domains, schemas, seeded>>

RecordEvent(i) ==
  /\ job[i].do = "event"
  /\ \/ Go(i, "created")
     \/ job' = [job EXCEPT ![i].do = "drop schema", ![i].kept = TRUE]
  /\ UNCHANGED Rows

(***************************************************************************)
(* The steps above that fail without a trace, and the clean-up.            *)
(***************************************************************************)
Fails(i) ==
  /\ job[i].do \in {"domain", "config", "schema", "find", "user", "wipe"}
  /\ job' = [job EXCEPT ![i].do = "drop schema", ![i].kept = job[i].do = "wipe"]
  /\ UNCHANGED Rows

\* Mutant: the row is deleted without force_drop.
DropSchemaNot(i) ==
  /\ job[i].do = "drop schema"
  /\ Go(i, "drop row")
  /\ UNCHANGED Rows

DropSchema(i) ==
  /\ job[i].do = "drop schema"
  /\ schemas' = [schemas EXCEPT ![job[i].name] = NoId]
  /\ seeded' = seeded \ {job[i].name}
  /\ Go(i, "drop row")
  /\ UNCHANGED <<clients, domains, users, owners>>

DropRow(i) ==
  /\ job[i].do = "drop row"
  /\ clients' = [n \in Names |-> IF clients[n] = i THEN NoId ELSE clients[n]]
  /\ domains' = [d \in Domains |-> IF domains[d] = i THEN NoId ELSE domains[d]]
  /\ owners' = {o \in owners : o[1] # i}
  /\ Go(i, "refused")
  /\ UNCHANGED <<schemas, seeded, users>>

\* The clean-up itself fails, or the process dies.
Stuck(i) ==
  /\ job[i].do \in {"drop schema", "drop row"}
  /\ Go(i, "stuck")
  /\ UNCHANGED Rows

Dies(i) ==
  /\ Running(i)
  /\ Go(i, "dead")
  /\ UNCHANGED Rows

Init ==
  /\ clients = [n \in Names |-> NoId]
  /\ domains = [d \in Domains |-> NoId]
  /\ schemas = [n \in Names |-> NoId]
  /\ seeded = {}
  /\ users \in [People -> {NoId, SomeoneElse}]
  /\ owners = {}
  /\ job = [i \in Ids |-> Unborn]

Advance(i) ==
  \/ SaveClient(i) \/ SaveDomain(i) \/ SaveConfig(i) \/ CreateSchema(i)
  \/ Seed(i) \/ FindUser(i) \/ MakeUser(i) \/ Join(i) \/ JoinFails(i) \/ Wipe(i)
  \/ RecordEvent(i) \/ Fails(i) \/ DropSchema(i) \/ DropRow(i) \/ Stuck(i) \/ Dies(i)

Next == \E i \in Ids : Ask(i) \/ Advance(i)

Spec == Init /\ [][Next]_vars

-----------------------------------------------------------------------------
Creations == [do : Steps \union Ends \union {"unborn"},
              name : Names \union {Nothing}, domain : Domains \union {Nothing},
              admin : People \union {Nothing}, who : Ids \union {NoId, SomeoneElse},
              made : BOOLEAN, kept : BOOLEAN]

TypeOK ==
  /\ clients \in [Names -> Ids \union {NoId}]
  /\ domains \in [Domains -> Ids \union {NoId}]
  /\ schemas \in [Names -> Ids \union {NoId}]
  /\ seeded \in SUBSET Names
  /\ users \in [People -> Ids \union {NoId, SomeoneElse}]
  /\ owners \in SUBSET (Ids \X People)
  /\ job \in [Ids -> Creations]

(***************************************************************************)
(* A creation holds its name, its domain and its schema exactly in the     *)
(* steps between making and dropping them.                                 *)
(***************************************************************************)
Holds == {"domain", "config", "schema", "seed", "find", "user", "join", "wipe",
          "event", "drop schema", "drop row", "created"}
HoldsDomain == {"config", "schema", "seed", "find", "user", "join", "wipe", "event", "created"}
HoldsSchema == {"seed", "find", "user", "join", "wipe", "event", "created"}

Held(i) ==
  /\ job[i].do \in Holds => clients[job[i].name] = i
  /\ job[i].do \in HoldsDomain => domains[job[i].domain] = i
  /\ job[i].do \in HoldsSchema => schemas[job[i].name] = i
  /\ job[i].do \in HoldsSchema \ {"seed"} => job[i].name \in seeded
  /\ job[i].do = "drop row" => schemas[job[i].name] = NoId

Asked(i) == job[i].do # "unborn" => job[i].name \in Names /\ job[i].domain \in Domains

\* A name is held by the creation it was asked by, and by no ended one.
Earned ==
  /\ \A n \in Names : clients[n] # NoId =>
       /\ job[clients[n]].name = n
       /\ job[clients[n]].do \notin {"unborn", "client", "refused"}
  /\ \A d \in Domains : domains[d] # NoId =>
       /\ job[domains[d]].domain = d
       /\ job[domains[d]].do \notin {"unborn", "client", "domain", "refused"}
  /\ \A o \in owners : job[o[1]].admin = o[2] /\ job[o[1]].do \notin {"unborn", "client", "refused"}

\* A user made by a creation is its administrator, and stays after a failure
\* only where the clean-up does not cover it.
MadeUsers ==
  /\ \A i \in Ids :
       /\ job[i].do \in {"find", "user", "join", "wipe", "event"} => job[i].admin # Nothing
       /\ job[i].do \in {"unborn", "client", "domain", "config", "schema", "seed",
                        "find", "user"} => ~job[i].made
       /\ job[i].do = "wipe" => job[i].made
  /\ \A p \in People : users[p] \in Ids =>
       LET j == users[p]
       IN /\ job[j].made /\ job[j].admin = p
          /\ job[j].do \in {"join", "wipe", "event", "created", "dead", "stuck"} \/ job[j].kept

(***************************************************************************)
(* create_schema(check_if_exists=True), _safe_drop_client: the schema of a *)
(* name is the one made by the company that holds the name.  No company    *)
(* takes over another's data, and no clean-up drops it, although both are  *)
(* found by name alone.                                                    *)
(***************************************************************************)
NamesAreOwned == \A n \in Names : schemas[n] # NoId => clients[n] = schemas[n]

(***************************************************************************)
(* A creation that succeeded leaves the whole company, its administrator   *)
(* too - unless another creation, asked for the same new username, made    *)
(* that user and failed: wiping it takes the membership away.              *)
(***************************************************************************)
Wiper(j) == job[j].made /\ job[j].do \in {"drop schema", "drop row", "refused", "dead", "stuck"}

Appointed(i) == \/ <<i, job[i].admin>> \in owners
                \/ \E j \in Ids \ {i} : Wiper(j) /\ job[j].admin = job[i].admin

CreatedAreWhole == \A i \in Ids : job[i].do = "created" =>
  /\ clients[job[i].name] = i /\ domains[job[i].domain] = i
  /\ schemas[job[i].name] = i /\ job[i].name \in seeded
  /\ job[i].admin = Nothing \/ Appointed(i)

(***************************************************************************)
(* A creation answered with an error left nothing behind, except the user  *)
(* it made when recording the last event, or deleting that user, failed.   *)
(***************************************************************************)
RefusedLeaveNothing == \A i \in Ids : job[i].do = "refused" =>
  /\ \A n \in Names : clients[n] # i /\ schemas[n] # i
  /\ \A d \in Domains : domains[d] # i
  /\ \A o \in owners : o[1] # i
  /\ \A p \in People : users[p] = i => job[i].kept

\* The inductive invariant.
IInv ==
  /\ TypeOK
  /\ \A i \in Ids : Asked(i) /\ Held(i)
  /\ \A i \in Ids : job[i].do = "event" => Appointed(i)
  /\ Earned /\ MadeUsers
  /\ NamesAreOwned /\ CreatedAreWhole /\ RefusedLeaveNothing
=============================================================================
