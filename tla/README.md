# A TLA+ verification project for Binn

Binn is a multi-tenant CRM: Django with django-tenants (one Postgres schema per
company, a public schema for the platform), HTMX pages, Channels websockets and
Celery tasks. Companies may belong to a *holding* (a corporate group), and a
member of a holding may open the holding's dashboards and, where policy allows,
the companies themselves.

No request runs in one transaction (`ATOMIC_REQUESTS` is off and the database
works at READ COMMITTED): each query and each save of a handler sees and
publishes the state of its own instant. That is why most models here have one
step for each group of statements between which another process may run, and why
most properties are about what two requests leave behind together.

## Inventory

| Part | State | Operations | What is hard | What makes it correct |
|---|---|---|---|---|
| Access rules (`governance/models.py`, `governance/services.py`, `access/resolvers.py`) | rows of the public schema: `CorporateGroup`, `GroupMembership`, `GroupTenantLink`, `GroupTenantAccess`, `Client`, `TenantMembership` | eleven administration views | five layers set by different people in any order | the least open layer decides; closing never opens |
| Access pipeline (`tenants/middleware.py`, `access/*`, `consolidation/views.py`) | `ActiveAccessContext`, its copy in `GlobalSession` | pages, four switches | a decision is several queries; tabs of a session share one context row | a decision is one some instant would take; a context is earned |
| Primary link (`governance/views.py`) | `GroupTenantLink.is_primary` | link upsert | two statements, no constraint | no primary but the latest promotion's |
| Limits (`governance/services.py`, `tenants/services.py`) | `BillingAccount`, `Client.max_users` | upserts, toggles, deletes, limit edits | count, then write | never far above the limit |
| Operational grants (`governance/services.py`) | `OperationalAccessGrant` | request, decision, clock | check-then-create; a decision is two saves | no pile of open requests; expiry is final |
| Consolidation (`consolidation/*`, Celery, a command) | snapshots, runs, a queue | open a dashboard, synchronise | refreshes overlap, fail and die; policy changes meanwhile | what is shown was true while it was read; old totals are replaced |
| Collaboration (`collab/*`) | conversations, memberships, messages, notifications | open, post, follow, mute, list, bell | marks are clocks, saved late | no message slips by a member unread and untold |
| Boards (`binncrm/views.py`) | deals, collections, their places; pipeline templates and rows | move, edit, create, archive, settings | renumbering from lists read before; templates copied row by row | a card moves only by its own request; a tie has a cause |
| Provisioning (`tenants/services.py`) | company, domain, schema, administrator | create, and drop on failure | transactions across schemas; lookups by name | nothing half made is left; nobody's schema is taken |
| Configuration (`tenants/forms.py`, `tenants/tenant_edit_operational.py`, `binncrm/forms.py`) | the configuration columns of `Client` | two pages | the same setting posted as controls and as JSON; two saves | an edit changes its section and nothing else |
| Menus (`core/navigation.py`, `core/views.py`) | none | the menus, the palette, the dashboard's links | gates are elsewhere, on the pages | what is offered opens |
| Records (`binncrm/views.py`, `forms.py`, `importers.py`, `services.py`) | clients, deals, proposals, tasks, documents, objects; history and audit | forms, clicks, imports | load, check, save, tell in four statements | trails agree with rows; links agree |
| Assessments (`binncrm/assessments.py`) | submission, answers, score | team draft and end, public link | two writers, rows locked one by one | the score is that of the answers; completed is closed |
| Pages, hubs, reports, search (`binncrm/views.py`) | none, but what days do to the rows | reads | every page decides anew what is late, near or quiet | pages, badges and alerts agree, at any instant |
| Dashboard (`core/views.py`) | figures in the cache | count, keep, show | kept across saves, hours and midnight | stale only behind a save, or an instant that came since (late tasks, stale deals) |
| Identity (`identity/*`) | login counters in the cache, `GlobalSession` | login, register, touch, close | lost increments | not modelled, see below |

How the parts meet: the administration views write the rows of the public
schema; the middleware chain of every page reads them through the session's
context; the switches write that context; consolidation reads the same effective
mode before it copies or shows figures; collaboration and the CRM run behind the
permission check of the pipeline, in the schema of the company; the
configuration decides which of their pages a role is offered and let into.

## Modules

| Module | Models | Extends / instantiates |
|---|---|---|
| `AccessRules` | effective mode, detail access, the resolver's cascade, as pure operators on rows; a reference definition by levels | |
| `ControlPlane` | the rows about one user, one holding and its companies, and the views that write them, one action each | extends `AccessRules` |
| `AccessContract` | abstract: a page is let in only through layers open since it arrived | |
| `AccessPipeline` (`MC`, `Proofs`) | requests of one session, query by query, over the control plane | extends `ControlPlane`, implements `AccessContract` |
| `HoldingLinks` | the primary flag | |
| `Quota` | abstract: claims and held slots under a limit | |
| `Allocation` (`MC`) | seats, managers and local users under their limits, query by query | implements `Quota` |
| `OperationalGrants` (`MC`) | the grants of one member for one company | |
| `Governance` (`MC`, `Proofs`) | the limits, the links and the grants, side by side | extends `Allocation`, instantiates `HoldingLinks`, `OperationalGrants` |
| `SnapshotContract` | abstract: what may be published and shown of a holding's totals | |
| `Consolidation` (`MC`, `Proofs`) | dashboards, queue workers, the command and the clock, statement by statement | extends `AccessRules`, implements `SnapshotContract` |
| `Conversations` (`MC`, `Proofs`) | one conversation, its members and the bell | |
| `PipelineTemplates` | the templates of the configuration and the rows made of them | |
| `DealBoard` | cards in columns, for deals and for collections, with row locks | extends `PipelineTemplates` |
| `Provisioning` | creations that compete for names, domains and people | |
| `Workspace` | the configuration of a company and the two pages that edit it | |
| `Menus` | what is offered to each role, and what each page asks | extends `Workspace` |
| `Companies` (`MC`, `Proofs`) | the creations and the configuration of a company, side by side | extends `Provisioning`, `Menus` |
| `Records` (`MC`, `Proofs`) | the rows written by forms, clicks and imports, with history and audit | |
| `Assessments` | one submission answered by the team and by the client | |
| `Teamwork` (`MC`, `Proofs`) | the boards with their pipelines, and an assessment, side by side | extends `DealBoard`, instantiates `Assessments` |
| `Radar` | the rows of a company as days go by: badges, ranks, stages, gaps | |
| `RadarPages` | the lists, the page of a client, the search, the hubs, the reports | extends `Radar` |
| `RadarHome` (`RadarMC`, `RadarProofs`) | the figures of the dashboard and their cache | extends `RadarPages` |

A module `XMC` holds the finite instance of `X`, a module `XProofs` its theorems and
those of the modules `X` extends or instantiates.
`TeamworkMC` has a run for each of its two scenes; the scenes of `Companies` share one.

### How state and actions correspond to the code

*ControlPlane.* Each variable is one table restricted to one user and one
holding; an absent row is `NoRow` (for a link, an inactive row is used, which
every reader treats alike). Each handler reaches its table with one save or one
`update_or_create`, so it is one action; its guards are the form's and the
view's. The checks of limits are modelled in their own modules and can only
refuse, so leaving them out here allows more behaviours. `WorkRoles` are the
roles whose policy lists the permission a view asks for.

*AccessPipeline.* A request is a record with the step it is at and what it has
read. A page goes: company loaded with its active flag (`Arrive`), context read
or made (`Load`, `Boot`), direct membership (`Local`), then twice, at the gate
and in the view, the decision: one read in strict scope (`ResolveStrict`), three
in consolidated scope (`ResolveMembership`, `ResolveLink`, `ResolveAssign`).
Between the two a consolidated context on another company is handed over
(`SaveContext`, `SyncMirror`). A switch reads the company, the user's own
membership, the holding, the link, the group membership and the access in the
order of its view, and saves the context it granted. `AdminWrite` is any action
of `ControlPlane`, at any time. `seen` are the layers that stood open at each instant
of a request, `ever` those that ever did, and `together` whether two requests of the
session have been in flight at the same time: all three are history.

*HoldingLinks.* `pending[w]` is the clear a request still owes after
`update_or_create`; `Die` is a process that never issues it. The clear of an older
promotion, late, takes the flag from the latest one, and then no company is primary:
`LatestPromotionWins` says that no *other* company stays so.

*Allocation.* The variable `kind` says whether a behaviour is about the seats of a
holding, its managers or the users of a company: the three have handlers of their
own that begin a request, and share what follows (the billing account of a
holding, the count, the write, the save of a toggle). `req[w]` is a request
between two of these queries. `ceiling` and `waived` are history: the highest
limit so far, and whether the limit was ever not enforced; `toggled` is the set of
accesses `GroupTenantAccessToggleView` has switched on. A company with its
`max_users` and the row of the user are read in one step; the limit used may be
older than the row, which the ceiling covers. `get_or_create` and the save of what
differs are one write: a row deleted between them makes the save fail, which looks
like the write followed by the delete.

*OperationalGrants.* `grants` is the list of rows by creation. `SaveExpiry` and
`SaveDecision` are the two saves of a decision. `eligible` stands for the three
conditions on a request (islands holding, role, full link). Nothing else in the
code reads a grant: it gates no page, so no property relates the two. Two
superusers deciding on one grant may leave the expiry of one and the status of
the other (`governance/views.py:517`).

*Consolidation.* The figures of a company are one number. One action is one statement of
a refresh: the run row, the read of the holding and its links, each company's figures,
each company's upsert, the totals, the end of the run. `snap` is the row of totals and
`old` that it looks old to who opens the dashboard. The order of the companies is some
fixed one. The group row is read before the links, so the modes a refresh works with may
be a mixture that was never in force; the contract therefore asks of each company that
it counted at some instant of the refresh, not that all did at one. The first opening of
a dashboard and `refresh=1` synchronise in the request; an old snapshot is served and
its refresh queued. `sync_all` stops at the first holding that fails; where background
work is switched off an old snapshot stays until it is forced. Nothing is retried. The
handler of a refresh's failure covers the copying of the figures and nothing after it
(`consolidation/services.py:83-90`; `Caught` are the steps inside). Where a process is
killed, or the save of the run itself fails, the one that says FAILED or the last one
(both are `Lose`), the run says RUNNING for ever: `lost` counts these rows. An event
that fails after the last save (`FailUnrecorded`) leaves the run as succeeded and the
request in error. The command runs one holding in the same steps as the worker.

*Conversations.* A timestamp is the number of messages stamped so far, so that
message `m` is read by a mark not below `m`. `post_message` is the only
transaction; its stamp is taken before it commits, so a mark may cover a message
nobody could have seen: `NothingSlipsBy` says whom that may happen to, those who
did not follow, or had muted, when the recipients were read. Opening the list
marks as read without showing the feed; the bell without ids marks all;
`last_message_at` may go backward; pinned and archived behave as muted. The feed's
limit of 30 is ignored. Creating the conversation of a client or a deal is
not modelled; the room of the team is (`rooms`). It is found by its title, and two first
visits may both make it (`overlap`). A user may also give that title to a channel of the
team (`ChannelMake`, counted in `named`), which nothing checks: a second room with no race at
all, and the list of conversations, which asks for *the* room, fails for everybody from
then on (`ListFails`). `SpareRoomsNeedOverlap` says that beside those rooms named by
hand there is one at most, unless visits overlapped.

*PipelineTemplates, DealBoard.* Places are spaced by 1 instead of 100. A move is
a transaction of several updates: `own` holds the rows it has written and locked.
`deal_edit` renumbers outside a transaction. `Dies` is the death of a process and
also the loser of a deadlock of the database. A board filtered by a search sends
positions that count only the visible cards; a card reactivated from the archive
may tie with another. Editing the stages of a pipeline hides the deals of a dropped
stage without any race; two removals of pipelines at the same time may leave no
active one (`mixed` in `PipelinesFollow`). The template list is also written by
the page of the company's configuration, in the same three steps.

*Provisioning.* `job[i]` is a creation and its step; each step is one
transaction: row with domain and configuration, schema, seed, administrator,
event. `Dies` leaves what is there; a failed step starts the clean-up, whose own
steps may fail. A company is active before its schema exists. The user made by a
creation that fails is deleted, and with it a membership that another creation
gave that user meanwhile (`wiped`); the user stays when recording the event or
deleting it failed (`kept`). No other handler deletes a company
(`ClientAdmin.has_delete_permission` is false).

*Workspace, Menus, Companies.* An editor opens a page (its fields as loaded), makes one
edit, as a control or in the JSON beside it, posts, and the post saves the row and
then the operational columns; `since[e]` says that somebody saved after the page
was opened. `changed_data` compares with the configuration of the moment of the
post, so the untouched controls of a stale page count as edited and its JSON edit
may be lost: nothing checks a version. `Only(s, S)` is the list comprehension of the
code (`[x for x in s if x in S]`), `Merged` what the page of the company comes to on
the row it loads. `Complete` need not drop repetitions as `resolve_module_order`
does: no default and no form leaves any. In the order posted the hidden modules lose
their place at every save, because the list names only the visible ones. A role
given `*` by JSON cannot be posted by controls afterwards; a role policy emptied
by JSON falls back to the default; a label left blank keeps the old one; kanban
counts as on when its flag is absent. `Menus` is the list of offers beside the
list of gates, each as written in its own file. The permissions to move a deal and
to complete an activity, flags with keys no form lists, and JSON emptied
altogether are left out; the hubs of the other profiles have the gate of the
broker's.

*Records.* A request is at load, check, save, history or audit. Only the columns that
the dates, links and trails need are kept: whose row, which client, which status, which
keys. `saves` numbers the saves, and `checked`, `rehomed`, `keyed`, `unasked` are
history. An identifier (legal id, email, phone) is a key, and `Rank` the order in which
an import looks for the kinds it has: it stops at the first kind somebody has, and
writes all the keys of its row, those it did not look for too
(`binncrm/importers.py:103-120` and `:194-206`). A row with the legal id of one client
and the email of another therefore makes twins by itself. `keyed` keeps, of every key an
import looked for and gave to a client, when it had looked and when it wrote; `unasked`
the keys a client was given that nobody had looked for, by an import of this kind or by
a form. Imports write no history; a proposal that goes from accepted back to sent keeps
`responded_at`; two clicks on a task undo each other; editing a custom object drops the
values of fields no longer defined. The `source_assessment` link is left out, and the
queries of a form are one step.

*Assessments.* The rows of the answers are locked in the order of the frozen
questions, then the submission's, so two submissions wait for one another rather
than mix. A blank answer keeps the old row. `closedBy`, `last` and `saves` are
history. A draft of the team reopens a completed assessment. The help text of
`expires_at` (`binncrm/forms.py:136`: "Solo aplica al enlace que responde el
cliente.") describes less than the code does, which refuses the team too.

*Radar, RadarPages, RadarHome.* `rows` and `clients` hold, of each row, what the
pages compare: its kind, status, dates, client, links and what its text says.
`Save` is any form or import, `Pass` any number of hours or days. An instant is a day
and an hour of it (`today`, `hour`; `LastHour` bounds how fine a day is): the tasks that
are late and the deals untouched for 14 days are compared as instants where the code does
so (`core/views.py:757`, `:773`), what has a date by its day. Every badge, rank, list
and search of a page is an operator over them, so a page is taken to read
everything at one moment; numbers of shown rows (`[:5]`, `[:6]`, 100, 160) are left
out. `kept` is the cache of the dashboard's figures under the key of their day, `counting`
the requests between counting and keeping. Figures remember the hour they were counted at
(`FiguresAt`): a task that falls due or a deal that goes stale while they are kept is missing
from them though nothing was saved.

## What is checked

Deadlock is checked except where a behaviour ends by its bounds (requests,
messages, mishaps or days used up).

| Run | Shows | Instance |
|---|---|---|
| `governance` | `LatestPromotionWins`, `OnePrimaryAtRest` (promotions interleave and die); refinement of `Quota`, `OnlyTogglesOvershoot` (each of the three limits); `WaitingBounded` (requests and decisions of grants) | three scenes: 3 companies and 3 requests; 3 slots, 2 requests, limits 0 and 1, that of managers always enforced; 3 grants, 2 workers |
| `page_policy` | `DecisionsAreSnapshots`, `ContextIsEarned`, refinement of `AccessContract`; `EffectiveModeIsLeast`, `TighteningNeverOpens`; in sessions never served two requests at once, `MirrorAtRest`, `OnlySwitchesChangeScope` | two scenes: 1 company whose policy changes, requests one at a time, `MaxWrites` = 2 administration writes, the second with a request in flight; 2 companies under a policy that stays, 2 requests at once |
| `consolidation` | refinement of `SnapshotContract`, `RunningRowsAreLive`; liveness `OldIsReplaced`, `BlockedLeavesTotal` | 2 companies, figures 0 and 1, a process for the queue and the command, 1 viewer; one change, one command, one mishap, one message waiting |
| `conversations` | `NothingSlipsBy`, `SpareRoomsNeedOverlap`, `FlagsAreDeliberate` | 2 users, 2 requests at once, 4 in all, 2 messages |
| `boards` | `PipelinesFollow`, `MovesLand`, `OnlyItsOwnRequests`, `TiesHaveACause`, `HidingNeedsARace` | 2 pipelines, 2 stages, 3 cards, 2 requests |
| `provisioning` | `NamesAreOwned`, `CreatedAreWhole`, `RefusedLeaveNothing`; `EditsStayInTheirSection`, `SavedMenusMatchGates` | two scenes: 3 creations, 2 names, 2 domains, 1 person; 2 pages opened by 2 superusers and 1 administrator, who touch two modules and one permission |
| `records` | `DatesFitStatus`, `HistoryTellsRows`, `LinksAgree`, `TwinsNeedARace`, `TrailsAgree` | three scenes: statuses with 3 saves, or 2 and a death, links and files with 2 saves, in files the forms about one client; 2 requests |
| `assessments` | `ScoreFitsAnswers`, `CompletedIsClosed` | 2 questions, 2 ratings, 2 requests at once, 4 in all |
| `radar` | `AlertsMeetBadges`, `PagesAgree`, `TimeOnlyRaises`, `OnlySavesAndInstantsLag` | 14 kinds of rows, two or three at a time, by profile and by what the user sees, on days 0, 7, 15 and 47; three scenes for the cache with two requests, on days 0 and 14; 2 hours of a day in the scenes of late tasks and stale deals |
| `allocation_limit` | **violated**: the toggle goes round the limit | 3 slots, 1 request, limits 1 and 2 |
| `grant_expiry` | **violated**: a revocation revives an expired grant | 2 grants, 1 worker, 2 ticks |
| `client_pages` | **violated**: the page of a client does not open | as `radar` |

Why these are enough. A rule reads the rows of one company, so one or two
companies show every case. A race needs two requests, and a third only to show that
two do not hide it. The primary flag needs an old rival beside the two that race.
A tie on a board needs two cards and a third to be out of place. Two questions are
what a mixture of answers needs; two creations compete for each name, and
the third meets what they left. An edit can be disturbed by one other
page. The dates of the rows of `radar` are at the edges of the windows (7, 14, 15,
30, 45, 60 days and one beside), and the days that pass cross each of them. Within
`consolidation` one mishap at each statement, one change at each instant and one
refresh overlapping another are all there are kinds of; more of each would not
finish.

`DecisionsAreSnapshots` is stated for at most one write during a page because
with two it is false: a page may read the membership before both writes and the
link after them. The contract (each layer open at some instant since arrival) is
what remains true for any number of writes, and is checked with two.

`MirrorAtRest` and `OnlySwitchesChangeScope` are stated for sessions that were never
served two requests at once. With two tabs both can fail, since context and copy are two saves and a
handoff saves a whole context over what another tab saved; no document promises
otherwise, so this is a hazard and not a finding.

Several properties name their exceptions (`HidingNeedsARace`, `TiesHaveACause`,
`TwinsNeedARace`, `SpareRoomsNeedOverlap`, `OnlySavesAndInstantsLag`): the code has no lock
there, and what can be said is which overlap, or which deliberate or unchecked write, and
no other, is needed for the damage. `TimeOnlyRaises` leaves out two lists of the hubs a
client does leave by waiting: the residents who are followed, for those in arrears, and the
regular customers of a shop (`RetailHub.regulars`), who are occasional ones after 35 days.

### Fairness

Only `Consolidation` states liveness. `FairSpec` is weak fairness of the clock that
makes a snapshot old (`Age`) and of each process that has begun
(`Step(p)`: the queue's worker, the command, an open dashboard): an operating
system that schedules a process that is ready. Nothing is assumed of users: no
fairness for opening pages, commands, changes of policy or mishaps. That is why
`OldIsReplaced` and `BlockedLeavesTotal` speak of dashboards somebody goes on
looking at (`Looked`): nothing but a visit starts a refresh, unless an operator
schedules the command.

### Findings

1. `allocation_limit`: deactivate a manager's access, assign another, activate the
   first with the toggle: the limit on managers is passed by one administrator
   alone (`governance/views.py:414`), against the help text of the limit
   (`governance/forms.py:86`).
2. `grant_expiry`: a decision saves the expiry of its form before the status
   (`governance/views.py:513`), so revoking an expired approved grant makes it
   active in between, and for good if the process dies there.
3. `client_pages`: `entity_detail` gives `today` a value for a condominio only
   (`binncrm/views.py:3156`) and reads it for every client of a broker (3346) and
   for those of a services company with a project (3300), where it raises
   `UnboundLocalError`; `docs/binn-mvp-prd.md:333` lists the page of a client in the
   core of the product.

Known beside these, from reading the code while modelling it:

* Each limit is counted and taken in two statements, so two administrators who save
  at the same time may both take the last seat, manager or user
  (`governance/views.py:277` and `:284`, `tenants/services.py:262`). The promise of
  `Quota` says how far that goes.
* `TenantEditView.form_valid` (near `tenants/views.py:540`) calls
  `_serialize_change_value` as a method of the view, but it is a function of the
  module (`:554`): a save that changed a field is followed by `AttributeError`.
* The reports of a broker sort claims, dated by instants, together with renewals,
  dated by days (near `binncrm/views.py:6092`), which raises `TypeError` when both
  are there. The order within a list is not modelled.
* The page of a client counts archived collections, and calls a client up to date
  whose collections the viewer does not see; `PagesAgree` names both.
* The calendar of activities is filtered by local days and drawn by UTC days.
* The list of documents does not search a client's name, the search does; the
  search leads to the first pipeline only. "Deals quietos" goes by `updated_at`, the
  badge of the board by the last activity.
* A services project that is closed after its target is shown "Por cerrar".
* The dashboard shows alerts and links to edit pages to users the pages refuse; the
  palette offers the settings of the pipelines to who may edit deals, and the page
  asks for viewing them. `Menus` is about the links of the menus and says so.

## What is proved

TLAPS checks the following for every value of the constants: any number of
companies, users, rows and requests at the same time. Where a proof rests on an
assumption about constants it is named; the assumptions stand in the modules that
declare the constants, and TLC evaluates them in every run.

* `AccessPipelineProofs`. Of the administrators alone (`PolicySpec`, from a holding as it
  is created): types, `EffectiveModeIsLeast` by cases on the five layers,
  `TighteningNeverOpens` from two monotonicity lemmas, of the mode and of the
  cascade; `page_policy` checks the same formulas where pages and switches run beside
  them. Of the pipeline:
  - `ContextIsEarned` is not inductive. `IInv` adds, for each step a request may be
    at, what it must have seen open to be there (`Evidence`), that what it has seen was
    open (`Witnessed`), and that `ever` keeps what stands open. The save of a
    switch is then granted by evidence gathered since its arrival.
  - `MirrorAtRest` and `OnlySwitchesChangeScope` rest on `SInv`: as long as no two
    requests were in flight together, the one at work knows the context as it stands,
    and the copy lags only while its own save is owed (`Serial`).
  - `ImplementsContract`: each step of a page is one of `AccessContract`, or changes nothing
    there. What lets a page in was seen, layer by layer, since it arrived.
  - `DecisionsAreSnapshots`: with one write a page can have seen two policies only, and
    one write opens layers or closes them, but for the two flags of a company
    (`Near`); `Closed` and `Opened` say what a refusal and an admission under way have
    seen of these.
* `GovernanceProofs`, three scenes:
  - Links: `LatestPromotionWins` and `OnePrimaryAtRest`. Neither is inductive; the invariant
    adds that another primary is always owed a clear by the request of the latest
    promotion, which a clear by an older request leaves in place, and that nothing is
    primary before the first promotion. Assumption: `NoTenant` is no company.
  - Limits: every step of a handler is a step of `Quota` or leaves it unchanged
    (`ImplementsQuota`). The quota's claims are the requests nothing can refuse any more;
    the accesses the toggle switched on are taken out of what is held. Of the quota,
    `HeldBounded` is proved through `ClaimsBounded`, which counts the claims too: a claim
    is made while there is room, so held slots and the claims of all *other* workers are
    at most limit − 1 plus the number of others. `OnlyTogglesOvershoot` follows.
    Assumptions: finitely many slots and workers, at least one worker, limits are natural
    numbers.
  - Grants: `WaitingBounded`, where the invariant counts the requests past the check
    together with the grants that wait, and knows of each decision that the grant it is
    writing is there.
* `ConsolidationProofs`: `RunningRowsAreLive` and the refinement of `SnapshotContract`. The
  invariant (`WindowsWitness`) keeps for each process the worlds it has lived through and
  asks that the row of the holding, the modes and every figure it has read were so in one
  of them. Each step is a move of one process (`Moves`), which maps to opening,
  widening or closing a window of the contract, to a publication or to a page shown.
  Assumptions: finitely many processes, the markers of what is absent are no value,
  figures are natural numbers, viewers are no workers.
* `ConversationsProofs`: `NothingSlipsBy`, `SpareRoomsNeedOverlap`,
  `FlagsAreDeliberate`, and that whoever posts is a member when the message is
  there. `IInv` is the types, what a request at each statement has read
  (`InFlight`: a mark is not above the clock, the recipients of a post are those who
  followed when they were read), `NothingSlipsBy`, and that whoever makes the room for want
  of one is alone and there is none but those named by hand, unless visits overlapped
  (`MakersAreAlone`). Assumption: `NoUser` is no user.
* `CompaniesProofs`, two scenes; `ScenesAreCreations` says that every behaviour of them is
  one of `Provisioning`, so what is proved of that holds of the run.
  - Creations: `NamesAreOwned`, `CreatedAreWhole`, `RefusedLeaveNothing`.
    None is inductive: `IInv` adds what each creation asked for (`Asked`), what it
    holds at each step and no longer holds as its clean-up goes on (`Held`), whom it
    appoints (`Appointed`), that a membership was earned (`Earned`) and who made which
    user (`MadeUsers`). Assumptions: the id of nobody is no creation, no administrator
    is no person.
  - Configuration: `EditsStayInTheirSection`, for any number of editors, any row, any modules
    switched or moved and any permissions given or taken. The invariant `WsInv` says that an
    open page is one edit away from the row (`PageOpen`), and that what a checked page will
    write is what this edit comes to on the row it loaded (`PageChecked`), while nobody else
    saved. TLC checked it where the edits run before it was proved. The rest is one
    question about data: what a page with one field changed comes to
    (`EditsLand`, `CompanyEditsLand`). It has a lemma for each kind of edit, on lemmas of
    what the fields of a section come to when they were edited (`TickFlipped`,
    `OrderMoved`, `JsonMoved`, `ViewerTicked`, ...) and when they were not
    (`OthersStay`). The two saves then write the operational columns of the old row and of
    the new (`RowLands`, `OpsLand`). Assumptions: no superuser is an administrator of the
    company, every profile starts with a configuration, and the bounds on edits name modules
    and permissions (`WorkspaceAssumption`).
  - Menus: `SavedMenusMatchGates`. `MenusMatchGates` holds of every configuration whatever
    (`AnyMenusMatch`), reached or not, so the invariant gives only its type.
  - The orders of modules are filtered lists. `Only` is written as a recursive function on the
    length, and the two equations it comes to, for the empty list and for one element more, are
    proved (`OnlyOfNone`, `OnlyOfAppend`). The induction on lists that the provers cannot
    take from the library is replaced by one about sets, which they can: a set of
    sequences closed under `Append` has them all (`EverySequence`), or there would
    be a smallest number that is no length of its members. From it follow what is
    kept of a list (`OnlyElements`), of a filtered one (`OnlyOnly`), of two in a row
    (`OnlyConcat`), and of one without repetitions (`OnlyThatOne`).
* `RecordsProofs`: `DatesFitStatus`, `HistoryTellsRows`, `LinksAgree`, `TwinsNeedARace`,
  `TrailsAgree`. A request carries what it loaded, checked or looked for past the saves
  of others; `IInv` says what of it still stands, or which save since is to blame: what
  a request holds (`Holds`), the status it loaded (`LoadStands`), the dates
  (`LoadIsDated`), the clients of the links it checked (`CheckStands`), the keys it
  asked for and found nowhere else (`LookStands`); and that what was told, and what is
  about to be, leads from save to save to the row. Assumptions: the tables are disjoint,
  there are finitely many deals, proposals and requests, "draft" is no answer, the rank
  of a key is a natural number, and the first rows are as the forms leave them. The
  proof changed the model: an earlier `TwinsNeedARace` remembered only the last import
  that keyed a client, and its induction failed. TLC, given a fourth save, confirmed it
  false: two imports race and make twins, a form gives one of them another key, and an
  import that had matched it before gives the key back. `keyed` now remembers every such
  event.
* `TeamworkProofs`, two scenes; `ScenesAreBoards` says that every behaviour of them is
  one of `DealBoard` and one of `Assessments`, so what is proved of either holds of both runs.
  - Boards: `PipelinesFollow`, `MovesLand`, `OnlyItsOwnRequests`, `TiesHaveACause`,
    `HidingNeedsARace`. The invariant `IInv` has two layers. `Base` holds whatever
    the others do: types, that a row written in a transaction is locked by that one
    alone (`Locks`), what each request still has to do (`Serves`), that it moves no
    card but its own (`Keeps`), and how far the templates are copied (`CopiesInOrder`).
    `Tidy` is about requests nobody wrote ahead of: the pipeline they read is
    active (`StillOffered`), the rows they read are as read (`StillRead`), and the columns
    numbered so far are numbered without repetition, a move's from 1 and in the
    old order (`Follows`); and a pipeline found without deals has none
    (`StillEmpty`). Each action has one lemma for each layer (`SaveSound`, `SaveStands`,
    and so on). A request is `late` as soon as another writes, which is why `Tidy`
    asks nothing of a request that others overlap. `MovesLand` is then what
    `Follows` says at the commit, `TiesHaveACause` that two equal numbers cannot both have
    been written by requests in time. Counting is by the cardinalities of the
    columns (`PlacedIs`, `NumberIs`: a list without repetitions puts its cards on
    1 to its length). Assumptions: the first lists of templates are not empty and name no
    pipeline twice, a pipeline has a stage (`PipelineAssumption`); the cards are finitely
    many numbers from 1 and the first rows are cards (`CardAssumption`).
  - Assessments: `ScoreFitsAnswers` and `CompletedIsClosed`, from the locks:
    a row held by a request is locked by no other (`HeldFits`), the requests that
    write are one after the other (`LoadsInOrder`). Assumptions: questions are natural
    numbers, a blank is no rating (`TeamworkAssumption`).
* `RadarProofs`: types; that the worst deliverable of a project is shown on it;
  `AlertsMeetBadges`, `PagesAgree`, for any rows and any instants, by cases on the kinds
  of rows; `TimeOnlyRaises`, from one lemma for each list; and `OnlySavesAndInstantsLag`
  from `HomeInv`, that the figures a request has counted, or the cache keeps, are those
  of the rows on the day of their key at the hour of the count, unless a row was saved
  since. Assumption: how rows and clients of each table are typed (`RadarAssumption`).

Only model-checked: `OldIsReplaced` and `BlockedLeavesTotal`, which are liveness under
fairness, and like `ENABLED` out of the provers' reach.

## What is not modelled

* *Identity*: the login throttle counts with a get and a set of the cache, so two
  failures at the same time may count once; `must_rotate_password` is never cleared;
  a changed password cycles the session's key without a row of `GlobalSession`, and a
  new login leaves the old row ACTIVE. The rows are only listed, and gate nothing, so
  they appear here as the flag `registered` and the copy `mirror` of `AccessPipeline`.
* *The websocket stream*: stateless; it is authorised when it connects, as
  `docs` (ADR 0002) say, and then receives what is broadcast.
* *In the access modules*: superusers (every rule lets them pass), the local preview
  middleware (development only), edits in Django's admin site, deletion of a holding
  or a company, a death between the context and its copy.
* *In the CRM*: the generation of demo data, document blueprints and files, the
  schemas of custom objects and fields, the editors of assessment templates and of
  layouts, the packs, the creation of conversations of clients and deals, tasks linked
  to a message. These are tables written by one form each, or data made once.
* *Reads with nothing to go wrong*: usage snapshots, governance events, preflight and
  health checks.
* *Rendering*: templates, labels, amounts, the order within a list, exports. Most of
  the lines no module stands for are of this kind: in the longest files, the views,
  the demo seed and the forms, a page's context, captions and widgets outnumber its
  decisions.

## Plan

The order was: what decides access first, then what the limits and grants promise,
then the data that access protects, then the pages that show it. Of the modules first
planned there remain:

1. `SessionLifecycle` (login, register, touch, close) composed with the pipeline's
   `registered`, and the throttle.
2. The websocket stream against a revocation, beside `Conversations`.
3. The editors of templates and schemas beside `Assessments` and `Records`.

## Running

`tlc -config X.cfg XMC.tla` for a run (the module and the configuration of each
are in `PROJECT.json`), `tlapm XProofs.tla` for a proof module. The longest runs
(`page_policy`, `radar`, `provisioning`, `governance`) take two to four minutes with two
workers. `tlapm` needs some minutes for `AccessPipelineProofs`, `CompaniesProofs`,
`RecordsProofs` and `TeamworkProofs`, less for the others.
